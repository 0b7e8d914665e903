------------------------------ MODULE VluLdap ------------------------------
(***************************************************************************)
(* vlu.c and vlu_ldap.c: who is on vacation.  main searches the people,    *)
(* and if that fails for good the groups (simvacation.c:124-133); the      *)
(* entry found says by a flag, a start and an end whether there is an      *)
(* answer, and which base it was found in fixes the answer's text, prefix  *)
(* and interval.  The null directory has everybody on vacation.  After a   *)
(* temporary failure the MTA comes again, as a new process.                *)
(*                                                                         *)
(* The server is external; entries do not change during the model.  Times  *)
(* are those ldap_vlu_time makes of an attribute, 0 when there is none or  *)
(* it cannot be parsed.                                                    *)
(***************************************************************************)
EXTENDS Naturals

CONSTANTS
    Times,      \* starts and ends of vacations
    MaxTime     \* bound on the clock

Bases == {"user", "group"}
Providers == {"null", "ldap", "unknown"}
Entry == [matches : {1}, vacation : BOOLEAN, start : Times, end : Times]
         \union [matches : {0, 2}, vacation : {FALSE}, start : {0}, end : {0}]

ASSUME TimesAssumption == Times \subseteq Nat /\ MaxTime \in Nat

VARIABLES
    provider,     \* core.vlu
    entry,        \* entry[b]: what a search in base b matches
    now,          \* clock_gettime
    pc,           \* what main calls next: "init", the base to search, ...
    result,       \* the base whose entry is vlu->ldap->result
    attr_msg, default_msg, subject_prefix, interval,   \* whose they are
    answer,       \* whose the text, prefix and interval main gets are
    \* history of this process, and of all:
    began,        \* when it began
    excused,      \* the server refused a search for good, or the clock failed
    on, off       \* on[b], off[b]: when b's entry was judged so

kindVars == <<attr_msg, default_msg, subject_prefix, interval>>
historyVars == <<began, excused, on, off>>
vars == <<provider, entry, now, pc, result, kindVars, answer, historyVars>>

Outcomes == {"answer", "permfail", "tempfail"}
Owner == Bases \union {"none"}
Answer == [text : Owner, prefix : Owner, interval : Owner]
NoAnswer == [text |-> "none", prefix |-> "none", interval |-> "none"]

TypeOK ==
    /\ provider \in Providers
    /\ entry \in [Bases -> Entry]
    /\ now \in 0..MaxTime
    /\ pc \in Bases \union {"init", "judge", "message"} \union Outcomes
    /\ result \in Owner
    /\ {attr_msg, default_msg, subject_prefix, interval} \subseteq Owner
    /\ answer \in Answer
    /\ began \in 0..now
    /\ excused \in BOOLEAN
    /\ on \in [Bases -> SUBSET (0..MaxTime)]
    /\ off \in [Bases -> SUBSET (0..MaxTime)]

\* A process begins with a VLU from calloc.
Init ==
    /\ provider \in Providers
    /\ entry \in [Bases -> Entry]
    /\ now = 0
    /\ pc = "init" /\ result = "none"
    /\ attr_msg = "none" /\ default_msg = "none"
    /\ subject_prefix = "none" /\ interval = "none"
    /\ answer = NoAnswer
    /\ began = now
    /\ excused = FALSE
    /\ on = [b \in Bases |-> {}]
    /\ off = [b \in Bases |-> {}]

----------------------------------------------------------------------------
(* vlu_backend and init.                                                   *)

\* No such provider, no memory, a setting missing, no connection.
OpenFails ==
    /\ pc = "init"
    /\ pc' = "tempfail"
    /\ UNCHANGED <<provider, entry, now, result, kindVars, answer, historyVars>>

\* The one setting ldap_vlu_init makes before any search is the user's text.
Open ==
    /\ pc = "init" /\ provider # "unknown"
    /\ pc' = "user"
    /\ default_msg' = IF provider = "ldap" THEN "user" ELSE default_msg
    /\ UNCHANGED <<provider, entry, now, result, attr_msg, subject_prefix, interval, answer,
                   historyVars>>

\* vlu_search.
NullSearch ==
    /\ pc = "user" /\ provider = "null"
    /\ pc' = "message"
    /\ UNCHANGED <<provider, entry, now, result, kindVars, answer, historyVars>>

----------------------------------------------------------------------------
(* The searches.                                                           *)

\* Mutant: after the groups the search goes on without a base.
PermfailOn(b) == pc' = IF b = "user" THEN "group" ELSE "none"

\* PERMFAIL: after the people, the groups.
Permfail(b) == pc' = IF b = "user" THEN "group" ELSE "permfail"

Searches(b) == pc = b /\ provider = "ldap"

\* Mutant: the groups are searched after any failure of the search for a person.
SearchFailsOver(b) ==
    /\ Searches(b)
    /\ \/ b = "group" /\ pc' = "tempfail" /\ UNCHANGED excused
       \/ b = "user" /\ pc' = "group" /\ UNCHANGED excused
       \/ Permfail(b) /\ excused' = TRUE
    /\ UNCHANGED <<provider, entry, now, result, kindVars, answer, began, on, off>>

\* ldap_search_ext_s: server down, time-out and the like are temporary.
SearchFails(b) ==
    /\ Searches(b)
    /\ \/ pc' = "tempfail" /\ UNCHANGED excused
       \/ Permfail(b) /\ excused' = TRUE
    /\ UNCHANGED <<provider, entry, now, result, kindVars, answer, began, on, off>>

\* Exactly one entry is an answer.
SearchFinds(b) ==
    /\ Searches(b)
    /\ IF entry[b].matches = 1
          THEN pc' = "judge" /\ result' = b
          ELSE Permfail(b) /\ UNCHANGED result
    /\ UNCHANGED <<provider, entry, now, kindVars, answer, historyVars>>

\* Whether entry e is on vacation at time t: the flag or the start begins a
\* vacation, the end ends both.
Away(e, t) ==
    /\ e.vacation \/ (e.start > 0 /\ t > e.start)
    /\ ~(e.end > 0 /\ t > e.end)

\* Mutant: the end ends only what the flag began.
onvacationFlagEnds(e) ==
    \/ e.vacation /\ ~(e.end > 0 /\ now > e.end)
    \/ e.start > 0 /\ now > e.start

onvacation(e) == Away(e, now)

\* Mutant: the group's default text is forgotten.
TakeKindHalf(b) ==
    /\ attr_msg' = b /\ subject_prefix' = b /\ interval' = b
    /\ UNCHANGED default_msg

TakeKind(b) ==
    /\ attr_msg' = b /\ subject_prefix' = b /\ interval' = b
    /\ default_msg' = IF b = "group" THEN "group" ELSE default_msg

Judge ==
    /\ pc = "judge"
    /\ IF onvacation(entry[result])
          THEN /\ pc' = "message"
               /\ TakeKind(result)
               /\ on' = [on EXCEPT ![result] = @ \union {now}]
               /\ UNCHANGED off
          ELSE /\ Permfail(result)
               /\ off' = [off EXCEPT ![result] = @ \union {now}]
               /\ UNCHANGED <<kindVars, on>>
    /\ UNCHANGED <<provider, entry, now, result, answer, began, excused>>

\* clock_gettime fails: not on vacation, whatever the flag says.
ClockFails ==
    /\ pc = "judge"
    /\ Permfail(result)
    /\ excused' = TRUE
    /\ UNCHANGED <<provider, entry, now, result, kindVars, answer, began, on, off>>

----------------------------------------------------------------------------
(* What main asks for when there is an answer.                             *)

\* ldap_vlu_message: the values of the entry's attribute, or the default text.
LdapMessage == {attr_msg, default_msg}

\* vlu_message returns NULL and main takes core.default_message; prefix and
\* interval are core's as well.
Message ==
    /\ pc = "message"
    /\ IF provider = "ldap"
          THEN \E text \in LdapMessage :
                  answer' = [text |-> text, prefix |-> subject_prefix, interval |-> interval]
          ELSE answer' = [text |-> "user", prefix |-> "user", interval |-> "user"]
    /\ pc' = "answer"
    /\ UNCHANGED <<provider, entry, now, result, kindVars, historyVars>>

\* The process is over; the MTA retries, or another message arrives.
NextProcess ==
    /\ pc \in Outcomes
    /\ pc' = "init" /\ result' = "none"
    /\ attr_msg' = "none" /\ default_msg' = "none"
    /\ subject_prefix' = "none" /\ interval' = "none"
    /\ answer' = NoAnswer
    /\ began' = now
    /\ excused' = FALSE
    /\ UNCHANGED <<provider, entry, now, on, off>>

PassTime ==
    /\ now < MaxTime
    /\ now' = now + 1
    /\ UNCHANGED <<provider, entry, pc, result, kindVars, answer, historyVars>>

Next ==
    \/ OpenFails
    \/ Open
    \/ NullSearch
    \/ \E b \in Bases : SearchFails(b) \/ SearchFinds(b)
    \/ Judge
    \/ ClockFails
    \/ Message
    \/ NextProcess
    \/ PassTime

Spec == Init /\ [][Next]_vars

----------------------------------------------------------------------------
\* A vacation is one stretch of time: nobody is back and then away again, over
\* any number of messages (vlu_ldap.c:205-229).
OneStretch ==
    \A b \in Bases : \A t1, t3 \in on[b] : \A t2 \in off[b] : ~(t1 < t2 /\ t2 < t3)

\* Text, prefix and interval of an answer come from the base of the entry that
\* is on vacation, the null directory's from the settings for users; a person's
\* failed search leaves nothing behind in a group's answer (vlu_ldap.c:284-341).
OneKind ==
    pc = "answer" =>
        LET kind == IF provider = "ldap" THEN result ELSE "user"
        IN  answer = [text |-> kind, prefix |-> kind, interval |-> kind]

\* Base b owes no answer: while the process ran there was no such entry, it was
\* not on vacation, or the question was refused.
Spared(b) ==
    \/ excused
    \/ entry[b].matches # 1
    \/ \E t \in began..now : ~Away(entry[b], t)

\* A message is given up for good only if neither the person nor the group owes
\* an answer, and a group answers only for a name that is no person's on
\* vacation: an outage in either search brings the message back instead
\* (vlu_ldap.c:245-275, simvacation.c:124-133).
NobodyPassedOver ==
    provider = "ldap" =>
        /\ pc = "permfail" => Spared("user") /\ Spared("group")
        /\ pc = "answer" /\ result = "group" => Spared("user")
        /\ pc = "answer" => \E t \in began..now : Away(entry[result], t)
=============================================================================
