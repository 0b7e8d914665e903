---------------------------- MODULE Simvacation ----------------------------
(***************************************************************************)
(* simvacation.c, main: one process per delivery attempt.  The MTA starts  *)
(* the program with a message on stdin; the program searches the user      *)
(* directory (VLU), opens the database (VDB), reads the headers, checks    *)
(* the sender, asks the database whether this sender was answered          *)
(* recently, records the reply and sends it.  Every step may fail, and a   *)
(* process may be killed between any two; the MTA then tries the delivery  *)
(* again.                                                                  *)
(*                                                                         *)
(* This module holds everything but the database: a backend module         *)
(* (VdbNull, VdbLmdb, VdbRedis) EXTENDS it, takes a run from pc "recent"   *)
(* to "send" or "exiting", and closes the specification.  An action here   *)
(* says nothing of the backend's own variables.                            *)
(*                                                                         *)
(* The clock never runs backwards, is the same for all processes, and      *)
(* time() never fails.  The directory, the MTA and the mailer are external *)
(* and answer as they please.                                              *)
(***************************************************************************)
EXTENDS Naturals

CONSTANTS
    Deliveries,     \* messages the MTA delivers through the program
    MaxRuns,        \* MaxRuns[d]: bound on the attempts of delivery d
    Keys,           \* database keys
    KeyOf,          \* KeyOf[d]: the key of d's recipient and sender
    UserInterval,   \* core.interval (simvacation.conf)
    GroupInterval,  \* core.group_interval
    MaxTime,        \* bound on the clock
    NoRecord,       \* "nothing stored under the key"
    NoRun           \* "not a run"

\* A run is one process: the n-th attempt of a delivery.
Run == UNION {{d} \X (1..MaxRuns[d]) : d \in Deliveries}
RunKey == [r \in Run |-> KeyOf[r[1]]]

\* A database record: the time of the reply and, for the properties, who wrote it.
Record == [stamp : Nat, by : Run]

ASSUME DeliveryAssumption ==
    /\ MaxRuns \in [Deliveries -> Nat]
    /\ KeyOf \in [Deliveries -> Keys]
    /\ NoRun \notin Run
    /\ NoRecord \notin Record
ASSUME TimeAssumption ==
    UserInterval \in Nat /\ GroupInterval \in Nat /\ MaxTime \in Nat

VARIABLES
    now,      \* time(NULL)
    pc,       \* pc[r]: the call in main that r makes next
    retval,   \* retval[r]: main's retval; of an ended run, how it ended
    group,    \* group[r]: the recipient is a group (vlu_ldap.c:330)
    last,     \* last[r]: the record `recent' read
    chk,      \* chk[r]: when `recent' read, or compared
    stamp,    \* stamp[r]: when `store_reply' called time()
    mailed,   \* mailed[r]: a mailer was started with the reply, or part of it
    \* history, read by no action:
    count,    \* changes made to the database by runs
    look,     \* look[r]: count when `recent' read
    blind,    \* blind[r]: `recent' failed, which counts as "not recent"
    rank,     \* rank[r]: number of the change that stored r's record, or 0
    erank     \* erank[r]: number of the change by which r erased, or 0

mainVars == <<retval, group, mailed>>
vdbCallVars == <<last, chk, stamp>>
historyVars == <<count, look, blind, rank, erank>>
simVars == <<now, pc, retval, group, last, chk, stamp, mailed,
             count, look, blind, rank, erank>>

FrontPcs == {"idle", "search", "group", "vdb", "headers", "from"}
BackendPcs == {"recent", "decide", "drop", "stamp", "begin", "commit",
               "set", "expire"}
Pcs == FrontPcs \union BackendPcs \union {"send", "exiting", "done"}

\* EX_OK, EX_TEMPFAIL and EX_USAGE; ended by a fault of its own; by a signal.
Results == {"ok", "tempfail", "usage", "fault", "signal"}

SimTypeOK ==
    /\ now \in Nat
    /\ pc \in [Run -> Pcs]
    /\ retval \in [Run -> Results]
    /\ group \in [Run -> BOOLEAN]
    /\ last \in [Run -> Record \union {NoRecord}]
    /\ chk \in [Run -> Nat]
    /\ stamp \in [Run -> Nat]
    /\ mailed \in [Run -> BOOLEAN]
    /\ count \in Nat
    /\ look \in [Run -> Nat]
    /\ blind \in [Run -> BOOLEAN]
    /\ rank \in [Run -> Nat]
    /\ erank \in [Run -> Nat]

SimInit ==
    /\ now = 0
    /\ pc = [r \in Run |-> "idle"]
    /\ retval = [r \in Run |-> "ok"]
    /\ group = [r \in Run |-> FALSE]
    /\ last = [r \in Run |-> NoRecord]
    /\ chk = [r \in Run |-> 0]
    /\ stamp = [r \in Run |-> 0]
    /\ mailed = [r \in Run |-> FALSE]
    /\ count = 0
    /\ look = [r \in Run |-> 0]
    /\ blind = [r \in Run |-> FALSE]
    /\ rank = [r \in Run |-> 0]
    /\ erank = [r \in Run |-> 0]

----------------------------------------------------------------------------
(* Helpers.                                                                *)

Ended(r) == pc[r] = "done"

\* The time the record counts from is `last'; the interval depends on the VLU.
Interval(r) == IF group[r] THEN GroupInterval ELSE UserInterval

LongestInterval ==
    IF UserInterval < GroupInterval THEN GroupInterval ELSE UserInterval

Goto(r, next) == pc' = [pc EXCEPT ![r] = next]

\* retval = v; goto done.
LeaveWith(r, v) ==
    /\ Goto(r, "exiting")
    /\ retval' = [retval EXCEPT ![r] = v]

\* The process is gone at once, and nothing after `done:' runs.
Abandon(r, v) ==
    /\ Goto(r, "done")
    /\ retval' = [retval EXCEPT ![r] = v]

\* The MTA: a message is delivered once, and again after a temporary failure;
\* a program ended by a signal counts as one.
MayStart(r) ==
    \/ r[2] = 1
    \/ \E p \in Run :
          /\ p[1] = r[1] /\ p[2] + 1 = r[2]
          /\ Ended(p)
          /\ retval[p] \in {"tempfail", "fault", "signal"}

----------------------------------------------------------------------------
(* main, up to the database.                                               *)

\* Options, configuration, the two backend tables, vlu->init.
Start(r) ==
    /\ pc[r] = "idle"
    /\ MayStart(r)
    /\ \/ LeaveWith(r, "usage")
       \/ LeaveWith(r, "tempfail")
       \/ Goto(r, "search") /\ UNCHANGED retval
    /\ UNCHANGED <<now, group, mailed, vdbCallVars, historyVars>>

\* vlu->search: on vacation; not so, or unknown (PERMFAIL); directory down; a
\* recipient that overruns the 64 characters of its filter.
Search(r) ==
    /\ pc[r] = "search"
    /\ \/ Goto(r, "vdb") /\ UNCHANGED retval
       \/ Goto(r, "group") /\ UNCHANGED retval
       \/ LeaveWith(r, "tempfail")
       \/ Abandon(r, "fault")
    /\ UNCHANGED <<now, group, mailed, vdbCallVars, historyVars>>

\* vlu->group_search, only after PERMFAIL: a group's own interval applies.
GroupSearch(r) ==
    /\ pc[r] = "group"
    /\ \/ /\ Goto(r, "vdb")
          /\ group' = [group EXCEPT ![r] = TRUE]
          /\ UNCHANGED retval
       \/ LeaveWith(r, "ok") /\ UNCHANGED group
       \/ LeaveWith(r, "tempfail") /\ UNCHANGED group
    /\ UNCHANGED <<now, mailed, vdbCallVars, historyVars>>

\* vdb->init: without a database there is no reply, and no retry.
VdbInit(r) ==
    /\ pc[r] = "vdb"
    /\ Goto(r, "headers") \/ Goto(r, "exiting")
    /\ UNCHANGED <<now, mainVars, vdbCallVars, historyVars>>

\* readheaders and rcpt_match: the message asks for no reply, or does not
\* name the recipient.
ReadHeaders(r) ==
    /\ pc[r] = "headers"
    /\ Goto(r, "from") \/ Goto(r, "exiting")
    /\ UNCHANGED <<now, mainVars, vdbCallVars, historyVars>>

\* check_from: one of the names of its list; anybody else; without -f it
\* reads through the null pointer that `from' still is.
CheckFrom(r) ==
    /\ pc[r] = "from"
    /\ \/ Goto(r, "exiting") /\ UNCHANGED retval
       \/ Goto(r, "recent") /\ UNCHANGED retval
       \/ Abandon(r, "fault")
    /\ UNCHANGED <<now, group, mailed, vdbCallVars, historyVars>>

----------------------------------------------------------------------------
(* What the backends' calls do to a run.                                   *)

\* `recent' reads `rec' and goes on to compare it; reading nothing is an
\* answer of its own.
ReadRecord(r, rec, next) ==
    /\ last' = [last EXCEPT ![r] = rec]
    /\ chk' = [chk EXCEPT ![r] = now]
    /\ look' = [look EXCEPT ![r] = count]
    /\ Goto(r, IF rec = NoRecord THEN "stamp" ELSE next)
    /\ UNCHANGED <<now, mainVars, stamp, count, blind, rank, erank>>

\* `recent' fails, and returns VDB_STATUS_OK.
ReadFails(r) ==
    /\ chk' = [chk EXCEPT ![r] = now]
    /\ look' = [look EXCEPT ![r] = count]
    /\ blind' = [blind EXCEPT ![r] = TRUE]
    /\ Goto(r, "stamp")
    /\ UNCHANGED <<now, mainVars, last, stamp, count, rank, erank>>

\* Mutant: the comparison is one second short.
CompareEarly(r, stale) ==
    /\ chk' = [chk EXCEPT ![r] = now]
    /\ Goto(r, IF now + 1 < last[r].stamp + Interval(r) THEN "exiting" ELSE stale)
    /\ UNCHANGED <<now, mainVars, last, stamp, historyVars>>

\* now < last + interval: VDB_STATUS_RECENT, and main goes to `done'.
Compare(r, stale) ==
    /\ chk' = [chk EXCEPT ![r] = now]
    /\ Goto(r, IF now < last[r].stamp + Interval(r) THEN "exiting" ELSE stale)
    /\ UNCHANGED <<now, mainVars, last, stamp, historyVars>>

\* `store_reply' calls time().
TakeTime(r, next) ==
    /\ pc[r] = "stamp"
    /\ stamp' = [stamp EXCEPT ![r] = now]
    /\ Goto(r, next)
    /\ UNCHANGED <<now, mainVars, last, chk, historyVars>>

\* Mutant: the record holds the time of the lookup.
LookRecord(r) == [stamp |-> chk[r], by |-> r]

MyRecord(r) == [stamp |-> stamp[r], by |-> r]

----------------------------------------------------------------------------
(* main, from send_message on.                                             *)

\* Mutant: pexecv's own result becomes the exit status.
SendFailRaw(r) ==
    /\ pc[r] = "send"
    /\ LeaveWith(r, "VAC_RESULT_TEMPFAIL")
    /\ UNCHANGED <<now, group, mailed, vdbCallVars, historyVars>>

\* pexecv: no pipe or no child.  The record of the reply is already stored.
SendFail(r) ==
    /\ pc[r] = "send"
    /\ LeaveWith(r, "tempfail")
    /\ UNCHANGED <<now, group, mailed, vdbCallVars, historyVars>>

\* The child runs the mailer, the parent prints the message into the pipe.
Handoff(r) ==
    /\ pc[r] = "send"
    /\ Goto(r, "exiting")
    /\ mailed' = [mailed EXCEPT ![r] = TRUE]
    /\ UNCHANGED <<now, retval, group, vdbCallVars, historyVars>>

\* The parent fails after the fork: the mailer is there, and gets no text.
HandoffEmpty(r) ==
    /\ pc[r] = "send"
    /\ LeaveWith(r, "tempfail")
    /\ mailed' = [mailed EXCEPT ![r] = TRUE]
    /\ UNCHANGED <<now, group, vdbCallVars, historyVars>>

\* The child cannot run the mailer.  The parent does not wait for it: it
\* reports success, or dies of SIGPIPE if the child was gone first.
ChildFail(r) ==
    /\ pc[r] = "send"
    /\ \/ Goto(r, "exiting") /\ UNCHANGED retval
       \/ Abandon(r, "signal")
    /\ UNCHANGED <<now, group, mailed, vdbCallVars, historyVars>>

\* Mutant: close faults after the reply is out.
ExitFaults(r) ==
    /\ pc[r] = "exiting"
    /\ Abandon(r, "fault")
    /\ UNCHANGED <<now, group, mailed, vdbCallVars, historyVars>>

\* done: vdb->close, vlu->close, exit(retval).
Exit(r) ==
    /\ pc[r] = "exiting"
    /\ Goto(r, "done")
    /\ UNCHANGED <<now, mainVars, vdbCallVars, historyVars>>

\* The process is killed: out of memory, a time limit of the MTA, a reboot.
\* Killed while it sends, it may leave the mailer with part of the message.
Kill(r) ==
    /\ pc[r] \notin {"idle", "done"}
    /\ Abandon(r, "signal")
    /\ \/ UNCHANGED mailed
       \/ pc[r] = "send" /\ mailed' = [mailed EXCEPT ![r] = TRUE]
    /\ UNCHANGED <<now, group, vdbCallVars, historyVars>>

\* Everything a run does by itself outside the database.
MainStep(r) ==
    \/ Search(r)
    \/ GroupSearch(r)
    \/ VdbInit(r)
    \/ ReadHeaders(r)
    \/ CheckFrom(r)
    \/ SendFail(r)
    \/ Handoff(r)
    \/ HandoffEmpty(r)
    \/ ChildFail(r)
    \/ Exit(r)

PassTime ==
    /\ now < MaxTime
    /\ now' = now + 1
    /\ UNCHANGED <<pc, mainVars, vdbCallVars, historyVars>>

----------------------------------------------------------------------------
(* How far a run has come in terms of ReplyLedger, and the run a record    *)
(* stands for: the refinement mappings of the backends.                    *)

PhaseOf(c) ==
    CASE c \in FrontPcs \union {"recent"} -> "open"
      [] c = "decide" -> "looked"
      [] c \in {"stamp", "drop"} -> "cleared"
      [] c \in {"begin", "commit", "set"} -> "stamped"
      [] c \in {"expire", "send"} -> "recorded"
      [] c \in {"exiting", "done"} -> "closed"

Writer(rec) == IF rec = NoRecord THEN NoRun ELSE rec.by
=============================================================================
