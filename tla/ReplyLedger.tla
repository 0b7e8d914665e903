---------------------------- MODULE ReplyLedger ----------------------------
(***************************************************************************)
(* What simvacation's database of replies promises, whatever backend keeps *)
(* it.  A run of the program looks up when this correspondent was last     *)
(* answered, decides, records its own answer and only then sends it        *)
(* (simvacation.c:153-172).  The ledger keeps at most one record per key   *)
(* (vdb_lmdb.c:177, vdb_redis.c:121: a put replaces the record), named     *)
(* here by the run that wrote it; the lookup and the record are two        *)
(* separate transactions, so runs of the same key may overlap.             *)
(*                                                                         *)
(* The backends are shown to implement this module (VdbLmdb, VdbRedis).    *)
(***************************************************************************)
EXTENDS Naturals

CONSTANTS
    Run,          \* processes that handle one delivery attempt each
    Keys,         \* database keys: recipient and fingerprint of the sender
    RunKey,       \* RunKey[r]: the key run r looks up and writes
    MaxInterval,  \* no run asks for a suppression interval above this one
    MaxTime,      \* bound on the clock
    NoRun         \* "no record under this key"

ASSUME RunKeyAssumption == RunKey \in [Run -> Keys]
ASSUME NoRunAssumption == NoRun \notin Run
ASSUME BoundAssumption == MaxInterval \in Nat /\ MaxTime \in Nat

VARIABLES
    now,       \* the clock all processes share: time(NULL)
    holder,    \* holder[k]: the run whose record is stored under key k
    phase,     \* phase[r]: how far run r has come
    interval,  \* interval[r]: the suppression interval run r applies
    found,     \* found[r]: whose record run r read
    chk,       \* chk[r]: when run r looked, or decided on what it had found
    stamp,     \* stamp[r]: the time run r puts in its record
    mailed,    \* mailed[r]: run r handed a reply to the mailer
    \* history, read by no action:
    count,     \* changes made to the ledger by runs so far
    look,      \* look[r]: count when run r looked
    blind,     \* blind[r]: the lookup failed and run r went on regardless
    rank,      \* rank[r]: number of the change that stored r's record, or 0
    erank      \* erank[r]: number of the change by which r erased, or 0

clockVars == <<now>>
runVars == <<phase, interval, found, chk, stamp, mailed>>
historyVars == <<count, look, blind, rank, erank>>
vars == <<now, holder, phase, interval, found, chk, stamp, mailed,
          count, look, blind, rank, erank>>

Phases == {"open", "looked", "cleared", "stamped", "recorded", "closed"}

TypeOK ==
    /\ now \in Nat
    /\ holder \in [Keys -> Run \union {NoRun}]
    /\ phase \in [Run -> Phases]
    /\ interval \in [Run -> 0..MaxInterval]
    /\ found \in [Run -> Run \union {NoRun}]
    /\ chk \in [Run -> Nat]
    /\ stamp \in [Run -> Nat]
    /\ mailed \in [Run -> BOOLEAN]
    /\ count \in Nat
    /\ look \in [Run -> Nat]
    /\ blind \in [Run -> BOOLEAN]
    /\ rank \in [Run -> Nat]
    /\ erank \in [Run -> Nat]

Init ==
    /\ now = 0
    /\ holder = [k \in Keys |-> NoRun]
    /\ phase = [r \in Run |-> "open"]
    /\ interval \in [Run -> 0..MaxInterval]
    /\ found = [r \in Run |-> NoRun]
    /\ chk = [r \in Run |-> 0]
    /\ stamp = [r \in Run |-> 0]
    /\ mailed = [r \in Run |-> FALSE]
    /\ count = 0
    /\ look = [r \in Run |-> 0]
    /\ blind = [r \in Run |-> FALSE]
    /\ rank = [r \in Run |-> 0]
    /\ erank = [r \in Run |-> 0]

----------------------------------------------------------------------------
(* Records may lapse once no interval can reach them any more.             *)

\* Mutant: the lifetime is one second short.
LapsedEarly(k) == holder[k] # NoRun /\ stamp[holder[k]] + MaxInterval <= now + 1

Lapsed(k) == holder[k] # NoRun /\ stamp[holder[k]] + MaxInterval <= now

Tick ==
    /\ now < MaxTime
    /\ now' = now + 1
    /\ UNCHANGED <<holder, runVars, historyVars>>

\* A sweep, or expiry in the store, drops lapsed records.
Forget ==
    /\ \E gone \in SUBSET Keys :
          /\ gone # {}
          /\ \A k \in gone : Lapsed(k)
          /\ holder' = [k \in Keys |-> IF k \in gone THEN NoRun ELSE holder[k]]
    /\ UNCHANGED <<clockVars, runVars, historyVars>>

----------------------------------------------------------------------------
(* The steps of a run.                                                     *)

\* The recipient's configuration fixes the interval.
Admit(r) ==
    /\ phase[r] = "open"
    /\ \E i \in 0..MaxInterval : interval' = [interval EXCEPT ![r] = i]
    /\ UNCHANGED <<clockVars, holder, phase, found, chk, stamp, mailed, historyVars>>

\* The run reads the record, if there is one.
Look(r) ==
    /\ phase[r] = "open"
    /\ found' = [found EXCEPT ![r] = holder[RunKey[r]]]
    /\ phase' = [phase EXCEPT ![r] =
                    IF holder[RunKey[r]] = NoRun THEN "cleared" ELSE "looked"]
    /\ chk' = [chk EXCEPT ![r] = now]
    /\ look' = [look EXCEPT ![r] = count]
    /\ UNCHANGED <<clockVars, holder, interval, stamp, mailed, count, blind, rank, erank>>

\* The lookup fails; the run answers as if there were no record.
LookBlind(r) ==
    /\ phase[r] = "open"
    /\ phase' = [phase EXCEPT ![r] = "cleared"]
    /\ chk' = [chk EXCEPT ![r] = now]
    /\ look' = [look EXCEPT ![r] = count]
    /\ blind' = [blind EXCEPT ![r] = TRUE]
    /\ UNCHANGED <<clockVars, holder, interval, found, stamp, mailed, count, rank, erank>>

\* Mutant: the comparison is one second short.
DecideEarly(r) ==
    /\ phase[r] = "looked"
    /\ chk' = [chk EXCEPT ![r] = now]
    /\ \/ phase' = [phase EXCEPT ![r] = "closed"]
       \/ /\ now + 1 >= stamp[found[r]] + interval[r]
          /\ phase' = [phase EXCEPT ![r] = "cleared"]
    /\ UNCHANGED <<clockVars, holder, interval, found, stamp, mailed, historyVars>>

\* The run compares the record it found with the clock.  It goes on only when
\* the interval is over; a backend may keep it longer.
Decide(r) ==
    /\ phase[r] = "looked"
    /\ chk' = [chk EXCEPT ![r] = now]
    /\ \/ phase' = [phase EXCEPT ![r] = "closed"]
       \/ /\ now >= stamp[found[r]] + interval[r]
          /\ phase' = [phase EXCEPT ![r] = "cleared"]
    /\ UNCHANGED <<clockVars, holder, interval, found, stamp, mailed, historyVars>>

\* The run erases the stale record; by now it may be another one.
Erase(r) ==
    /\ phase[r] = "cleared"
    /\ found[r] # NoRun
    /\ erank[r] = 0
    /\ holder' = [holder EXCEPT ![RunKey[r]] = NoRun]
    /\ count' = count + 1
    /\ erank' = [erank EXCEPT ![r] = count + 1]
    /\ UNCHANGED <<clockVars, runVars, look, blind, rank>>

\* Mutant: the result of time() is not checked, and stored as it is.
StampUnchecked(r) ==
    /\ phase[r] = "cleared"
    /\ phase' = [phase EXCEPT ![r] = "stamped"]
    /\ stamp' = [stamp EXCEPT ![r] = 0 - 1]
    /\ UNCHANGED <<clockVars, holder, interval, found, chk, mailed, historyVars>>

\* The run takes the time for its own record.
Stamp(r) ==
    /\ phase[r] = "cleared"
    /\ phase' = [phase EXCEPT ![r] = "stamped"]
    /\ stamp' = [stamp EXCEPT ![r] = now]
    /\ UNCHANGED <<clockVars, holder, interval, found, chk, mailed, historyVars>>

\* The record is stored, replacing whatever is there.
Record(r) ==
    /\ phase[r] = "stamped"
    /\ phase' = [phase EXCEPT ![r] = "recorded"]
    /\ holder' = [holder EXCEPT ![RunKey[r]] = r]
    /\ count' = count + 1
    /\ rank' = [rank EXCEPT ![r] = count + 1]
    /\ UNCHANGED <<clockVars, interval, found, chk, stamp, mailed, look, blind, erank>>

\* Storing fails; the run goes on.
RecordLost(r) ==
    /\ phase[r] = "stamped"
    /\ phase' = [phase EXCEPT ![r] = "recorded"]
    /\ UNCHANGED <<clockVars, holder, interval, found, chk, stamp, mailed, historyVars>>

\* The reply goes out, after the record.
Reply(r) ==
    /\ phase[r] = "recorded"
    /\ phase' = [phase EXCEPT ![r] = "closed"]
    /\ mailed' = [mailed EXCEPT ![r] = TRUE]
    /\ UNCHANGED <<clockVars, holder, interval, found, chk, stamp, historyVars>>

\* The run ends without a reply: an error or a kill.
Close(r) ==
    /\ phase[r] # "closed"
    /\ phase' = [phase EXCEPT ![r] = "closed"]
    /\ UNCHANGED <<clockVars, holder, interval, found, chk, stamp, mailed, historyVars>>

Next ==
    \/ Tick
    \/ Forget
    \/ \E r \in Run :
          \/ Admit(r)
          \/ Look(r)
          \/ LookBlind(r)
          \/ Decide(r)
          \/ Erase(r)
          \/ Stamp(r)
          \/ Record(r)
          \/ RecordLost(r)
          \/ Reply(r)
          \/ Close(r)

Spec == Init /\ [][Next]_vars

----------------------------------------------------------------------------
(* The promise.                                                            *)

SameKey(p, q) == RunKey[p] = RunKey[q]

\* Between p's record and change number c another run w interfered: it
\* overwrote p's record, or erased it, having looked before p recorded; or
\* it erased it by the measure of a shorter interval than the longest.
Interference(p, w, c) ==
    /\ w # p
    /\ SameKey(p, w)
    /\ \/ rank[p] < rank[w] /\ rank[w] <= c /\ look[w] < rank[p]
       \/ /\ rank[p] < erank[w] /\ erank[w] <= c
          /\ look[w] < rank[p] \/ interval[w] < MaxInterval

\* One correspondent gets one answer per interval: a run q that mails, whose
\* lookup worked and came after p's record, has waited out q's interval since
\* p's time stamp, unless a run that overlapped p, or one with a shorter
\* interval, removed p's record from under it.  This is what `recent' before
\* `store_reply' (simvacation.c:153-160) achieves without a lock over both.
Suppression ==
    \A p, q \in Run :
        /\ mailed[q] /\ ~blind[q] /\ SameKey(p, q)
        /\ 0 < rank[p] /\ rank[p] <= look[q]
        /\ chk[q] < stamp[p] + interval[q]
        => \E w \in Run : Interference(p, w, look[q])

\* Records stay in place until they lapse: while a record's longest interval
\* runs, its key is held, by this record or by one that replaced it, unless a
\* run erased it.  A sweep or an expiry that runs early breaks this
\* (vdb_lmdb.c:206-229, vdb_redis.c:122-123).
RecordsPersist ==
    \A p \in Run :
        /\ 0 < rank[p]
        /\ now < stamp[p] + MaxInterval
        => \/ /\ holder[RunKey[p]] # NoRun
              /\ stamp[holder[RunKey[p]]] >= stamp[p]
           \/ \E w \in Run : Interference(p, w, count)
=============================================================================
