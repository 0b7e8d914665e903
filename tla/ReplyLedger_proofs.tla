------------------------ MODULE ReplyLedger_proofs -------------------------
(***************************************************************************)
(* Proofs that the ledger keeps its promise, for any runs, keys, intervals *)
(* and clock.  Suppression and RecordsPersist speak of one moment and are  *)
(* not inductive; Inv adds, for every record ever stored, what became of   *)
(* it (Kept), and, for every run that looked, what it can have missed      *)
(* (Seen).                                                                 *)
(***************************************************************************)
EXTENDS ReplyLedger, TLAPS

\* Changes are numbered in the order they happen, after the run's own lookup.
Numbered ==
    \A r \in Run :
        /\ rank[r] <= count
        /\ erank[r] <= count
        /\ look[r] <= count
        /\ 0 < rank[r] => look[r] < rank[r]

\* What a run has done by each phase.
Phased ==
    \A r \in Run :
        /\ phase[r] = "open" => look[r] = 0 /\ found[r] = NoRun
        /\ phase[r] \in {"open", "looked"} => erank[r] = 0 /\ ~blind[r]
        /\ phase[r] \in {"open", "looked", "cleared", "stamped"} => rank[r] = 0
        /\ phase[r] # "closed" => ~mailed[r]
        /\ phase[r] = "looked" => found[r] # NoRun
        /\ blind[r] => found[r] = NoRun

\* Times come in the order of the steps.
Timed ==
    \A r \in Run :
        /\ chk[r] <= now
        /\ stamp[r] <= now
        /\ phase[r] \in {"stamped", "recorded"} \/ 0 < rank[r] => chk[r] <= stamp[r]

\* Records, in the ledger and as found, are those of runs of the key.
Filed ==
    /\ \A k \in Keys :
          holder[k] # NoRun => RunKey[holder[k]] = k /\ 0 < rank[holder[k]]
    /\ \A q \in Run :
          found[q] # NoRun => RunKey[found[q]] = RunKey[q] /\ 0 < rank[found[q]]

\* A lookup is later than the records before it.
LookedLater ==
    \A p, q \in Run : 0 < rank[p] /\ rank[p] <= look[q] => stamp[p] <= chk[q]

\* A run past its decision has waited for the record it found.
Waited ==
    \A q \in Run :
        /\ found[q] # NoRun
        /\ phase[q] \in {"cleared", "stamped", "recorded"} \/ mailed[q] \/ 0 < erank[q]
        => stamp[found[q]] + interval[q] <= chk[q]

Basic ==
    /\ TypeOK
    /\ Numbered
    /\ Phased
    /\ Timed
    /\ Filed
    /\ LookedLater
    /\ Waited

\* p's record is made good, at time t and change c, by the one h holds: h's is
\* as young, or p's has lapsed, or another run interfered.
Covered(p, h, t, c) ==
    \/ h # NoRun /\ stamp[p] <= stamp[h]
    \/ stamp[p] + MaxInterval <= t
    \/ \E w \in Run : Interference(p, w, c)

Kept ==
    \A p \in Run : 0 < rank[p] => Covered(p, holder[RunKey[p]], now, count)

Seen ==
    \A p, q \in Run :
        SameKey(p, q) /\ 0 < rank[p] /\ rank[p] <= look[q] /\ ~blind[q]
        => Covered(p, found[q], chk[q], look[q])

Inv == Basic /\ Kept /\ Seen

----------------------------------------------------------------------------
USE RunKeyAssumption, NoRunAssumption, BoundAssumption

\* The initial states satisfy the invariant: nothing is recorded yet.
LEMMA InitInv == Init => Inv
  BY DEF Init, Inv, Basic, TypeOK, Phases, Numbered, Phased, Timed, Filed,
         LookedLater, Waited, Kept, Seen

\* Every step keeps the types.
LEMMA TypeStep == TypeOK /\ [Next]_vars => TypeOK'
<1> SUFFICES ASSUME TypeOK, [Next]_vars PROVE TypeOK'
  OBVIOUS
<1> USE DEF TypeOK, Phases
<1>1. CASE Tick
  BY <1>1 DEF Tick, runVars, historyVars
<1>2. CASE Forget
  BY <1>2 DEF Forget, clockVars, runVars, historyVars
<1>3. ASSUME NEW r \in Run, Admit(r) PROVE TypeOK'
  BY <1>3 DEF Admit, clockVars, historyVars
<1>4. ASSUME NEW r \in Run, Look(r) PROVE TypeOK'
  BY <1>4 DEF Look, clockVars
<1>5. ASSUME NEW r \in Run, LookBlind(r) PROVE TypeOK'
  BY <1>5 DEF LookBlind, clockVars
<1>6. ASSUME NEW r \in Run, Decide(r) PROVE TypeOK'
  BY <1>6 DEF Decide, clockVars, historyVars
<1>7. ASSUME NEW r \in Run, Erase(r) PROVE TypeOK'
  BY <1>7 DEF Erase, clockVars, runVars
<1>8. ASSUME NEW r \in Run, Stamp(r) PROVE TypeOK'
  BY <1>8 DEF Stamp, clockVars, historyVars
<1>9. ASSUME NEW r \in Run, Record(r) PROVE TypeOK'
  BY <1>9 DEF Record, clockVars
<1>10. ASSUME NEW r \in Run, RecordLost(r) PROVE TypeOK'
  BY <1>10 DEF RecordLost, clockVars, historyVars
<1>11. ASSUME NEW r \in Run, Reply(r) PROVE TypeOK'
  BY <1>11 DEF Reply, clockVars, historyVars
<1>12. ASSUME NEW r \in Run, Close(r) PROVE TypeOK'
  BY <1>12 DEF Close, clockVars, historyVars
<1>13. CASE UNCHANGED vars
  BY <1>13 DEF vars
<1> QED
  BY <1>1, <1>2, <1>3, <1>4, <1>5, <1>6, <1>7, <1>8, <1>9, <1>10, <1>11,
     <1>12, <1>13 DEF Next

\* Every variable keeps its type in every reachable state.
THEOREM TypeCorrect == Spec => []TypeOK
<1>1. Init => TypeOK
  BY InitInv DEF Inv, Basic
<1> QED
  BY <1>1, TypeStep, PTL DEF Spec

----------------------------------------------------------------------------
(* The parts of Basic.  Each is kept by every action on its own.           *)

LEMMA NumberedStep == Basic /\ [Next]_vars => Numbered'
  BY DEF Basic, TypeOK, Phases, Numbered, Phased, Next, vars, Tick, Forget, Admit,
         Look, LookBlind, Decide, Erase, Stamp, Record, RecordLost, Reply, Close,
         clockVars, runVars, historyVars

LEMMA PhasedStep == Basic /\ [Next]_vars => Phased'
  BY DEF Basic, TypeOK, Phases, Numbered, Phased, Next, vars, Tick, Forget, Admit,
         Look, LookBlind, Decide, Erase, Stamp, Record, RecordLost, Reply, Close,
         clockVars, runVars, historyVars

LEMMA TimedStep == Basic /\ [Next]_vars => Timed'
  BY DEF Basic, TypeOK, Phases, Timed, Phased, Next, vars, Tick, Forget, Admit,
         Look, LookBlind, Decide, Erase, Stamp, Record, RecordLost, Reply, Close,
         clockVars, runVars, historyVars

LEMMA FiledStep == Basic /\ [Next]_vars => Filed'
  BY DEF Basic, TypeOK, Phases, Numbered, Filed, Phased, Next, vars, Tick, Forget, Admit,
         Look, LookBlind, Decide, Erase, Stamp, Record, RecordLost, Reply, Close,
         clockVars, runVars, historyVars

LEMMA LookedLaterStep == Basic /\ [Next]_vars => LookedLater'
  BY DEF Basic, TypeOK, Phases, Numbered, Timed, LookedLater, Phased, Next, vars, Tick, Forget, Admit,
         Look, LookBlind, Decide, Erase, Stamp, Record, RecordLost, Reply, Close,
         clockVars, runVars, historyVars

LEMMA WaitedStep == Basic /\ [Next]_vars => Waited'
  BY DEF Basic, TypeOK, Phases, Numbered, Filed, Waited, Phased, Next, vars, Tick, Forget, Admit,
         Look, LookBlind, Decide, Erase, Stamp, Record, RecordLost, Reply, Close,
         clockVars, runVars, historyVars

LEMMA BasicStep == Basic /\ [Next]_vars => Basic'
  BY TypeStep, NumberedStep, PhasedStep, TimedStep, FiledStep, LookedLaterStep,
     WaitedStep DEF Basic

----------------------------------------------------------------------------
(* What a step cannot change: a record's number and time, an eraser's      *)
(* number, and the lookup of a run that has done either; so interference   *)
(* and cover, once there, stay.                                            *)

Settled ==
    /\ count <= count' /\ now <= now'
    /\ \A r \in Run :
          /\ 0 < rank[r] => rank'[r] = rank[r] /\ stamp'[r] = stamp[r]
          /\ 0 < erank[r] => erank'[r] = erank[r]
          /\ 0 < rank[r] \/ 0 < erank[r] => look'[r] = look[r] /\ interval'[r] = interval[r]

LEMMA StepSettled == Basic /\ [Next]_vars => Settled
  BY DEF Settled, Basic, TypeOK, Phases, Phased, Next, vars, Tick, Forget, Admit,
         Look, LookBlind, Decide, Erase, Stamp, Record, RecordLost, Reply, Close,
         clockVars, runVars, historyVars

LEMMA InterferenceStays ==
    ASSUME Basic, Settled, Basic', NEW p \in Run, NEW w \in Run, NEW c \in Nat, NEW d \in Nat,
           0 < rank[p], c <= d, Interference(p, w, c)
    PROVE  Interference(p, w, d)'
  BY DEF Basic, TypeOK, Settled, Interference, SameKey

LEMMA CoverStays ==
    ASSUME Basic, Settled, Basic', NEW p \in Run, NEW h \in Run \union {NoRun},
           NEW t \in Nat, NEW u \in Nat, NEW c \in Nat, NEW d \in Nat,
           0 < rank[p], h # NoRun => 0 < rank[h], t <= u, c <= d, Covered(p, h, t, c)
    PROVE  Covered(p, h, u, d)'
<1>1. CASE h # NoRun /\ stamp[p] <= stamp[h]
  BY <1>1 DEF Covered, Settled
<1>2. CASE stamp[p] + MaxInterval <= t
  BY <1>2 DEF Covered, Settled, Basic, TypeOK
<1>3. CASE \E w \in Run : Interference(p, w, c)
  BY <1>3, InterferenceStays DEF Covered
<1> QED
  BY <1>1, <1>2, <1>3 DEF Covered

----------------------------------------------------------------------------
(* Kept: only Forget, Erase and Record change what the ledger holds.       *)

\* Where the record for p's key stays, so does p's cover.
LEMMA KeptWhereHeld ==
    ASSUME Inv, Basic', Settled, NEW p \in Run, 0 < rank[p],
           holder'[RunKey[p]] = holder[RunKey[p]]
    PROVE  Covered(p, holder[RunKey[p]], now, count)'
<1>1. PICK h \in Run \union {NoRun}, t \in Nat, c \in Nat, u \in Nat, d \in Nat :
         /\ h = holder[RunKey[p]] /\ t = now /\ c = count
         /\ u = now' /\ d = count'
  BY DEF Inv, Basic, TypeOK
<1>2. Covered(p, h, t, c) /\ (h # NoRun => 0 < rank[h])
  BY <1>1 DEF Inv, Kept, Basic, TypeOK, Filed
<1>3. Covered(p, h, u, d)'
  BY <1>1, <1>2, CoverStays DEF Inv, Settled
<1> QED
  BY <1>1, <1>3 DEF Covered

\* Where the record goes, p's cover must be the holder's lapse or a witness.
LEMMA KeptWithoutHolder ==
    ASSUME Inv, Basic', Settled, NEW p \in Run, 0 < rank[p],
           \/ stamp[p] + MaxInterval <= now
           \/ \E w \in Run : Interference(p, w, count)
    PROVE  Covered(p, holder[RunKey[p]], now, count)'
<1>1. PICK t \in Nat, c \in Nat, u \in Nat, d \in Nat, h \in Run \union {NoRun} :
         t = now /\ c = count /\ u = now' /\ d = count' /\ h = holder'[RunKey[p]]
  BY DEF Inv, Basic, TypeOK
<1>2. Covered(p, NoRun, t, c)
  BY <1>1 DEF Covered
<1>3. Covered(p, NoRun, u, d)'
  BY <1>1, <1>2, CoverStays DEF Inv, Settled
<1> QED
  BY <1>1, <1>3 DEF Covered

\* A lapsed holder that was as young as p's record means that p's lapsed too.
LEMMA KeptForget == Inv /\ Basic' /\ Settled /\ Forget => Kept'
<1> SUFFICES ASSUME Inv, Basic', Settled, Forget, NEW p \in Run, 0 < rank'[p]
             PROVE  Covered(p, holder[RunKey[p]], now, count)'
  BY DEF Kept
<1>1. PICK gone \in SUBSET Keys :
         /\ \A k \in gone : Lapsed(k)
         /\ holder' = [k \in Keys |-> IF k \in gone THEN NoRun ELSE holder[k]]
  BY DEF Forget
<1>2. 0 < rank[p] /\ RunKey[p] \in Keys
  BY DEF Forget, historyVars
<1>3. CASE RunKey[p] \notin gone
  BY <1>1, <1>2, <1>3, KeptWhereHeld
<1>4. CASE RunKey[p] \in gone
  <2>1. PICK h \in Run : h = holder[RunKey[p]] /\ stamp[h] + MaxInterval <= now
    BY <1>1, <1>4 DEF Lapsed, Inv, Basic, TypeOK
  <2>2. Covered(p, h, now, count)
    BY <1>2, <2>1 DEF Inv, Kept
  <2>3. \/ stamp[p] + MaxInterval <= now
        \/ \E w \in Run : Interference(p, w, count)
    BY <2>1, <2>2 DEF Covered, Inv, Basic, TypeOK
  <2> QED
    BY <1>2, <2>3, KeptWithoutHolder
<1> QED
  BY <1>3, <1>4

\* The erasing run overlapped p, or waited out its own interval for a record
\* as young as p's; a shorter interval than the longest makes it a witness.
LEMMA KeptErase ==
    ASSUME Inv, Basic', Settled, NEW w \in Run, Erase(w) PROVE Kept'
<1> SUFFICES ASSUME NEW p \in Run, 0 < rank'[p]
             PROVE  Covered(p, holder[RunKey[p]], now, count)'
  BY DEF Kept
<1>1. 0 < rank[p] /\ RunKey[p] \in Keys
  BY DEF Erase
<1>2. CASE RunKey[p] # RunKey[w]
  BY <1>1, <1>2, KeptWhereHeld DEF Erase, Inv, Basic, TypeOK
<1>3. CASE RunKey[p] = RunKey[w] /\ look[w] < rank[p]
  <2>1. Interference(p, w, count)'
    BY <1>1, <1>3 DEF Interference, SameKey, Erase, Inv, Basic, TypeOK, Numbered, Phased
  <2> QED
    BY <2>1 DEF Covered
<1>4. CASE RunKey[p] = RunKey[w] /\ rank[p] <= look[w]
  <2>1. PICK f \in Run, t \in Nat, c \in Nat : f = found[w] /\ t = chk[w] /\ c = look[w]
    BY DEF Erase, Inv, Basic, TypeOK
  <2>2. Covered(p, f, t, c)
    BY <1>1, <1>4, <2>1 DEF Erase, Inv, Basic, Phased, Seen, SameKey
  <2>3. stamp[f] + interval[w] <= t /\ t <= now /\ c <= count
    BY <2>1 DEF Erase, Inv, Basic, Waited, Timed, Numbered
  <2>4. CASE stamp[p] <= stamp[f] /\ interval[w] = MaxInterval
    BY <1>1, <2>3, <2>4, KeptWithoutHolder DEF Inv, Basic, TypeOK
  <2>5. CASE interval[w] < MaxInterval
    <3>1. Interference(p, w, count)'
      BY <1>1, <1>4, <2>5 DEF Interference, SameKey, Erase, runVars, Inv, Basic, TypeOK, Numbered, Phased
    <3> QED
      BY <3>1 DEF Covered
  <2>6. CASE stamp[p] + MaxInterval <= t
    BY <1>1, <2>3, <2>6, KeptWithoutHolder DEF Inv, Basic, TypeOK
  <2>7. CASE \E v \in Run : Interference(p, v, c)
    <3>1. \E v \in Run : Interference(p, v, count)
      BY <2>3, <2>7 DEF Interference, Inv, Basic, TypeOK
    <3> QED
      BY <1>1, <3>1, KeptWithoutHolder
  <2>8. interval[w] = MaxInterval \/ interval[w] < MaxInterval
    <3>1. interval[w] \in 0..MaxInterval
      BY DEF Inv, Basic, TypeOK
    <3> QED
      BY <3>1
  <2> QED
    BY <2>2, <2>4, <2>5, <2>6, <2>7, <2>8 DEF Covered
<1> QED
  BY <1>2, <1>3, <1>4 DEF Inv, Basic, TypeOK

\* The new holder overlapped p, or looked after p and is as young.
LEMMA KeptRecord ==
    ASSUME Inv, Basic', Settled, NEW w \in Run, Record(w) PROVE Kept'
<1> SUFFICES ASSUME NEW p \in Run, 0 < rank'[p]
             PROVE  Covered(p, holder[RunKey[p]], now, count)'
  BY DEF Kept
<1> USE DEF Record, clockVars
<1>1. CASE p = w
  BY <1>1 DEF Covered, Inv, Basic, TypeOK
<1>2. CASE p # w /\ RunKey[p] # RunKey[w]
  <2>1. 0 < rank[p] /\ holder'[RunKey[p]] = holder[RunKey[p]]
    BY <1>2 DEF Inv, Basic, TypeOK
  <2> QED
    BY <2>1, KeptWhereHeld
<1>3. CASE p # w /\ RunKey[p] = RunKey[w] /\ look[w] < rank[p]
  <2>1. Interference(p, w, count)'
    BY <1>3 DEF Interference, SameKey, Inv, Basic, TypeOK, Numbered
  <2> QED
    BY <2>1 DEF Covered
<1>4. CASE p # w /\ RunKey[p] = RunKey[w] /\ rank[p] <= look[w]
  <2>1. stamp[p] <= chk[w] /\ chk[w] <= stamp[w]
    BY <1>4 DEF Inv, Basic, TypeOK, LookedLater, Timed
  <2>2. stamp'[p] <= stamp'[w] /\ holder'[RunKey[p]] = w
    BY <1>4, <2>1 DEF Inv, Basic, TypeOK
  <2> QED
    BY <2>2 DEF Covered
<1> QED
  BY <1>1, <1>2, <1>3, <1>4 DEF Inv, Basic, TypeOK

LEMMA KeptStep == Inv /\ [Next]_vars => Kept'
<1> SUFFICES ASSUME Inv, [Next]_vars PROVE Kept'
  OBVIOUS
<1>1. Basic' /\ Settled
  BY BasicStep, StepSettled DEF Inv
<1>2. CASE Forget
  BY <1>1, <1>2, KeptForget
<1>3. ASSUME NEW w \in Run, Erase(w) PROVE Kept'
  BY <1>1, <1>3, KeptErase
<1>4. ASSUME NEW w \in Run, Record(w) PROVE Kept'
  BY <1>1, <1>4, KeptRecord
<1>5. CASE UNCHANGED <<holder, rank>>
  BY <1>1, <1>5, KeptWhereHeld DEF Kept
<1>6. \/ Forget
      \/ \E w \in Run : Erase(w) \/ Record(w)
      \/ UNCHANGED <<holder, rank>>
  BY DEF Next, vars, Tick, Admit, Look, LookBlind, Decide, Stamp, RecordLost,
         Reply, Close, historyVars
<1> QED
  BY <1>2, <1>3, <1>4, <1>5, <1>6

----------------------------------------------------------------------------
(* Seen: a run's view is fixed by Look and its time by Look and Decide.    *)

\* What q has looked at, it has looked at for good.
LEMMA SeenStays ==
    ASSUME Inv, Basic', Settled, NEW p \in Run, NEW q \in Run,
           SameKey(p, q), 0 < rank[p], rank[p] <= look[q], ~blind[q],
           found'[q] = found[q], chk[q] <= chk'[q], look'[q] = look[q]
    PROVE  Covered(p, found[q], chk[q], look[q])'
<1>1. PICK f \in Run \union {NoRun}, t \in Nat, c \in Nat, u \in Nat :
         f = found[q] /\ t = chk[q] /\ c = look[q] /\ u = chk'[q]
  BY DEF Inv, Basic, TypeOK
<1>2. Covered(p, f, t, c) /\ (f # NoRun => 0 < rank[f])
  BY <1>1 DEF Inv, Seen, Basic, Filed
<1>3. Basic /\ t <= u /\ c <= c
  BY <1>1 DEF Inv
<1>4. Covered(p, f, u, c)'
  BY <1>2, <1>3, CoverStays
<1> QED
  BY <1>1, <1>4 DEF Covered

LEMMA SeenStep == Inv /\ [Next]_vars => Seen'
<1> SUFFICES ASSUME Inv, [Next]_vars, NEW p \in Run, NEW q \in Run,
                    SameKey(p, q), 0 < rank'[p], rank'[p] <= look'[q], ~blind'[q]
             PROVE  Covered(p, found[q], chk[q], look[q])'
  BY DEF Seen, SameKey
<1>1. Basic' /\ Settled
  BY BasicStep, StepSettled DEF Inv
<1>2. CASE Look(q)
  <2>1. /\ found'[q] = holder[RunKey[p]] /\ chk'[q] = now /\ look'[q] = count
        /\ UNCHANGED <<stamp, rank, erank, interval, count, now>>
    BY <1>2 DEF Look, clockVars, SameKey, Inv, Basic, TypeOK
  <2>2. PICK h \in Run \union {NoRun}, t \in Nat, c \in Nat :
           h = holder[RunKey[p]] /\ t = now /\ c = count
    BY DEF Inv, Basic, TypeOK
  <2>3. Covered(p, h, t, c) /\ (h # NoRun => 0 < rank[h])
    BY <2>1, <2>2 DEF Inv, Kept, Basic, TypeOK, Filed
  <2>4. Covered(p, h, t, c)'
    BY <1>1, <2>1, <2>3, CoverStays DEF Inv
  <2> QED
    BY <2>1, <2>2, <2>4 DEF Covered
<1>3. CASE ~Look(q)
  <2>1. /\ ~blind[q] /\ found'[q] = found[q]
        /\ chk[q] <= chk'[q] /\ look'[q] = look[q]
    BY <1>3 DEF Next, vars, Tick, Forget, Admit, Look, LookBlind, Decide, Erase,
           Stamp, Record, RecordLost, Reply, Close, clockVars, runVars, historyVars,
           Inv, Basic, TypeOK, Timed
  <2>2. 0 < rank[p] /\ rank[p] <= look[q]
    BY <2>1 DEF Next, vars, Tick, Forget, Admit, Look, LookBlind, Decide, Erase,
           Stamp, Record, RecordLost, Reply, Close, clockVars, runVars, historyVars,
           Inv, Basic, TypeOK, Numbered
  <2> QED
    BY <1>1, <2>1, <2>2, SeenStays
<1> QED
  BY <1>2, <1>3

----------------------------------------------------------------------------
\* The invariant is inductive.
LEMMA Inductive == Spec => []Inv
<1>1. Inv /\ [Next]_vars => Inv'
  BY BasicStep, KeptStep, SeenStep DEF Inv
<1> QED
  BY InitInv, <1>1, PTL DEF Spec

\* A run that mails, and looked after p recorded, has waited out its interval
\* since p, or a third run interfered.
THEOREM SuppressionHolds == Spec => []Suppression
<1>1. ASSUME Inv PROVE Suppression
  <2> SUFFICES ASSUME NEW p \in Run, NEW q \in Run,
                      mailed[q], ~blind[q], SameKey(p, q),
                      0 < rank[p], rank[p] <= look[q],
                      chk[q] < stamp[p] + interval[q]
               PROVE  \E w \in Run : Interference(p, w, look[q])
    BY DEF Suppression
  <2>1. Covered(p, found[q], chk[q], look[q])
    BY <1>1 DEF Inv, Seen
  <2>2. interval[q] \in 0..MaxInterval /\ chk[q] \in Nat /\ stamp[p] \in Nat
    BY <1>1 DEF Inv, Basic, TypeOK
  <2>3. CASE found[q] # NoRun /\ stamp[p] <= stamp[found[q]]
    <3>1. stamp[found[q]] + interval[q] <= chk[q] /\ stamp[found[q]] \in Nat
      BY <1>1, <2>3 DEF Inv, Basic, TypeOK, Waited
    <3> QED
      BY <2>2, <2>3, <3>1
  <2>4. CASE stamp[p] + MaxInterval <= chk[q]
    BY <2>2, <2>4
  <2> QED
    BY <2>1, <2>3, <2>4 DEF Covered
<1> QED
  BY Inductive, <1>1, PTL

\* A record's key stays held by one as young until the record has lapsed, or
\* a third run interfered.
THEOREM RecordsPersistHolds == Spec => []RecordsPersist
<1>1. Inv => RecordsPersist
  BY DEF Inv, Kept, Covered, RecordsPersist, Basic, TypeOK
<1> QED
  BY Inductive, <1>1, PTL
=============================================================================
