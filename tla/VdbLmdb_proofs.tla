--------------------------- MODULE VdbLmdb_proofs --------------------------
(***************************************************************************)
(* Proofs about simvacation and simunvacation over LMDB, for any           *)
(* deliveries, attempts, keys, jobs and times: the types, and that the     *)
(* programs implement ReplyLedger where addresses lie above any time.      *)
(***************************************************************************)
EXTENDS VdbLmdb, Simvacation_proofs, TLAPS

----------------------------------------------------------------------------
(* Types.                                                                  *)

LEMMA InitType == Init => TypeOK
  BY DEF Init, SimInit, JobInit, TypeOK, SimTypeOK, JobTypeOK, Pcs, FrontPcs,
         Results, JobPcs

LEMMA RunType ==
    ASSUME TypeOK, NEW r \in Run,
           \/ Start(r) /\ UNCHANGED <<lmdbVars, jobMainVars>>
           \/ RunStep(r)
           \/ RunFailure(r)
    PROVE  TypeOK'
<1> USE RunKeyType DEF TypeOK, lmdbVars, jobMainVars, JobTypeOK
<1>1. CASE (Start(r) \/ MainStep(r)) /\ UNCHANGED <<lmdbVars, jobMainVars>>
  BY <1>1, MainType
<1>2. CASE KillRun(r)
  BY <1>2, MainType DEF KillRun
<1> USE DEF SimTypeOK, Goto, Abandon, Pcs, FrontPcs, BackendPcs, Results,
            vdbCallVars, historyVars, mainVars
<1>3. CASE RecentGet(r)
  BY <1>3 DEF RecentGet, ReadRecord
<1>4. CASE RecentCompare(r)
  BY <1>4 DEF RecentCompare, Compare
<1>5. CASE StoreTime(r)
  BY <1>5 DEF StoreTime, TakeTime
<1>6. CASE StoreBegin(r)
  BY <1>6 DEF StoreBegin
<1>7. CASE StoreCommit(r)
  BY <1>7 DEF StoreCommit, MyRecord, Record
<1>8. CASE RecentError(r)
  BY <1>8 DEF RecentError, ReadFails
<1>9. CASE StoreBeginError(r)
  BY <1>9 DEF StoreBeginError
<1>10. CASE StoreAbort(r)
  BY <1>10 DEF StoreAbort
<1>11. CASE LmdbAssert(r)
  BY <1>11 DEF LmdbAssert
<1> QED
  BY <1>1, <1>2, <1>3, <1>4, <1>5, <1>6, <1>7, <1>8, <1>9, <1>10, <1>11
     DEF RunStep, RunFailure

LEMMA JobType ==
    ASSUME TypeOK, NEW j \in Jobs,
           \/ JobStart(j) /\ UNCHANGED <<simVars, lmdbVars>>
           \/ JobStep(j)
           \/ JobFailure(j)
    PROVE  TypeOK'
<1>0. UNCHANGED simVars => SimTypeOK'
  BY DEF TypeOK, SimTypeOK, simVars
<1> USE <1>0, RetentionAssumption DEF TypeOK, lmdbVars, JobTypeOK, JobPcs, JobGoto, JobEnds
<1>1. CASE JobStart(j) /\ UNCHANGED <<simVars, lmdbVars>>
  BY <1>1 DEF JobStart
<1>2. CASE JobMainStep(j) /\ UNCHANGED <<simVars, lmdbVars>>
  BY <1>2 DEF JobMainStep, JobVdbInit, JobVluInit, JobExit
<1>3. CASE GcTime(j)
  BY <1>3 DEF GcTime, SimTypeOK
<1>4. CASE GcBegin(j) \/ GcBeginError(j)
  BY <1>4 DEF GcBegin, GcBeginError
<1>5. CASE GcSweep(j)
  BY <1>5 DEF GcSweep
<1>6. CASE JobAssert(j)
  BY <1>6 DEF JobAssert
<1>7. CASE KillJob(j)
  BY <1>7 DEF KillJob, JobKill
<1> QED
  BY <1>1, <1>2, <1>3, <1>4, <1>5, <1>6, <1>7 DEF JobStep, JobFailure

LEMMA TypeStep == TypeOK /\ [Next]_vars => TypeOK'
<1> SUFFICES ASSUME TypeOK, [Next]_vars PROVE TypeOK'
  OBVIOUS
<1>1. CASE PassTime /\ UNCHANGED <<lmdbVars, jobMainVars>>
  BY <1>1 DEF PassTime, mainVars, vdbCallVars, historyVars, lmdbVars, jobMainVars,
              TypeOK, SimTypeOK, JobTypeOK
<1>2. CASE UNCHANGED vars
  BY <1>2 DEF vars, TypeOK, SimTypeOK, JobTypeOK
<1> QED
  BY <1>1, <1>2, RunType, JobType DEF Next

\* Every variable of the two programs over LMDB keeps its type.
THEOREM TypeCorrect == Spec => []TypeOK
  BY InitType, TypeStep, PTL DEF Spec

----------------------------------------------------------------------------
(* The invariant the refinement rests on: a record says when its writer    *)
(* took the time, and the writer is past the step that could take another; *)
(* nobody compares a record that was not found; a sweep's cutoff is no     *)
(* later than the clock may run.                                           *)

Stored == {"send", "exiting", "done"}

\* The record is what its writer wrote, and no longer changes.
Authentic(rec) == rec.stamp = stamp[rec.by] /\ pc[rec.by] \in Stored

AllAuthentic ==
    /\ \A k \in Keys : db[k] # NoRecord => Authentic(db[k])
    /\ \A r \in Run : last[r] # NoRecord => Authentic(last[r])

Positions ==
    \A r \in Run :
        /\ pc[r] = "decide" => last[r] # NoRecord
        /\ pc[r] \notin {"drop", "set", "expire"}

Bounded ==
    /\ now <= MaxTime
    /\ \A j \in Jobs : cutoff[j] <= MaxTime

Inv == TypeOK /\ AllAuthentic /\ Positions /\ Bounded

LEMMA InitInv == Init => Inv
  BY InitType, TimeAssumption DEF Inv, Init, SimInit, JobInit, AllAuthentic, Positions, Bounded

LEMMA BoundedStep == TypeOK /\ Bounded /\ [Next]_vars => Bounded'
<1> SUFFICES ASSUME TypeOK, Bounded, [Next]_vars PROVE Bounded'
  OBVIOUS
<1> USE TimeAssumption, RetentionAssumption DEF Bounded, TypeOK, SimTypeOK
<1>1. CASE PassTime /\ UNCHANGED <<lmdbVars, jobMainVars>>
  BY <1>1 DEF PassTime, lmdbVars
<1>2. ASSUME NEW j \in Jobs, GcTime(j) PROVE Bounded'
  BY <1>2 DEF GcTime, simVars
<1>3. CASE UNCHANGED <<now, cutoff>>
  BY <1>3
<1>4. \/ PassTime /\ UNCHANGED <<lmdbVars, jobMainVars>>
      \/ \E j \in Jobs : GcTime(j)
      \/ UNCHANGED <<now, cutoff>>
  <2>1. ASSUME NEW r \in Run,
               \/ Start(r) /\ UNCHANGED <<lmdbVars, jobMainVars>>
               \/ RunStep(r)
               \/ RunFailure(r)
        PROVE  UNCHANGED <<now, cutoff>>
    BY <2>1 DEF RunStep, RunFailure, Start, MainStep, Search, GroupSearch, VdbInit,
         ReadHeaders, CheckFrom, SendFail, Handoff, HandoffEmpty, ChildFail, Exit, Kill,
         RecentGet, ReadRecord, RecentCompare, Compare, StoreTime, TakeTime, StoreBegin,
         StoreCommit, RecentError, ReadFails, StoreBeginError, StoreAbort, LmdbAssert,
         KillRun, lmdbVars
  <2>2. ASSUME NEW j \in Jobs, ~GcTime(j),
               \/ JobStart(j) /\ UNCHANGED <<simVars, lmdbVars>>
               \/ JobStep(j)
               \/ JobFailure(j)
        PROVE  UNCHANGED <<now, cutoff>>
    BY <2>2 DEF JobStep, JobFailure, GcBegin, GcBeginError, GcSweep, JobAssert, KillJob,
         simVars, lmdbVars
  <2> QED
    BY <2>1, <2>2 DEF Next, vars
<1> QED
  BY <1>1, <1>2, <1>3, <1>4

\* What a run may do to the run variables, as far as records are concerned:
\* only a run that has not stored takes the time, and one that has stays so.
LEMMA StampFixed ==
    ASSUME TypeOK, Positions, [Next]_vars, NEW r \in Run, pc[r] \in Stored
    PROVE  stamp'[r] = stamp[r] /\ pc'[r] \in Stored
<1> USE DEF Stored, TypeOK, SimTypeOK
<1>1. ASSUME NEW q \in Run,
             \/ Start(q) /\ UNCHANGED <<lmdbVars, jobMainVars>>
             \/ RunStep(q)
             \/ RunFailure(q)
      PROVE  stamp'[r] = stamp[r] /\ pc'[r] \in Stored
  BY <1>1 DEF RunStep, RunFailure, Start, MainStep, Search, GroupSearch, VdbInit,
         ReadHeaders, CheckFrom, SendFail, Handoff, HandoffEmpty, ChildFail, Exit, Kill,
         RecentGet, ReadRecord, RecentCompare, Compare, StoreTime, TakeTime, StoreBegin,
         StoreCommit, RecentError, ReadFails, StoreBeginError, StoreAbort, LmdbAssert,
         KillRun, Goto, LeaveWith, Abandon, vdbCallVars
<1>2. CASE PassTime
  BY <1>2 DEF PassTime, vdbCallVars
<1>3. ASSUME NEW j \in Jobs,
             \/ JobStart(j) /\ UNCHANGED <<simVars, lmdbVars>>
             \/ JobStep(j)
             \/ JobFailure(j)
      PROVE  UNCHANGED simVars
  BY <1>3 DEF JobStep, JobFailure, GcTime, GcBegin, GcBeginError, GcSweep, JobAssert, KillJob
<1> QED
  BY <1>1, <1>2, <1>3 DEF Next, vars, simVars

\* A job touches no run.
LEMMA JobFrame ==
    ASSUME NEW j \in Jobs,
           \/ JobStart(j) /\ UNCHANGED <<simVars, lmdbVars>>
           \/ JobStep(j)
           \/ JobFailure(j)
    PROVE  UNCHANGED simVars
  BY DEF JobStep, JobFailure, GcTime, GcBegin, GcBeginError, GcSweep, JobAssert, KillJob

LEMMA PositionsStep == Inv /\ [Next]_vars => Positions'
<1> SUFFICES ASSUME Inv, [Next]_vars PROVE Positions'
  OBVIOUS
<1> USE DEF Inv, TypeOK, SimTypeOK, Positions
<1>1. ASSUME NEW r \in Run,
             \/ Start(r) /\ UNCHANGED <<lmdbVars, jobMainVars>>
             \/ RunStep(r)
             \/ RunFailure(r)
      PROVE  Positions'
  BY <1>1 DEF RunStep, RunFailure, Start, MainStep, Search, GroupSearch, VdbInit,
         ReadHeaders, CheckFrom, SendFail, Handoff, HandoffEmpty, ChildFail, Exit, Kill,
         RecentGet, ReadRecord, RecentCompare, Compare, StoreTime, TakeTime, StoreBegin,
         StoreCommit, RecentError, ReadFails, StoreBeginError, StoreAbort, LmdbAssert,
         KillRun, Goto, LeaveWith, Abandon, vdbCallVars
<1>2. CASE PassTime
  BY <1>2 DEF PassTime, vdbCallVars
<1>3. CASE UNCHANGED simVars
  BY <1>3 DEF simVars
<1> QED
  BY <1>1, <1>2, <1>3, JobFrame DEF Next, vars, simVars

\* Where records come from: the run that commits, and the database.
LEMMA RecordSources ==
    ASSUME TypeOK, [Next]_vars
    PROVE  /\ \A k \in Keys :
                \/ db'[k] = db[k]
                \/ db'[k] = NoRecord
                \/ \E r \in Run : StoreCommit(r) /\ db'[k] = MyRecord(r)
           /\ \A r \in Run : last'[r] = last[r] \/ \E k \in Keys : last'[r] = db[k]
<1> USE RunKeyType DEF TypeOK, SimTypeOK
<1>1. ASSUME NEW q \in Run, RecentGet(q)
      PROVE  db' = db /\ \A r \in Run : last'[r] = last[r] \/ last'[r] = db[RunKey[q]]
  BY <1>1 DEF RecentGet, ReadRecord, lmdbVars
<1>2. ASSUME NEW q \in Run, StoreCommit(q)
      PROVE  /\ last' = last
             /\ \A k \in Keys : db'[k] = db[k] \/ db'[k] = MyRecord(q)
  BY <1>2 DEF StoreCommit, vdbCallVars
<1>3. ASSUME NEW q \in Run, ~RecentGet(q), ~StoreCommit(q),
             \/ Start(q) /\ UNCHANGED <<lmdbVars, jobMainVars>>
             \/ RunStep(q)
             \/ RunFailure(q)
      PROVE  db' = db /\ last' = last
  BY <1>3 DEF RunStep, RunFailure, Start, MainStep, Search, GroupSearch, VdbInit,
         ReadHeaders, CheckFrom, SendFail, Handoff, HandoffEmpty, ChildFail, Exit, Kill,
         RecentCompare, Compare, StoreTime, TakeTime, StoreBegin, RecentError, ReadFails,
         StoreBeginError, StoreAbort, LmdbAssert, KillRun, vdbCallVars, lmdbVars
<1>4. ASSUME NEW j \in Jobs, GcSweep(j)
      PROVE  last' = last /\ \A k \in Keys : db'[k] = db[k] \/ db'[k] = NoRecord
  BY <1>4 DEF GcSweep, simVars
<1>5. ASSUME NEW j \in Jobs, ~GcSweep(j),
             \/ JobStart(j) /\ UNCHANGED <<simVars, lmdbVars>>
             \/ JobStep(j)
             \/ JobFailure(j)
      PROVE  db' = db /\ last' = last
  BY <1>5 DEF JobStep, JobFailure, GcTime, GcBegin, GcBeginError, JobAssert, KillJob,
         simVars, lmdbVars
<1>6. CASE PassTime /\ UNCHANGED <<lmdbVars, jobMainVars>>
  BY <1>6 DEF PassTime, vdbCallVars, lmdbVars
<1>7. CASE UNCHANGED vars
  BY <1>7 DEF vars
<1> QED
  BY <1>1, <1>2, <1>3, <1>4, <1>5, <1>6, <1>7 DEF Next

LEMMA AuthenticStep == Inv /\ [Next]_vars => AllAuthentic'
<1> SUFFICES ASSUME Inv, [Next]_vars PROVE AllAuthentic'
  OBVIOUS
<1>1. ASSUME NEW rec \in Record, Authentic(rec) PROVE Authentic(rec)'
  BY <1>1, StampFixed DEF Inv, Authentic, Record
<1>2. ASSUME NEW r \in Run, StoreCommit(r) PROVE Authentic(MyRecord(r))'
  BY <1>2 DEF Authentic, MyRecord, StoreCommit, Goto, vdbCallVars, Stored, Inv,
              TypeOK, SimTypeOK
<1>3. ASSUME NEW k \in Keys, db'[k] # NoRecord PROVE Authentic(db[k])'
  <2>1. CASE db'[k] = db[k]
    BY <1>1, <1>3, <2>1 DEF Inv, AllAuthentic, TypeOK, Authentic
  <2>2. ASSUME NEW r \in Run, StoreCommit(r), db'[k] = MyRecord(r)
        PROVE  Authentic(db[k])'
    <3>1. (MyRecord(r))' = MyRecord(r)
      BY <2>2 DEF MyRecord, StoreCommit, vdbCallVars
    <3> QED
      BY <1>2, <2>2, <3>1 DEF Authentic
  <2> QED
    BY <1>3, <2>1, <2>2, RecordSources DEF Inv
<1>4. ASSUME NEW r \in Run, last'[r] # NoRecord PROVE Authentic(last[r])'
  <2>1. CASE last'[r] = last[r]
    BY <1>1, <1>4, <2>1 DEF Inv, AllAuthentic, TypeOK, SimTypeOK, Authentic
  <2>2. ASSUME NEW k \in Keys, last'[r] = db[k] PROVE Authentic(last[r])'
    BY <1>1, <1>4, <2>2 DEF Inv, AllAuthentic, TypeOK, Authentic
  <2> QED
    BY <2>1, <2>2, RecordSources DEF Inv
<1> QED
  BY <1>3, <1>4 DEF AllAuthentic

LEMMA Inductive == Spec => []Inv
<1>1. Inv /\ [Next]_vars => Inv'
  BY TypeStep, BoundedStep, PositionsStep, AuthenticStep DEF Inv
<1> QED
  BY InitInv, <1>1, PTL DEF Spec

----------------------------------------------------------------------------
(* Refinement.                                                             *)

\* The ledger's variables, as this module's state shows them.
Phase == [r \in Run |-> PhaseOf(pc[r])]
Holder == [k \in Keys |-> Writer(db[k])]
Intervals == [r \in Run |-> Interval(r)]
Found == [r \in Run |-> Writer(last[r])]

LEMMA PhaseValues ==
    /\ \A c \in FrontPcs \union {"recent"} : PhaseOf(c) = "open"
    /\ PhaseOf("decide") = "looked"
    /\ PhaseOf("stamp") = "cleared"
    /\ PhaseOf("begin") = "stamped" /\ PhaseOf("commit") = "stamped"
    /\ PhaseOf("send") = "recorded"
    /\ PhaseOf("exiting") = "closed" /\ PhaseOf("done") = "closed"
  BY DEF PhaseOf, FrontPcs

LEMMA PhaseGoto ==
    ASSUME TypeOK, NEW r \in Run, NEW c, Goto(r, c)
    PROVE  Phase' = [Phase EXCEPT ![r] = PhaseOf(c)]
  BY DEF Phase, Goto, TypeOK, SimTypeOK

LEMMA InitRefines == Init => Ledger!Init
<1> SUFFICES ASSUME Init PROVE Ledger!Init
  OBVIOUS
<1> USE DEF Init, SimInit
<1>1. Phase = [r \in Run |-> "open"]
  BY PhaseValues DEF Phase, FrontPcs
<1>2. Holder = [k \in Keys |-> NoRun] /\ Found = [r \in Run |-> NoRun]
  BY DEF Holder, Found, Writer
<1>3. Intervals \in [Run -> 0..LongestInterval]
  BY IntervalBound DEF Intervals
<1> QED
  BY <1>1, <1>2, <1>3 DEF Ledger!Init, Phase, Holder, Found, Intervals

\* A run that leaves the database alone admits, closes, replies, or stutters.
LEMMA MainRefines ==
    ASSUME Inv, NEW r \in Run, Start(r) \/ MainStep(r) \/ Kill(r), db' = db
    PROVE  \/ Ledger!Admit(r) \/ Ledger!Close(r) \/ Ledger!Reply(r)
           \/ UNCHANGED Ledger!vars
<1>1. UNCHANGED <<now, chk, stamp, count, look, blind, rank, erank, Holder, Found>>
  BY MainEffect DEF Inv, TypeOK, Holder, Found
<1> DEFINE c == pc'[r]
<1>2. Goto(r, c) /\ MainKind(r, c)
  BY MainEffect DEF Inv, TypeOK
<1> HIDE DEF c
<1>3. Phase' = [Phase EXCEPT ![r] = PhaseOf(c)] /\ Phase[r] = PhaseOf(pc[r])
  BY <1>2, PhaseGoto DEF Inv, Phase
<1>4. CASE PhaseOf(c) = PhaseOf(pc[r]) /\ UNCHANGED <<group, mailed>>
  <2>1. Phase' = Phase
    BY <1>3, <1>4 DEF Phase
  <2> QED
    BY <1>1, <1>4, <2>1 DEF Ledger!vars, Phase, Holder, Found, Interval
<1>5. CASE /\ PhaseOf(pc[r]) = "open" /\ PhaseOf(c) = "open"
           /\ group' = [group EXCEPT ![r] = TRUE] /\ UNCHANGED mailed
  <2>1. GroupInterval \in 0..LongestInterval
    BY TimeAssumption DEF LongestInterval
  <2>2. Intervals' = [Intervals EXCEPT ![r] = GroupInterval]
    BY <1>5 DEF Intervals, Interval, Inv, TypeOK, SimTypeOK
  <2>3. Phase' = Phase
    BY <1>3, <1>5 DEF Phase
  <2> QED
    BY <1>1, <1>3, <1>5, <2>1, <2>2, <2>3 DEF Ledger!Admit, Ledger!clockVars,
       Ledger!historyVars, Phase, Holder, Found, Intervals
<1>6. CASE /\ PhaseOf(pc[r]) # "closed" /\ PhaseOf(c) = "closed"
           /\ UNCHANGED <<group, mailed>>
  BY <1>1, <1>3, <1>6 DEF Ledger!Close, Ledger!clockVars, Ledger!historyVars,
     Phase, Holder, Found, Interval
<1>7. CASE /\ PhaseOf(pc[r]) = "recorded" /\ PhaseOf(c) = "closed"
           /\ UNCHANGED group /\ mailed' = [mailed EXCEPT ![r] = TRUE]
  BY <1>1, <1>3, <1>7 DEF Ledger!Reply, Ledger!clockVars, Ledger!historyVars,
     Phase, Holder, Found, Interval
<1> QED
  BY <1>2, <1>4, <1>5, <1>6, <1>7 DEF MainKind

\* The calls of the database, one by one.
LEMMA CallRefines ==
    ASSUME Inv, NEW r \in Run,
           \/ RecentGet(r) \/ RecentError(r) \/ RecentCompare(r)
           \/ StoreTime(r) \/ StoreBegin(r) \/ StoreBeginError(r)
           \/ StoreCommit(r) \/ StoreAbort(r) \/ LmdbAssert(r)
    PROVE  \/ Ledger!Look(r) \/ Ledger!LookBlind(r) \/ Ledger!Decide(r)
           \/ Ledger!Stamp(r) \/ Ledger!Record(r) \/ Ledger!RecordLost(r)
           \/ Ledger!Close(r) \/ UNCHANGED Ledger!vars
<1> USE RunKeyType, PhaseValues
    DEF Ledger!clockVars, Ledger!historyVars, historyVars, mainVars, vdbCallVars, lmdbVars
<1>1. PhaseOf(pc[r]) = Phase[r] /\ (group' = group => Intervals' = Intervals)
  BY DEF Phase, Intervals, Interval
<1>2. db' = db => Holder' = Holder
  BY DEF Holder
<1>3. last' = last => Found' = Found
  BY DEF Found
<1>4. CASE RecentGet(r)
  <2>1. RunKey[r] \in Keys /\ Holder[RunKey[r]] = Writer(db[RunKey[r]])
    BY DEF Holder
  <2>2. Found' = [Found EXCEPT ![r] = Holder[RunKey[r]]]
    BY <1>4, <2>1 DEF RecentGet, ReadRecord, Found, Inv, TypeOK, SimTypeOK
  <2>3. db[RunKey[r]] = NoRecord <=> Holder[RunKey[r]] = NoRun
    BY <2>1, DeliveryAssumption DEF Writer, Inv, TypeOK, Record
  <2>4. Phase' = [Phase EXCEPT ![r] =
                    IF Holder[RunKey[r]] = NoRun THEN "cleared" ELSE "looked"]
    BY <1>4, <2>3, PhaseGoto DEF RecentGet, ReadRecord, Inv
  <2>5. Ledger!Look(r)
    BY <1>1, <1>2, <1>4, <2>2, <2>4 DEF RecentGet, ReadRecord, FrontPcs,
       Ledger!Look, Phase, Holder, Intervals, Found
  <2> QED
    BY <2>5
<1>5. CASE RecentError(r)
  <2>1. Phase' = [Phase EXCEPT ![r] = "cleared"]
    BY <1>5, PhaseGoto DEF RecentError, ReadFails, Inv
  <2> QED
    BY <1>1, <1>2, <1>3, <1>5, <2>1 DEF RecentError, ReadFails, FrontPcs,
       Ledger!LookBlind, Phase, Holder, Intervals, Found
<1>6. CASE RecentCompare(r)
  <2>1. last[r] # NoRecord /\ Authentic(last[r])
    BY <1>6 DEF RecentCompare, Inv, Positions, AllAuthentic
  <2>2. Found[r] = last[r].by /\ stamp[Found[r]] = last[r].stamp /\ Intervals[r] = Interval(r)
    BY <2>1 DEF Found, Writer, Authentic, Intervals
  <2>3. Phase' = [Phase EXCEPT ![r] =
                    IF now < stamp[Found[r]] + Intervals[r] THEN "closed" ELSE "cleared"]
    BY <1>6, <2>2, PhaseGoto DEF RecentCompare, Compare, Inv
  <2>4. CASE now < stamp[Found[r]] + Intervals[r]
    BY <1>1, <1>2, <1>3, <1>6, <2>3, <2>4 DEF RecentCompare, Compare,
       Ledger!Decide, Phase, Holder, Intervals, Found
  <2>5. CASE ~(now < stamp[Found[r]] + Intervals[r])
    <3>1. now >= stamp[Found[r]] + Intervals[r]
      BY <2>1, <2>2, <2>5, IntervalBound DEF Inv, TypeOK, SimTypeOK, Record
    <3> QED
      BY <1>1, <1>2, <1>3, <1>6, <2>3, <2>5, <3>1 DEF RecentCompare, Compare,
         Ledger!Decide, Phase, Holder, Intervals, Found
  <2> QED
    BY <2>4, <2>5
<1>7. CASE StoreTime(r)
  <2>1. Phase' = [Phase EXCEPT ![r] = "stamped"]
    BY <1>7, PhaseGoto DEF StoreTime, TakeTime, Inv
  <2> QED
    BY <1>1, <1>2, <1>3, <1>7, <2>1 DEF StoreTime, TakeTime,
       Ledger!Stamp, Phase, Holder, Intervals, Found
<1>8. CASE StoreBegin(r)
  <2>1. Phase' = Phase
    <3>1. PhaseOf("commit") = Phase[r] /\ Goto(r, "commit")
      BY <1>1, <1>8 DEF StoreBegin
    <3>2. Phase' = [Phase EXCEPT ![r] = Phase[r]]
      BY <3>1, PhaseGoto DEF Inv
    <3> QED
      BY <3>2 DEF Phase
  <2> QED
    BY <1>1, <1>2, <1>3, <1>8, <2>1 DEF StoreBegin,
       Ledger!vars, Phase, Holder, Intervals, Found
<1>9. CASE StoreBeginError(r) \/ StoreAbort(r)
  <2>1. Phase' = [Phase EXCEPT ![r] = "recorded"]
    BY <1>9, PhaseGoto DEF StoreBeginError, StoreAbort, Inv
  <2> QED
    BY <1>1, <1>2, <1>3, <1>9, <2>1 DEF StoreBeginError, StoreAbort,
       Ledger!RecordLost, Phase, Holder, Intervals, Found
<1>10. CASE StoreCommit(r)
  <2>1. Phase' = [Phase EXCEPT ![r] = "recorded"]
    BY <1>10, PhaseGoto DEF StoreCommit, Inv
  <2>2. Writer(MyRecord(r)) = r
    <3>1. MyRecord(r) \in Record
      BY DEF MyRecord, Record, Inv, TypeOK, SimTypeOK
    <3> QED
      BY <3>1, DeliveryAssumption DEF Writer, MyRecord
  <2>3. Holder' = [Holder EXCEPT ![RunKey[r]] = r]
    BY <1>10, <2>2 DEF StoreCommit, Holder, Inv, TypeOK
  <2> QED
    BY <1>1, <1>3, <1>10, <2>1, <2>3 DEF StoreCommit,
       Ledger!Record, Phase, Holder, Intervals, Found
<1>11. CASE LmdbAssert(r)
  <2>1. Phase' = [Phase EXCEPT ![r] = "closed"]
    BY <1>11, PhaseGoto DEF LmdbAssert, Abandon, Inv
  <2>2. Phase[r] # "closed"
    BY <1>1, <1>11 DEF LmdbAssert
  <2> QED
    BY <1>1, <1>2, <1>3, <1>11, <2>1, <2>2 DEF LmdbAssert,
       Ledger!Close, Phase, Holder, Intervals, Found
<1> QED
  BY <1>4, <1>5, <1>6, <1>7, <1>8, <1>9, <1>10, <1>11

\* With addresses above any time the sweep condemns nothing.
LEMMA JobRefines ==
    ASSUME LP64, Inv, NEW j \in Jobs,
           \/ JobStart(j) /\ UNCHANGED <<simVars, lmdbVars>>
           \/ JobStep(j)
           \/ JobFailure(j)
    PROVE  UNCHANGED Ledger!vars
<1>1. UNCHANGED simVars
  BY JobFrame
<1>2. Holder' = Holder
  <2>1. CASE GcSweep(j)
    <3>1. Condemned(j) = {}
      BY TimeAssumption, RetentionAssumption DEF LP64, Condemned, Inv, Bounded, TypeOK
    <3>2. \A k \in Keys : db'[k] = db[k]
      BY <2>1, <3>1 DEF GcSweep
    <3> QED
      BY <3>2 DEF Holder
  <2>2. CASE ~GcSweep(j)
    BY <2>2 DEF JobStep, JobFailure, GcTime, GcBegin, GcBeginError, JobAssert, KillJob,
       lmdbVars, Holder
  <2> QED
    BY <2>1, <2>2
<1> QED
  BY <1>1, <1>2 DEF simVars, Ledger!vars, Holder, Interval

LEMMA StepRefines == LP64 /\ Inv /\ [Next]_vars => [Ledger!Next]_(Ledger!vars)
<1> SUFFICES ASSUME LP64, Inv, [Next]_vars PROVE [Ledger!Next]_(Ledger!vars)
  OBVIOUS
<1>1. CASE PassTime /\ UNCHANGED <<lmdbVars, jobMainVars>>
  <2>1. Ledger!Tick
    BY <1>1 DEF PassTime, lmdbVars, mainVars, vdbCallVars, historyVars, Ledger!Tick,
       Ledger!runVars, Ledger!historyVars, Interval
  <2> QED
    BY <2>1 DEF Ledger!Next
<1>2. ASSUME NEW r \in Run,
             \/ Start(r) /\ UNCHANGED <<lmdbVars, jobMainVars>>
             \/ RunStep(r)
             \/ RunFailure(r)
      PROVE  [Ledger!Next]_(Ledger!vars)
  <2>1. CASE (Start(r) \/ MainStep(r) \/ Kill(r)) /\ db' = db
    BY <2>1, MainRefines DEF Ledger!Next
  <2>2. CASE \/ RecentGet(r) \/ RecentError(r) \/ RecentCompare(r)
             \/ StoreTime(r) \/ StoreBegin(r) \/ StoreBeginError(r)
             \/ StoreCommit(r) \/ StoreAbort(r) \/ LmdbAssert(r)
    BY <2>2, CallRefines DEF Ledger!Next
  <2> QED
    BY <1>2, <2>1, <2>2 DEF RunStep, RunFailure, KillRun, lmdbVars
<1>3. ASSUME NEW j \in Jobs,
             \/ JobStart(j) /\ UNCHANGED <<simVars, lmdbVars>>
             \/ JobStep(j)
             \/ JobFailure(j)
      PROVE  [Ledger!Next]_(Ledger!vars)
  BY <1>3, JobRefines
<1>4. CASE UNCHANGED vars
  BY <1>4 DEF vars, Ledger!vars, Interval
<1> QED
  BY <1>1, <1>2, <1>3, <1>4 DEF Next

\* The two programs over LMDB implement the ledger, on a machine whose
\* addresses are larger than any time.
THEOREM LmdbRefinesLedger == ASSUME LP64 PROVE Spec => LedgerSpec
<1>1. Inv /\ [Next]_vars => [Ledger!Next]_(Ledger!vars)
  BY LP64, StepRefines
<1> QED
  BY InitRefines, Inductive, <1>1, PTL DEF Spec, LedgerSpec, Ledger!Spec

\* So the ledger's promise, proved in ReplyLedger_proofs, is kept over LMDB.
LedgerFacts == INSTANCE ReplyLedger_proofs WITH
    MaxInterval <- LongestInterval,
    holder <- [k \in Keys |-> Writer(db[k])],
    phase <- [r \in Run |-> PhaseOf(pc[r])],
    interval <- [r \in Run |-> Interval(r)],
    found <- [r \in Run |-> Writer(last[r])]

THEOREM LmdbSuppression == ASSUME LP64 PROVE Spec => []Ledger!Suppression
<1>1. RunKey \in [Run -> Keys] /\ NoRun \notin Run /\ LongestInterval \in Nat /\ MaxTime \in Nat
  BY RunKeyType, IntervalBound, DeliveryAssumption, TimeAssumption
<1>2. LedgerFacts!Spec => []LedgerFacts!Suppression
  BY <1>1, LedgerFacts!SuppressionHolds
<1>3. LedgerFacts!Suppression <=> Ledger!Suppression
  BY DEF LedgerFacts!Suppression, Ledger!Suppression, LedgerFacts!Interference,
     Ledger!Interference, LedgerFacts!SameKey, Ledger!SameKey
<1>4. Ledger!Init <=> LedgerFacts!Init
  BY DEF Ledger!Init, LedgerFacts!Init
<1>5. [Ledger!Next]_(Ledger!vars) <=> [LedgerFacts!Next]_(LedgerFacts!vars)
  BY DEF Ledger!Tick, LedgerFacts!Tick, Ledger!Forget, LedgerFacts!Forget,
       Ledger!Admit, LedgerFacts!Admit, Ledger!Look, LedgerFacts!Look,
       Ledger!LookBlind, LedgerFacts!LookBlind, Ledger!Decide, LedgerFacts!Decide,
       Ledger!Erase, LedgerFacts!Erase, Ledger!Stamp, LedgerFacts!Stamp,
       Ledger!Record, LedgerFacts!Record, Ledger!RecordLost, LedgerFacts!RecordLost,
       Ledger!Reply, LedgerFacts!Reply, Ledger!Close, LedgerFacts!Close,
       Ledger!Lapsed, LedgerFacts!Lapsed, Ledger!vars, LedgerFacts!vars,
       Ledger!clockVars, LedgerFacts!clockVars, Ledger!runVars, LedgerFacts!runVars,
       Ledger!historyVars, LedgerFacts!historyVars, Ledger!Next, LedgerFacts!Next
<1> QED
  BY LmdbRefinesLedger, <1>2, <1>3, <1>4, <1>5, PTL
     DEF LedgerSpec, Ledger!Spec, LedgerFacts!Spec

----------------------------------------------------------------------------
(* Retries.  The attempts of one delivery do not overlap, so one that       *)
(* looks has all records of the earlier ones before it.                    *)

Sequential ==
    \A p, q \in Run :
        p[1] = q[1] /\ p[2] < q[2] /\ pc[q] # "idle" => pc[p] = "done"

Written ==
    \A r \in Run :
        /\ rank[r] <= count
        /\ erank[r] = 0
        /\ 0 < rank[r] => look[r] < rank[r]
        /\ look[r] <= count
        /\ pc[r] \in {"decide", "stamp", "begin", "commit"} => rank[r] = 0
        /\ pc[r] \in FrontPcs \union {"recent"} => rank[r] = 0 /\ ~mailed[r]

Past(r) ==
    \/ pc[r] \in {"decide", "stamp", "begin", "commit", "send"}
    \/ mailed[r]
    \/ 0 < rank[r]

LooksLater ==
    \A p, q \in Run :
        p[1] = q[1] /\ p[2] < q[2] /\ Past(q) => rank[p] <= look[q]

Order == Sequential /\ Written /\ LooksLater

LEMMA InitOrder == Init => Order
  BY DEF Init, SimInit, Order, Sequential, Written, LooksLater, Past, FrontPcs

\* Only Start takes a run out of "idle", and only from there.
LEMMA SequentialStep == TypeOK /\ Sequential /\ [Next]_vars => Sequential'
<1> SUFFICES ASSUME TypeOK, Sequential, [Next]_vars PROVE Sequential'
  OBVIOUS
<1> USE DEF TypeOK, SimTypeOK
<1>1. ASSUME NEW r \in Run, Start(r) PROVE Sequential'
  <2>1. /\ pc[r] = "idle" /\ MayStart(r)
        /\ \A q \in Run : q # r => pc'[q] = pc[q]
    BY <1>1 DEF Start, Goto, LeaveWith
  <2>2. ASSUME NEW p \in Run, p[1] = r[1], p[2] < r[2] PROVE pc[p] = "done"
    <3>1. PICK m \in Run : m[1] = r[1] /\ m[2] + 1 = r[2] /\ pc[m] = "done"
      BY <2>1, <2>2, AttemptsOrdered DEF MayStart, Ended
    <3>2. CASE p[2] = m[2]
      BY <2>2, <3>1, <3>2, AttemptsOrdered
    <3>3. CASE p[2] < m[2]
      BY <2>2, <3>1, <3>3 DEF Sequential
    <3>4. p[2] = m[2] \/ p[2] < m[2]
      <4>1. PICK i \in Nat, j \in Nat : i = p[2] /\ j = m[2]
        BY AttemptsOrdered
      <4>2. i < j + 1
        BY <2>2, <3>1, <4>1
      <4>3. i = j \/ i < j
        BY <4>2
      <4> QED
        BY <4>1, <4>3
    <3> QED
      BY <3>2, <3>3, <3>4
  <2> QED
    BY <2>1, <2>2, AttemptsOrdered DEF Sequential
<1>2. ASSUME NEW r \in Run, ~Start(r), RunStep(r) \/ RunFailure(r) PROVE Sequential'
  <2>1. /\ pc[r] \notin {"idle", "done"}
        /\ \A q \in Run : q # r => pc'[q] = pc[q]
    BY <1>2 DEF RunStep, RunFailure, MainStep, Search, GroupSearch, VdbInit,
         ReadHeaders, CheckFrom, SendFail, Handoff, HandoffEmpty, ChildFail, Exit, Kill,
         RecentGet, ReadRecord, RecentCompare, Compare, StoreTime, TakeTime, StoreBegin,
         StoreCommit, RecentError, ReadFails, StoreBeginError, StoreAbort, LmdbAssert,
         KillRun, Goto, LeaveWith, Abandon
  <2> QED
    BY <2>1 DEF Sequential
<1>3. CASE UNCHANGED pc
  BY <1>3 DEF Sequential
<1> QED
  BY <1>1, <1>2, <1>3, JobFrame DEF Next, vars, simVars, PassTime

LEMMA WrittenStep == TypeOK /\ Positions /\ Written /\ [Next]_vars => Written'
<1> SUFFICES ASSUME TypeOK, Positions, Written, [Next]_vars PROVE Written'
  OBVIOUS
<1> USE DEF TypeOK, SimTypeOK, Written, FrontPcs
<1>1. ASSUME NEW r \in Run,
             \/ Start(r) /\ UNCHANGED <<lmdbVars, jobMainVars>>
             \/ RunStep(r)
             \/ RunFailure(r)
      PROVE  Written'
  BY <1>1 DEF RunStep, RunFailure, Start, MainStep, Search, GroupSearch, VdbInit,
         ReadHeaders, CheckFrom, SendFail, Handoff, HandoffEmpty, ChildFail, Exit, Kill,
         RecentGet, ReadRecord, RecentCompare, Compare, StoreTime, TakeTime, StoreBegin,
         StoreCommit, RecentError, ReadFails, StoreBeginError, StoreAbort, LmdbAssert,
         KillRun, Goto, LeaveWith, Abandon, mainVars, vdbCallVars, historyVars
<1>2. CASE PassTime
  BY <1>2 DEF PassTime, mainVars, historyVars
<1>3. CASE UNCHANGED simVars
  BY <1>3 DEF simVars
<1> QED
  BY <1>1, <1>2, <1>3, JobFrame DEF Next, vars, simVars

\* A later attempt looks when all earlier ones are over.
LEMMA LooksLaterStep ==
    TypeOK /\ Positions /\ Order /\ [Next]_vars => LooksLater'
<1> SUFFICES ASSUME TypeOK, Positions, Order, [Next]_vars,
                    NEW p \in Run, NEW q \in Run,
                    p[1] = q[1], p[2] < q[2], Past(q)'
             PROVE  rank'[p] <= look'[q]
  BY DEF LooksLater
<1> USE DEF TypeOK, SimTypeOK
<1>1. ASSUME NEW r \in Run,
             \/ Start(r) /\ UNCHANGED <<lmdbVars, jobMainVars>>
             \/ RunStep(r)
             \/ RunFailure(r)
      PROVE  \/ Past(q) /\ look'[q] = look[q]
             \/ q = r /\ look'[q] = count /\ rank' = rank
  BY <1>1 DEF Past, RunStep, RunFailure, Start, MainStep, Search, GroupSearch, VdbInit,
         ReadHeaders, CheckFrom, SendFail, Handoff, HandoffEmpty, ChildFail, Exit, Kill,
         RecentGet, ReadRecord, RecentCompare, Compare, StoreTime, TakeTime, StoreBegin,
         StoreCommit, RecentError, ReadFails, StoreBeginError, StoreAbort, LmdbAssert,
         KillRun, Goto, LeaveWith, Abandon, mainVars, vdbCallVars, historyVars
<1>2. ASSUME NEW r \in Run,
             \/ Start(r) /\ UNCHANGED <<lmdbVars, jobMainVars>>
             \/ RunStep(r)
             \/ RunFailure(r)
      PROVE  rank'[p] = rank[p] \/ pc[p] = "commit"
  BY <1>2 DEF RunStep, RunFailure, Start, MainStep, Search, GroupSearch, VdbInit,
         ReadHeaders, CheckFrom, SendFail, Handoff, HandoffEmpty, ChildFail, Exit, Kill,
         RecentGet, ReadRecord, RecentCompare, Compare, StoreTime, TakeTime, StoreBegin,
         StoreCommit, RecentError, ReadFails, StoreBeginError, StoreAbort, LmdbAssert,
         KillRun, historyVars
<1>3. Past(q) => pc[p] = "done"
  <2>1. Past(q) => pc[q] # "idle"
    BY DEF Past, Order, Written, FrontPcs
  <2> QED
    BY <2>1 DEF Order, Sequential
<1>4. CASE UNCHANGED <<pc, mailed, rank, look>>
  BY <1>4 DEF Past, Order, LooksLater
<1>5. ASSUME NEW r \in Run,
             \/ Start(r) /\ UNCHANGED <<lmdbVars, jobMainVars>>
             \/ RunStep(r)
             \/ RunFailure(r)
      PROVE  rank'[p] <= look'[q]
  BY <1>1, <1>2, <1>3, <1>5 DEF Order, LooksLater, Written
<1> QED
  BY <1>4, <1>5, JobFrame DEF Next, vars, simVars, PassTime, mainVars, historyVars

LEMMA OrderInvariant == Spec => []Order
<1>1. Inv /\ Order /\ [Next]_vars => Order'
  BY SequentialStep, WrittenStep, LooksLaterStep DEF Inv, Order
<1> QED
  BY InitOrder, Inductive, <1>1, PTL DEF Spec

\* While the record of an earlier attempt is young a retry sends nothing,
\* unless a run of another delivery interfered.
THEOREM RetryStaysSilent == ASSUME LP64 PROVE Spec => []RetryIsSilent
<1>1. ASSUME Inv, Order, Ledger!Suppression PROVE RetryIsSilent
  <2> SUFFICES ASSUME NEW p \in Run, NEW q \in Run,
                      p[1] = q[1], p[2] < q[2], 0 < rank[p], ~blind[q],
                      chk[q] < stamp[p] + Interval(q), mailed[q]
               PROVE  \E w \in Run : w[1] # p[1] /\ Ledger!Interference(p, w, look[q])
    BY DEF RetryIsSilent
  <2>1. rank[p] <= look[q]
    BY <1>1 DEF Order, LooksLater, Past
  <2>2. PICK w \in Run : Ledger!Interference(p, w, look[q])
    BY <1>1, <2>1 DEF Ledger!Suppression, Ledger!SameKey, RunKey
  <2>3. w # p /\ 0 < rank[w] /\ rank[p] < rank[w] /\ look[w] < rank[p]
    BY <1>1, <2>2 DEF Ledger!Interference, Order, Written, Inv, TypeOK, SimTypeOK
  <2>4. CASE w[1] = p[1]
    <3>1. CASE w[2] < p[2]
      <4>1. rank[w] <= look[p] /\ look[p] < rank[p]
        BY <1>1, <2>4, <3>1 DEF Order, LooksLater, Past, Written
      <4> QED
        BY <1>1, <2>3, <4>1 DEF Inv, TypeOK, SimTypeOK
    <3>2. CASE p[2] < w[2]
      <4>1. rank[p] <= look[w]
        BY <1>1, <2>3, <2>4, <3>2 DEF Order, LooksLater, Past
      <4> QED
        BY <1>1, <2>3, <4>1 DEF Inv, TypeOK, SimTypeOK
    <3> QED
      BY <2>3, <2>4, <3>1, <3>2, AttemptsOrdered
  <2> QED
    BY <2>2, <2>4
<1> QED
  BY Inductive, OrderInvariant, LmdbSuppression, <1>1, PTL

----------------------------------------------------------------------------
(* LMDB's writer mutex: the safe half of EveryProcessEnds.  Whether the    *)
(* owner's next step comes is a question of fairness and stays with TLC.   *)

\* The mutex is held by the process between mdb_txn_begin and the end of its
\* write transaction, and by nobody else: two writers exclude each other, and
\* whoever finds the mutex taken waits for a live process that waits for
\* nothing (vdb_lmdb.c:157-183, 209-242).
MutexOwner ==
    /\ \A r \in Run : pc[r] = "commit" <=> writer = r
    /\ \A j \in Jobs : jobpc[j] = "sweep" <=> writer = j

\* Only the end of the owner's transaction changes the database, so a sweep
\* and a store see nobody's changes but their own from begin to commit; and
\* the mutex passes from one owner to the next only by way of being free.
OneTransaction ==
    /\ db' # db => writer # NoRun /\ writer' = NoRun
    /\ writer' # writer => writer = NoRun \/ writer' = NoRun

LEMMA InitOwner == Init => MutexOwner
  BY ProcessAssumption, DeliveryAssumption DEF MutexOwner, Init, SimInit, JobInit

LEMMA RunOwner ==
    ASSUME TypeOK, MutexOwner, NEW r \in Run,
           \/ Start(r) /\ UNCHANGED <<lmdbVars, jobMainVars>>
           \/ RunStep(r)
           \/ RunFailure(r)
    PROVE  MutexOwner' /\ OneTransaction
<1> USE ProcessAssumption, DeliveryAssumption
    DEF MutexOwner, OneTransaction, TypeOK, SimTypeOK, lmdbVars, jobMainVars,
        Goto, LeaveWith, Abandon
<1>1. CASE (Start(r) \/ MainStep(r)) /\ UNCHANGED <<lmdbVars, jobMainVars>>
  BY <1>1 DEF Start, MainStep, Search, GroupSearch, VdbInit, ReadHeaders, CheckFrom,
         SendFail, Handoff, HandoffEmpty, ChildFail, Exit
<1>2. CASE RecentGet(r) \/ RecentCompare(r) \/ RecentError(r)
  BY <1>2 DEF RecentGet, ReadRecord, RecentCompare, Compare, RecentError, ReadFails
<1>3. CASE StoreTime(r) \/ StoreBeginError(r)
  BY <1>3 DEF StoreTime, TakeTime, StoreBeginError
<1>4. CASE StoreBegin(r)
  BY <1>4 DEF StoreBegin
<1>5. CASE StoreCommit(r)
  BY <1>5 DEF StoreCommit
<1>6. CASE StoreAbort(r)
  BY <1>6 DEF StoreAbort
<1>7. CASE LmdbAssert(r)
  BY <1>7 DEF LmdbAssert
<1>8. CASE KillRun(r)
  BY <1>8 DEF KillRun, Kill
<1> QED
  BY <1>1, <1>2, <1>3, <1>4, <1>5, <1>6, <1>7, <1>8 DEF RunStep, RunFailure

LEMMA JobOwner ==
    ASSUME TypeOK, MutexOwner, NEW j \in Jobs,
           \/ JobStart(j) /\ UNCHANGED <<simVars, lmdbVars>>
           \/ JobStep(j)
           \/ JobFailure(j)
    PROVE  MutexOwner' /\ OneTransaction
<1> USE ProcessAssumption, DeliveryAssumption
    DEF MutexOwner, OneTransaction, TypeOK, JobTypeOK, lmdbVars, simVars, JobGoto, JobEnds
<1>1. CASE (JobStart(j) \/ JobMainStep(j)) /\ UNCHANGED <<simVars, lmdbVars>>
  BY <1>1 DEF JobStart, JobMainStep, JobVdbInit, JobVluInit, JobExit
<1>2. CASE GcTime(j) \/ GcBeginError(j)
  BY <1>2 DEF GcTime, GcBeginError
<1>3. CASE GcBegin(j)
  BY <1>3 DEF GcBegin
<1>4. CASE GcSweep(j)
  BY <1>4 DEF GcSweep
<1>5. CASE JobAssert(j)
  BY <1>5 DEF JobAssert
<1>6. CASE KillJob(j)
  BY <1>6 DEF KillJob, JobKill
<1> QED
  BY <1>1, <1>2, <1>3, <1>4, <1>5, <1>6 DEF JobStep, JobFailure

LEMMA OwnerStep == TypeOK /\ MutexOwner /\ [Next]_vars => MutexOwner' /\ OneTransaction
<1> SUFFICES ASSUME TypeOK, MutexOwner, [Next]_vars PROVE MutexOwner' /\ OneTransaction
  OBVIOUS
<1>1. CASE PassTime /\ UNCHANGED <<lmdbVars, jobMainVars>>
  BY <1>1 DEF PassTime, lmdbVars, jobMainVars, MutexOwner, OneTransaction
<1>2. CASE UNCHANGED vars
  BY <1>2 DEF vars, MutexOwner, OneTransaction
<1> QED
  BY <1>1, <1>2, RunOwner, JobOwner DEF Next

\* The writer mutex has the one owner whose transaction is open, and none
\* when no transaction is: no error path, assertion or kill leaves it behind.
THEOREM MutexNeverLeftBehind == Spec => []MutexOwner
  BY InitOwner, OwnerStep, TypeCorrect, PTL DEF Spec

\* Write transactions are isolated from one another.
THEOREM TransactionsIsolated == Spec => [][OneTransaction]_vars
<1>1. TypeOK /\ MutexOwner /\ [Next]_vars => [OneTransaction]_vars
  BY OwnerStep
<1> QED
  BY <1>1, TypeCorrect, MutexNeverLeftBehind, PTL DEF Spec
=============================================================================
