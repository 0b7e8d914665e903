--------------------------- MODULE VdbRedis_proofs -------------------------
(***************************************************************************)
(* Proofs about simvacation over Redis, for any deliveries, attempts,      *)
(* keys, intervals and retention: the types, how long records live, and    *)
(* that the runs implement ReplyLedger for as much of each interval as the *)
(* retention covers.                                                       *)
(***************************************************************************)
EXTENDS VdbRedis, Simvacation_proofs, TLAPS

----------------------------------------------------------------------------
(* Types.                                                                  *)

LEMMA InitType == Init => TypeOK
  BY DEF Init, SimInit, TypeOK, SimTypeOK, Pcs, FrontPcs, Results

LEMMA MyRecordType == ASSUME TypeOK, NEW r \in Run PROVE MyRecord(r) \in Record
  BY DEF MyRecord, Record, TypeOK, SimTypeOK

LEMMA CommandType ==
    ASSUME TypeOK, NEW r \in Run, ServerDel(r) \/ ServerSet(r) \/ ServerExpire(r)
    PROVE  /\ db' \in [Keys -> Record \union {NoRecord}]
           /\ ttl' \in [Keys -> Nat \union {NoExpiry}]
           /\ count' \in Nat /\ rank' \in [Run -> Nat] /\ erank' \in [Run -> Nat]
           /\ UNCHANGED <<look, blind>>
<1> USE RunKeyType, RetentionAssumption, MyRecordType DEF TypeOK, SimTypeOK
<1>1. CASE ServerDel(r)
  BY <1>1 DEF ServerDel
<1>2. CASE ServerSet(r)
  BY <1>2 DEF ServerSet
<1>3. CASE ServerExpire(r)
  BY <1>3 DEF ServerExpire, historyVars
<1> QED
  BY <1>1, <1>2, <1>3

LEMMA RunType ==
    ASSUME TypeOK, NEW r \in Run, RunStep(r) \/ LateCommand(r)
    PROVE  TypeOK'
<1> USE RunKeyType DEF TypeOK, redisVars, serverVars, Commands
<1>1. CASE (Start(r) \/ MainStep(r)) /\ UNCHANGED redisVars
  BY <1>1, MainType
<1>2. CASE KillRun(r)
  <2>1. SimTypeOK'
    BY <1>2, MainType DEF KillRun
  <2> QED
    BY <1>2, <2>1 DEF KillRun
<1> USE DEF SimTypeOK, Goto, Pcs, FrontPcs, BackendPcs, vdbCallVars, historyVars, mainVars
<1>3. CASE RecentGet(r)
  BY <1>3 DEF RecentGet, ReadRecord
<1>4. CASE RecentError(r)
  BY <1>4 DEF RecentError, ReadFails
<1>5. CASE RecentCompare(r)
  BY <1>5 DEF RecentCompare, Compare
<1>6. CASE RecentDel(r)
  BY <1>6, CommandType DEF RecentDel
<1>7. CASE StoreTime(r)
  BY <1>7 DEF StoreTime, TakeTime
<1>8. CASE StoreSet(r)
  BY <1>8, CommandType DEF StoreSet
<1>9. CASE StoreExpire(r)
  BY <1>9, CommandType DEF StoreExpire
<1>10. CASE RecentDelError(r) \/ StoreSetError(r) \/ StoreExpireError(r)
  BY <1>10 DEF RecentDelError, StoreSetError, StoreExpireError
<1>11. CASE LateCommand(r)
  BY <1>11, CommandType DEF LateCommand
<1> QED
  BY <1>1, <1>2, <1>3, <1>4, <1>5, <1>6, <1>7, <1>8, <1>9, <1>10, <1>11 DEF RunStep

LEMMA TypeStep == TypeOK /\ [Next]_vars => TypeOK'
<1> SUFFICES ASSUME TypeOK, [Next]_vars PROVE TypeOK'
  OBVIOUS
<1>1. CASE SecondEnds
  BY <1>1 DEF SecondEnds, PassTime, mainVars, vdbCallVars, historyVars, redisVars,
              TypeOK, SimTypeOK
<1>2. ASSUME NEW k \in Keys, ServerExpires(k) PROVE TypeOK'
  BY <1>2 DEF ServerExpires, simVars, TypeOK, SimTypeOK
<1>3. CASE UNCHANGED vars
  BY <1>3 DEF vars, TypeOK, SimTypeOK
<1> QED
  BY <1>1, <1>2, <1>3, RunType DEF Next

\* Every variable of the runs over Redis keeps its type.
THEOREM TypeCorrect == Spec => []TypeOK
  BY InitType, TypeStep, PTL DEF Spec

----------------------------------------------------------------------------
(* The invariant: a record says when its writer took the time, and the     *)
(* writer is past the step that could take another; nobody compares or     *)
(* erases for a record that was not found; only the dead have commands     *)
(* left on the wire; no time was taken that has not come yet.              *)

Stored == {"expire", "send", "exiting", "done"}

Authentic(rec) == rec.stamp = stamp[rec.by] /\ pc[rec.by] \in Stored

AllAuthentic ==
    /\ \A k \in Keys : db[k] # NoRecord => Authentic(db[k])
    /\ \A r \in Run : last[r] # NoRecord => Authentic(last[r])

Positions ==
    \A r \in Run :
        /\ pc[r] \notin {"begin", "commit"}
        /\ wire[r] # "none" => pc[r] = "done"
        /\ Standing(r) \in {"decide", "drop"} => last[r] # NoRecord
        /\ Standing(r) \in FrontPcs \union {"recent", "decide", "drop"} => erank[r] = 0

Past == \A r \in Run : stamp[r] <= now

Inv == TypeOK /\ AllAuthentic /\ Positions /\ Past /\ RecordsKeepTheirRetention

LEMMA InitInv == Init => Inv
  BY InitType DEF Inv, Init, SimInit, AllAuthentic, Positions, Past,
     RecordsKeepTheirRetention, Standing

\* Nothing but StoreTime changes a stamp, nothing but SecondEnds the clock.
LEMMA TimesStep ==
    ASSUME TypeOK, [Next]_vars
    PROVE  /\ now' = now \/ now' = now + 1
           /\ stamp' = stamp \/ \E r \in Run : StoreTime(r)
<1>1. ASSUME NEW r \in Run, RunStep(r) \/ LateCommand(r)
      PROVE  now' = now /\ (stamp' = stamp \/ StoreTime(r))
  <2>1. CASE Start(r) \/ MainStep(r) \/ Kill(r)
    BY <2>1, MainEffect DEF TypeOK
  <2>2. CASE ~(Start(r) \/ MainStep(r) \/ Kill(r))
    BY <1>1, <2>2 DEF RunStep, KillRun, LateCommand, RecentGet, ReadRecord, RecentError,
       ReadFails, RecentCompare, Compare, RecentDel, RecentDelError, StoreTime, TakeTime,
       StoreSet, StoreSetError, StoreExpire, StoreExpireError, vdbCallVars
  <2> QED
    BY <2>1, <2>2
<1>2. CASE SecondEnds
  BY <1>2 DEF SecondEnds, PassTime, vdbCallVars
<1>3. ASSUME NEW k \in Keys, ServerExpires(k) PROVE UNCHANGED <<now, stamp>>
  BY <1>3 DEF ServerExpires, simVars
<1> QED
  BY <1>1, <1>2, <1>3 DEF Next, vars

LEMMA PastStep == TypeOK /\ Past /\ [Next]_vars => Past'
<1> SUFFICES ASSUME TypeOK, Past, [Next]_vars PROVE Past'
  OBVIOUS
<1> USE DEF Past, TypeOK, SimTypeOK
<1>1. ASSUME NEW r \in Run, StoreTime(r) PROVE Past'
  BY <1>1 DEF StoreTime, TakeTime
<1>2. CASE stamp' = stamp
  BY <1>2, TimesStep
<1> QED
  BY <1>1, <1>2, TimesStep

\* Where a run's own step, or its late command, leads.
LEMMA RunGoes ==
    ASSUME TypeOK, NEW r \in Run, RunStep(r) \/ LateCommand(r)
    PROVE  /\ \A q \in Run : q # r => pc'[q] = pc[q]
           /\ pc[r] \in Stored => pc'[r] \in Stored /\ ~StoreTime(r)
<1> USE DEF TypeOK, SimTypeOK, Stored, Goto
<1>1. CASE Start(r) \/ MainStep(r) \/ Kill(r)
  <2>1. Goto(r, pc'[r]) /\ UNCHANGED stamp
    BY <1>1, MainEffect
  <2>2. pc[r] \in Stored => pc'[r] \in {"exiting", "done"}
    BY <1>1, MainGoes DEF BackendPcs
  <2>3. pc[r] = "stamp" => ~StoreTime(r)
    BY <1>1, MainGoes DEF BackendPcs, StoreTime, TakeTime, FrontPcs
  <2> QED
    BY <2>1, <2>2, <2>3 DEF StoreTime, TakeTime
<1>2. CASE ~(Start(r) \/ MainStep(r) \/ Kill(r))
  BY <1>2 DEF RunStep, KillRun, LateCommand, RecentGet, ReadRecord, RecentError,
     ReadFails, RecentCompare, Compare, RecentDel, RecentDelError, StoreTime, TakeTime,
     StoreSet, StoreSetError, StoreExpire, StoreExpireError
<1> QED
  BY <1>1, <1>2

LEMMA StampFixed ==
    ASSUME TypeOK, [Next]_vars, NEW r \in Run, pc[r] \in Stored
    PROVE  stamp'[r] = stamp[r] /\ pc'[r] \in Stored
<1>1. ASSUME NEW q \in Run, RunStep(q) \/ LateCommand(q)
      PROVE  pc'[r] \in Stored
  BY <1>1, RunGoes
<1>2. ASSUME NEW q \in Run, StoreTime(q) PROVE stamp'[r] = stamp[r]
  <2>1. q # r
    BY <1>2 DEF StoreTime, TakeTime, Stored
  <2> QED
    BY <1>2, <2>1 DEF StoreTime, TakeTime, TypeOK, SimTypeOK
<1>3. SecondEnds \/ (\E k \in Keys : ServerExpires(k)) \/ UNCHANGED vars => pc' = pc
  BY DEF SecondEnds, PassTime, ServerExpires, simVars, vars
<1> QED
  BY <1>1, <1>2, <1>3, TimesStep DEF Next

LEMMA PositionsStep == Inv /\ [Next]_vars => Positions'
<1> SUFFICES ASSUME Inv, [Next]_vars PROVE Positions'
  OBVIOUS
<1> USE DEF Inv, TypeOK, SimTypeOK, Positions, Standing
<1>1. ASSUME NEW r \in Run, Start(r) \/ MainStep(r), UNCHANGED redisVars PROVE Positions'
  <2>1. Goto(r, pc'[r]) /\ UNCHANGED <<last, erank>> /\ pc[r] # "done"
    BY <1>1, MainEffect, MainGoes
  <2>2. /\ pc'[r] \in FrontPcs \union {"recent", "exiting", "done"}
        /\ pc[r] \in {"exiting", "send"} \union BackendPcs => pc'[r] \in {"exiting", "done"}
    BY <1>1, MainGoes DEF FrontPcs
  <2>3. pc'[r] \in FrontPcs \union {"recent"} => pc[r] \in FrontPcs
    BY <2>1, <2>2 DEF Pcs, FrontPcs, BackendPcs
  <2>4. wire' = wire /\ wire[r] = "none"
    BY <1>1, <2>1 DEF redisVars
  <2>5. pc'[r] \notin {"begin", "commit", "decide", "drop"}
    BY <2>2 DEF FrontPcs
  <2>6. pc'[r] \in FrontPcs \union {"recent"} => erank'[r] = 0
    BY <2>1, <2>3, <2>4
  <2> SUFFICES ASSUME NEW q \in Run
               PROVE  /\ pc'[q] \notin {"begin", "commit"}
                      /\ wire'[q] # "none" => pc'[q] = "done"
                      /\ Standing(q)' \in {"decide", "drop"} => last'[q] # NoRecord
                      /\ Standing(q)' \in FrontPcs \union {"recent", "decide", "drop"}
                         => erank'[q] = 0
    OBVIOUS
  <2>7. CASE q = r
    BY <2>4, <2>5, <2>6, <2>7
  <2>8. CASE q # r
    BY <2>1, <2>4, <2>8 DEF Goto
  <2> QED
    BY <2>7, <2>8
<1>2. ASSUME NEW r \in Run, KillRun(r) PROVE Positions'
  BY <1>2 DEF KillRun, Kill, Goto, Abandon, historyVars, vdbCallVars, Commands, FrontPcs, BackendPcs
<1>3. ASSUME NEW r \in Run, RecentGet(r) PROVE Positions'
  BY <1>3 DEF RecentGet, ReadRecord, Goto, redisVars, FrontPcs, BackendPcs
<1>4. ASSUME NEW r \in Run, RecentError(r) \/ RecentCompare(r) PROVE Positions'
  BY <1>4 DEF RecentError, ReadFails, RecentCompare, Compare, Goto, redisVars, historyVars,
     FrontPcs
<1>5. ASSUME NEW r \in Run, RecentDel(r) \/ RecentDelError(r) PROVE Positions'
  BY <1>5 DEF RecentDel, ServerDel, RecentDelError, Goto, redisVars, historyVars,
     vdbCallVars, FrontPcs
<1>6. ASSUME NEW r \in Run,
             \/ StoreTime(r) \/ StoreSet(r) \/ StoreSetError(r)
             \/ StoreExpire(r) \/ StoreExpireError(r)
      PROVE  Positions'
  BY <1>6 DEF StoreTime, TakeTime, StoreSet, ServerSet, StoreSetError, StoreExpire,
     ServerExpire, StoreExpireError, Goto, redisVars, historyVars, vdbCallVars, FrontPcs
<1>7. ASSUME NEW r \in Run, LateCommand(r) PROVE Positions'
  BY <1>7 DEF LateCommand, ServerDel, ServerSet, ServerExpire, historyVars, vdbCallVars, FrontPcs
<1>8. SecondEnds \/ (\E k \in Keys : ServerExpires(k)) \/ UNCHANGED vars
      => UNCHANGED <<pc, wire, last, erank>>
  BY DEF SecondEnds, PassTime, ServerExpires, simVars, vars, redisVars, vdbCallVars, historyVars
<1>9. UNCHANGED <<pc, wire, last, erank>> => Positions'
  OBVIOUS
<1> QED
  BY <1>1, <1>2, <1>3, <1>4, <1>5, <1>6, <1>7, <1>8, <1>9 DEF Next, RunStep

\* Where records come from.
Sets(r) == ServerSet(r) /\ pc[r] \in {"set", "done"} /\ pc'[r] \in Stored /\ UNCHANGED stamp

LEMMA RecordSources ==
    ASSUME Inv, [Next]_vars
    PROVE  /\ \A k \in Keys :
                \/ db'[k] = db[k]
                \/ db'[k] = NoRecord
                \/ \E r \in Run : Sets(r) /\ db'[k] = MyRecord(r)
           /\ \A r \in Run : last'[r] = last[r] \/ \E k \in Keys : last'[r] = db[k]
<1> USE RunKeyType DEF Inv, TypeOK, SimTypeOK
<1>1. ASSUME NEW q \in Run, RecentGet(q)
      PROVE  db' = db /\ \A r \in Run : last'[r] = last[r] \/ last'[r] = db[RunKey[q]]
  BY <1>1 DEF RecentGet, ReadRecord, redisVars
<1>2. ASSUME NEW q \in Run, ServerSet(q), StoreSet(q) \/ LateCommand(q)
      PROVE  last' = last /\ Sets(q) /\ \A k \in Keys : db'[k] = db[k] \/ db'[k] = MyRecord(q)
  <2>1. Sets(q) /\ last' = last
    BY <1>2 DEF StoreSet, LateCommand, ServerSet, ServerDel, ServerExpire, Sets, Stored,
       Positions, Goto, vdbCallVars, historyVars
  <2> QED
    BY <1>2, <2>1 DEF ServerSet
<1>3. ASSUME NEW q \in Run, ServerDel(q), RecentDel(q) \/ LateCommand(q)
      PROVE  last' = last /\ \A k \in Keys : db'[k] = db[k] \/ db'[k] = NoRecord
  BY <1>3 DEF RecentDel, LateCommand, ServerDel, vdbCallVars
<1>4. ASSUME NEW q \in Run, ServerExpire(q), StoreExpire(q) \/ LateCommand(q)
      PROVE  last' = last /\ db' = db
  BY <1>4 DEF StoreExpire, LateCommand, ServerExpire, vdbCallVars
<1>5. ASSUME NEW q \in Run, Start(q) \/ MainStep(q) \/ Kill(q), UNCHANGED serverVars
      PROVE  db' = db /\ last' = last
  BY <1>5, MainEffect DEF serverVars
<1>6. ASSUME NEW q \in Run,
             \/ RecentError(q) \/ RecentCompare(q) \/ RecentDelError(q) \/ StoreTime(q)
             \/ StoreSetError(q) \/ StoreExpireError(q)
      PROVE  db' = db /\ last' = last
  BY <1>6 DEF RecentError, ReadFails, RecentCompare, Compare, RecentDelError, StoreTime,
     TakeTime, StoreSetError, StoreExpireError, vdbCallVars, redisVars
<1>7. ASSUME NEW k \in Keys, ServerExpires(k)
      PROVE  last' = last /\ \A h \in Keys : db'[h] = db[h] \/ db'[h] = NoRecord
  BY <1>7 DEF ServerExpires, simVars
<1>8. SecondEnds \/ UNCHANGED vars => db' = db /\ last' = last
  BY DEF SecondEnds, PassTime, redisVars, vdbCallVars, vars
<1>9. ASSUME NEW q \in Run, RunStep(q) \/ LateCommand(q)
      PROVE  /\ \A k \in Keys : \/ db'[k] = db[k] \/ db'[k] = NoRecord
                                \/ Sets(q) /\ db'[k] = MyRecord(q)
             /\ \A r \in Run : last'[r] = last[r] \/ \E k \in Keys : last'[r] = db[k]
  BY <1>1, <1>2, <1>3, <1>4, <1>5, <1>6, <1>9
     DEF RunStep, LateCommand, KillRun, StoreSet, StoreExpire, RecentDel, redisVars, serverVars
<1> QED
  BY <1>7, <1>8, <1>9 DEF Next

LEMMA AuthenticStep == Inv /\ [Next]_vars => AllAuthentic'
<1> SUFFICES ASSUME Inv, [Next]_vars PROVE AllAuthentic'
  OBVIOUS
<1>1. ASSUME NEW rec \in Record, Authentic(rec) PROVE Authentic(rec)'
  BY <1>1, StampFixed DEF Inv, Authentic, Record
<1>2. ASSUME NEW k \in Keys, db'[k] # NoRecord PROVE Authentic(db[k])'
  <2>1. CASE db'[k] = db[k]
    BY <1>1, <1>2, <2>1 DEF Inv, AllAuthentic, TypeOK, Authentic
  <2>2. ASSUME NEW r \in Run, Sets(r), db'[k] = MyRecord(r)
        PROVE  Authentic(db[k])'
    BY <2>2 DEF Authentic, MyRecord, Sets
  <2> QED
    BY <1>2, <2>1, <2>2, RecordSources
<1>3. ASSUME NEW r \in Run, last'[r] # NoRecord PROVE Authentic(last[r])'
  <2>1. CASE last'[r] = last[r]
    BY <1>1, <1>3, <2>1 DEF Inv, AllAuthentic, TypeOK, SimTypeOK, Authentic
  <2>2. ASSUME NEW k \in Keys, last'[r] = db[k] PROVE Authentic(last[r])'
    BY <1>1, <1>3, <2>2 DEF Inv, AllAuthentic, TypeOK, Authentic
  <2> QED
    BY <2>1, <2>2, RecordSources
<1> QED
  BY <1>2, <1>3 DEF AllAuthentic

----------------------------------------------------------------------------
(* No record goes before its retention is over.                            *)

\* A record's time has come.
LEMMA RecordPast == ASSUME Inv, NEW k \in Keys, db[k] # NoRecord PROVE db[k].stamp <= now
  BY DEF Inv, AllAuthentic, Authentic, Past, TypeOK, Record

LEMMA CommandRetention ==
    ASSUME Inv, NEW r \in Run, ServerDel(r) \/ ServerSet(r) \/ ServerExpire(r)
    PROVE  RecordsKeepTheirRetention'
<1> USE RunKeyType DEF RecordsKeepTheirRetention, Inv, TypeOK
<1>1. CASE ServerDel(r)
  BY <1>1 DEF ServerDel
<1>2. CASE ServerSet(r)
  BY <1>2 DEF ServerSet
<1>3. CASE ServerExpire(r)
  <2> SUFFICES ASSUME NEW k \in Keys, db'[k] # NoRecord, ttl'[k] # NoExpiry
               PROVE  ttl'[k] >= db'[k].stamp + Retention
    OBVIOUS
  <2>1. CASE ttl'[k] = ttl[k]
    BY <1>3, <2>1 DEF ServerExpire
  <2>2. CASE ttl'[k] = now + Retention
    <3>1. db'[k] = db[k] /\ db[k] \in Record
      BY <1>3 DEF ServerExpire
    <3> QED
      BY <2>2, <3>1, RecordPast, RetentionAssumption DEF Record, SimTypeOK
  <2> QED
    BY <1>3, <2>1, <2>2 DEF ServerExpire
<1> QED
  BY <1>1, <1>2, <1>3

LEMMA RetentionStep == Inv /\ [Next]_vars => RecordsKeepTheirRetention'
<1> SUFFICES ASSUME Inv, [Next]_vars PROVE RecordsKeepTheirRetention'
  OBVIOUS
<1>1. UNCHANGED serverVars => RecordsKeepTheirRetention'
  BY DEF Inv, RecordsKeepTheirRetention, serverVars
<1>2. ASSUME NEW r \in Run, RunStep(r) \/ LateCommand(r)
      PROVE  UNCHANGED serverVars \/ ServerDel(r) \/ ServerSet(r) \/ ServerExpire(r)
  BY <1>2 DEF RunStep, LateCommand, KillRun, RecentGet, RecentError, RecentCompare,
     RecentDel, RecentDelError, StoreTime, StoreSet, StoreSetError, StoreExpire,
     StoreExpireError, redisVars, serverVars
<1>3. ASSUME NEW k \in Keys, ServerExpires(k) PROVE RecordsKeepTheirRetention'
  BY <1>3 DEF ServerExpires, Inv, RecordsKeepTheirRetention, TypeOK
<1>4. SecondEnds \/ UNCHANGED vars => UNCHANGED serverVars
  BY DEF SecondEnds, redisVars, serverVars, vars
<1> QED
  BY <1>1, <1>2, <1>3, <1>4, CommandRetention DEF Next

LEMMA Inductive == Spec => []Inv
<1>1. Inv /\ [Next]_vars => Inv'
  BY TypeStep, PositionsStep, AuthenticStep, PastStep, RetentionStep DEF Inv
<1> QED
  BY InitInv, <1>1, PTL DEF Spec

\* A record never goes before its own retention is over.
THEOREM RetentionHolds == Spec => []RecordsKeepTheirRetention
<1>1. Inv => RecordsKeepTheirRetention
  BY DEF Inv
<1> QED
  BY Inductive, <1>1, PTL

----------------------------------------------------------------------------
(* Refinement.                                                             *)

\* The ledger's variables, as this module's state shows them.
Phase == [r \in Run |-> PhaseOf(Standing(r))]
Holder == [k \in Keys |-> Writer(db[k])]
Intervals == [r \in Run |-> KeptInterval(r)]
Found == [r \in Run |-> Writer(last[r])]
LedgerInterval == Shorter(LongestInterval, Retention)

LEMMA PhaseValues ==
    /\ PhaseOf("decide") = "looked"
    /\ PhaseOf("stamp") = "cleared" /\ PhaseOf("drop") = "cleared"
    /\ PhaseOf("set") = "stamped"
    /\ PhaseOf("expire") = "recorded" /\ PhaseOf("send") = "recorded"
  BY DEF PhaseOf, FrontPcs

LEMMA KeptBound ==
    LedgerInterval \in Nat /\ \A r \in Run : KeptInterval(r) \in 0..LedgerInterval
  BY IntervalBound, RetentionAssumption DEF LedgerInterval, KeptInterval, Shorter

LEMMA AtCall ==
    ASSUME Inv, NEW r \in Run, pc[r] # "done"
    PROVE  wire[r] = "none" /\ Phase[r] = PhaseOf(pc[r])
  BY DEF Inv, Positions, Phase, Standing

LEMMA PhaseGoto ==
    ASSUME TypeOK, NEW r \in Run, NEW c, Goto(r, c), wire[r] = "none", wire' = wire
    PROVE  Phase' = [Phase EXCEPT ![r] = PhaseOf(c)]
  BY DEF Phase, Standing, Goto, TypeOK, SimTypeOK

LEMMA PhaseLate ==
    ASSUME TypeOK, NEW r \in Run, NEW c \in {"stamp", "send"}, pc' = pc,
           wire' = [wire EXCEPT ![r] = c]
    PROVE  Phase' = [Phase EXCEPT ![r] = PhaseOf(c)]
  BY DEF Phase, Standing, TypeOK, SimTypeOK

LEMMA PhaseKept == ASSUME NEW r \in Run PROVE Phase = [Phase EXCEPT ![r] = Phase[r]]
  BY DEF Phase

LEMMA InitRefines == Init => Ledger!Init
<1> SUFFICES ASSUME Init PROVE Ledger!Init
  OBVIOUS
<1> USE DEF Init, SimInit
<1>1. Phase = [r \in Run |-> "open"]
  BY MainPhases DEF Phase, FrontPcs, Standing
<1>2. Holder = [k \in Keys |-> NoRun] /\ Found = [r \in Run |-> NoRun]
  BY DEF Holder, Found, Writer
<1>3. Intervals \in [Run -> 0..LedgerInterval]
  BY KeptBound DEF Intervals
<1> QED
  BY <1>1, <1>2, <1>3 DEF Ledger!Init, Phase, Holder, Found, Intervals, LedgerInterval

\* A run that leaves the database alone admits, closes, replies, or stutters.
LEMMA MainRefines ==
    ASSUME Inv, NEW r \in Run, Start(r) \/ MainStep(r) \/ Kill(r), UNCHANGED <<db, wire>>
    PROVE  \/ Ledger!Admit(r) \/ Ledger!Close(r) \/ Ledger!Reply(r)
           \/ UNCHANGED Ledger!vars
<1>1. UNCHANGED <<now, chk, stamp, count, look, blind, rank, erank, Holder, Found>>
  BY MainEffect DEF Inv, TypeOK, Holder, Found
<1> DEFINE c == pc'[r]
<1>2. Goto(r, c) /\ MainKind(r, c) /\ pc[r] # "done"
  BY MainEffect, MainGoes DEF Inv, TypeOK
<1> HIDE DEF c
<1>3. Phase' = [Phase EXCEPT ![r] = PhaseOf(c)] /\ Phase[r] = PhaseOf(pc[r])
  BY <1>2, PhaseGoto, AtCall DEF Inv
<1>4. CASE PhaseOf(c) = PhaseOf(pc[r]) /\ UNCHANGED <<group, mailed>>
  <2>1. Phase' = Phase
    BY <1>3, <1>4, PhaseKept
  <2> QED
    BY <1>1, <1>4, <2>1 DEF Ledger!vars, Phase, Holder, Found, Interval, KeptInterval
<1>5. CASE /\ PhaseOf(pc[r]) = "open" /\ PhaseOf(c) = "open"
           /\ group' = [group EXCEPT ![r] = TRUE] /\ UNCHANGED mailed
  <2> DEFINE i == Shorter(GroupInterval, Retention)
  <2>1. i \in 0..LedgerInterval
    BY TimeAssumption, RetentionAssumption DEF LedgerInterval, LongestInterval, Shorter
  <2>2. Intervals' = [Intervals EXCEPT ![r] = i]
    BY <1>5 DEF Intervals, KeptInterval, Interval, Inv, TypeOK, SimTypeOK
  <2>3. Phase' = Phase
    BY <1>3, <1>5, PhaseKept
  <2> HIDE DEF i
  <2> QED
    BY <1>1, <1>3, <1>5, <2>1, <2>2, <2>3 DEF Ledger!Admit, Ledger!clockVars,
       Ledger!historyVars, Phase, Holder, Found, Intervals, LedgerInterval
<1>6. CASE /\ PhaseOf(pc[r]) # "closed" /\ PhaseOf(c) = "closed"
           /\ UNCHANGED <<group, mailed>>
  BY <1>1, <1>3, <1>6 DEF Ledger!Close, Ledger!clockVars, Ledger!historyVars,
     Phase, Holder, Found, Interval, KeptInterval
<1>7. CASE /\ PhaseOf(pc[r]) = "recorded" /\ PhaseOf(c) = "closed"
           /\ UNCHANGED group /\ mailed' = [mailed EXCEPT ![r] = TRUE]
  BY <1>1, <1>3, <1>7 DEF Ledger!Reply, Ledger!clockVars, Ledger!historyVars,
     Phase, Holder, Found, Interval, KeptInterval
<1> QED
  BY <1>2, <1>4, <1>5, <1>6, <1>7 DEF MainKind

\* A run killed with a command on the wire does not close yet.
LEMMA KillRefines ==
    ASSUME Inv, NEW r \in Run, KillRun(r), wire' # wire
    PROVE  UNCHANGED Ledger!vars
<1>1. pc[r] \in Commands /\ wire' = [wire EXCEPT ![r] = pc[r]] /\ Goto(r, "done")
  BY DEF KillRun, Kill, Abandon
<1>2. UNCHANGED <<now, group, mailed, last, chk, stamp, count, look, blind, rank, erank, db>>
  BY <1>1 DEF KillRun, Kill, vdbCallVars, historyVars, serverVars, Commands
<1>3. Standing(r)' = pc[r] /\ Standing(r) = pc[r]
  BY <1>1 DEF Standing, Inv, Positions, TypeOK, SimTypeOK, Commands
<1>4. \A q \in Run : q # r => Standing(q)' = Standing(q)
  BY <1>1 DEF Standing, Inv, TypeOK, SimTypeOK, Goto
<1>5. Phase' = Phase
  BY <1>3, <1>4 DEF Phase
<1> QED
  BY <1>2, <1>5 DEF Ledger!vars, Phase, Interval, KeptInterval

\* A command, executed in time or late.
LEMMA CommandRefines ==
    ASSUME Inv, NEW r \in Run, UNCHANGED <<now, mainVars, vdbCallVars>>
    PROVE  /\ ServerDel(r) /\ Standing(r) = "drop" /\ Phase' = [Phase EXCEPT ![r] = "cleared"]
              => Ledger!Erase(r)
           /\ ServerSet(r) /\ Standing(r) = "set" /\ Phase' = [Phase EXCEPT ![r] = "recorded"]
              => Ledger!Record(r)
           /\ ServerExpire(r) /\ Phase' = Phase => UNCHANGED Ledger!vars
<1> USE RunKeyType, PhaseValues
    DEF Ledger!clockVars, Ledger!runVars, mainVars, vdbCallVars
<1>1. Intervals' = Intervals /\ Found' = Found
  BY DEF Intervals, KeptInterval, Interval, Found
<1>2. ASSUME ServerDel(r), Standing(r) = "drop", Phase' = [Phase EXCEPT ![r] = "cleared"]
      PROVE  Ledger!Erase(r)
  <2>0. Phase[r] = "cleared"
    BY <1>2 DEF Phase
  <2>1. Phase[r] = "cleared" /\ Phase' = Phase
    BY <1>2, <2>0, PhaseKept
  <2>2. Found[r] # NoRun /\ erank[r] = 0
    BY <1>2, DeliveryAssumption DEF Found, Writer, Inv, Positions, TypeOK, SimTypeOK, Record
  <2>3. Holder' = [Holder EXCEPT ![RunKey[r]] = NoRun]
    BY <1>2 DEF ServerDel, Holder, Writer, Inv, TypeOK
  <2> QED
    BY <1>1, <1>2, <2>1, <2>2, <2>3 DEF ServerDel, Ledger!Erase, Phase, Holder, Intervals, Found
<1>3. ASSUME ServerSet(r), Standing(r) = "set", Phase' = [Phase EXCEPT ![r] = "recorded"]
      PROVE  Ledger!Record(r)
  <2>1. Phase[r] = "stamped"
    BY <1>3 DEF Phase
  <2>2. Writer(MyRecord(r)) = r
    BY MyRecordType, DeliveryAssumption DEF Writer, MyRecord, Inv
  <2>3. Holder' = [Holder EXCEPT ![RunKey[r]] = r]
    BY <1>3, <2>2 DEF ServerSet, Holder, Inv, TypeOK
  <2> QED
    BY <1>1, <1>3, <2>1, <2>3 DEF ServerSet, Ledger!Record, Phase, Holder, Intervals, Found
<1>4. ASSUME ServerExpire(r), Phase' = Phase PROVE UNCHANGED Ledger!vars
  BY <1>1, <1>4 DEF ServerExpire, historyVars, Ledger!vars, Phase, Holder, Intervals, Found
<1> QED
  BY <1>2, <1>3, <1>4

\* The calls of the database, one by one.
LEMMA CallRefines ==
    ASSUME Inv, NEW r \in Run,
           \/ RecentGet(r) \/ RecentError(r) \/ RecentCompare(r) \/ RecentDel(r)
           \/ RecentDelError(r) \/ StoreTime(r) \/ StoreSet(r) \/ StoreSetError(r)
           \/ StoreExpire(r) \/ StoreExpireError(r) \/ LateCommand(r)
    PROVE  \/ Ledger!Look(r) \/ Ledger!LookBlind(r) \/ Ledger!Decide(r) \/ Ledger!Erase(r)
           \/ Ledger!Stamp(r) \/ Ledger!Record(r) \/ Ledger!RecordLost(r)
           \/ UNCHANGED Ledger!vars
<1> USE RunKeyType, PhaseValues, MainPhases
    DEF Ledger!clockVars, Ledger!historyVars, mainVars, vdbCallVars
<1>1. group' = group => Intervals' = Intervals
  BY DEF Intervals, KeptInterval, Interval
<1>2. db' = db => Holder' = Holder
  BY DEF Holder
<1>3. last' = last => Found' = Found
  BY DEF Found
<1>4. CASE RecentGet(r)
  <2>1. RunKey[r] \in Keys /\ Holder[RunKey[r]] = Writer(db[RunKey[r]])
    BY DEF Holder
  <2>2. Found' = [Found EXCEPT ![r] = Holder[RunKey[r]]]
    BY <1>4, <2>1 DEF RecentGet, ReadRecord, Found, Inv, TypeOK, SimTypeOK
  <2>3. db[RunKey[r]] = NoRecord <=> Holder[RunKey[r]] = NoRun
    BY <2>1, DeliveryAssumption DEF Writer, Inv, TypeOK, Record
  <2>4. Phase[r] = "open" /\ Phase' = [Phase EXCEPT ![r] =
                    IF Holder[RunKey[r]] = NoRun THEN "cleared" ELSE "looked"]
    BY <1>4, <2>3, PhaseGoto, AtCall DEF RecentGet, ReadRecord, redisVars, Inv
  <2> QED
    BY <1>1, <1>2, <1>4, <2>2, <2>4 DEF RecentGet, ReadRecord, redisVars,
       Ledger!Look, Phase, Holder, Intervals, Found
<1>5. CASE RecentError(r)
  <2>1. Phase[r] = "open" /\ Phase' = [Phase EXCEPT ![r] = "cleared"]
    BY <1>5, PhaseGoto, AtCall DEF RecentError, ReadFails, redisVars, Inv
  <2> QED
    BY <1>1, <1>2, <1>3, <1>5, <2>1 DEF RecentError, ReadFails, redisVars,
       Ledger!LookBlind, Phase, Holder, Intervals, Found
<1>6. CASE RecentCompare(r)
  <2>1. last[r] # NoRecord /\ Authentic(last[r])
    BY <1>6 DEF RecentCompare, Inv, Positions, AllAuthentic, Standing
  <2>2. Found[r] = last[r].by /\ stamp[Found[r]] = last[r].stamp /\ Intervals[r] = KeptInterval(r)
    BY <2>1 DEF Found, Writer, Authentic, Intervals
  <2>3. Phase[r] = "looked" /\ Phase' = [Phase EXCEPT ![r] =
                    IF now < last[r].stamp + Interval(r) THEN "closed" ELSE "cleared"]
    BY <1>6, PhaseGoto, AtCall DEF RecentCompare, Compare, redisVars, Inv
  <2>4. ~(now < last[r].stamp + Interval(r)) => now >= stamp[Found[r]] + Intervals[r]
    BY <2>1, <2>2, IntervalBound, RetentionAssumption
       DEF KeptInterval, Shorter, Inv, TypeOK, SimTypeOK, Record
  <2> QED
    BY <1>1, <1>2, <1>3, <1>6, <2>3, <2>4 DEF RecentCompare, Compare, historyVars, redisVars,
       Ledger!Decide, Phase, Holder, Intervals, Found
<1>7. CASE StoreTime(r)
  <2>1. Phase[r] = "cleared" /\ Phase' = [Phase EXCEPT ![r] = "stamped"]
    BY <1>7, PhaseGoto, AtCall DEF StoreTime, TakeTime, redisVars, Inv
  <2> QED
    BY <1>1, <1>2, <1>3, <1>7, <2>1 DEF StoreTime, TakeTime, historyVars, redisVars,
       Ledger!Stamp, Phase, Holder, Intervals, Found
<1>8. CASE RecentDel(r)
  <2>1. Standing(r) = "drop" /\ Phase' = [Phase EXCEPT ![r] = "cleared"]
    BY <1>8, PhaseGoto, AtCall DEF RecentDel, Standing, Inv
  <2> QED
    BY <1>8, <2>1, CommandRefines DEF RecentDel
<1>9. CASE StoreSet(r)
  <2>1. Standing(r) = "set" /\ Phase' = [Phase EXCEPT ![r] = "recorded"]
    BY <1>9, PhaseGoto, AtCall DEF StoreSet, Standing, Inv
  <2> QED
    BY <1>9, <2>1, CommandRefines DEF StoreSet
<1>10. CASE StoreExpire(r)
  <2>1. Phase' = Phase
    BY <1>10, PhaseGoto, AtCall, PhaseKept DEF StoreExpire, Inv
  <2> QED
    BY <1>10, <2>1, CommandRefines DEF StoreExpire
<1>11. CASE LateCommand(r)
  <2>0. UNCHANGED <<now, mainVars, vdbCallVars>> /\ pc' = pc /\ TypeOK
    BY <1>11 DEF LateCommand, Inv
  <2>4. /\ ServerDel(r) /\ Standing(r) = "drop" /\ Phase' = [Phase EXCEPT ![r] = "cleared"]
           => Ledger!Erase(r)
        /\ ServerSet(r) /\ Standing(r) = "set" /\ Phase' = [Phase EXCEPT ![r] = "recorded"]
           => Ledger!Record(r)
        /\ ServerExpire(r) /\ Phase' = Phase => UNCHANGED Ledger!vars
    BY <2>0, CommandRefines
  <2>1. CASE ServerDel(r) /\ wire[r] = "drop" /\ wire' = [wire EXCEPT ![r] = "stamp"]
    <3>1. Standing(r) = "drop"
      BY <2>1 DEF Standing
    <3>2. Phase' = [Phase EXCEPT ![r] = PhaseOf("stamp")]
      BY <2>0, <2>1, PhaseLate
    <3> QED
      BY <2>1, <2>4, <3>1, <3>2
  <2>2. CASE ServerSet(r) /\ wire[r] = "set" /\ wire' = [wire EXCEPT ![r] = "send"]
    <3>1. Standing(r) = "set"
      BY <2>2 DEF Standing
    <3>2. Phase' = [Phase EXCEPT ![r] = PhaseOf("send")]
      BY <2>0, <2>2, PhaseLate
    <3> QED
      BY <2>2, <2>4, <3>1, <3>2
  <2>3. CASE ServerExpire(r) /\ wire[r] = "expire" /\ wire' = [wire EXCEPT ![r] = "send"]
    <3>1. Phase[r] = "recorded"
      BY <2>3 DEF Phase, Standing
    <3>2. Phase' = [Phase EXCEPT ![r] = PhaseOf("send")]
      BY <2>0, <2>3, PhaseLate
    <3> QED
      BY <2>3, <2>4, <3>1, <3>2, PhaseKept
  <2> QED
    BY <1>11, <2>1, <2>2, <2>3 DEF LateCommand
<1>12. CASE RecentDelError(r) \/ StoreExpireError(r)
  <2>1. Phase' = Phase
    BY <1>12, PhaseGoto, AtCall, PhaseKept DEF RecentDelError, StoreExpireError, redisVars, Inv
  <2> QED
    BY <1>1, <1>2, <1>3, <1>12, <2>1 DEF RecentDelError, StoreExpireError, historyVars,
       redisVars, Ledger!vars, Phase, Holder, Intervals, Found
<1>13. CASE StoreSetError(r)
  <2>1. Phase[r] = "stamped" /\ Phase' = [Phase EXCEPT ![r] = "recorded"]
    BY <1>13, PhaseGoto, AtCall DEF StoreSetError, redisVars, Inv
  <2> QED
    BY <1>1, <1>2, <1>3, <1>13, <2>1 DEF StoreSetError, historyVars, redisVars,
       Ledger!RecordLost, Phase, Holder, Intervals, Found
<1> QED
  BY <1>4, <1>5, <1>6, <1>7, <1>8, <1>9, <1>10, <1>11, <1>12, <1>13

\* A record the server drops is out of reach of every kept interval.
LEMMA ExpiryRefines ==
    ASSUME Inv, NEW k \in Keys, ServerExpires(k)
    PROVE  Ledger!Forget
<1>1. db[k] \in Record /\ db[k].stamp = stamp[db[k].by] /\ db[k].stamp + Retention <= now
  <2>1. db[k] \in Record /\ db[k].stamp = stamp[db[k].by] /\ ttl[k] \in Nat
    BY DEF ServerExpires, Due, Inv, AllAuthentic, Authentic, TypeOK
  <2>2. ttl[k] >= db[k].stamp + Retention /\ ttl[k] <= now
    BY DEF ServerExpires, Due, Inv, RecordsKeepTheirRetention
  <2> QED
    BY <2>1, <2>2, RetentionAssumption DEF Record, Inv, TypeOK, SimTypeOK
<1>2. Holder[k] = db[k].by /\ Holder[k] # NoRun
  BY <1>1, DeliveryAssumption DEF Holder, Writer, Record
<1>3. LedgerInterval <= Retention
  BY IntervalBound, RetentionAssumption DEF LedgerInterval, Shorter
<1>4. stamp[Holder[k]] + LedgerInterval <= now
  BY <1>1, <1>2, <1>3, KeptBound, RetentionAssumption DEF Record, Inv, TypeOK, SimTypeOK
<1>5. Holder' = [h \in Keys |-> IF h \in {k} THEN NoRun ELSE Holder[h]]
  BY DEF ServerExpires, Holder, Writer, Inv, TypeOK
<1>6. UNCHANGED <<now, Phase, Intervals, Found, chk, stamp, mailed, count, look, blind, rank, erank>>
  BY DEF ServerExpires, simVars, Phase, Standing, Intervals, KeptInterval, Interval, Found
<1>7. Ledger!Lapsed(k)
  BY <1>2, <1>4 DEF Ledger!Lapsed, Holder, LedgerInterval
<1> QED
  BY <1>5, <1>6, <1>7 DEF Ledger!Forget, Ledger!clockVars, Ledger!runVars, Ledger!historyVars,
     Phase, Holder, Intervals, Found

LEMMA StepRefines == Inv /\ [Next]_vars => [Ledger!Next]_(Ledger!vars)
<1> SUFFICES ASSUME Inv, [Next]_vars PROVE [Ledger!Next]_(Ledger!vars)
  OBVIOUS
<1>1. CASE SecondEnds
  <2>1. Ledger!Tick
    BY <1>1 DEF SecondEnds, PassTime, redisVars, mainVars, vdbCallVars, historyVars,
       Ledger!Tick, Ledger!runVars, Ledger!historyVars, Interval, KeptInterval, Standing
  <2> QED
    BY <2>1 DEF Ledger!Next
<1>2. ASSUME NEW k \in Keys, ServerExpires(k) PROVE [Ledger!Next]_(Ledger!vars)
  BY <1>2, ExpiryRefines DEF Ledger!Next
<1>3. ASSUME NEW r \in Run, RunStep(r) \/ LateCommand(r) PROVE [Ledger!Next]_(Ledger!vars)
  <2>1. CASE (Start(r) \/ MainStep(r) \/ Kill(r)) /\ UNCHANGED <<db, wire>>
    BY <2>1, MainRefines DEF Ledger!Next
  <2>2. CASE KillRun(r) /\ wire' # wire
    BY <2>2, KillRefines
  <2>3. CASE \/ RecentGet(r) \/ RecentError(r) \/ RecentCompare(r) \/ RecentDel(r)
             \/ RecentDelError(r) \/ StoreTime(r) \/ StoreSet(r) \/ StoreSetError(r)
             \/ StoreExpire(r) \/ StoreExpireError(r) \/ LateCommand(r)
    BY <2>3, CallRefines DEF Ledger!Next
  <2> QED
    BY <1>3, <2>1, <2>2, <2>3 DEF RunStep, KillRun, redisVars, serverVars
<1>4. CASE UNCHANGED vars
  BY <1>4 DEF vars, Ledger!vars, Interval, KeptInterval, Standing
<1> QED
  BY <1>1, <1>2, <1>3, <1>4 DEF Next

\* The runs over Redis implement the ledger, whatever the intervals and the
\* retention, and whichever commands fail or come late.
THEOREM RedisRefinesLedger == Spec => LedgerSpec
  BY InitRefines, Inductive, StepRefines, PTL DEF Spec, LedgerSpec, Ledger!Spec

\* So the ledger's promise, proved in ReplyLedger_proofs, is kept over Redis.
LedgerFacts == INSTANCE ReplyLedger_proofs WITH
    MaxInterval <- Shorter(LongestInterval, Retention),
    holder <- [k \in Keys |-> Writer(db[k])],
    phase <- [r \in Run |-> PhaseOf(Standing(r))],
    interval <- [r \in Run |-> KeptInterval(r)],
    found <- [r \in Run |-> Writer(last[r])]

THEOREM RedisSuppression == Spec => []Ledger!Suppression
<1>1. /\ RunKey \in [Run -> Keys] /\ NoRun \notin Run
      /\ Shorter(LongestInterval, Retention) \in Nat /\ MaxTime \in Nat
  BY RunKeyType, KeptBound, DeliveryAssumption, TimeAssumption DEF LedgerInterval
<1>2. LedgerFacts!Spec => []LedgerFacts!Suppression
  BY <1>1, LedgerFacts!SuppressionHolds
<1>3. LedgerFacts!Suppression <=> Ledger!Suppression
  BY DEF LedgerFacts!Suppression, Ledger!Suppression, LedgerFacts!Interference,
     Ledger!Interference, LedgerFacts!SameKey, Ledger!SameKey
<1>4. Ledger!Init <=> LedgerFacts!Init
  BY DEF Ledger!Init, LedgerFacts!Init
<1>5. [Ledger!Next]_(Ledger!vars) <=> [LedgerFacts!Next]_(LedgerFacts!vars)
  BY DEF Ledger!Tick, LedgerFacts!Tick, Ledger!Forget, LedgerFacts!Forget,
       Ledger!Admit, LedgerFacts!Admit, Ledger!Look, LedgerFacts!Look,
       Ledger!LookBlind, LedgerFacts!LookBlind, Ledger!Decide, LedgerFacts!Decide,
       Ledger!Erase, LedgerFacts!Erase, Ledger!Stamp, LedgerFacts!Stamp,
       Ledger!Record, LedgerFacts!Record, Ledger!RecordLost, LedgerFacts!RecordLost,
       Ledger!Reply, LedgerFacts!Reply, Ledger!Close, LedgerFacts!Close,
       Ledger!Lapsed, LedgerFacts!Lapsed, Ledger!vars, LedgerFacts!vars,
       Ledger!clockVars, LedgerFacts!clockVars, Ledger!runVars, LedgerFacts!runVars,
       Ledger!historyVars, LedgerFacts!historyVars, Ledger!Next, LedgerFacts!Next
<1> QED
  BY RedisRefinesLedger, <1>2, <1>3, <1>4, <1>5, PTL
     DEF LedgerSpec, Ledger!Spec, LedgerFacts!Spec

----------------------------------------------------------------------------
(* Retries.  The attempts of one delivery do not overlap, but the last     *)
(* command of one that was killed may come while a later one runs.         *)

Written ==
    \A r \in Run :
        /\ rank[r] <= count /\ erank[r] <= count /\ look[r] <= count
        /\ 0 < rank[r] => look[r] < rank[r]
        /\ 0 < erank[r] => look[r] < erank[r]
        /\ pc[r] \in FrontPcs \union {"recent"} =>
              rank[r] = 0 /\ erank[r] = 0 /\ ~mailed[r]

\* r's GET has been answered, or has failed.
Looked(r) ==
    \/ pc[r] \in {"decide", "drop", "stamp", "set", "expire", "send"}
    \/ wire[r] # "none"
    \/ mailed[r] \/ 0 < rank[r] \/ 0 < erank[r]

\* What an attempt changed that left no command behind, all later ones see.
LooksLater ==
    \A p, q \in Run :
        /\ p[1] = q[1] /\ p[2] < q[2]
        /\ wire[p] = "none"
        /\ Looked(q)
        => rank[p] <= look[q] /\ erank[p] <= look[q]

Order == Retried /\ Written /\ LooksLater

\* A retry sends nothing while the kept interval of the record of an earlier
\* attempt is running, whether or not that attempt's reply went out
\* (simvacation.c:160 stores before :167 sends), unless a third run removed
\* that record: a run of another delivery; an attempt killed with its command
\* on the way, which the server executed after all; or an attempt between the
\* two for which a shorter interval was over (vdb_redis.c:94-98).
RetryNeedsReason ==
    \A p, q \in Run :
        /\ p[1] = q[1] /\ p[2] < q[2]
        /\ 0 < rank[p] /\ wire[p] = "none"
        /\ ~blind[q]
        /\ chk[q] < stamp[p] + KeptInterval(q)
        /\ mailed[q]
        => \E w \in Run :
              /\ Ledger!Interference(p, w, look[q])
              /\ \/ w[1] # p[1]
                 \/ wire[w] # "none"
                 \/ 0 < erank[w] /\ KeptInterval(w) < Shorter(LongestInterval, Retention)

LEMMA InitOrder == Init => Order
  BY DEF Init, SimInit, Order, Retried, Written, LooksLater, Looked, FrontPcs

LEMMA RetriedHolds == TypeOK /\ Positions /\ Retried /\ [Next]_vars => Retried'
<1> SUFFICES ASSUME TypeOK, Positions, Retried, [Next]_vars PROVE Retried'
  OBVIOUS
<1> USE DEF TypeOK, SimTypeOK
<1>1. ASSUME NEW r \in Run, RunStep(r) PROVE Retried'
  <2>1. pc[r] # "done"
    BY <1>1 DEF RunStep, Start, MainStep, Search, GroupSearch, VdbInit, ReadHeaders,
       CheckFrom, SendFail, Handoff, HandoffEmpty, ChildFail, Exit, KillRun, Kill, RecentGet,
       RecentError, RecentCompare, RecentDel, RecentDelError, StoreTime, TakeTime, StoreSet,
       StoreSetError, StoreExpire, StoreExpireError
  <2>2. pc[r] = "idle" => MayStart(r)
    BY <1>1 DEF RunStep, Start, MainStep, Search, GroupSearch, VdbInit, ReadHeaders,
       CheckFrom, SendFail, Handoff, HandoffEmpty, ChildFail, Exit, KillRun, Kill, RecentGet,
       RecentError, RecentCompare, RecentDel, RecentDelError, StoreTime, TakeTime, StoreSet,
       StoreSetError, StoreExpire, StoreExpireError
  <2>3. \A s \in Run \ {r} : pc'[s] = pc[s] /\ retval'[s] = retval[s]
    BY <1>1 DEF RunStep, Start, MainStep, Search, GroupSearch, VdbInit, ReadHeaders,
       CheckFrom, SendFail, Handoff, HandoffEmpty, ChildFail, Exit, KillRun, Kill, RecentGet,
       ReadRecord, RecentError, ReadFails, RecentCompare, Compare, RecentDel, RecentDelError,
       StoreTime, TakeTime, StoreSet, StoreSetError, StoreExpire, StoreExpireError, Goto,
       LeaveWith, Abandon, mainVars
  <2> QED
    BY <2>1, <2>2, <2>3, RetriedStep
<1>2. CASE UNCHANGED <<pc, retval>>
  BY <1>2 DEF Retried
<1>3. ASSUME NEW r \in Run, LateCommand(r) PROVE UNCHANGED <<pc, retval>>
  BY <1>3 DEF LateCommand, mainVars
<1>4. SecondEnds \/ (\E k \in Keys : ServerExpires(k)) \/ UNCHANGED vars
      => UNCHANGED <<pc, retval>>
  BY DEF SecondEnds, PassTime, ServerExpires, simVars, vars, mainVars
<1> QED
  BY <1>1, <1>2, <1>3, <1>4 DEF Next

\* A step of main, or a kill, changes nothing of the history, and mails only
\* what was to be sent.
LEMMA MainHistory ==
    ASSUME SimTypeOK, NEW r \in Run, Start(r) \/ MainStep(r) \/ Kill(r)
    PROVE  /\ UNCHANGED <<count, look, rank, erank>>
           /\ \A q \in Run : mailed'[q] => mailed[q] \/ (q = r /\ pc[r] = "send")
  BY DEF SimTypeOK, Start, MainStep, Search, GroupSearch, VdbInit, ReadHeaders, CheckFrom,
     SendFail, Handoff, HandoffEmpty, ChildFail, Exit, Kill, mainVars, historyVars

LEMMA WrittenStep == TypeOK /\ Positions /\ Written /\ [Next]_vars => Written'
<1> SUFFICES ASSUME TypeOK, Positions, Written, [Next]_vars PROVE Written'
  OBVIOUS
<1> USE DEF TypeOK, SimTypeOK, Written, FrontPcs
<1>1. ASSUME NEW r \in Run, Start(r) \/ MainStep(r) \/ Kill(r) PROVE Written'
  <2>1. /\ UNCHANGED <<count, look, rank, erank>>
        /\ \A q \in Run : mailed'[q] => mailed[q] \/ (q = r /\ pc[r] = "send")
    BY <1>1, MainHistory
  <2>2. Goto(r, pc'[r])
    BY <1>1, MainEffect
  <2>3. pc'[r] \in FrontPcs \union {"recent"} => pc[r] \in FrontPcs
    BY <1>1, MainGoes DEF Pcs, BackendPcs
  <2> QED
    BY <2>1, <2>2, <2>3 DEF Goto
<1>2. ASSUME NEW r \in Run, RecentGet(r) \/ RecentError(r) PROVE Written'
  BY <1>2 DEF RecentGet, ReadRecord, RecentError, ReadFails, Goto, mainVars
<1>3. ASSUME NEW r \in Run, RecentCompare(r) \/ RecentDelError(r) \/ StoreTime(r)
             \/ StoreSetError(r) \/ StoreExpireError(r)
      PROVE  Written'
  BY <1>3 DEF RecentCompare, Compare, RecentDelError, StoreTime, TakeTime, StoreSetError,
     StoreExpireError, Goto, mainVars, historyVars
<1>4. ASSUME NEW r \in Run, pc'[r] \notin FrontPcs \union {"recent"}, Goto(r, pc'[r]),
             ServerDel(r) \/ ServerSet(r) \/ ServerExpire(r), mailed' = mailed
      PROVE  Written'
  BY <1>4 DEF ServerDel, ServerSet, ServerExpire, Goto, historyVars
<1>5. ASSUME NEW r \in Run, RecentDel(r) \/ StoreSet(r) \/ StoreExpire(r) PROVE Written'
  <2>1. pc'[r] \notin FrontPcs \union {"recent"} /\ Goto(r, pc'[r]) /\ mailed' = mailed
    BY <1>5 DEF RecentDel, StoreSet, StoreExpire, Goto, mainVars
  <2> QED
    BY <1>4, <1>5, <2>1 DEF RecentDel, StoreSet, StoreExpire
<1>6. ASSUME NEW r \in Run, LateCommand(r) PROVE Written'
  <2>1. pc'[r] = "done" /\ Goto(r, pc'[r]) /\ mailed' = mailed
    BY <1>6 DEF LateCommand, Positions, Goto, mainVars
  <2> QED
    BY <1>4, <1>6, <2>1 DEF LateCommand
<1>7. SecondEnds \/ (\E k \in Keys : ServerExpires(k)) \/ UNCHANGED vars
      => UNCHANGED <<pc, mailed, count, look, rank, erank>>
  BY DEF SecondEnds, PassTime, ServerExpires, simVars, vars, mainVars, historyVars
<1>8. UNCHANGED <<pc, mailed, count, look, rank, erank>> => Written'
  OBVIOUS
<1> QED
  BY <1>1, <1>2, <1>3, <1>5, <1>6, <1>7, <1>8 DEF Next, RunStep, KillRun

\* Looking comes before all that shows that a run has looked.
LEMMA LookedStep ==
    ASSUME TypeOK, Positions, NEW r \in Run, RunStep(r) \/ LateCommand(r),
           NEW q \in Run, Looked(q)'
    PROVE  \/ Looked(q) /\ look'[q] = look[q]
           \/ q = r /\ look'[q] = count /\ UNCHANGED <<rank, erank>>
<1> USE DEF TypeOK, SimTypeOK, Looked
<1>1. CASE (Start(r) \/ MainStep(r) \/ Kill(r)) /\ wire' = wire
  <2>1. /\ UNCHANGED <<look, rank, erank>>
        /\ mailed'[q] => mailed[q] \/ (q = r /\ pc[r] = "send")
    BY <1>1, MainHistory
  <2>2. Goto(r, pc'[r])
    BY <1>1, MainEffect
  <2>3. pc'[r] \notin {"decide", "drop", "stamp", "set", "expire", "send"}
    BY <1>1, MainGoes DEF FrontPcs
  <2> QED
    BY <1>1, <2>1, <2>2, <2>3 DEF Goto
<1>2. CASE KillRun(r) /\ wire' # wire
  <2>1. /\ UNCHANGED <<look, rank, erank>>
        /\ mailed'[q] => mailed[q] \/ (q = r /\ pc[r] = "send")
    BY <1>2, MainHistory DEF KillRun
  <2>2. pc' = [pc EXCEPT ![r] = "done"] /\ pc[r] \in Commands /\ wire' = [wire EXCEPT ![r] = pc[r]]
    BY <1>2 DEF KillRun, Kill, Abandon, Goto
  <2> QED
    BY <2>1, <2>2 DEF Commands
<1>3. CASE RecentGet(r) \/ RecentError(r)
  BY <1>3 DEF RecentGet, ReadRecord, RecentError, ReadFails, Goto, redisVars, mainVars
<1>4. CASE RecentCompare(r) \/ RecentDelError(r) \/ StoreTime(r) \/ StoreSetError(r)
           \/ StoreExpireError(r)
  BY <1>4 DEF RecentCompare, Compare, RecentDelError, StoreTime, TakeTime, StoreSetError,
     StoreExpireError, Goto, redisVars, mainVars, historyVars
<1>5. CASE RecentDel(r) \/ StoreSet(r) \/ StoreExpire(r)
  BY <1>5 DEF RecentDel, ServerDel, StoreSet, ServerSet, StoreExpire, ServerExpire, Goto,
     mainVars, historyVars
<1>6. CASE LateCommand(r)
  BY <1>6 DEF LateCommand, ServerDel, ServerSet, ServerExpire, mainVars, historyVars
<1> QED
  BY <1>1, <1>2, <1>3, <1>4, <1>5, <1>6 DEF RunStep, KillRun, redisVars, serverVars

\* A run that is over and left no command changes nothing any more.
LEMMA GoneForGood ==
    ASSUME TypeOK, NEW r \in Run, RunStep(r) \/ LateCommand(r),
           NEW p \in Run, pc[p] = "done", wire'[p] = "none"
    PROVE  wire[p] = "none" /\ rank'[p] = rank[p] /\ erank'[p] = erank[p]
<1> USE DEF TypeOK, SimTypeOK
<1>1. CASE (Start(r) \/ MainStep(r)) /\ UNCHANGED redisVars
  BY <1>1, MainHistory DEF redisVars
<1>2. CASE KillRun(r)
  BY <1>2, MainHistory DEF KillRun, Kill, Commands
<1>3. CASE \/ RecentGet(r) \/ RecentError(r) \/ RecentCompare(r) \/ RecentDelError(r)
           \/ StoreTime(r) \/ StoreSetError(r) \/ StoreExpireError(r)
  BY <1>3 DEF RecentGet, ReadRecord, RecentError, ReadFails, RecentCompare, Compare,
     RecentDelError, StoreTime, TakeTime, StoreSetError, StoreExpireError, redisVars,
     historyVars
<1>4. CASE RecentDel(r) \/ StoreSet(r) \/ StoreExpire(r)
  BY <1>4 DEF RecentDel, ServerDel, StoreSet, ServerSet, StoreExpire, ServerExpire, historyVars
<1>5. CASE LateCommand(r)
  BY <1>5 DEF LateCommand, ServerDel, ServerSet, ServerExpire, historyVars
<1> QED
  BY <1>1, <1>2, <1>3, <1>4, <1>5 DEF RunStep

LEMMA LooksLaterStep == TypeOK /\ Positions /\ Order /\ [Next]_vars => LooksLater'
<1> SUFFICES ASSUME TypeOK, Positions, Order, [Next]_vars,
                    NEW p \in Run, NEW q \in Run,
                    p[1] = q[1], p[2] < q[2], wire'[p] = "none", Looked(q)'
             PROVE  rank'[p] <= look'[q] /\ erank'[p] <= look'[q]
  BY DEF LooksLater
<1>1. Looked(q) => pc[p] = "done"
  <2>1. Looked(q) => pc[q] # "idle"
    BY DEF Looked, Order, Written, Positions, FrontPcs, TypeOK, SimTypeOK
  <2> QED
    BY <2>1 DEF Order, Retried
<1>2. ASSUME NEW r \in Run, RunStep(r) \/ LateCommand(r)
      PROVE  rank'[p] <= look'[q] /\ erank'[p] <= look'[q]
  <2>1. CASE Looked(q) /\ look'[q] = look[q]
    <3>1. wire[p] = "none" /\ rank'[p] = rank[p] /\ erank'[p] = erank[p]
      BY <1>1, <1>2, <2>1, GoneForGood
    <3> QED
      BY <2>1, <3>1 DEF Order, LooksLater
  <2>2. CASE look'[q] = count /\ UNCHANGED <<rank, erank>>
    BY <2>2 DEF Order, Written
  <2> QED
    BY <1>2, <2>1, <2>2, LookedStep
<1>3. SecondEnds \/ (\E k \in Keys : ServerExpires(k)) \/ UNCHANGED vars
      => UNCHANGED <<pc, wire, mailed, look, rank, erank>>
  BY DEF SecondEnds, PassTime, ServerExpires, simVars, vars, redisVars, mainVars, historyVars
<1>4. UNCHANGED <<pc, wire, mailed, look, rank, erank>>
      => rank'[p] <= look'[q] /\ erank'[p] <= look'[q]
  BY DEF Looked, Order, LooksLater
<1> QED
  BY <1>2, <1>3, <1>4 DEF Next

LEMMA OrderInvariant == Spec => []Order
<1>1. Inv /\ Order /\ [Next]_vars => Order'
  BY RetriedHolds, WrittenStep, LooksLaterStep DEF Inv, Order
<1> QED
  BY InitOrder, Inductive, <1>1, PTL DEF Spec

\* Over Redis a retry repeats a reply within the interval only for one of the
\* three reasons.
THEOREM RetryHasReason == Spec => []RetryNeedsReason
<1>1. ASSUME Inv, Order, Ledger!Suppression PROVE RetryNeedsReason
  <2> SUFFICES ASSUME NEW p \in Run, NEW q \in Run,
                      p[1] = q[1], p[2] < q[2], 0 < rank[p], wire[p] = "none", ~blind[q],
                      chk[q] < stamp[p] + KeptInterval(q), mailed[q]
               PROVE  \E w \in Run :
                         /\ Ledger!Interference(p, w, look[q])
                         /\ \/ w[1] # p[1]
                            \/ wire[w] # "none"
                            \/ /\ 0 < erank[w]
                               /\ KeptInterval(w) < Shorter(LongestInterval, Retention)
    BY DEF RetryNeedsReason
  <2>1. rank[p] <= look[q]
    BY <1>1 DEF Order, LooksLater, Looked
  <2>2. PICK w \in Run : Ledger!Interference(p, w, look[q])
    BY <1>1, <2>1 DEF Ledger!Suppression, Ledger!SameKey, RunKey
  <2>3. /\ w # p
        /\ rank[p] < rank[w] \/ rank[p] < erank[w]
        /\ \/ look[w] < rank[p]
           \/ rank[p] < erank[w] /\ KeptInterval(w) < Shorter(LongestInterval, Retention)
    BY <2>2 DEF Ledger!Interference
  <2>4. 0 < rank[w] \/ 0 < erank[w]
    BY <1>1, <2>3 DEF Inv, TypeOK, SimTypeOK
  <2>5. CASE w[1] = p[1] /\ wire[w] = "none" /\ look[w] < rank[p]
    <3>1. CASE w[2] < p[2]
      <4>1. rank[w] <= look[p] /\ erank[w] <= look[p] /\ look[p] < rank[p]
        BY <1>1, <2>5, <3>1 DEF Order, LooksLater, Looked, Written
      <4> QED
        BY <1>1, <2>3, <4>1 DEF Inv, TypeOK, SimTypeOK
    <3>2. CASE p[2] < w[2]
      <4>1. rank[p] <= look[w]
        BY <1>1, <2>4, <2>5, <3>2 DEF Order, LooksLater, Looked
      <4> QED
        BY <1>1, <2>5, <4>1 DEF Inv, TypeOK, SimTypeOK
    <3> QED
      BY <2>3, <2>5, <3>1, <3>2, AttemptsOrdered
  <2>6. CASE rank[p] < erank[w] /\ KeptInterval(w) < Shorter(LongestInterval, Retention)
    <3>1. 0 < erank[w]
      BY <1>1, <2>6 DEF Inv, TypeOK, SimTypeOK
    <3> QED
      BY <2>2, <2>6, <3>1
  <2> QED
    BY <2>2, <2>3, <2>5, <2>6
<1> QED
  BY Inductive, OrderInvariant, RedisSuppression, <1>1, PTL
=============================================================================
