------------------------- MODULE Simvacation_proofs ------------------------
(***************************************************************************)
(* What main does to a run outside the database, in the form the proofs    *)
(* about the backends use.                                                 *)
(***************************************************************************)
EXTENDS Simvacation, TLAPS

LEMMA RunKeyType == RunKey \in [Run -> Keys]
<1>1. \A r \in Run : r[1] \in Deliveries
  BY DEF Run
<1> QED
  BY <1>1, DeliveryAssumption DEF RunKey


LEMMA IntervalBound ==
    LongestInterval \in Nat /\ \A r \in Run : Interval(r) \in 0..LongestInterval
  BY TimeAssumption DEF LongestInterval, Interval

----------------------------------------------------------------------------
\* A run's steps outside the database.
LEMMA MainType ==
    ASSUME SimTypeOK, NEW r \in Run, Start(r) \/ MainStep(r) \/ Kill(r)
    PROVE  SimTypeOK'
<1> USE DEF SimTypeOK, Goto, LeaveWith, Abandon, Results, Pcs, FrontPcs,
            vdbCallVars, historyVars, mainVars
<1>1. CASE Start(r)
  BY <1>1 DEF Start
<1>2. CASE Search(r)
  BY <1>2 DEF Search
<1>3. CASE GroupSearch(r)
  BY <1>3 DEF GroupSearch
<1>4. CASE VdbInit(r)
  BY <1>4 DEF VdbInit
<1>5. CASE ReadHeaders(r)
  BY <1>5 DEF ReadHeaders
<1>6. CASE CheckFrom(r)
  <2>1. pc' \in [Run -> Pcs] /\ retval' \in [Run -> Results]
    BY <1>6 DEF CheckFrom, BackendPcs
  <2> QED
    BY <1>6, <2>1 DEF CheckFrom
<1>7. CASE SendFail(r)
  BY <1>7 DEF SendFail
<1>8. CASE Handoff(r)
  BY <1>8 DEF Handoff
<1>9. CASE HandoffEmpty(r)
  BY <1>9 DEF HandoffEmpty
<1>10. CASE ChildFail(r)
  BY <1>10 DEF ChildFail
<1>11. CASE Exit(r)
  BY <1>11 DEF Exit
<1>12. CASE Kill(r)
  BY <1>12 DEF Kill
<1> QED
  BY <1>1, <1>2, <1>3, <1>4, <1>5, <1>6, <1>7, <1>8, <1>9, <1>10, <1>11, <1>12
     DEF MainStep

\* A step of main in terms of the ledger: it stays in its phase, perhaps with
\* the group's interval, or ends, before its reply or with it.
MainKind(r, c) ==
    \/ PhaseOf(c) = PhaseOf(pc[r]) /\ UNCHANGED <<group, mailed>>
    \/ /\ PhaseOf(pc[r]) = "open" /\ PhaseOf(c) = "open"
       /\ group' = [group EXCEPT ![r] = TRUE] /\ UNCHANGED mailed
    \/ /\ PhaseOf(pc[r]) # "closed" /\ PhaseOf(c) = "closed"
       /\ UNCHANGED <<group, mailed>>
    \/ /\ PhaseOf(pc[r]) = "recorded" /\ PhaseOf(c) = "closed"
       /\ UNCHANGED group /\ mailed' = [mailed EXCEPT ![r] = TRUE]

LEMMA MainPhases ==
    /\ \A c \in FrontPcs : PhaseOf(c) = "open"
    /\ PhaseOf("recent") = "open"
    /\ PhaseOf("send") = "recorded"
    /\ PhaseOf("exiting") = "closed" /\ PhaseOf("done") = "closed"
  BY DEF PhaseOf, FrontPcs

LEMMA MainEffect ==
    ASSUME SimTypeOK, NEW r \in Run, Start(r) \/ MainStep(r) \/ Kill(r)
    PROVE  /\ UNCHANGED <<now, last, chk, stamp, count, look, blind, rank, erank>>
           /\ Goto(r, pc'[r]) /\ MainKind(r, pc'[r])
<1>1. UNCHANGED <<now, last, chk, stamp, count, look, blind, rank, erank>>
  BY DEF Start, MainStep, Search, GroupSearch, VdbInit, ReadHeaders, CheckFrom,
         SendFail, Handoff, HandoffEmpty, ChildFail, Exit, Kill, vdbCallVars, historyVars
<1> USE <1>1, MainPhases DEF SimTypeOK, FrontPcs, Goto, LeaveWith, Abandon, mainVars, MainKind
<1>2. CASE Start(r)
  BY <1>2 DEF Start
<1>3. CASE Search(r)
  BY <1>3 DEF Search
<1>4. CASE GroupSearch(r)
  BY <1>4 DEF GroupSearch
<1>5. CASE VdbInit(r)
  BY <1>5 DEF VdbInit
<1>6. CASE ReadHeaders(r)
  BY <1>6 DEF ReadHeaders
<1>7. CASE CheckFrom(r)
  BY <1>7 DEF CheckFrom
<1>8. CASE SendFail(r) \/ ChildFail(r)
  BY <1>8 DEF SendFail, ChildFail
<1>9. CASE Handoff(r) \/ HandoffEmpty(r)
  BY <1>9 DEF Handoff, HandoffEmpty
<1>10. CASE Exit(r)
  BY <1>10 DEF Exit
<1>11. CASE Kill(r)
  <2>1. PhaseOf(pc[r]) = "closed" \/ PhaseOf(pc[r]) # "closed"
    OBVIOUS
  <2>2. Goto(r, "done") /\ UNCHANGED group
    BY <1>11 DEF Kill
  <2> QED
    BY <1>11, <2>1, <2>2 DEF Kill
<1> QED
  BY <1>1, <1>2, <1>3, <1>4, <1>5, <1>6, <1>7, <1>8, <1>9, <1>10, <1>11 DEF MainStep

\* Where main takes a run: never into the middle of a call of the database.
LEMMA MainGoes ==
    ASSUME SimTypeOK, NEW r \in Run, Start(r) \/ MainStep(r) \/ Kill(r)
    PROVE  /\ pc[r] # "done"
           /\ pc'[r] \in (FrontPcs \ {"idle"}) \union {"recent", "exiting", "done"}
           /\ pc[r] \in BackendPcs \union {"send", "exiting"} => pc'[r] \in {"exiting", "done"}
<1> USE DEF SimTypeOK, FrontPcs, BackendPcs, Goto, LeaveWith, Abandon
<1>1. CASE Start(r) \/ Search(r) \/ GroupSearch(r) \/ VdbInit(r) \/ ReadHeaders(r)
  BY <1>1 DEF Start, Search, GroupSearch, VdbInit, ReadHeaders
<1>2. CASE CheckFrom(r)
  <2>1. pc[r] = "from" /\ \E c \in {"recent", "exiting", "done"} : Goto(r, c)
    BY <1>2 DEF CheckFrom
  <2> QED
    BY <2>1
<1>3. CASE SendFail(r) \/ Handoff(r) \/ HandoffEmpty(r) \/ ChildFail(r) \/ Exit(r)
  BY <1>3 DEF SendFail, Handoff, HandoffEmpty, ChildFail, Exit
<1>4. CASE Kill(r)
  BY <1>4 DEF Kill
<1> QED
  BY <1>1, <1>2, <1>3, <1>4 DEF MainStep

----------------------------------------------------------------------------
(* The MTA's retries: they come in order, each after the end of the one    *)
(* before and because of how it ended.                                     *)

LEMMA AttemptsOrdered ==
    /\ \A r \in Run : r[2] \in Nat /\ 1 <= r[2]
    /\ \A p, q \in Run : p[1] = q[1] /\ p[2] = q[2] => p = q
  BY DeliveryAssumption DEF Run

Failures == {"tempfail", "fault", "signal"}

Retried ==
    \A p, q \in Run :
        p[1] = q[1] /\ p[2] < q[2] /\ pc[q] # "idle"
        => pc[p] = "done" /\ retval[p] \in Failures

\* All attempts before one that may start have failed.
LEMMA MayStartRetried ==
    ASSUME SimTypeOK, Retried, NEW r \in Run, MayStart(r),
           NEW p \in Run, p[1] = r[1], p[2] < r[2]
    PROVE  pc[p] = "done" /\ retval[p] \in Failures
<1>1. PICK m \in Run : /\ m[1] = r[1] /\ m[2] + 1 = r[2] /\ pc[m] = "done"
                       /\ retval[m] \in Failures
  BY AttemptsOrdered DEF MayStart, Ended, Failures
<1>2. PICK i \in Nat, j \in Nat : i = p[2] /\ j = m[2]
  BY AttemptsOrdered
<1>3. i < j + 1
  BY <1>1, <1>2
<1>4. i = j \/ i < j
  BY <1>3
<1>5. CASE i = j
  BY <1>1, <1>2, <1>5, AttemptsOrdered
<1>6. CASE i < j
  BY <1>1, <1>2, <1>6 DEF Retried
<1> QED
  BY <1>4, <1>5, <1>6

\* A run that has ended stays so, and one that starts was allowed to.
LEMMA RetriedStep ==
    ASSUME SimTypeOK, Retried, NEW r \in Run, pc[r] # "done",
           pc[r] = "idle" => MayStart(r),
           \A s \in Run \ {r} : pc'[s] = pc[s] /\ retval'[s] = retval[s]
    PROVE  Retried'
<1> SUFFICES ASSUME NEW p \in Run, NEW q \in Run,
                    p[1] = q[1], p[2] < q[2], pc'[q] # "idle"
             PROVE  pc'[p] = "done" /\ retval'[p] \in Failures
  BY DEF Retried, Failures
<1>1. pc[p] = "done" /\ retval[p] \in Failures
  <2>1. CASE q = r /\ pc[r] = "idle"
    BY <2>1, MayStartRetried
  <2>2. CASE ~(q = r /\ pc[r] = "idle")
    BY <2>2 DEF Retried
  <2> QED
    BY <2>1, <2>2
<1> QED
  BY <1>1
=============================================================================
