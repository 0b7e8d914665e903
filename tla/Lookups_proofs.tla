--------------------------- MODULE Lookups_proofs ---------------------------
(***************************************************************************)
(* Proofs about what a run looks up: the recipient in the directory, for   *)
(* any times and any bound on the clock (types, vacations as one stretch,  *)
(* answers of one kind, nobody given up who is owed an answer); and the    *)
(* record of the correspondent, for any recipient and any address (the     *)
(* fingerprint is the residue, short differences show, keys tell).         *)
(***************************************************************************)
EXTENDS VluLdap, VdbKeys, FiniteSetTheorems, WellFoundedInduction, TLAPS

----------------------------------------------------------------------------
(* The directory.                                                          *)
LEMMA EntryType ==
    ASSUME NEW e \in Entry
    PROVE  e.matches \in {0, 1, 2} /\ e.vacation \in BOOLEAN /\ e.start \in Nat /\ e.end \in Nat
<1>1. CASE e \in [matches : {1}, vacation : BOOLEAN, start : Times, end : Times]
  BY <1>1, TimesAssumption
<1>2. CASE e \in [matches : {0, 2}, vacation : {FALSE}, start : {0}, end : {0}]
  <2>1. e.matches \in {0, 2} /\ e.vacation = FALSE /\ e.start = 0 /\ e.end = 0
    BY <1>2
  <2>2. e.vacation \in BOOLEAN
    BY <2>1, Zenon
  <2>3. e.start \in Nat /\ e.end \in Nat
    BY <2>1
  <2>4. e.matches \in {0, 1, 2}
    BY <2>1
  <2> QED
    BY <2>2, <2>3, <2>4
<1> QED
  BY <1>1, <1>2 DEF Entry

----------------------------------------------------------------------------
(* Types.                                                                  *)

\* Only a base with an entry is judged, and judged before there is an answer.
Judged ==
    /\ pc = "judge" => result \in Bases
    /\ pc \in {"message", "answer"} /\ provider = "ldap" => result \in Bases

LEMMA InitType == Init => TypeOK /\ Judged
<1> SUFFICES ASSUME Init PROVE TypeOK /\ Judged
  OBVIOUS
<1>1. now \in 0..MaxTime /\ began \in 0..now
  BY TimesAssumption DEF Init
<1>2. on \in [Bases -> SUBSET (0..MaxTime)] /\ off \in [Bases -> SUBSET (0..MaxTime)]
  BY DEF Init
<1>3. Judged
  BY DEF Init, Judged
<1>4. {attr_msg, default_msg, subject_prefix, interval} \subseteq Owner /\ result \in Owner
  BY DEF Init, Owner
<1>5. answer \in Answer
  BY DEF Init, NoAnswer, Answer, Owner
<1>6. provider \in Providers /\ entry \in [Bases -> Entry] /\ excused \in BOOLEAN /\ pc = "init"
  BY DEF Init
<1> QED
  BY <1>1, <1>2, <1>3, <1>4, <1>5, <1>6 DEF TypeOK

LEMMA TypeStep == TypeOK /\ Judged /\ [Next]_vars => TypeOK' /\ Judged'
<1> SUFFICES ASSUME TypeOK, Judged, [Next]_vars
             PROVE  TypeOK' /\ Judged'
  OBVIOUS
<1> USE TimesAssumption DEF TypeOK, Judged, Bases, Owner, Outcomes, Permfail, kindVars, historyVars
<1>1. ASSUME NEW b \in Bases, SearchFails(b) PROVE TypeOK' /\ Judged'
  BY <1>1 DEF SearchFails, Searches
<1>2. ASSUME NEW b \in Bases, SearchFinds(b) PROVE TypeOK' /\ Judged'
  BY <1>2 DEF SearchFinds, Searches
<1>3. CASE Judge
  <2>1. CASE onvacation(entry[result])
    BY <1>3, <2>1 DEF Judge, TakeKind
  <2>2. CASE ~onvacation(entry[result])
    BY <1>3, <2>2 DEF Judge
  <2> QED
    BY <2>1, <2>2
<1>4. CASE ClockFails
  BY <1>4 DEF ClockFails
<1>5. CASE NextProcess
  <2>1. NoAnswer \in Answer
    BY DEF NoAnswer, Answer
  <2>2. answer' \in Answer
    BY <1>5, <2>1 DEF NextProcess
  <2>3. began' \in 0..now' /\ now' \in 0..MaxTime
    BY <1>5 DEF NextProcess
  <2>4. {attr_msg', default_msg', subject_prefix', interval'} \subseteq Owner
    BY <1>5 DEF NextProcess
  <2>5. /\ provider' \in Providers /\ entry' \in [Bases -> Entry] /\ excused' \in BOOLEAN
        /\ on' \in [Bases -> SUBSET (0..MaxTime)] /\ off' \in [Bases -> SUBSET (0..MaxTime)]
        /\ pc' = "init" /\ result' \in Owner
    BY <1>5 DEF NextProcess
  <2> QED
    BY <2>2, <2>3, <2>4, <2>5
<1>6. CASE PassTime
  BY <1>6 DEF PassTime
<1>7. CASE UNCHANGED vars
  BY <1>7 DEF vars
<1>8. CASE OpenFails
  BY <1>8 DEF OpenFails
<1>9. CASE Open
  BY <1>9 DEF Open
<1>10. CASE NullSearch
  BY <1>10 DEF NullSearch
<1>11. CASE Message
  <2>1. answer' \in Answer
    BY <1>11 DEF Message, LdapMessage, Answer
  <2> QED
    BY <1>11, <2>1 DEF Message
<1> QED
  BY <1>1, <1>2, <1>3, <1>4, <1>5, <1>6, <1>7, <1>8, <1>9, <1>10, <1>11 DEF Next

\* The directory's variables keep their types (vlu_ldap.c, simvacation.c:124-133).
THEOREM TypeCorrect == Spec => []TypeOK
<1>1. Spec => [](TypeOK /\ Judged)
  BY InitType, TypeStep, PTL DEF Spec
<1> QED
  BY <1>1, PTL

LEMMA JudgedAlways == Spec => [](TypeOK /\ Judged)
  BY InitType, TypeStep, PTL DEF Spec

----------------------------------------------------------------------------
(* One stretch.                                                            *)

\* What was judged was so then, and entries do not change: the strengthening
\* that makes OneStretch inductive.
JudgedRightly ==
    \A b \in Bases :
        /\ \A t \in on[b] : Away(entry[b], t)
        /\ \A t \in off[b] : ~Away(entry[b], t)

LEMMA AwayIsConvex ==
    ASSUME NEW e \in Entry, NEW t1 \in Nat, NEW t2 \in Nat, NEW t3 \in Nat,
           t1 < t2, t2 < t3, Away(e, t1), Away(e, t3)
    PROVE  Away(e, t2)
<1>1. e.vacation \in BOOLEAN /\ e.start \in Nat /\ e.end \in Nat
  BY EntryType
<1>2. ~(e.end > 0 /\ t2 > e.end)
  BY <1>1 DEF Away
<1>3. (e.start > 0 /\ t1 > e.start) => (e.start > 0 /\ t2 > e.start)
  BY <1>1
<1>4. e.vacation \/ (e.start > 0 /\ t1 > e.start)
  BY DEF Away
<1> QED
  BY <1>2, <1>3, <1>4, Zenon DEF Away

LEMMA RightlyStep ==
    TypeOK /\ Judged /\ JudgedRightly /\ [Next]_vars => JudgedRightly'
<1> SUFFICES ASSUME TypeOK, Judged, JudgedRightly, [Next]_vars
             PROVE  JudgedRightly'
  OBVIOUS
<1> USE DEF JudgedRightly
<1>1. CASE UNCHANGED <<entry, on, off>>
  BY <1>1 DEF Away
<1>2. CASE Judge
  <2> DEFINE e == entry[result]
  <2>1. result \in Bases /\ entry' = entry
    BY <1>2 DEF Judge, Judged
  <2>2. CASE onvacation(e)
    <3>1. off' = off /\ on' = [on EXCEPT ![result] = @ \union {now}]
      BY <1>2, <2>2 DEF Judge
    <3>2. Away(e, now)
      BY <2>2 DEF onvacation
    <3>3. ASSUME NEW b \in Bases, NEW t \in on'[b]
          PROVE  Away(entry[b], t)
      <4>1. t \in on[b] \/ (b = result /\ t = now)
        BY <3>1, <3>3 DEF TypeOK
      <4> QED
        BY <3>2, <4>1
    <3> QED
      BY <2>1, <3>1, <3>3 DEF Away
  <2>3. CASE ~onvacation(e)
    <3>1. on' = on /\ off' = [off EXCEPT ![result] = @ \union {now}]
      BY <1>2, <2>3 DEF Judge
    <3>2. ~Away(e, now)
      BY <2>3 DEF onvacation
    <3>3. ASSUME NEW b \in Bases, NEW t \in off'[b]
          PROVE  ~Away(entry[b], t)
      <4>1. t \in off[b] \/ (b = result /\ t = now)
        BY <3>1, <3>3 DEF TypeOK
      <4> QED
        BY <3>2, <4>1
    <3> QED
      BY <2>1, <3>1, <3>3 DEF Away
  <2> QED
    BY <2>2, <2>3
<1> QED
  BY <1>1, <1>2
     DEF Next, vars, historyVars, OpenFails, Open, NullSearch, SearchFails, SearchFinds, ClockFails,
         Message, NextProcess, PassTime

\* A vacation is one stretch of time, for any flag, start and end, parsed or
\* not, in any order (vlu_ldap.c:205-229).
THEOREM OneStretchHolds == Spec => []OneStretch
<1>1. Init => JudgedRightly
  BY DEF Init, JudgedRightly
<1>2. TypeOK /\ JudgedRightly => OneStretch
  <2> SUFFICES ASSUME TypeOK, JudgedRightly, NEW b \in Bases,
                      NEW t1 \in on[b], NEW t3 \in on[b], NEW t2 \in off[b],
                      t1 < t2, t2 < t3
               PROVE  FALSE
    BY DEF OneStretch
  <2>1. entry[b] \in Entry /\ t1 \in Nat /\ t2 \in Nat /\ t3 \in Nat
    BY TimesAssumption DEF TypeOK
  <2>2. Away(entry[b], t1) /\ Away(entry[b], t3) /\ ~Away(entry[b], t2)
    BY DEF JudgedRightly
  <2> QED
    BY <2>1, <2>2, AwayIsConvex
<1> QED
  BY <1>1, <1>2, RightlyStep, JudgedAlways, PTL DEF Spec

----------------------------------------------------------------------------
(* One kind.                                                               *)

\* Nothing is set for groups before a group is found on vacation, and
\* everything when there is an answer: what makes OneKind inductive.
KindsInOrder ==
    provider = "ldap" =>
        /\ pc \in {"user", "group", "judge"} => default_msg = "user"
        /\ pc = "message" =>
              {attr_msg, default_msg, subject_prefix, interval} = {result}

\* Text, prefix and interval come from the entry that is on vacation
\* (vlu_ldap.c:284-341).
THEOREM OneKindHolds == Spec => []OneKind
<1> DEFINE IInv == KindsInOrder /\ OneKind
<1>1. Init => IInv
  BY DEF Init, KindsInOrder, OneKind
<1>2. TypeOK /\ Judged /\ IInv /\ [Next]_vars => IInv'
  <2> SUFFICES ASSUME TypeOK, Judged, IInv, [Next]_vars
               PROVE  IInv'
    OBVIOUS
  <2> USE DEF KindsInOrder, OneKind, Permfail, Bases, kindVars
  <2>1. ASSUME NEW b \in Bases, SearchFails(b) PROVE IInv'
    BY <2>1 DEF SearchFails, Searches
  <2>2. ASSUME NEW b \in Bases, SearchFinds(b) PROVE IInv'
    BY <2>2 DEF SearchFinds, Searches
  <2>3. CASE Judge
    <3>1. CASE onvacation(entry[result])
      BY <2>3, <3>1 DEF Judge, TakeKind, Judged
    <3>2. CASE ~onvacation(entry[result])
      BY <2>3, <3>2 DEF Judge
    <3> QED
      BY <3>1, <3>2
  <2>4. CASE ClockFails
    BY <2>4 DEF ClockFails
  <2>5. CASE NextProcess
    BY <2>5 DEF NextProcess
  <2>6. CASE PassTime
    BY <2>6 DEF PassTime
  <2>7. CASE UNCHANGED vars
    BY <2>7 DEF vars
  <2>8. CASE OpenFails
    BY <2>8 DEF OpenFails
  <2>9. CASE Open
    BY <2>9 DEF Open
  <2>10. CASE NullSearch
    BY <2>10 DEF NullSearch
  <2>11. CASE Message
    <3>1. CASE provider = "ldap"
      <4>1. attr_msg = result /\ default_msg = result /\ subject_prefix = result /\ interval = result
        BY <2>11, <3>1 DEF Message
      <4>2. answer' = [text |-> result, prefix |-> result, interval |-> result]
        BY <2>11, <3>1, <4>1 DEF Message, LdapMessage
      <4> QED
        BY <2>11, <3>1, <4>2 DEF Message
    <3>2. CASE provider # "ldap"
      BY <2>11, <3>2 DEF Message
    <3> QED
      BY <3>1, <3>2
  <2> QED
    BY <2>1, <2>2, <2>3, <2>4, <2>5, <2>6, <2>7, <2>8, <2>9, <2>10, <2>11 DEF Next
<1>3. IInv => OneKind
  OBVIOUS
<1> QED
  BY <1>1, <1>2, <1>3, JudgedAlways, PTL DEF Spec

----------------------------------------------------------------------------
(* Nobody is passed over.                                                  *)

\* Base b owes an answer for all this process has seen.
Due(b) == \E t \in began..now : Away(entry[b], t)

\* How far the search has come: the strengthening that makes NobodyPassedOver
\* inductive.
Asked ==
    provider = "ldap" =>
        /\ pc = "group" => Spared("user")
        /\ pc = "judge" /\ result = "group" => Spared("user")
        /\ pc = "message" => Due(result) /\ (result = "group" => Spared("user"))

LEMMA StillSo ==
    ASSUME TypeOK, NEW b, entry' = entry, began' = began, now' = now \/ now' = now + 1,
           excused => excused'
    PROVE  (Spared(b) => Spared(b)') /\ (Due(b) => Due(b)')
<1>1. \A t \in began..now : t \in began'..now'
  BY TimesAssumption DEF TypeOK
<1>2. ASSUME Spared(b) PROVE Spared(b)'
  <2>1. CASE \E t \in began..now : ~Away(entry[b], t)
    BY <1>1, <2>1 DEF Spared, Away
  <2>2. CASE excused \/ entry[b].matches # 1
    BY <2>2 DEF Spared
  <2> QED
    BY <1>2, <2>1, <2>2 DEF Spared
<1>3. ASSUME Due(b) PROVE Due(b)'
  BY <1>1, <1>3 DEF Due, Away
<1> QED
  BY <1>2, <1>3

LEMMA NowJudged ==
    ASSUME TypeOK
    PROVE  /\ Away(entry[result], now) => Due(result)
           /\ ~Away(entry[result], now) => Spared(result)
<1>1. now \in began..now
  BY TimesAssumption DEF TypeOK
<1> QED
  BY <1>1 DEF Due, Spared

\* The directory answers, and gives a message up, only for those it asked, for
\* any entries, times and failures (vlu_ldap.c:245-275, simvacation.c:124-133).
THEOREM NobodyPassedOverHolds == Spec => []NobodyPassedOver
<1> DEFINE IInv == Asked /\ NobodyPassedOver
<1>1. Init => IInv
  BY DEF Init, Asked, NobodyPassedOver
<1>2. TypeOK /\ Judged /\ IInv /\ [Next]_vars => IInv'
  <2> SUFFICES ASSUME TypeOK, Judged, IInv, [Next]_vars
               PROVE  IInv'
    OBVIOUS
  <2>0. /\ NobodyPassedOver <=>
              (provider = "ldap" =>
                  /\ pc = "permfail" => Spared("user") /\ Spared("group")
                  /\ pc = "answer" /\ result = "group" => Spared("user")
                  /\ pc = "answer" => Due(result))
        /\ NobodyPassedOver' <=>
              (provider' = "ldap" =>
                  /\ pc' = "permfail" => Spared("user")' /\ Spared("group")'
                  /\ pc' = "answer" /\ result' = "group" => Spared("user")'
                  /\ pc' = "answer" => Due(result)')
    BY DEF NobodyPassedOver, Due
  <2> DEFINE Keeps == /\ entry' = entry /\ began' = began /\ (now' = now \/ now' = now + 1)
                      /\ (excused => excused')
  <2>1. ASSUME NEW b \in Bases, SearchFails(b) PROVE IInv'
    <3>1. CASE pc' = "tempfail"
      BY <2>1, <3>1, <2>0 DEF Asked, SearchFails
    <3>2. CASE Permfail(b) /\ excused' = TRUE
      <4>1. Spared("user")' /\ Spared("group")'
        BY <3>2 DEF Spared
      <4> QED
        BY <2>1, <3>2, <4>1, <2>0 DEF Asked, SearchFails, Permfail, Bases
    <3> QED
      BY <2>1, <3>1, <3>2 DEF SearchFails
  <2>2. ASSUME NEW b \in Bases, SearchFinds(b) PROVE IInv'
    <3>1. Keeps
      BY <2>2 DEF SearchFinds, historyVars
    <3>2. Spared("user") => Spared("user")'
      BY <3>1, StillSo
    <3>3. provider = "ldap" /\ pc = b /\ provider' = provider
      BY <2>2 DEF SearchFinds, Searches
    <3>4. CASE entry[b].matches = 1
      BY <2>2, <3>2, <3>3, <3>4, <2>0 DEF SearchFinds, Asked, Bases
    <3>5. CASE entry[b].matches # 1
      <4>1. Spared(b)'
        BY <3>1, <3>5 DEF Spared
      <4> QED
        BY <2>2, <3>2, <3>3, <3>5, <4>1, <2>0 DEF SearchFinds, Asked, Bases, Permfail
    <3> QED
      BY <3>4, <3>5
  <2>3. CASE Judge
    <3>1. Keeps /\ provider' = provider /\ result' = result /\ result \in Bases /\ pc = "judge"
      BY <2>3 DEF Judge, Judged
    <3>2. /\ Spared("user") => Spared("user")'
          /\ Spared("group") => Spared("group")'
          /\ Due("user") => Due("user")'
          /\ Due("group") => Due("group")'
      BY <3>1, StillSo
    <3>3. CASE onvacation(entry[result])
      <4>1. Due(result) /\ pc' = "message"
        BY <2>3, <3>3, NowJudged DEF onvacation, Judge
      <4>2. Due(result)'
        BY <3>1, <3>2, <4>1 DEF Bases, Due
      <4> QED
        BY <3>1, <3>2, <4>1, <4>2, <2>0 DEF Asked
    <3>4. CASE ~onvacation(entry[result])
      <4>1. Spared(result) /\ Permfail(result)
        BY <2>3, <3>4, NowJudged DEF onvacation, Judge
      <4> QED
        BY <3>1, <3>2, <4>1, <2>0 DEF Asked, Bases, Permfail
    <3> QED
      BY <3>3, <3>4
  <2>4. CASE ClockFails
    <3>1. Spared("user")' /\ Spared("group")'
      BY <2>4 DEF ClockFails, Spared
    <3> QED
      BY <2>4, <3>1, <2>0 DEF ClockFails, Asked, Permfail
  <2>5. CASE NextProcess
    BY <2>5, <2>0 DEF NextProcess, Asked
  <2>6. ASSUME UNCHANGED <<provider, pc, result, entry, began, excused>>, now' = now \/ now' = now + 1
        PROVE  IInv'
    <3>1. /\ Spared("user") => Spared("user")'
          /\ Spared("group") => Spared("group")'
          /\ Due(result) => Due(result)'
      <4>1. \A t \in began..now : t \in began'..now'
        BY <2>6, TimesAssumption DEF TypeOK
      <4>2. Due(result) => Due(result)'
        BY <2>6, <4>1 DEF Due, Away
      <4> QED
        BY <2>6, <4>2, StillSo
    <3> QED
      BY <2>6, <3>1, <2>0 DEF Asked
  <2>7. CASE PassTime
    BY <2>6, <2>7 DEF PassTime, historyVars
  <2>8. CASE UNCHANGED vars
    BY <2>6, <2>8 DEF vars, historyVars
  <2>9. CASE OpenFails
    BY <2>9, <2>0 DEF OpenFails, Asked
  <2>10. CASE Open
    BY <2>10, <2>0 DEF Open, Asked
  <2>11. CASE NullSearch
    BY <2>11, <2>0 DEF NullSearch, Asked
  <2>12. CASE Message
    <3>1. Keeps /\ provider' = provider /\ result' = result /\ pc = "message" /\ pc' = "answer"
      BY <2>12 DEF Message, historyVars
    <3>2. Spared("user") => Spared("user")'
      BY <3>1, StillSo
    <3>3. Due(result) => Due(result)'
      BY <2>12 DEF Message, historyVars, Due, Away
    <3> QED
      BY <3>1, <3>2, <3>3, <2>0 DEF Asked
  <2> QED
    BY <2>1, <2>2, <2>3, <2>4, <2>5, <2>7, <2>8, <2>9, <2>10, <2>11, <2>12 DEF Next
<1>3. IInv => NobodyPassedOver
  OBVIOUS
<1> QED
  BY <1>1, <1>2, <1>3, JudgedAlways, PTL DEF Spec

----------------------------------------------------------------------------
\* Induction over sets of numbers.
LEMMA Smallest ==
    ASSUME NEW B, B \subseteq Nat, B # {}
    PROVE  \E n \in B : \A k \in B : n <= k
  <1> DEFINE R == OpToRel(<, Nat)
  <1>1. IsWellFoundedOn(R, Nat)
    BY NatLessThanWellFounded
  <1> HIDE DEF R
  <1>2. PICK n \in B : \A k \in B : ~(<<k, n>> \in R)
    BY <1>1, WFMin
  <1>3. \A k \in B : ~(k < n)
    BY <1>2 DEF R, OpToRel
  <1> QED
    BY <1>3

LEMMA UpwardsFromZero ==
    ASSUME NEW G, 0 \in G, \A n \in Nat : n \in G => n + 1 \in G
    PROVE  \A n \in Nat : n \in G
  <1> DEFINE B == {n \in Nat : n \notin G}
  <1> SUFFICES ASSUME B # {} PROVE FALSE
    OBVIOUS
  <1>1. PICK n \in B : \A k \in B : n <= k
    <2> HIDE DEF B
    <2>1. B \subseteq Nat
      BY DEF B
    <2> QED
      BY <2>1, Smallest
  <1>2. n # 0 /\ n - 1 \in Nat /\ (n - 1) + 1 = n
    OBVIOUS
  <1>3. n - 1 \in G
    BY <1>1, <1>2
  <1> QED
    BY <1>1, <1>2, <1>3

----------------------------------------------------------------------------
(* Sums of polynomials over GF(2).                                         *)

Odd(S) == Cardinality(S) % 2 = 1
Poly(n) == SUBSET (0..n)

LEMMA OddSets ==
    /\ ~Odd({})
    /\ \A x : Odd({x})
  <1>1. Cardinality({}) = 0 /\ \A x : Cardinality({x}) = 1
    BY FS_EmptySet, FS_Singleton
  <1>2. ~(0 % 2 = 1) /\ 1 % 2 = 1
    OBVIOUS
  <1> QED
    BY <1>1, <1>2, Zenon DEF Odd

LEMMA OddOfXor ==
    ASSUME NEW S, IsFiniteSet(S), NEW T, IsFiniteSet(T)
    PROVE  Odd(Xor(S, T)) <=> ~(Odd(S) <=> Odd(T))
  <1> DEFINE m == Cardinality(S)
             n == Cardinality(T)
             k == Cardinality(S \cap T)
  <1>1. m \in Nat /\ n \in Nat /\ k \in Nat
    BY FS_Intersection, FS_CardinalityType
  <1>2. /\ IsFiniteSet(S \ T) /\ Cardinality(S \ T) = m - k
        /\ IsFiniteSet(T \ S) /\ Cardinality(T \ S) = n - k
    <2>1. T \cap S = S \cap T
      OBVIOUS
    <2> QED
      BY <2>1, FS_Difference
  <1>3. Cardinality((S \ T) \cup (T \ S)) = (m - k) + (n - k) - 0
    <2>1. (S \ T) \cap (T \ S) = {}
      OBVIOUS
    <2> QED
      BY <1>2, <2>1, FS_Union, FS_EmptySet
  <1> HIDE DEF m, n, k
  <1>4. Cardinality(Xor(S, T)) = m + n - 2 * k
    BY <1>1, <1>3 DEF Xor
  <1>5. (m + n - 2 * k) % 2 = (m + n) % 2
    BY <1>1
  <1>6. ((m + n) % 2 = 1) <=> ~((m % 2 = 1) <=> (n % 2 = 1))
    BY <1>1
  <1> QED
    BY <1>4, <1>5, <1>6 DEF Odd, m, n

LEMMA InXorOver ==
    ASSUME NEW I, IsFiniteSet(I), NEW p, NEW x
    PROVE  x \in XorOver(I, p) <=> Odd({e \in I : x \in p[e]})
  <1>1. Odd({e \in I : x \in p[e]}) => \E e \in I : x \in p[e]
    <2> SUFFICES ASSUME ~\E e \in I : x \in p[e] PROVE ~Odd({e \in I : x \in p[e]})
      OBVIOUS
    <2>1. {e \in I : x \in p[e]} = {}
      OBVIOUS
    <2> QED
      BY <2>1, OddSets
  <1> QED
    BY <1>1 DEF XorOver, Odd

\* A sum of sums.
LEMMA XorOverOfXor ==
    ASSUME NEW I, IsFiniteSet(I), NEW p, NEW q, NEW r, \A e \in I : r[e] = Xor(p[e], q[e])
    PROVE  XorOver(I, r) = Xor(XorOver(I, p), XorOver(I, q))
  <1> SUFFICES ASSUME NEW x
               PROVE  x \in XorOver(I, r) <=> x \in Xor(XorOver(I, p), XorOver(I, q))
    OBVIOUS
  <1> DEFINE P == {e \in I : x \in p[e]}
             Q == {e \in I : x \in q[e]}
             R == {e \in I : x \in r[e]}
  <1>1. IsFiniteSet(P) /\ IsFiniteSet(Q)
    <2>1. P \in SUBSET I /\ Q \in SUBSET I
      OBVIOUS
    <2> HIDE DEF P, Q
    <2> QED
      BY <2>1, FS_Subset
  <1>2. R = Xor(P, Q)
    BY DEF Xor
  <1>3. x \in XorOver(I, r) <=> Odd(R)
    BY InXorOver
  <1>4. (x \in XorOver(I, p) <=> Odd(P)) /\ (x \in XorOver(I, q) <=> Odd(Q))
    BY InXorOver
  <1> HIDE DEF P, Q, R
  <1>5. Odd(R) <=> ~(Odd(P) <=> Odd(Q))
    BY <1>1, <1>2, OddOfXor
  <1> QED
    BY <1>3, <1>4, <1>5 DEF Xor

\* A sum with one term.
LEMMA XorOverOne ==
    ASSUME NEW I, IsFiniteSet(I), NEW p, NEW k \in I, \A e \in I : e # k => p[e] = {}
    PROVE  XorOver(I, p) = p[k]
  <1> SUFFICES ASSUME NEW x PROVE x \in XorOver(I, p) <=> x \in p[k]
    OBVIOUS
  <1>1. CASE x \in p[k]
    <2>1. {e \in I : x \in p[e]} = {k}
      BY <1>1
    <2> QED
      BY <1>1, <2>1, InXorOver, OddSets
  <1>2. CASE x \notin p[k]
    <2>1. {e \in I : x \in p[e]} = {}
      BY <1>2
    <2> QED
      BY <1>2, <2>1, InXorOver, OddSets
  <1> QED
    BY <1>1, <1>2

Linear(F, n) == \A a, b \in Poly(n) : F[Xor(a, b)] = Xor(F[a], F[b])
SamePowers(F, G, n) == \A e \in 0..n : F[{e}] = G[{e}]
Same(F, G, n) == \A w \in Poly(n) : F[w] = G[w]

\* Linear functions of polynomials that agree on every power of x agree.
LEMMA PowersDecide ==
    ASSUME NEW N \in Nat, NEW F, NEW G, Linear(F, N), Linear(G, N), SamePowers(F, G, N)
    PROVE  Same(F, G, N)
  <1>0. /\ \A a, b \in Poly(N) : F[Xor(a, b)] = Xor(F[a], F[b]) /\ G[Xor(a, b)] = Xor(G[a], G[b])
        /\ \A e \in 0..N : F[{e}] = G[{e}]
    BY DEF Linear, SamePowers
  <1> DEFINE B == {n \in Nat : \A w \in Poly(N) : (\A e \in w : e < n) => F[w] = G[w]}
  <1>1. 0 \in B
    <2>1. F[{}] = {} /\ G[{}] = {}
      <3>1. Xor({}, {}) = {} /\ {} \in Poly(N)
        BY DEF Xor, Poly
      <3>2. F[{}] = Xor(F[{}], F[{}]) /\ G[{}] = Xor(G[{}], G[{}])
        BY <1>0, <3>1
      <3> QED
        BY <3>2 DEF Xor
    <2>2. ASSUME NEW w \in Poly(N), \A e \in w : e < 0 PROVE w = {}
      BY <2>2 DEF Poly
    <2> QED
      BY <2>1, <2>2
  <1>2. ASSUME NEW n \in Nat, n \in B PROVE n + 1 \in B
    <2> SUFFICES ASSUME NEW w \in Poly(N), \A e \in w : e < n + 1 PROVE F[w] = G[w]
      OBVIOUS
    <2>1. CASE n \notin w
      <3>1. \A e \in w : e < n
        BY <2>1 DEF Poly
      <3> QED
        BY <1>2, <3>1
    <2>2. CASE n \in w
      <3> DEFINE v == w \ {n}
      <3>1. v \in Poly(N) /\ {n} \in Poly(N) /\ w = Xor(v, {n}) /\ n \in 0..N /\ \A e \in v : e < n
        BY <2>2 DEF Poly, Xor
      <3> HIDE DEF v
      <3>2. F[v] = G[v]
        BY <1>2, <3>1
      <3> QED
        BY <1>0, <3>1, <3>2
    <2> QED
      BY <2>1, <2>2
  <1> HIDE DEF B
  <1>3. \A n \in Nat : n \in B
    BY <1>1, <1>2, UpwardsFromZero
  <1>4. ASSUME NEW w \in Poly(N) PROVE F[w] = G[w]
    <2>1. \A e \in w : e < N + 1
      BY DEF Poly
    <2>2. N + 1 \in B
      BY <1>3
    <2> QED
      BY <2>1, <2>2 DEF B
  <1> QED
    BY <1>4 DEF Same

----------------------------------------------------------------------------
(* Reduction modulo x^64 + x^4 + x^3 + x + 1.                              *)

Raised(w, n) == {e + n : e \in w}
Image(e) == IF e < 64 THEN {e} ELSE {e - 64 + d : d \in Low}
Reduce(w) == Replaced(Replaced(w))
TimesX(r) == BringDown(r, {})

LEMMA PolyFinite ==
    ASSUME NEW n \in Nat, NEW w \in Poly(n)
    PROVE  IsFiniteSet(w)
  <1>1. 0 \in Int /\ n \in Int /\ w \in SUBSET (0..n)
    BY DEF Poly
  <1>2. IsFiniteSet(0..n)
    BY <1>1, FS_Interval
  <1> QED
    BY <1>1, <1>2, FS_Subset

LEMMA PolyXor ==
    ASSUME NEW n \in Nat, NEW a \in Poly(n), NEW b \in Poly(n)
    PROVE  Xor(a, b) \in Poly(n)
  BY DEF Poly, Xor

LEMMA InReplaced ==
    ASSUME NEW n \in Nat, NEW w \in Poly(n), NEW x
    PROVE  x \in Replaced(w) <=> Odd({e \in w : x \in Image(e)})
  <1> DEFINE p == [e \in w |-> Image(e)]
  <1>1. Replaced(w) = XorOver(w, p)
    BY DEF Replaced, Image
  <1>2. {e \in w : x \in p[e]} = {e \in w : x \in Image(e)}
    OBVIOUS
  <1> HIDE DEF p
  <1> QED
    BY <1>1, <1>2, PolyFinite, InXorOver

LEMMA ReplacedXor ==
    ASSUME NEW n \in Nat, NEW a \in Poly(n), NEW b \in Poly(n)
    PROVE  Replaced(Xor(a, b)) = Xor(Replaced(a), Replaced(b))
  <1> SUFFICES ASSUME NEW x
               PROVE  x \in Replaced(Xor(a, b)) <=> x \in Xor(Replaced(a), Replaced(b))
    OBVIOUS
  <1> DEFINE S == {e \in a : x \in Image(e)}
             T == {e \in b : x \in Image(e)}
             U == {e \in Xor(a, b) : x \in Image(e)}
  <1>1. IsFiniteSet(S) /\ IsFiniteSet(T)
    <2>1. S \in SUBSET a /\ T \in SUBSET b
      OBVIOUS
    <2> HIDE DEF S, T
    <2> QED
      BY <2>1, PolyFinite, FS_Subset
  <1>2. U = Xor(S, T)
    BY DEF Xor
  <1>3. (x \in Replaced(a) <=> Odd(S)) /\ (x \in Replaced(b) <=> Odd(T)) /\ (x \in Replaced(Xor(a, b)) <=> Odd(U))
    BY PolyXor, InReplaced
  <1> HIDE DEF S, T, U
  <1>4. Odd(U) <=> ~(Odd(S) <=> Odd(T))
    BY <1>1, <1>2, OddOfXor
  <1> QED
    BY <1>3, <1>4 DEF Xor

LEMMA ReplacedPower ==
    ASSUME NEW e \in Nat
    PROVE  Replaced({e}) = Image(e)
  <1>1. {e} \in Poly(e)
    BY DEF Poly
  <1> SUFFICES ASSUME NEW x PROVE x \in Replaced({e}) <=> x \in Image(e)
    OBVIOUS
  <1>2. x \in Replaced({e}) <=> Odd({c \in {e} : x \in Image(c)})
    BY <1>1, InReplaced
  <1>3. CASE x \in Image(e)
    <2>1. {c \in {e} : x \in Image(c)} = {e}
      BY <1>3
    <2> QED
      BY <1>2, <1>3, <2>1, OddSets
  <1>4. CASE x \notin Image(e)
    <2>1. {c \in {e} : x \in Image(c)} = {}
      BY <1>4
    <2> QED
      BY <1>2, <1>4, <2>1, OddSets
  <1> QED
    BY <1>3, <1>4

LEMMA ReplacedSmall ==
    ASSUME NEW w \in Poly(63)
    PROVE  Replaced(w) = w
  <1> SUFFICES ASSUME NEW x PROVE x \in Replaced(w) <=> x \in w
    OBVIOUS
  <1>1. x \in Replaced(w) <=> Odd({e \in w : x \in Image(e)})
    BY InReplaced
  <1>2. \A e \in w : Image(e) = {e}
    BY DEF Poly, Image
  <1>3. {e \in w : x \in Image(e)} = IF x \in w THEN {x} ELSE {}
    BY <1>2
  <1> QED
    BY <1>1, <1>3, OddSets

LEMMA ReplacedFrom ==
    ASSUME NEW n \in Nat, NEW w \in Poly(n), NEW x \in Replaced(w)
    PROVE  \E e \in w : x \in Image(e)
  <1> SUFFICES ASSUME ~\E e \in w : x \in Image(e) PROVE FALSE
    OBVIOUS
  <1>1. {e \in w : x \in Image(e)} = {}
    OBVIOUS
  <1> QED
    BY <1>1, InReplaced, OddSets

LEMMA ReplacedBound ==
    /\ \A w \in Poly(127) : Replaced(w) \in Poly(67)
    /\ \A w \in Poly(67) : Replaced(w) \in Poly(63)
  <1>1. ASSUME NEW w \in Poly(127) PROVE Replaced(w) \in Poly(67)
    <2>1. ASSUME NEW x \in Replaced(w) PROVE x \in 0..67
      <3>1. PICK e \in w : x \in Image(e)
        BY ReplacedFrom
      <3>2. e \in 0..127
        BY DEF Poly
      <3> QED
        BY <3>1, <3>2 DEF Image, Low
    <2> QED
      BY <2>1 DEF Poly
  <1>2. ASSUME NEW w \in Poly(67) PROVE Replaced(w) \in Poly(63)
    <2>1. ASSUME NEW x \in Replaced(w) PROVE x \in 0..63
      <3>1. PICK e \in w : x \in Image(e)
        BY ReplacedFrom
      <3>2. e \in 0..67
        BY DEF Poly
      <3> QED
        BY <3>1, <3>2 DEF Image, Low
    <2> QED
      BY <2>1 DEF Poly
  <1> QED
    BY <1>1, <1>2

LEMMA ReduceXor ==
    ASSUME NEW a \in Poly(127), NEW b \in Poly(127)
    PROVE  Reduce(Xor(a, b)) = Xor(Reduce(a), Reduce(b))
  <1>1. Replaced(Xor(a, b)) = Xor(Replaced(a), Replaced(b))
    BY ReplacedXor
  <1>2. Replaced(a) \in Poly(67) /\ Replaced(b) \in Poly(67)
    BY ReplacedBound
  <1>3. Replaced(Xor(Replaced(a), Replaced(b))) = Xor(Replaced(Replaced(a)), Replaced(Replaced(b)))
    BY <1>2, ReplacedXor
  <1> QED
    BY <1>1, <1>3 DEF Reduce

LEMMA ReduceSmall ==
    /\ \A w \in Poly(63) : Reduce(w) = w
    /\ \A w \in Poly(127) : Reduce(w) \in Poly(63)
  BY ReplacedSmall, ReplacedBound DEF Reduce

LEMMA RaisedXor ==
    ASSUME NEW m \in Nat, NEW n \in Nat, NEW a \in Poly(n), NEW b \in Poly(n)
    PROVE  /\ Raised(Xor(a, b), m) = Xor(Raised(a, m), Raised(b, m))
           /\ Raised(a, m) \in Poly(n + m)
  <1>1. Raised(a, m) \in Poly(n + m)
    BY DEF Raised, Poly
  <1>2. ASSUME NEW x, NEW e \in Xor(a, b), x = e + m PROVE x \in Xor(Raised(a, m), Raised(b, m))
    BY <1>2 DEF Raised, Poly, Xor
  <1>3. ASSUME NEW x \in Xor(Raised(a, m), Raised(b, m)) PROVE x \in Raised(Xor(a, b), m)
    BY <1>3 DEF Raised, Poly, Xor
  <1>4. Raised(Xor(a, b), m) \subseteq Xor(Raised(a, m), Raised(b, m))
    BY <1>2 DEF Raised
  <1> QED
    BY <1>1, <1>3, <1>4

\* One step of the division is a multiplication by x and an addition.
LEMMA BringDownSum ==
    ASSUME NEW r \in Poly(63), NEW bit \in SUBSET {0}
    PROVE  /\ BringDown(r, bit) = Xor(TimesX(r), bit)
           /\ TimesX(r) \in Poly(63)
           /\ BringDown(r, bit) \in Poly(63)
           /\ 63 \notin r => TimesX(r) = Raised(r, 1)
  <1> DEFINE u == Raised(r, 1)
  <1>1. u \in SUBSET (1..64) /\ (64 \in u <=> 63 \in r)
    BY DEF Raised, Poly
  <1>2. BringDown(r, bit) = IF 64 \in u THEN Xor((u \cup bit) \ {64}, Low) ELSE u \cup bit
    BY DEF BringDown, Raised
  <1>3. TimesX(r) = IF 64 \in u THEN Xor(u \ {64}, Low) ELSE u
    BY DEF TimesX, BringDown, Raised
  <1> HIDE DEF u
  <1>4. CASE 64 \in u
    <2>1. BringDown(r, bit) = Xor((u \cup bit) \ {64}, Low) /\ TimesX(r) = Xor(u \ {64}, Low)
      BY <1>2, <1>3, <1>4
    <2>2. (u \cup bit) \ {64} = Xor(u \ {64}, bit)
      <3>1. 64 \notin bit /\ 0 \notin u /\ bit \subseteq {0}
        BY <1>1
      <3>2. u \cap bit = {}
        BY <3>1
      <3> QED
        BY <3>1, <3>2 DEF Xor
    <2>3. Xor(Xor(u \ {64}, bit), Low) = Xor(Xor(u \ {64}, Low), bit)
      BY DEF Xor
    <2>4. u \ {64} \in Poly(63) /\ Low \in Poly(63) /\ bit \in Poly(63)
      BY <1>1 DEF Poly, Low
    <2>5. TimesX(r) \in Poly(63)
      BY <2>1, <2>4, PolyXor
    <2>6. BringDown(r, bit) = Xor(TimesX(r), bit)
      BY <2>1, <2>2, <2>3
    <2>7. BringDown(r, bit) \in Poly(63)
      BY <2>4, <2>5, <2>6, PolyXor
    <2> QED
      BY <1>1, <1>4, <2>5, <2>6, <2>7
  <1>5. CASE 64 \notin u
    <2>1. BringDown(r, bit) = u \cup bit /\ TimesX(r) = u
      BY <1>2, <1>3, <1>5
    <2>2. u \cup bit = Xor(u, bit)
      <3>1. 0 \notin u /\ bit \subseteq {0}
        BY <1>1
      <3>2. u \cap bit = {}
        BY <3>1
      <3> QED
        BY <3>2 DEF Xor
    <2>3. u \in Poly(63) /\ u \cup bit \in Poly(63)
      BY <1>1, <1>5 DEF Poly
    <2> QED
      BY <2>1, <2>2, <2>3 DEF u
  <1> QED
    BY <1>4, <1>5

LEMMA TimesXXor ==
    ASSUME NEW a \in Poly(63), NEW b \in Poly(63)
    PROVE  TimesX(Xor(a, b)) = Xor(TimesX(a), TimesX(b))
  <1> DEFINE Top(w) == IF 63 \in w THEN {64} ELSE {}
             Back(w) == IF 63 \in w THEN Low ELSE {}
             Sums(w) == Xor(Xor(Raised(w, 1), Top(w)), Back(w))
  <1>1. ASSUME NEW w \in Poly(63) PROVE TimesX(w) = Sums(w)
    <2> DEFINE u == Raised(w, 1)
    <2>1. u \in SUBSET (1..64) /\ (64 \in u <=> 63 \in w)
      BY DEF Raised, Poly
    <2>2. TimesX(w) = IF 64 \in u THEN Xor(u \ {64}, Low) ELSE u
      BY DEF TimesX, BringDown, Raised
    <2> HIDE DEF u
    <2>3. CASE 63 \in w
      <3>1. u \ {64} = Xor(u, {64})
        BY <2>1, <2>3 DEF Xor
      <3> QED
        BY <2>1, <2>2, <2>3, <3>1 DEF u
    <2>4. CASE 63 \notin w
      <3>1. Xor(Xor(u, {}), {}) = u
        BY DEF Xor
      <3> QED
        BY <2>1, <2>2, <2>4, <3>1 DEF u
    <2> QED
      BY <2>3, <2>4
  <1>2. Xor(a, b) \in Poly(63)
    BY PolyXor
  <1>3. Raised(Xor(a, b), 1) = Xor(Raised(a, 1), Raised(b, 1))
    BY RaisedXor
  <1>4. Top(Xor(a, b)) = Xor(Top(a), Top(b)) /\ Back(Xor(a, b)) = Xor(Back(a), Back(b))
    BY DEF Xor
  <1>5. \A p, q, r, t, u, v :
            Xor(Xor(Xor(p, q), Xor(r, t)), Xor(u, v)) = Xor(Xor(Xor(p, r), u), Xor(Xor(q, t), v))
    BY DEF Xor
  <1> HIDE DEF Top, Back
  <1>6. Sums(Xor(a, b)) = Xor(Sums(a), Sums(b))
    BY <1>3, <1>4, <1>5
  <1> HIDE DEF Sums
  <1> QED
    BY <1>1, <1>2, <1>6

\* What x^64 is replaced by, and its multiples.
LEMMA Images ==
    /\ \A e \in 0..63 : Image(e) = {e}
    /\ Image(64) = Low
    /\ \A e \in 64..127 : Image(e) = {e - 64, e - 63, e - 61, e - 60}
    /\ \A e \in 64..126 : Raised(Image(e), 1) = Image(e + 1)
  <1>1. ASSUME NEW e \in 64..127 PROVE Image(e) = {e - 64, e - 63, e - 61, e - 60}
    <2>1. {e - 64 + d : d \in Low} = {e - 64 + 0, e - 64 + 1, e - 64 + 3, e - 64 + 4}
      BY DEF Low
    <2> QED
      BY <2>1 DEF Image
  <1>2. Image(64) = Low
    BY <1>1 DEF Low
  <1>3. ASSUME NEW e \in 64..126 PROVE Raised(Image(e), 1) = Image(e + 1)
    <2>1. Raised({e - 64, e - 63, e - 61, e - 60}, 1) = {e - 64 + 1, e - 63 + 1, e - 61 + 1, e - 60 + 1}
      BY DEF Raised
    <2>2. Image(e + 1) = {e + 1 - 64, e + 1 - 63, e + 1 - 61, e + 1 - 60}
      BY <1>1
    <2>3. Image(e) = {e - 64, e - 63, e - 61, e - 60}
      BY <1>1
    <2>4. e - 64 + 1 = e + 1 - 64 /\ e - 63 + 1 = e + 1 - 63 /\ e - 61 + 1 = e + 1 - 61 /\ e - 60 + 1 = e + 1 - 60
      OBVIOUS
    <2> QED
      BY <2>1, <2>2, <2>3, <2>4
  <1>4. \A e \in 0..63 : Image(e) = {e}
    BY DEF Image
  <1> QED
    BY <1>1, <1>2, <1>3, <1>4

LEMMA RaisedPower ==
    ASSUME NEW e \in Nat, NEW m \in Nat
    PROVE  Raised({e}, m) = {e + m}
  BY DEF Raised

\* Multiplying after the replacement is multiplying before it.
LEMMA TimesXReplaced ==
    ASSUME NEW w \in Poly(67)
    PROVE  TimesX(Replaced(w)) = Replaced(Raised(w, 1))
  <1> DEFINE F == [v \in Poly(67) |-> TimesX(Replaced(v))]
             G == [v \in Poly(67) |-> Replaced(Raised(v, 1))]
  <1>1. ASSUME NEW a \in Poly(67), NEW b \in Poly(67)
        PROVE  F[Xor(a, b)] = Xor(F[a], F[b]) /\ G[Xor(a, b)] = Xor(G[a], G[b])
    <2>1. Xor(a, b) \in Poly(67) /\ Replaced(a) \in Poly(63) /\ Replaced(b) \in Poly(63)
      BY PolyXor, ReplacedBound
    <2>2. TimesX(Replaced(Xor(a, b))) = Xor(TimesX(Replaced(a)), TimesX(Replaced(b)))
      BY <2>1, ReplacedXor, TimesXXor
    <2>3. /\ Raised(Xor(a, b), 1) = Xor(Raised(a, 1), Raised(b, 1))
          /\ Raised(a, 1) \in Poly(67 + 1) /\ Raised(b, 1) \in Poly(67 + 1)
      BY RaisedXor
    <2>4. Replaced(Raised(Xor(a, b), 1)) = Xor(Replaced(Raised(a, 1)), Replaced(Raised(b, 1)))
      BY <2>3, ReplacedXor
    <2> QED
      BY <2>1, <2>2, <2>4
  <1>2. ASSUME NEW e \in 0..67 PROVE F[{e}] = G[{e}]
    <2>1. {e} \in Poly(67) /\ Replaced({e}) = Image(e) /\ Replaced(Raised({e}, 1)) = Image(e + 1)
      BY ReplacedPower, RaisedPower DEF Poly
    <2>2. Image(e) \in Poly(63) /\ TimesX(Image(e)) = IF 63 \in Image(e) THEN TimesX({63}) ELSE Raised(Image(e), 1)
      <3>1. Image(e) \in Poly(63) /\ (63 \in Image(e) => Image(e) = {63})
        BY Images DEF Poly
      <3> QED
        BY <3>1, BringDownSum
    <2>3. TimesX({63}) = Low
      <3>1. {x + 1 : x \in {63}} \cup {} = {64}
        OBVIOUS
      <3>2. TimesX({63}) = Xor({64} \ {64}, Low)
        BY <3>1 DEF TimesX, BringDown
      <3> QED
        BY <3>2 DEF Xor
    <2>4. TimesX(Image(e)) = Image(e + 1)
      <3>1. CASE e < 63
        <4>1. Image(e) = {e} /\ Image(e + 1) = {e + 1} /\ 63 \notin Image(e)
          BY <3>1, Images
        <4>2. Raised({e}, 1) = {e + 1}
          BY RaisedPower
        <4> QED
          BY <2>2, <4>1, <4>2
      <3>2. CASE e = 63
        BY <2>2, <2>3, <3>2, Images
      <3>3. CASE e > 63
        <4>1. e \in 64..126 /\ 63 \notin Image(e)
          BY <3>3, Images
        <4> QED
          BY <2>2, <4>1, Images
      <3> QED
        BY <3>1, <3>2, <3>3
    <2> QED
      BY <2>1, <2>4
  <1>3. F[w] = TimesX(Replaced(w)) /\ G[w] = Replaced(Raised(w, 1))
    OBVIOUS
  <1> HIDE DEF F, G
  <1>4. \A v \in Poly(67) : F[v] = G[v]
    <2>1. Linear(F, 67) /\ Linear(G, 67) /\ SamePowers(F, G, 67)
      BY <1>1, <1>2 DEF Linear, SamePowers
    <2>2. Same(F, G, 67)
      BY <2>1, PowersDecide
    <2> QED
      BY <2>2 DEF Same
  <1> QED
    BY <1>3, <1>4

LEMMA ReplacedRaised ==
    ASSUME NEW w \in Poly(126)
    PROVE  Replaced(Raised(Replaced(w), 1)) = Replaced(Replaced(Raised(w, 1)))
  <1> DEFINE F == [v \in Poly(126) |-> Replaced(Raised(Replaced(v), 1))]
             G == [v \in Poly(126) |-> Replaced(Replaced(Raised(v, 1)))]
  <1>0. \A v \in Poly(126) : v \in Poly(127) /\ Replaced(v) \in Poly(67)
    BY ReplacedBound DEF Poly
  <1>1. ASSUME NEW a \in Poly(126), NEW b \in Poly(126)
        PROVE  F[Xor(a, b)] = Xor(F[a], F[b]) /\ G[Xor(a, b)] = Xor(G[a], G[b])
    <2>1. Xor(a, b) \in Poly(126) /\ Replaced(a) \in Poly(67) /\ Replaced(b) \in Poly(67)
      BY <1>0, PolyXor
    <2>2. Replaced(Xor(a, b)) = Xor(Replaced(a), Replaced(b))
      BY ReplacedXor
    <2>3. /\ Raised(Replaced(Xor(a, b)), 1) = Xor(Raised(Replaced(a), 1), Raised(Replaced(b), 1))
          /\ Raised(Replaced(a), 1) \in Poly(67 + 1) /\ Raised(Replaced(b), 1) \in Poly(67 + 1)
      BY <2>1, <2>2, RaisedXor
    <2>4. Replaced(Raised(Replaced(Xor(a, b)), 1))
          = Xor(Replaced(Raised(Replaced(a), 1)), Replaced(Raised(Replaced(b), 1)))
      BY <2>3, ReplacedXor
    <2>5. /\ Raised(Xor(a, b), 1) = Xor(Raised(a, 1), Raised(b, 1))
          /\ Raised(a, 1) \in Poly(127) /\ Raised(b, 1) \in Poly(127)
      <3>1. Raised(a, 1) \in Poly(126 + 1) /\ Raised(b, 1) \in Poly(126 + 1) /\ 126 + 1 = 127
        BY RaisedXor
      <3> QED
        BY <3>1, RaisedXor
    <2>6. Replaced(Replaced(Raised(Xor(a, b), 1)))
          = Xor(Replaced(Replaced(Raised(a, 1))), Replaced(Replaced(Raised(b, 1))))
      BY <2>5, ReduceXor DEF Reduce
    <2> QED
      BY <2>1, <2>4, <2>6
  <1>2. ASSUME NEW e \in 0..126 PROVE F[{e}] = G[{e}]
    <2>1. {e} \in Poly(126) /\ Replaced({e}) = Image(e) /\ Replaced(Raised({e}, 1)) = Image(e + 1)
      BY ReplacedPower, RaisedPower DEF Poly
    <2>2. Replaced(Raised(Image(e), 1)) = Replaced(Image(e + 1))
      <3>1. CASE e < 63
        <4>1. Image(e) = {e} /\ Image(e + 1) = {e + 1}
          BY <3>1, Images
        <4>2. Raised({e}, 1) = {e + 1}
          BY RaisedPower
        <4>3. {e + 1} \in Poly(63)
          BY <3>1 DEF Poly
        <4>4. Replaced({e + 1}) = {e + 1}
          BY <4>3, ReplacedSmall
        <4> QED
          BY <4>1, <4>2
      <3>2. CASE e = 63
        <4>1. Raised(Image(e), 1) = {64} /\ Image(e + 1) = Low
          <5>1. Image(e) = {63} /\ Image(e + 1) = Low
            BY <3>2, Images
          <5>2. Raised({63}, 1) = {64}
            BY DEF Raised
          <5> QED
            BY <5>1, <5>2
        <4>2. Replaced({64}) = Low
          BY ReplacedPower, Images
        <4>3. Replaced(Low) = Low
          BY ReplacedSmall DEF Low, Poly
        <4> QED
          BY <4>1, <4>2, <4>3
      <3>3. CASE e > 63
        BY <3>3, Images
      <3> QED
        BY <3>1, <3>2, <3>3
    <2> QED
      BY <2>1, <2>2
  <1>3. F[w] = Replaced(Raised(Replaced(w), 1)) /\ G[w] = Replaced(Replaced(Raised(w, 1)))
    OBVIOUS
  <1> HIDE DEF F, G
  <1>4. \A v \in Poly(126) : F[v] = G[v]
    <2>1. Linear(F, 126) /\ Linear(G, 126) /\ SamePowers(F, G, 126)
      BY <1>1, <1>2 DEF Linear, SamePowers
    <2>2. Same(F, G, 126)
      BY <2>1, PowersDecide
    <2> QED
      BY <2>2 DEF Same
  <1> QED
    BY <1>3, <1>4

LEMMA TimesXReduce ==
    ASSUME NEW w \in Poly(126)
    PROVE  TimesX(Reduce(w)) = Reduce(Raised(w, 1))
  <1>1. Replaced(w) \in Poly(67)
    BY ReplacedBound DEF Poly
  <1>2. TimesX(Replaced(Replaced(w))) = Replaced(Raised(Replaced(w), 1))
    BY <1>1, TimesXReplaced
  <1> QED
    BY <1>2, ReplacedRaised DEF Reduce

----------------------------------------------------------------------------
(* The tables.                                                             *)

LEMMA TableIs ==
    ASSUME NEW k \in 0..7, NEW b \in Byte
    PROVE  tables[k + 1][b] = Reduce(Raised(b, 64 + 8 * k))
  <1>1. \A n \in {64, 72, 80, 88, 96, 104, 112, 120} : Reduced(b, n) = Reduce(Raised(b, n))
    BY DEF Reduced, Reduce, Raised
  <1>2. /\ table32[b] = Reduced(b, 64) /\ table40[b] = Reduced(b, 72)
        /\ table48[b] = Reduced(b, 80) /\ table56[b] = Reduced(b, 88)
        /\ table64[b] = Reduced(b, 96) /\ table72[b] = Reduced(b, 104)
        /\ table80[b] = Reduced(b, 112) /\ table88[b] = Reduced(b, 120)
    BY DEF table32, table40, table48, table56, table64, table72, table80, table88
  <1>3. /\ tables[0 + 1] = table32 /\ tables[1 + 1] = table40 /\ tables[2 + 1] = table48
        /\ tables[3 + 1] = table56 /\ tables[4 + 1] = table64 /\ tables[5 + 1] = table72
        /\ tables[6 + 1] = table80 /\ tables[7 + 1] = table88
    BY DEF tables
  <1>4. k = 0 \/ k = 1 \/ k = 2 \/ k = 3 \/ k = 4 \/ k = 5 \/ k = 6 \/ k = 7
    OBVIOUS
  <1> HIDE DEF tables, table32, table40, table48, table56, table64, table72, table80, table88
  <1> QED
    BY <1>1, <1>2, <1>3, <1>4

LEMMA BytesOf ==
    ASSUME NEW w \in Poly(63), NEW k \in 0..7
    PROVE  ByteOf(w, k) \in Byte
  BY DEF ByteOf, Byte

LEMMA LookedUp ==
    ASSUME NEW w \in Poly(63)
    PROVE  rh_lookup(w) = Reduce(Raised(w, 64))
  <1> DEFINE Table(k, v) == tables[k + 1][ByteOf(v, k)]
             T(v) == [k \in 0..7 |-> Table(k, v)]
             F == [v \in Poly(63) |-> XorOver(0..7, T(v))]
             G == [v \in Poly(63) |-> Reduce(Raised(v, 64))]
  <1>0. IsFiniteSet(0..7)
    <2>1. 0 \in Int /\ 7 \in Int
      OBVIOUS
    <2> QED
      BY <2>1, FS_Interval
  <1>a. ASSUME NEW b \in Byte, NEW k \in 0..7
        PROVE  Raised(b, 64 + 8 * k) \in Poly(127)
    BY DEF Raised, Poly, Byte
  <1>1. ASSUME NEW a \in Poly(63), NEW b \in Poly(63)
        PROVE  F[Xor(a, b)] = Xor(F[a], F[b]) /\ G[Xor(a, b)] = Xor(G[a], G[b])
    <2>1. Xor(a, b) \in Poly(63)
      BY PolyXor
    <2>2. ASSUME NEW k \in 0..7 PROVE Table(k, Xor(a, b)) = Xor(Table(k, a), Table(k, b))
      <3> DEFINE c == ByteOf(a, k)
                 d == ByteOf(b, k)
                 n == 64 + 8 * k
      <3>1. ByteOf(Xor(a, b), k) = Xor(c, d)
        BY DEF ByteOf, Xor
      <3>2. c \in Byte /\ d \in Byte /\ Xor(c, d) \in Byte
        BY <2>1, <3>1, BytesOf
      <3> HIDE DEF c, d
      <3>3. c \in Poly(7) /\ d \in Poly(7) /\ n \in Nat
        BY <3>2 DEF Byte, Poly
      <3>4. Raised(Xor(c, d), n) = Xor(Raised(c, n), Raised(d, n))
        BY <3>3, RaisedXor
      <3>5. Reduce(Raised(Xor(c, d), n)) = Xor(Reduce(Raised(c, n)), Reduce(Raised(d, n)))
        BY <1>a, <3>2, <3>4, ReduceXor
      <3>6. /\ tables[k + 1][c] = Reduce(Raised(c, n)) /\ tables[k + 1][d] = Reduce(Raised(d, n))
            /\ tables[k + 1][Xor(c, d)] = Reduce(Raised(Xor(c, d), n))
        BY <3>2, TableIs
      <3> QED
        BY <3>1, <3>5, <3>6 DEF c, d
    <2> HIDE DEF Table
    <2>3. XorOver(0..7, T(Xor(a, b))) = Xor(XorOver(0..7, T(a)), XorOver(0..7, T(b)))
      <3>1. \A k \in 0..7 : T(Xor(a, b))[k] = Xor(T(a)[k], T(b)[k])
        BY <2>2
      <3> HIDE DEF T
      <3> QED
        BY <1>0, <3>1, XorOverOfXor
    <2>4. /\ Raised(Xor(a, b), 64) = Xor(Raised(a, 64), Raised(b, 64))
          /\ Raised(a, 64) \in Poly(127) /\ Raised(b, 64) \in Poly(127)
      <3>1. Raised(a, 64) \in Poly(63 + 64) /\ Raised(b, 64) \in Poly(63 + 64) /\ 63 + 64 = 127
        BY RaisedXor
      <3> QED
        BY <3>1, RaisedXor
    <2>5. Reduce(Raised(Xor(a, b), 64)) = Xor(Reduce(Raised(a, 64)), Reduce(Raised(b, 64)))
      BY <2>4, ReduceXor
    <2> HIDE DEF T
    <2> QED
      BY <2>1, <2>3, <2>5
  <1>2. ASSUME NEW e \in 0..63 PROVE F[{e}] = G[{e}]
    <2> DEFINE k == e \div 8
               j == e % 8
    <2>1. {e} \in Poly(63) /\ k \in 0..7 /\ j \in 0..7 /\ e = j + 8 * k
      BY DEF Poly
    <2>2. ByteOf({e}, k) = {j} /\ \A l \in 0..7 : l # k => ByteOf({e}, l) = {}
      BY <2>1 DEF ByteOf
    <2> HIDE DEF k, j
    <2>3. Table(k, {e}) = Reduce({e + 64})
      <3>1. {j} \in Byte /\ Raised({j}, 64 + 8 * k) = {j + (64 + 8 * k)} /\ j + (64 + 8 * k) = e + 64
        <4>1. j \in Nat /\ 64 + 8 * k \in Nat
          BY <2>1
        <4>2. Raised({j}, 64 + 8 * k) = {j + (64 + 8 * k)}
          BY <4>1, RaisedPower
        <4>3. {j} \in Byte
          BY <2>1 DEF Byte
        <4>4. j + (64 + 8 * k) = e + 64
          BY <2>1
        <4> QED
          BY <4>2, <4>3, <4>4
      <3> QED
        BY <2>1, <2>2, <3>1, TableIs
    <2>4. ASSUME NEW l \in 0..7, l # k PROVE Table(l, {e}) = {}
      <3>1. {} \in Byte /\ Raised({}, 64 + 8 * l) = {}
        BY DEF Byte, Raised
      <3>2. Reduce({}) = {}
        BY ReduceSmall DEF Poly
      <3> QED
        BY <2>2, <2>4, <3>1, <3>2, TableIs
    <2> HIDE DEF Table
    <2>5. XorOver(0..7, T({e})) = Table(k, {e})
      <3>1. T({e})[k] = Table(k, {e}) /\ \A l \in 0..7 : l # k => T({e})[l] = {}
        BY <2>1, <2>4
      <3> HIDE DEF T
      <3>2. XorOver(0..7, T({e})) = T({e})[k]
        <4> DEFINE I == 0..7
        <4>1. IsFiniteSet(I) /\ k \in I /\ \A l \in I : l # k => T({e})[l] = {}
          BY <1>0, <2>1, <3>1
        <4> HIDE DEF I
        <4>2. XorOver(I, T({e})) = T({e})[k]
          BY <4>1, XorOverOne
        <4> QED
          BY <4>2 DEF I
      <3> QED
        BY <3>1, <3>2
    <2>6. Raised({e}, 64) = {e + 64}
      BY RaisedPower
    <2> HIDE DEF T
    <2> QED
      BY <2>1, <2>3, <2>5, <2>6
  <1>3. F[w] = rh_lookup(w) /\ G[w] = Reduce(Raised(w, 64))
    BY DEF rh_lookup
  <1> HIDE DEF F, G
  <1>4. \A v \in Poly(63) : F[v] = G[v]
    <2>1. Linear(F, 63) /\ Linear(G, 63) /\ SamePowers(F, G, 63)
      BY <1>1, <1>2 DEF Linear, SamePowers
    <2>2. Same(F, G, 63)
      BY <2>1, PowersDecide
    <2> QED
      BY <2>2 DEF Same
  <1> QED
    BY <1>3, <1>4

----------------------------------------------------------------------------
(* Division, bit by bit, and what up to 64 steps of it come to.            *)

\* The n-th bit of a message.
BitOf(t, n) == IF 7 - ((n - 1) % 8) \in t[(n - 1) \div 8 + 1] THEN {0} ELSE {}

Taken(t, m, n) == {n - q : q \in {q \in 1..n : BitOf(t, m + q) # {}}}
Advance(t, m, r, n) == Xor(Reduce(Raised(r, n)), Taken(t, m, n))

LEMMA BitIs == \A t, n : BitOf(t, n) \in SUBSET {0}
  BY DEF BitOf

LEMMA TakenIs ==
    ASSUME NEW t, NEW m \in Nat, NEW n \in Nat
    PROVE  Taken(t, m, n) \in SUBSET (0..(n - 1)) /\ Taken(t, m, 0) = {}
  BY DEF Taken

LEMMA TakenNext ==
    ASSUME NEW t, NEW m \in Nat, NEW n \in Nat
    PROVE  Taken(t, m, n + 1) = Xor(Raised(Taken(t, m, n), 1), BitOf(t, m + (n + 1)))
  <1> DEFINE bit == BitOf(t, m + (n + 1))
             T == Taken(t, m, n)
             U == Taken(t, m, n + 1)
             Set(q) == BitOf(t, m + q) # {}
  <1>1. bit \in SUBSET {0} /\ (0 \in bit <=> Set(n + 1))
    BY BitIs
  <1>2. \A x : x \in T <=> \E q \in 1..n : Set(q) /\ x = n - q
    BY DEF Taken
  <1>3. \A x : x \in U <=> \E q \in 1..(n + 1) : Set(q) /\ x = n + 1 - q
    BY DEF Taken
  <1> HIDE DEF bit, T, U, Set
  <1>4. \A x : x \in Raised(T, 1) <=> \E q \in 1..n : Set(q) /\ x = n + 1 - q
    <2>1. ASSUME NEW q \in 1..n, Set(q) PROVE n + 1 - q \in Raised(T, 1)
      <3>1. n - q \in T /\ n + 1 - q = (n - q) + 1
        BY <1>2, <2>1
      <3> QED
        BY <3>1 DEF Raised
    <2>2. ASSUME NEW x \in Raised(T, 1) PROVE \E q \in 1..n : Set(q) /\ x = n + 1 - q
      <3>1. PICK y \in T : x = y + 1
        BY DEF Raised
      <3>2. PICK q \in 1..n : Set(q) /\ y = n - q
        BY <1>2, <3>1
      <3> QED
        BY <3>1, <3>2
    <2> QED
      BY <2>1, <2>2
  <1>5. ASSUME NEW x PROVE x \in U <=> (x \in Raised(T, 1) \/ x \in bit)
    <2>1. ASSUME x \in U PROVE x \in Raised(T, 1) \/ x \in bit
      <3>1. PICK q \in 1..(n + 1) : Set(q) /\ x = n + 1 - q
        BY <1>3, <2>1
      <3>2. CASE q = n + 1
        BY <1>1, <3>1, <3>2
      <3>3. CASE q \in 1..n
        BY <1>4, <3>1, <3>3
      <3> QED
        BY <3>2, <3>3
    <2>2. ASSUME x \in Raised(T, 1) PROVE x \in U
      <3>1. PICK q \in 1..n : Set(q) /\ x = n + 1 - q
        BY <1>4, <2>2
      <3>2. q \in 1..(n + 1)
        OBVIOUS
      <3> QED
        BY <1>3, <3>1, <3>2
    <2>3. ASSUME x \in bit PROVE x \in U
      <3>1. x = n + 1 - (n + 1) /\ Set(n + 1) /\ n + 1 \in 1..(n + 1)
        BY <1>1, <2>3
      <3> QED
        BY <1>3, <3>1
    <2> QED
      BY <2>1, <2>2, <2>3
  <1>6. Raised(T, 1) \cap bit = {}
    <2>1. \A x \in Raised(T, 1) : x # 0
      BY <1>4
    <2> QED
      BY <1>1, <2>1
  <1>7. U = Raised(T, 1) \cup bit
    BY <1>5
  <1>8. U = Xor(Raised(T, 1), bit)
    BY <1>6, <1>7 DEF Xor
  <1> QED
    BY <1>8 DEF U, T, bit

LEMMA AdvanceIs ==
    ASSUME NEW t, NEW m \in Nat, NEW r \in Poly(63), NEW n \in 0..64
    PROVE  Advance(t, m, r, n) \in Poly(63) /\ Advance(t, m, r, 0) = r
  <1>1. Raised(r, n) \in Poly(127)
    BY DEF Raised, Poly
  <1>2. Taken(t, m, n) \in Poly(63)
    <2>1. n \in Nat /\ 0..(n - 1) \subseteq 0..63
      OBVIOUS
    <2>2. Taken(t, m, n) \in SUBSET (0..(n - 1))
      BY <2>1, TakenIs
    <2> QED
      BY <2>1, <2>2 DEF Poly
  <1>3. Advance(t, m, r, n) \in Poly(63)
    BY <1>1, <1>2, ReduceSmall, PolyXor DEF Advance
  <1>4. Raised(r, 0) = r
    <2>1. \A e \in r : e + 0 = e
      BY DEF Poly
    <2> QED
      BY <2>1 DEF Raised
  <1>5. Advance(t, m, r, 0) = Xor(r, {})
    BY <1>4, TakenIs, ReduceSmall DEF Advance
  <1> QED
    BY <1>3, <1>5 DEF Xor

LEMMA AdvanceNext ==
    ASSUME NEW t, NEW m \in Nat, NEW r \in Poly(63), NEW n \in 0..63
    PROVE  Advance(t, m, r, n + 1) = BringDown(Advance(t, m, r, n), BitOf(t, m + (n + 1)))
  <1> DEFINE A == Reduce(Raised(r, n))
             T == Taken(t, m, n)
             bit == BitOf(t, m + (n + 1))
  <1>1. Raised(r, n) \in Poly(126) /\ Raised(r, n) \in Poly(127)
    <2>1. \A e \in r : e + n \in 0..126 /\ e + n \in 0..127
      BY DEF Poly
    <2>2. \A x \in Raised(r, n) : x \in 0..126 /\ x \in 0..127
      BY <2>1 DEF Raised
    <2> QED
      BY <2>2 DEF Poly
  <1>2. A \in Poly(63)
    BY <1>1, ReduceSmall
  <1>3. T \in Poly(63) /\ 63 \notin T
    <2>1. n \in Nat /\ 0..(n - 1) \subseteq 0..63 /\ 63 \notin 0..(n - 1)
      OBVIOUS
    <2>2. T \in SUBSET (0..(n - 1))
      BY <2>1, TakenIs
    <2> HIDE DEF T
    <2> QED
      BY <2>1, <2>2 DEF Poly
  <1>4. bit \in SUBSET {0}
    BY BitIs
  <1>5. Raised(Raised(r, n), 1) = Raised(r, n + 1)
    <2>1. \A e \in r : e + n + 1 = e + (n + 1)
      BY DEF Poly
    <2> QED
      BY <2>1 DEF Raised
  <1>6. TimesX(A) = Reduce(Raised(r, n + 1))
    BY <1>1, <1>5, TimesXReduce
  <1>7. Taken(t, m, n + 1) = Xor(Raised(T, 1), bit)
    BY TakenNext
  <1>8. Advance(t, m, r, n) = Xor(A, T)
    BY DEF Advance
  <1>9. Advance(t, m, r, n + 1) = Xor(TimesX(A), Xor(Raised(T, 1), bit))
    BY <1>6, <1>7 DEF Advance
  <1> HIDE DEF A, T, bit
  <1>10. BringDown(Xor(A, T), bit) = Xor(Xor(TimesX(A), TimesX(T)), bit)
    <2>1. Xor(A, T) \in Poly(63)
      BY <1>2, <1>3, PolyXor
    <2>2. BringDown(Xor(A, T), bit) = Xor(TimesX(Xor(A, T)), bit)
      BY <1>4, <2>1, BringDownSum
    <2> QED
      BY <1>2, <1>3, <2>2, TimesXXor
  <1>11. TimesX(T) = Raised(T, 1)
    BY <1>3, BringDownSum
  <1>12. \A p, q : Xor(Xor(p, q), bit) = Xor(p, Xor(q, bit))
    BY DEF Xor
  <1> QED
    BY <1>8, <1>9, <1>10, <1>11, <1>12 DEF bit

Follows(f, t, n) == f[0] = {} /\ \A k \in 1..n : f[k] = BringDown(f[k - 1], BitOf(t, k))
Remains(t, n, r) == \E f : Follows(f, t, n) /\ f[n] = r

LEMMA RemainsOn ==
    ASSUME NEW t, NEW m \in Nat, NEW r \in Poly(63), Remains(t, m, r), NEW n \in 0..64
    PROVE  Remains(t, m + n, Advance(t, m, r, n))
  <1>1. PICK f : Follows(f, t, m) /\ f[m] = r
    BY DEF Remains
  <1> DEFINE g == [k \in 0..(m + n) |-> IF k <= m THEN f[k] ELSE Advance(t, m, r, k - m)]
  <1>2. ASSUME NEW k \in m..(m + n) PROVE g[k] = Advance(t, m, r, k - m)
    <2>1. CASE k = m
      BY <1>1, <2>1, AdvanceIs
    <2>2. CASE k # m
      BY <2>2
    <2> QED
      BY <2>1, <2>2
  <1>3. \A k \in 0..m : g[k] = f[k]
    OBVIOUS
  <1> HIDE DEF g
  <1>4. g[0] = {}
    BY <1>1, <1>3 DEF Follows
  <1>5. ASSUME NEW k \in 1..(m + n) PROVE g[k] = BringDown(g[k - 1], BitOf(t, k))
    <2>1. CASE k <= m
      BY <1>1, <1>3, <2>1 DEF Follows
    <2>2. CASE k > m
      <3> DEFINE j == k - 1 - m
      <3>1. j \in 0..63 /\ k - 1 \in m..(m + n) /\ k \in m..(m + n) /\ k - m = j + 1 /\ k = m + (j + 1)
        BY <2>2
      <3>2. g[k - 1] = Advance(t, m, r, j) /\ g[k] = Advance(t, m, r, j + 1)
        BY <1>2, <3>1
      <3> HIDE DEF j
      <3> QED
        BY <3>1, <3>2, AdvanceNext
    <2> QED
      BY <2>1, <2>2
  <1>6. g[m + n] = Advance(t, m, r, n)
    <2>1. m + n \in m..(m + n) /\ (m + n) - m = n
      OBVIOUS
    <2> QED
      BY <1>2, <2>1
  <1> QED
    BY <1>4, <1>5, <1>6 DEF Remains, Follows

LEMMA BitOfByte ==
    ASSUME NEW t \in Seq(Byte), NEW k \in Nat, NEW j \in 1..8
    PROVE  BitOf(t, 8 * k + j) = Bit(t[k + 1], j)
  <1>1. ((8 * k + j) - 1) \div 8 = k /\ ((8 * k + j) - 1) % 8 = j - 1
    OBVIOUS
  <1>2. 7 - (j - 1) = 8 - j
    OBVIOUS
  <1> QED
    BY <1>1, <1>2 DEF BitOf, Bit

\* The definitions by recursion have what their equations say.
LEMMA DownBitsIs ==
    ASSUME NEW r \in Poly(63), NEW b \in Byte, NEW f, f[0] = r,
           \A n \in 1..8 : f[n] = BringDown(f[n - 1], Bit(b, n))
    PROVE  DownBits(r, b) = f[8]
  <1> DEFINE E(g) == [n \in 0..8 |-> IF n = 0 THEN r ELSE BringDown(g[n - 1], Bit(b, n))]
             D == CHOOSE g : g = E(g)
             h == [n \in 0..8 |-> f[n]]
  <1>1. DownBits(r, b) = D[8]
    BY DEF DownBits
  <1>2. h = E(h)
    OBVIOUS
  <1>3. D = E(D)
    <2> HIDE DEF E, h
    <2> QED
      BY <1>2
  <1>4. D[0] = f[0] /\ \A n \in 1..8 : D[n] = BringDown(D[n - 1], Bit(b, n))
    <2> HIDE DEF D
    <2> QED
      BY <1>3
  <1> HIDE DEF D
  <1> DEFINE G == {n \in Nat : n \in 0..8 => D[n] = f[n]}
  <1>5. 0 \in G
    BY <1>4
  <1>6. ASSUME NEW n \in Nat, n \in G PROVE n + 1 \in G
    <2> SUFFICES ASSUME n + 1 \in 0..8 PROVE D[n + 1] = f[n + 1]
      OBVIOUS
    <2>1. n \in 0..8 /\ n + 1 \in 1..8 /\ (n + 1) - 1 = n
      OBVIOUS
    <2>2. D[n] = f[n]
      BY <1>6, <2>1
    <2>3. D[n + 1] = BringDown(D[n], Bit(b, n + 1)) /\ f[n + 1] = BringDown(f[n], Bit(b, n + 1))
      BY <1>4, <2>1
    <2> QED
      BY <2>2, <2>3
  <1> HIDE DEF G
  <1>7. 8 \in G
    BY <1>5, <1>6, UpwardsFromZero
  <1>8. D[8] = f[8]
    BY <1>7 DEF G
  <1> QED
    BY <1>1, <1>8

LEMMA ByteDownIs ==
    ASSUME NEW r \in Poly(63), NEW b \in Byte
    PROVE  ByteDown[r][b] = DownBits(r, b)
  BY DEF ByteDown, Poly

LEMMA RemaindersArePolynomials ==
    ASSUME NEW t, NEW N \in Nat, NEW f, Follows(f, t, N), NEW n \in 0..N
    PROVE  f[n] \in Poly(63)
  <1> DEFINE G == {k \in Nat : k <= N => f[k] \in Poly(63)}
  <1>1. 0 \in G
    BY DEF Follows, Poly
  <1>2. ASSUME NEW k \in Nat, k \in G PROVE k + 1 \in G
    <2> SUFFICES ASSUME k + 1 <= N PROVE f[k + 1] \in Poly(63)
      OBVIOUS
    <2>1. k + 1 \in 1..N /\ (k + 1) - 1 = k /\ k <= N
      OBVIOUS
    <2>2. f[k] \in Poly(63) /\ f[k + 1] = BringDown(f[k], BitOf(t, k + 1))
      BY <1>2, <2>1 DEF Follows
    <2> QED
      BY <2>2, BitIs, BringDownSum
  <1> HIDE DEF G
  <1>3. n \in G
    BY <1>1, <1>2, UpwardsFromZero
  <1> QED
    BY <1>3 DEF G

LEMMA DivisionIs ==
    ASSUME NEW t \in Seq(Byte), NEW r, Remains(t, 8 * Len(t), r)
    PROVE  Residue(t) = r
  <1> DEFINE N == Len(t)
             E(g) == [k \in 0..N |-> IF k = 0 THEN {} ELSE ByteDown[g[k - 1]][t[k]]]
             D == Division(t)
  <1>1. N \in Nat /\ \A k \in 1..N : t[k] \in Byte
    OBVIOUS
  <1>2. PICK f : Follows(f, t, 8 * N) /\ f[8 * N] = r
    BY DEF Remains
  <1>3. D = CHOOSE g : g = E(g)
    BY DEF Division
  <1> HIDE DEF N
  <1> DEFINE h == [k \in 0..N |-> f[8 * k]]
  <1>4. ASSUME NEW k \in 1..N PROVE f[8 * k] = ByteDown[f[8 * (k - 1)]][t[k]]
    <2> DEFINE m == 8 * (k - 1)
               p == [n \in 0..8 |-> f[m + n]]
    <2>1. m \in 0..(8 * N) /\ k - 1 \in Nat /\ (k - 1) + 1 = k /\ m + 8 = 8 * k /\ m + 0 = m
      BY <1>1
    <2>2. p[0] = f[m] /\ p[8] = f[8 * k]
      BY <2>1
    <2>3. f[m] \in Poly(63)
      <3>1. 8 * N \in Nat
        BY <1>1
      <3> HIDE DEF m
      <3> QED
        BY <1>2, <2>1, <3>1, RemaindersArePolynomials
    <2>4. ASSUME NEW n \in 1..8 PROVE p[n] = BringDown(p[n - 1], Bit(t[k], n))
      <3>1. m + n \in 1..(8 * N) /\ (m + n) - 1 = m + (n - 1) /\ n - 1 \in 0..8 /\ n \in 0..8
        BY <1>1, <2>1
      <3>2. f[m + n] = BringDown(f[m + (n - 1)], BitOf(t, m + n))
        BY <1>2, <3>1 DEF Follows
      <3>3. BitOf(t, m + n) = Bit(t[k], n)
        BY <2>1, BitOfByte
      <3> QED
        BY <3>1, <3>2, <3>3
    <2> HIDE DEF p
    <2>5. ByteDown[f[m]][t[k]] = p[8]
      BY <1>1, <2>2, <2>3, <2>4, DownBitsIs, ByteDownIs
    <2> QED
      BY <2>2, <2>5
  <1>5. f[8 * 0] = {}
    BY <1>2 DEF Follows
  <1>6. h = E(h)
    <2> SUFFICES ASSUME NEW k \in 0..N PROVE h[k] = IF k = 0 THEN {} ELSE ByteDown[h[k - 1]][t[k]]
      OBVIOUS
    <2>1. CASE k = 0
      BY <1>5, <2>1
    <2>2. CASE k # 0
      <3>1. k \in 1..N /\ k - 1 \in 0..N
        BY <1>1, <2>2
      <3> QED
        BY <1>4, <2>2, <3>1
    <2> QED
      BY <2>1, <2>2
  <1>7. D = E(D)
    <2> HIDE DEF E, D, h
    <2> QED
      BY <1>3, <1>6
  <1> HIDE DEF D, h
  <1> DEFINE G == {k \in Nat : k \in 0..N => D[k] = f[8 * k]}
  <1>8. 0 \in G
    BY <1>5, <1>7
  <1>9. ASSUME NEW k \in Nat, k \in G PROVE k + 1 \in G
    <2> SUFFICES ASSUME k + 1 \in 0..N PROVE D[k + 1] = f[8 * (k + 1)]
      OBVIOUS
    <2>1. k \in 0..N /\ k + 1 \in 1..N /\ (k + 1) - 1 = k /\ k + 1 # 0
      BY <1>1
    <2>2. D[k + 1] = ByteDown[D[k]][t[k + 1]]
      BY <1>7, <2>1
    <2>3. D[k] = f[8 * k]
      BY <1>9, <2>1
    <2>4. f[8 * (k + 1)] = ByteDown[f[8 * k]][t[k + 1]]
      BY <1>4, <2>1
    <2> QED
      BY <2>2, <2>3, <2>4
  <1> HIDE DEF G
  <1>10. N \in G
    BY <1>1, <1>8, <1>9, UpwardsFromZero
  <1>11. D[N] = f[8 * N]
    BY <1>1, <1>10 DEF G
  <1> QED
    BY <1>2, <1>11 DEF Residue, D, N

LEMMA RemainsOfPrefix ==
    ASSUME NEW t \in Seq(Byte), NEW k \in 0..Len(t), NEW r, Remains(t, 8 * k, r)
    PROVE  Residue(SubSeq(t, 1, k)) = r
  <1> DEFINE u == SubSeq(t, 1, k)
  <1>1. u \in Seq(Byte) /\ Len(u) = k /\ \A n \in 1..k : u[n] = t[n]
    OBVIOUS
  <1> HIDE DEF u
  <1>2. ASSUME NEW n \in 1..(8 * k) PROVE BitOf(u, n) = BitOf(t, n)
    <2>1. (n - 1) \div 8 + 1 \in 1..k
      OBVIOUS
    <2> QED
      BY <1>1, <2>1 DEF BitOf
  <1>3. PICK f : Follows(f, t, 8 * k) /\ f[8 * k] = r
    BY DEF Remains
  <1>4. Follows(f, u, 8 * k)
    BY <1>2, <1>3 DEF Follows
  <1>5. Remains(u, 8 * Len(u), r)
    BY <1>1, <1>3, <1>4 DEF Remains
  <1> QED
    BY <1>1, <1>5, DivisionIs DEF u

----------------------------------------------------------------------------
(* The fingerprint.                                                        *)

\* The odd bytes come first; while they do, nothing reaches x^64.
InStep ==
    \/ i <= Len(s) % 8 /\ rh \subseteq 0..(8 * i - 1)
    \/ (Len(s) - i) % 8 = 0

FingerprintInv == FingerprintTypeOK /\ InStep /\ Remains(s, 8 * i, rh)

LEMMA OneByte ==
    ASSUME NEW t \in Seq(Byte), NEW k \in 0..(Len(t) - 1)
    PROVE  Taken(t, 8 * k, 8) = t[k + 1]
  <1>0. t[k + 1] \in SUBSET (0..7)
    BY DEF Byte
  <1>1. ASSUME NEW q \in 1..8 PROVE BitOf(t, 8 * k + q) # {} <=> 8 - q \in t[k + 1]
    <2>1. (8 * k + q - 1) % 8 = q - 1 /\ (8 * k + q - 1) \div 8 = k
      OBVIOUS
    <2> QED
      BY <2>1 DEF BitOf
  <1>2. ASSUME NEW x PROVE x \in Taken(t, 8 * k, 8) <=> \E q \in 1..8 : BitOf(t, 8 * k + q) # {} /\ x = 8 - q
    BY DEF Taken
  <1>3. ASSUME NEW x \in t[k + 1] PROVE x \in Taken(t, 8 * k, 8)
    <2>1. 8 - x \in 1..8 /\ 8 - (8 - x) = x
      BY <1>0
    <2> QED
      BY <1>1, <1>2, <2>1
  <1> QED
    BY <1>1, <1>2, <1>3

LEMMA EightBytes ==
    ASSUME FingerprintTypeOK, i + 8 <= Len(s)
    PROVE  Taken(s, 8 * i, 64) = Block
  <1>0. s \in Seq(Byte) /\ i \in Nat /\ \A k \in 1..8 : s[i + k] \in SUBSET (0..7)
    <2>1. s \in Seq(Byte) /\ i \in Nat
      BY DEF FingerprintTypeOK
    <2>2. ASSUME NEW k \in 1..8 PROVE s[i + k] \in SUBSET (0..7)
      <3>1. i + k \in 1..Len(s) /\ Len(s) \in Nat
        BY <2>1
      <3>2. s[i + k] \in Byte
        BY <2>1, <3>1
      <3> QED
        BY <3>2 DEF Byte
    <2> QED
      BY <2>1, <2>2
  <1>1. ASSUME NEW k \in 1..8, NEW j \in 0..7
        PROVE  BitOf(s, 8 * i + (64 - (j + 64 - 8 * k))) # {} <=> j \in s[i + k]
    <2> DEFINE n == 8 * i + (64 - (j + 64 - 8 * k))
    <2>0. i \in Nat
      BY <1>0
    <2>1. n - 1 = 8 * (i + k - 1) + (7 - j)
      BY <2>0
    <2>2. (n - 1) % 8 = 7 - j /\ (n - 1) \div 8 = i + k - 1
      <3> HIDE DEF n
      <3> DEFINE c == i + k - 1
                 d == 7 - j
      <3>1. c \in Nat /\ d \in 0..7 /\ n - 1 = 8 * c + d
        BY <2>0, <2>1
      <3> HIDE DEF c, d
      <3>2. (8 * c + d) % 8 = d /\ (8 * c + d) \div 8 = c
        BY <3>1
      <3> QED
        BY <3>1, <3>2 DEF c, d
    <2>3. (i + k - 1) + 1 = i + k /\ 7 - (7 - j) = j
      BY <2>0
    <2> HIDE DEF n
    <2>4. BitOf(s, n) # {} <=> j \in s[i + k]
      BY <2>2, <2>3 DEF BitOf
    <2> QED
      BY <2>4 DEF n
  <1>2. ASSUME NEW x
        PROVE  x \in Taken(s, 8 * i, 64) <=> \E q \in 1..64 : BitOf(s, 8 * i + q) # {} /\ x = 64 - q
    BY DEF Taken
  <1>3. ASSUME NEW x
        PROVE  x \in Block <=> \E k \in 1..8, j \in 0..7 : j \in s[i + k] /\ x = j + 64 - 8 * k
    <2>1. ASSUME NEW k \in 1..8 PROVE Shift(s[i + k], 64 - 8 * k) = {j + (64 - 8 * k) : j \in s[i + k]}
      <3>1. ASSUME NEW j \in s[i + k] PROVE j + (64 - 8 * k) \in 0..63
        <4>1. j \in 0..7
          BY <1>0
        <4>2. \A a \in 0..7, b \in 1..8 : a + (64 - 8 * b) \in 0..63
          OBVIOUS
        <4> QED
          BY <4>1, <4>2
      <3> QED
        BY <3>1 DEF Shift
    <2>2. x \in Block <=> \E k \in 1..8 : x \in {j + (64 - 8 * k) : j \in s[i + k]}
      BY <2>1 DEF Block
    <2>3. \A k \in 1..8, j \in 0..7 : j + (64 - 8 * k) = j + 64 - 8 * k
      OBVIOUS
    <2> QED
      BY <1>0, <2>2, <2>3
  <1>4. ASSUME NEW x \in Block PROVE x \in Taken(s, 8 * i, 64)
    <2>1. PICK k \in 1..8, j \in 0..7 : j \in s[i + k] /\ x = j + 64 - 8 * k
      BY <1>3
    <2>2. 64 - x \in 1..64 /\ x = 64 - (64 - x)
      BY <2>1
    <2>3. BitOf(s, 8 * i + (64 - x)) # {}
      BY <1>1, <2>1
    <2> QED
      BY <1>2, <2>2, <2>3
  <1>5. ASSUME NEW x \in Taken(s, 8 * i, 64) PROVE x \in Block
    <2>1. PICK q \in 1..64 : BitOf(s, 8 * i + q) # {} /\ x = 64 - q
      BY <1>2
    <2> DEFINE k == (q - 1) \div 8 + 1
               j == 7 - ((q - 1) % 8)
    <2>2. k \in 1..8 /\ j \in 0..7 /\ q = 64 - (j + 64 - 8 * k)
      OBVIOUS
    <2> HIDE DEF k, j
    <2>3. BitOf(s, 8 * i + (64 - (j + 64 - 8 * k))) # {}
      BY <2>1, <2>2
    <2>4. x = j + 64 - 8 * k
      BY <2>1, <2>2
    <2>5. j \in s[i + k]
      BY <1>1, <2>2, <2>3
    <2> QED
      BY <1>3, <2>2, <2>4, <2>5
  <1> QED
    BY <1>4, <1>5

LEMMA FingerprintStarts ==
    ASSUME FingerprintInit
    PROVE  FingerprintInv
  <1>1. s \in Seq(Byte) /\ i = 0 /\ rh = {}
    BY MessagesAssumption DEF FingerprintInit
  <1>2. FingerprintTypeOK
    BY <1>1 DEF FingerprintTypeOK
  <1>3. InStep
    <2>1. Len(s) % 8 \in Nat
      BY <1>1
    <2> QED
      BY <1>1, <2>1 DEF InStep
  <1>4. Remains(s, 8 * i, rh)
    <2> DEFINE f == [k \in 0..0 |-> {}]
    <2>1. f[0] = {} /\ 8 * i = 0 /\ 1..0 = {}
      BY <1>1
    <2> HIDE DEF f
    <2>2. Follows(f, s, 0)
      BY <2>1 DEF Follows
    <2> QED
      BY <1>1, <2>1, <2>2 DEF Remains
  <1> QED
    BY <1>2, <1>3, <1>4 DEF FingerprintInv

LEMMA ByteKeeps ==
    ASSUME FingerprintInv, ByteStep
    PROVE  FingerprintInv'
  <1>1. s \in Seq(Byte) /\ i \in 0..Len(s) /\ rh \in Poly(63) /\ Len(s) \in Nat
    BY DEF FingerprintInv, FingerprintTypeOK, Poly
  <1>2. s' = s /\ i' = i + 1 /\ rh' = Xor(Shift(rh, 8), s[i + 1]) /\ i < Len(s) % 8
    BY DEF ByteStep
  <1>3. i \in 0..6 /\ i + 1 <= Len(s) % 8 /\ i < Len(s)
    BY <1>1, <1>2
  <1>4. rh \subseteq 0..(8 * i - 1)
    <2>1. CASE (Len(s) - i) % 8 = 0
      BY <1>1, <1>3, <2>1
    <2> QED
      BY <2>1 DEF FingerprintInv, InStep
  <1>5. Raised(rh, 8) \in SUBSET (0..(8 * i + 7)) /\ Raised(rh, 8) \in Poly(63) /\ Shift(rh, 8) = Raised(rh, 8)
    <2>1. \A e \in rh : e + 8 \in 0..(8 * i + 7) /\ e + 8 \in 0..63
      BY <1>3, <1>4
    <2> QED
      BY <2>1 DEF Raised, Shift, Poly
  <1>6. s[i + 1] \in Poly(63) /\ s[i + 1] \subseteq 0..(8 * i + 7)
    <2>1. s[i + 1] \in SUBSET (0..7)
      BY <1>1, <1>3 DEF Byte
    <2> QED
      BY <1>3, <2>1 DEF Poly
  <1>7. rh' = Advance(s, 8 * i, rh, 8)
    <2>1. Reduce(Raised(rh, 8)) = Shift(rh, 8)
      BY <1>5, ReduceSmall
    <2>2. Taken(s, 8 * i, 8) = s[i + 1]
      <3>1. i \in 0..(Len(s) - 1)
        BY <1>1, <1>3
      <3> QED
        BY <1>1, <3>1, OneByte
    <2> QED
      BY <1>2, <2>1, <2>2 DEF Advance
  <1>8. FingerprintTypeOK'
    <2>1. rh' \in Poly(63)
      BY <1>2, <1>5, <1>6, PolyXor
    <2>2. i' \in 0..Len(s')
      BY <1>1, <1>2, <1>3
    <2> QED
      BY <1>1, <1>2, <2>1, <2>2 DEF FingerprintTypeOK, Poly
  <1>9. InStep'
    <2>1. 8 * i' - 1 = 8 * i + 7 /\ i' <= Len(s') % 8
      BY <1>2, <1>3
    <2>2. rh' \subseteq 0..(8 * i' - 1)
      BY <1>2, <1>5, <1>6, <2>1 DEF Xor
    <2> QED
      BY <2>1, <2>2 DEF InStep
  <1>10. Remains(s', 8 * i', rh')
    <2>1. 8 * i' = 8 * i + 8 /\ 8 * i \in Nat /\ 8 \in 0..64
      BY <1>2, <1>3
    <2>2. Remains(s, 8 * i, rh)
      BY DEF FingerprintInv
    <2>3. Remains(s, 8 * i + 8, Advance(s, 8 * i, rh, 8))
      BY <1>1, <2>1, <2>2, RemainsOn
    <2> QED
      BY <1>2, <1>7, <2>1, <2>3
  <1> QED
    BY <1>8, <1>9, <1>10 DEF FingerprintInv

LEMMA BlockKeeps ==
    ASSUME FingerprintInv, BlockStep
    PROVE  FingerprintInv'
  <1>1. s \in Seq(Byte) /\ i \in 0..Len(s) /\ rh \in Poly(63) /\ Len(s) \in Nat
    BY DEF FingerprintInv, FingerprintTypeOK, Poly
  <1>2. s' = s /\ i' = i + 8 /\ rh' = Xor(rh_lookup(rh), Block) /\ Len(s) % 8 <= i /\ i < Len(s)
    BY DEF BlockStep
  <1>3. (Len(s) - i) % 8 = 0
    <2>1. CASE i <= Len(s) % 8
      BY <1>1, <1>2, <2>1
    <2> QED
      BY <2>1 DEF FingerprintInv, InStep
  <1>4. i + 8 <= Len(s)
    BY <1>1, <1>2, <1>3
  <1>5. rh' = Advance(s, 8 * i, rh, 64)
    <2>1. rh_lookup(rh) = Reduce(Raised(rh, 64))
      BY <1>1, LookedUp
    <2>2. Taken(s, 8 * i, 64) = Block
      BY <1>4, EightBytes DEF FingerprintInv
    <2> QED
      BY <1>2, <2>1, <2>2 DEF Advance
  <1>6. FingerprintTypeOK'
    <2>1. 8 * i \in Nat /\ 64 \in 0..64
      BY <1>1
    <2>2. rh' \in Poly(63)
      BY <1>1, <1>5, <2>1, AdvanceIs
    <2>3. i' \in 0..Len(s')
      BY <1>1, <1>2, <1>4
    <2> QED
      BY <1>1, <1>2, <2>2, <2>3 DEF FingerprintTypeOK, Poly
  <1>7. InStep'
    <2>1. (Len(s) - (i + 8)) % 8 = 0
      BY <1>1, <1>3
    <2> QED
      BY <1>2, <2>1 DEF InStep
  <1>8. Remains(s', 8 * i', rh')
    <2>1. 8 * i' = 8 * i + 64 /\ 8 * i \in Nat /\ 64 \in 0..64
      BY <1>1, <1>2
    <2>2. Remains(s, 8 * i, rh)
      BY DEF FingerprintInv
    <2>3. Remains(s, 8 * i + 64, Advance(s, 8 * i, rh, 64))
      BY <1>1, <2>1, <2>2, RemainsOn
    <2> QED
      BY <1>2, <1>5, <2>1, <2>3
  <1> QED
    BY <1>6, <1>7, <1>8 DEF FingerprintInv

LEMMA ResidueShown ==
    ASSUME FingerprintInv
    PROVE  FingerprintIsResidue
  <1>1. s \in Seq(Byte) /\ i \in 0..Len(s) /\ Remains(s, 8 * i, rh)
    BY DEF FingerprintInv, FingerprintTypeOK
  <1>2. Residue(SubSeq(s, 1, i)) = rh
    BY <1>1, RemainsOfPrefix
  <1> QED
    BY <1>2 DEF FingerprintIsResidue

Advances(f, t, m, r, n) == f[m + n] = Advance(t, m, r, n)

\* Every division goes as Advance says.
LEMMA FollowsAdvance ==
    ASSUME NEW t, NEW N \in Nat, NEW f, Follows(f, t, N), NEW m \in 0..N, NEW r \in Poly(63), f[m] = r,
           NEW n \in 0..64, m + n <= N
    PROVE  Advances(f, t, m, r, n)
  <1> DEFINE G == {k \in Nat : k <= n => f[m + k] = Advance(t, m, r, k)}
  <1>1. 0 \in G
    <2>1. m \in Nat /\ m + 0 = m /\ 0 \in 0..64
      OBVIOUS
    <2>2. Advance(t, m, r, 0) = r
      BY <2>1, AdvanceIs
    <2> QED
      BY <2>1, <2>2
  <1>2. ASSUME NEW k \in Nat, k \in G PROVE k + 1 \in G
    <2> SUFFICES ASSUME k + 1 <= n PROVE f[m + (k + 1)] = Advance(t, m, r, k + 1)
      OBVIOUS
    <2>1. k \in 0..63 /\ m + (k + 1) \in 1..N /\ (m + (k + 1)) - 1 = m + k /\ m \in Nat /\ k <= n
      OBVIOUS
    <2>2. f[m + (k + 1)] = BringDown(f[m + k], BitOf(t, m + (k + 1)))
      BY <2>1 DEF Follows
    <2>3. f[m + k] = Advance(t, m, r, k)
      BY <1>2, <2>1
    <2>4. Advance(t, m, r, k + 1) = BringDown(Advance(t, m, r, k), BitOf(t, m + (k + 1)))
      BY <2>1, AdvanceNext
    <2> QED
      BY <2>2, <2>3, <2>4
  <1> HIDE DEF G
  <1>3. n \in G
    BY <1>1, <1>2, UpwardsFromZero
  <1> QED
    BY <1>3 DEF G, Advances

\* x is not lost: a multiple of x is zero only if its factor is.
LEMMA TimesXNotZero ==
    ASSUME NEW r \in Poly(63), r # {}
    PROVE  TimesX(r) # {}
  <1> DEFINE u == Raised(r, 1)
  <1>1. u \in SUBSET (1..64) /\ u # {}
    <2>1. \A e \in r : e + 1 \in 1..64 /\ e + 1 \in u
      BY DEF Raised, Poly
    <2>2. u \in SUBSET (1..64)
      BY <2>1 DEF Raised
    <2> QED
      BY <2>1, <2>2
  <1>2. TimesX(r) = IF 64 \in u THEN Xor(u \ {64}, Low) ELSE u
    BY DEF TimesX, BringDown, Raised
  <1> HIDE DEF u
  <1>3. 64 \in u => 0 \in TimesX(r)
    BY <1>1, <1>2 DEF Xor, Low
  <1> QED
    BY <1>1, <1>2, <1>3

\* Zeros in front leave no remainder.
LEMMA ZerosInFront ==
    ASSUME NEW t, NEW N \in Nat, NEW f, Follows(f, t, N), NEW m \in 0..N,
           \A k \in 1..m : BitOf(t, k) = {}
    PROVE  f[m] = {}
  <1> DEFINE G == {k \in Nat : k <= m => f[k] = {}}
  <1>1. 0 \in G
    BY DEF Follows
  <1>2. ASSUME NEW k \in Nat, k \in G PROVE k + 1 \in G
    <2> SUFFICES ASSUME k + 1 <= m PROVE f[k + 1] = {}
      OBVIOUS
    <2>1. k + 1 \in 1..m /\ k + 1 \in 1..N /\ (k + 1) - 1 = k /\ k <= m
      OBVIOUS
    <2>2. f[k + 1] = BringDown({}, {})
      BY <1>2, <2>1 DEF Follows
    <2>3. BringDown({}, {}) = {}
      BY DEF BringDown
    <2> QED
      BY <2>2, <2>3
  <1> HIDE DEF G
  <1>3. m \in G
    BY <1>1, <1>2, UpwardsFromZero
  <1> QED
    BY <1>3 DEF G

\* After the first bit that is set the remainder is not zero, if the others that are
\* set are among the next 63.
LEMMA ShortIsNotLost ==
    ASSUME NEW t, NEW N \in Nat, NEW f, Follows(f, t, N), NEW m \in 0..(N - 1),
           \A k \in 1..m : BitOf(t, k) = {},
           BitOf(t, m + 1) # {},
           \A k \in 1..N : k > m + 64 => BitOf(t, k) = {}
    PROVE  f[N] # {}
  <1>0. f[m] = {} /\ {} \in Poly(63) /\ m \in Nat /\ m \in 0..N
    BY ZerosInFront DEF Poly
  <1>1. ASSUME NEW n \in 1..64, m + n <= N PROVE f[m + n] # {} /\ f[m + n] \in Poly(63)
    <2>1. f[m + n] = Advance(t, m, {}, n)
      <3>1. n \in 0..64
        OBVIOUS
      <3> DEFINE r == {}
      <3>2. r \in Poly(63) /\ f[m] = r
        BY <1>0
      <3> HIDE DEF r
      <3>3. f[m + n] = Advance(t, m, r, n)
        <4>1. Advances(f, t, m, r, n)
          BY <1>0, <1>1, <3>1, <3>2, FollowsAdvance
        <4> QED
          BY <4>1 DEF Advances
      <3> QED
        BY <3>3 DEF r
    <2>2. Raised({}, n) = {} /\ Reduce({}) = {}
      BY <1>0, ReduceSmall DEF Raised
    <2>3. n - 1 \in Taken(t, m, n)
      BY DEF Taken
    <2>4. Advance(t, m, {}, n) \in Poly(63)
      BY <1>0, AdvanceIs
    <2> QED
      BY <2>1, <2>2, <2>3, <2>4 DEF Advance, Xor
  <1> DEFINE G == {k \in Nat : m + 1 + k <= N => f[m + 1 + k] # {} /\ f[m + 1 + k] \in Poly(63)}
  <1>2. 0 \in G
    BY <1>0, <1>1
  <1>3. ASSUME NEW k \in Nat, k \in G PROVE k + 1 \in G
    <2> DEFINE n == m + 1 + (k + 1)
    <2> SUFFICES ASSUME n <= N PROVE f[n] # {} /\ f[n] \in Poly(63)
      OBVIOUS
    <2>1. n \in 1..N /\ n - 1 = m + 1 + k /\ m + 1 + k <= N
      BY <1>0
    <2>2. CASE k + 2 \in 1..64
      <3>1. n = m + (k + 2)
        BY <1>0
      <3> QED
        BY <1>1, <2>2, <3>1
    <2>3. CASE k + 2 > 64
      <3>1. n > m + 64
        BY <1>0, <2>3
      <3> HIDE DEF n
      <3>2. f[n] = BringDown(f[n - 1], {})
        BY <2>1, <3>1 DEF Follows
      <3>3. f[n - 1] # {} /\ f[n - 1] \in Poly(63)
        BY <1>3, <2>1
      <3>4. f[n] = TimesX(f[n - 1])
        BY <3>2 DEF TimesX
      <3>5. TimesX(f[n - 1]) \in Poly(63)
        <4>1. {} \in SUBSET {0}
          OBVIOUS
        <4> QED
          BY <3>3, <4>1, BringDownSum
      <3> QED
        BY <3>3, <3>4, <3>5, TimesXNotZero
    <2> QED
      BY <2>2, <2>3
  <1> HIDE DEF G
  <1>4. N - m - 1 \in Nat /\ m + 1 + (N - m - 1) = N
    BY <1>0
  <1>5. N - m - 1 \in G
    BY <1>2, <1>3, <1>4, UpwardsFromZero
  <1> QED
    BY <1>4, <1>5 DEF G

LEMMA DifferencesShown ==
    ASSUME FingerprintInv
    PROVE  ShortDifferencesShow
  <1> DEFINE differs == {k \in 1..i : s[k] # {}}
             N == 8 * i
             B == {n \in 1..N : BitOf(s, n) # {}}
  <1> SUFFICES ASSUME differs # {}, \A j, k \in differs : j - k < 8 PROVE rh # {}
    BY DEF ShortDifferencesShow
  <1>1. s \in Seq(Byte) /\ i \in 0..Len(s) /\ Remains(s, N, rh) /\ N \in Nat
    BY DEF FingerprintInv, FingerprintTypeOK
  <1>2. PICK f : Follows(f, s, N) /\ f[N] = rh
    BY <1>1 DEF Remains
  <1>3. \A n \in 1..N : BitOf(s, n) # {} => (n - 1) \div 8 + 1 \in differs
    <2> TAKE n \in 1..N
    <2>1. (n - 1) \div 8 + 1 \in 1..i
      BY <1>1
    <2> QED
      BY <2>1 DEF BitOf
  <1>4. B # {}
    <2>1. PICK k \in differs : TRUE
      OBVIOUS
    <2>2. s[k] \in SUBSET (0..7)
      BY <1>1 DEF Byte
    <2>3. PICK j \in s[k] : j \in 0..7
      BY <2>1, <2>2
    <2> DEFINE n == 8 * (k - 1) + (8 - j)
    <2>4. n \in 1..N /\ (n - 1) % 8 = 7 - j /\ (n - 1) \div 8 = k - 1
      BY <1>1, <2>3
    <2>5. (k - 1) + 1 = k /\ 7 - (7 - j) = j
      BY <2>3
    <2> HIDE DEF n
    <2>6. n \in 1..N /\ BitOf(s, n) # {}
      BY <2>3, <2>4, <2>5 DEF BitOf
    <2> QED
      BY <2>6
  <1>5. PICK n \in B : \A k \in B : n <= k
    <2>1. B \subseteq Nat
      BY <1>1
    <2> HIDE DEF B
    <2> QED
      BY <1>4, <2>1, Smallest
  <1> DEFINE m == n - 1
  <1>6. /\ m \in 0..(N - 1) /\ m + 1 = n
        /\ \A k \in 1..m : BitOf(s, k) = {}
        /\ BitOf(s, m + 1) # {}
    BY <1>1, <1>5
  <1>7. \A k \in 1..N : k > m + 64 => BitOf(s, k) = {}
    <2> SUFFICES ASSUME NEW k \in 1..N, k > m + 64, BitOf(s, k) # {} PROVE FALSE
      OBVIOUS
    <2>1. (k - 1) \div 8 + 1 \in differs /\ (n - 1) \div 8 + 1 \in differs
      BY <1>3
    <2>2. ((k - 1) \div 8 + 1) - ((n - 1) \div 8 + 1) < 8
      BY <2>1
    <2>3. k - 1 >= (n - 1) + 64 /\ n - 1 \in Nat /\ k - 1 \in Nat
      BY <1>1, <1>6
    <2> QED
      BY <2>2, <2>3
  <1> HIDE DEF m, N, differs
  <1> QED
    BY <1>1, <1>2, <1>6, <1>7, ShortIsNotLost

----------------------------------------------------------------------------
(* Keys.                                                                   *)

Digits == {"0", "1", "2", "3", "4", "5", "6", "7", "8", "9", "a", "b", "c", "d", "e", "f"}
Letters == {"u", "s", "e", "r", ":", "i", "m", "v", "a", "c", "t", "o", "n"}
Chars == STRING \cup Digits \cup Letters

LEMMA MaxIs ==
    ASSUME NEW S, S \subseteq Int, NEW k \in S, \A j \in S : j <= k
    PROVE  Max(S) = k
  <1>1. Max(S) = CHOOSE x \in S : \A y \in S : x >= y
    BY DEF Max
  <1>2. \A x \in S : (\A y \in S : x >= y) => x = k
    OBVIOUS
  <1>3. \A y \in S : k >= y
    OBVIOUS
  <1> QED
    BY <1>1, <1>2, <1>3

LEMMA MinIs ==
    ASSUME NEW S, S \subseteq Int, NEW k \in S, \A j \in S : k <= j
    PROVE  Min(S) = k
  <1>1. Min(S) = CHOOSE x \in S : \A y \in S : x <= y
    BY DEF Min
  <1>2. \A x \in S : (\A y \in S : x <= y) => x = k
    OBVIOUS
  <1> QED
    BY <1>1, <1>2

LEMMA Largest ==
    ASSUME NEW n \in Nat, NEW S \in SUBSET (0..n), S # {}
    PROVE  Max(S) \in S /\ \A k \in S : k <= Max(S)
  <1> DEFINE B == {m \in Nat : \A k \in S : k <= m}
  <1>1. n \in B
    OBVIOUS
  <1>2. PICK m \in B : \A k \in B : m <= k
    <2>1. B \subseteq Nat /\ B # {}
      BY <1>1
    <2> HIDE DEF B
    <2> QED
      BY <2>1, Smallest
  <1>3. m \in S
    <2> SUFFICES ASSUME m \notin S PROVE FALSE
      OBVIOUS
    <2>1. m # 0
      <3>1. PICK k \in S : k \in 0..n
        OBVIOUS
      <3>2. k <= m
        BY <1>2
      <3> QED
        BY <3>1, <3>2
    <2>2. m - 1 \in B
      BY <1>2, <2>1
    <2> QED
      BY <1>2, <2>2
  <1>4. S \subseteq Int /\ \A k \in S : k <= m
    BY <1>2
  <1> HIDE DEF B
  <1>5. Max(S) = m
    BY <1>3, <1>4, MaxIs
  <1> QED
    BY <1>3, <1>4, <1>5

----------------------------------------------------------------------------
(* Hexadecimal digits.                                                     *)

LEMMA Nibbles ==
    ASSUME NEW w, NEW k \in Nat
    PROVE  /\ Nibble(w, k) \in 0..15
           /\ (\E j \in 0..3 : j + 4 * k \in w) => Nibble(w, k) # 0
  <1>1. \A e : Digit(w, e) \in {0, 1} /\ (e \in w <=> Digit(w, e) = 1)
    BY DEF Digit
  <1>2. ASSUME NEW j \in 0..3, j + 4 * k \in w PROVE Nibble(w, k) # 0
    <2>1. 4 * k \in w \/ 4 * k + 1 \in w \/ 4 * k + 2 \in w \/ 4 * k + 3 \in w
      <3>1. (j + 4 * k = 4 * k) \/ (j + 4 * k = 4 * k + 1) \/ (j + 4 * k = 4 * k + 2) \/ (j + 4 * k = 4 * k + 3)
        OBVIOUS
      <3> QED
        BY <1>2, <3>1
    <2> QED
      BY <1>1, <2>1 DEF Nibble
  <1> QED
    BY <1>1, <1>2 DEF Nibble

LEMMA NibbleTells ==
    ASSUME NEW x \in SUBSET (0..3), NEW w, NEW k \in Nat, Nibble(x, 0) = Nibble(w, k)
    PROVE  x = {j \in 0..3 : j + 4 * k \in w}
  <1> DEFINE a(e) == Digit(x, e)
             b(e) == Digit(w, 4 * k + e)
  <1>1. \A e \in 0..3 : a(e) \in {0, 1} /\ b(e) \in {0, 1}
                        /\ (e \in x <=> a(e) = 1) /\ (4 * k + e \in w <=> b(e) = 1)
    BY DEF Digit
  <1>2. a(0) + 2 * a(1) + 4 * a(2) + 8 * a(3) = b(0) + 2 * b(1) + 4 * b(2) + 8 * b(3)
    <2>1. Digit(w, 4 * k) = b(0)
      <3>1. 4 * k = 4 * k + 0
        OBVIOUS
      <3> QED
        BY <3>1 DEF b
    <2> QED
      BY <2>1 DEF Nibble
  <1> HIDE DEF a, b
  <1>3. a(0) = b(0) /\ a(1) = b(1) /\ a(2) = b(2) /\ a(3) = b(3)
    <2>1. /\ a(0) \in {0, 1} /\ a(1) \in {0, 1} /\ a(2) \in {0, 1} /\ a(3) \in {0, 1}
          /\ b(0) \in {0, 1} /\ b(1) \in {0, 1} /\ b(2) \in {0, 1} /\ b(3) \in {0, 1}
      BY <1>1
    <2> QED
      BY <1>2, <2>1
  <1>4. \A e \in 0..3 : e \in x <=> e + 4 * k \in w
    <2> TAKE e \in 0..3
    <2>1. a(e) = b(e)
      <3>1. e = 0 \/ e = 1 \/ e = 2 \/ e = 3
        OBVIOUS
      <3> QED
        BY <1>3, <3>1
    <2>2. e + 4 * k = 4 * k + e
      OBVIOUS
    <2> QED
      BY <1>1, <2>1, <2>2
  <1> QED
    BY <1>4

LEMMA DigitsTell ==
    /\ \A m \in 0..15 : HexDigit[m + 1] \in Digits /\ HexDigit[m + 1] # ":"
    /\ \A m, n \in 0..15 : HexDigit[m + 1] = HexDigit[n + 1] => m = n
  <1>1. /\ HexDigit[0 + 1] = "0" /\ HexDigit[1 + 1] = "1" /\ HexDigit[2 + 1] = "2" /\ HexDigit[3 + 1] = "3"
        /\ HexDigit[4 + 1] = "4" /\ HexDigit[5 + 1] = "5" /\ HexDigit[6 + 1] = "6" /\ HexDigit[7 + 1] = "7"
        /\ HexDigit[8 + 1] = "8" /\ HexDigit[9 + 1] = "9" /\ HexDigit[10 + 1] = "a" /\ HexDigit[11 + 1] = "b"
        /\ HexDigit[12 + 1] = "c" /\ HexDigit[13 + 1] = "d" /\ HexDigit[14 + 1] = "e" /\ HexDigit[15 + 1] = "f"
    BY DEF HexDigit
  <1>3. \A m \in 0..15 : \/ m = 0 \/ m = 1 \/ m = 2 \/ m = 3 \/ m = 4 \/ m = 5 \/ m = 6 \/ m = 7
                         \/ m = 8 \/ m = 9 \/ m = 10 \/ m = 11 \/ m = 12 \/ m = 13 \/ m = 14 \/ m = 15
    OBVIOUS
  <1> HIDE DEF HexDigit
  <1>4. \A m \in 0..15 : HexDigit[m + 1] \in Digits /\ HexDigit[m + 1] # ":"
    BY <1>1, <1>3 DEF Digits
  <1>5. ASSUME NEW m \in 0..15, NEW n \in 0..15, HexDigit[m + 1] = HexDigit[n + 1] PROVE m = n
    BY <1>1, <1>3, <1>5
  <1> QED
    BY <1>4, <1>5

LEMMA HexIs ==
    ASSUME NEW w \in Poly(63)
    PROVE  /\ Hex(w) \in Seq(Digits)
           /\ Len(Hex(w)) \in 1..16
           /\ \A n \in 1..Len(Hex(w)) : Hex(w)[n] # ":"
           /\ Value(Hex(w)) = w
  <1> DEFINE S == {0} \cup {k \in 0..15 : Nibble(w, k) # 0}
             top == Max(S)
             h == Hex(w)
  <1>1. top \in 0..15 /\ \A k \in 0..15 : Nibble(w, k) # 0 => k <= top
    <2>1. S \in SUBSET (0..15) /\ S # {} /\ 15 \in Nat
      OBVIOUS
    <2>2. \A k \in 0..15 : Nibble(w, k) # 0 => k \in S
      OBVIOUS
    <2> HIDE DEF S
    <2> QED
      BY <2>1, <2>2, Largest
  <1>2. h = [n \in 1..(top + 1) |-> HexDigit[Nibble(w, top + 1 - n) + 1]]
    BY DEF Hex
  <1> HIDE DEF S, top, h
  <1>3. \A n \in 1..(top + 1) : h[n] = HexDigit[Nibble(w, top + 1 - n) + 1] /\ Nibble(w, top + 1 - n) \in 0..15
    <2> TAKE n \in 1..(top + 1)
    <2>1. top + 1 - n \in Nat
      BY <1>1
    <2> QED
      BY <1>2, <2>1, Nibbles
  <1>4. h \in Seq(Digits) /\ Len(h) = top + 1 /\ \A n \in 1..Len(h) : h[n] # ":"
    <2>1. \A n \in 1..(top + 1) : h[n] \in Digits /\ h[n] # ":"
      BY <1>3, DigitsTell
    <2>2. h \in [1..(top + 1) -> Digits]
      BY <1>2, <2>1
    <2> QED
      BY <1>1, <2>1, <2>2
  <1>5. ASSUME NEW n \in 1..(top + 1)
        PROVE  Bits(h[n]) = {j \in 0..3 : j + 4 * (top + 1 - n) \in w}
    <2> DEFINE k == top + 1 - n
               y == {j \in 0..3 : j + 4 * k \in w}
    <2>1. k \in Nat /\ h[n] = HexDigit[Nibble(w, k) + 1] /\ Nibble(w, k) \in 0..15
      BY <1>1, <1>3
    <2> HIDE DEF k
    <2>2. \A x \in SUBSET (0..3) : HexDigit[Nibble(x, 0) + 1] = h[n] => x = y
      <3> SUFFICES ASSUME NEW x \in SUBSET (0..3), HexDigit[Nibble(x, 0) + 1] = h[n] PROVE x = y
        OBVIOUS
      <3>1. Nibble(x, 0) \in 0..15
        BY Nibbles
      <3>2. Nibble(x, 0) = Nibble(w, k)
        BY <2>1, <3>1, DigitsTell
      <3> QED
        BY <2>1, <3>2, NibbleTells
    <2>3. y \in SUBSET (0..3) /\ Nibble(y, 0) = Nibble(w, k)
      <3>1. \A e \in 0..3 : Digit(y, e) = Digit(w, 4 * k + e)
        <4> TAKE e \in 0..3
        <4>1. e + 4 * k = 4 * k + e
          BY <2>1
        <4> QED
          BY <4>1 DEF Digit
      <3> HIDE DEF y
      <3>2. /\ Digit(y, 0) = Digit(w, 4 * k + 0) /\ Digit(y, 1) = Digit(w, 4 * k + 1)
            /\ Digit(y, 2) = Digit(w, 4 * k + 2) /\ Digit(y, 3) = Digit(w, 4 * k + 3)
        BY <3>1
      <3>3. 4 * k + 0 = 4 * k /\ 4 * 0 = 0 /\ 4 * 0 + 1 = 1 /\ 4 * 0 + 2 = 2 /\ 4 * 0 + 3 = 3
        BY <2>1
      <3>4. Nibble(y, 0) = Nibble(w, k)
        BY <3>2, <3>3 DEF Nibble
      <3> QED
        BY <3>4 DEF y
    <2> HIDE DEF y
    <2>4. Bits(h[n]) = CHOOSE x \in SUBSET (0..3) : HexDigit[Nibble(x, 0) + 1] = h[n]
      BY DEF Bits
    <2>5. Bits(h[n]) = y
      BY <2>1, <2>2, <2>3, <2>4
    <2> QED
      BY <2>5 DEF y, k
  <1>6. Value(h) = w
    <2>1. DOMAIN h = 1..(top + 1)
      BY <1>2
    <2>2. \A e : e \in Value(h) <=> \E n \in 1..(top + 1) : \E j \in Bits(h[n]) : e = j + 4 * (top + 1 - n)
      <3> DEFINE V(n) == {j + 4 * (Len(h) - n) : j \in Bits(h[n])}
      <3>1. Value(h) = UNION {V(n) : n \in DOMAIN h}
        BY Zenon DEF Value
      <3>2. \A e, n : e \in V(n) <=> \E j \in Bits(h[n]) : e = j + 4 * (Len(h) - n)
        OBVIOUS
      <3> HIDE DEF V
      <3>3. \A e : e \in Value(h) <=> \E n \in DOMAIN h : e \in V(n)
        BY <3>1
      <3>4. Len(h) = top + 1
        BY <1>4
      <3>5. \A e : e \in Value(h) <=> \E n \in 1..(top + 1) : e \in V(n)
        BY <2>1, <3>3
      <3>6. ASSUME NEW n \in 1..(top + 1), NEW e
            PROVE  e \in V(n) <=> \E j \in Bits(h[n]) : e = j + 4 * (top + 1 - n)
        <4>1. Len(h) - n = top + 1 - n
          BY <1>1, <3>4
        <4> DEFINE c == Len(h) - n
        <4>2. e \in V(n) <=> \E j \in Bits(h[n]) : e = j + 4 * c
          BY <3>2
        <4> HIDE DEF c
        <4>3. c = top + 1 - n
          BY <4>1 DEF c
        <4> QED
          BY <4>2, <4>3
      <3> QED
        BY <3>5, <3>6
    <2>3. ASSUME NEW e \in Value(h) PROVE e \in w
      <3>1. PICK n \in 1..(top + 1) : \E j \in Bits(h[n]) : e = j + 4 * (top + 1 - n)
        BY <2>2
      <3> QED
        BY <1>5, <3>1
    <2>4. ASSUME NEW e \in w PROVE e \in Value(h)
      <3> DEFINE k == e \div 4
                 j == e % 4
                 n == top + 1 - k
      <3>1. k \in 0..15 /\ j \in 0..3 /\ e = j + 4 * k
        BY DEF Poly
      <3> HIDE DEF k, j
      <3>2. k <= top
        BY <1>1, <3>1, Nibbles
      <3>3. n \in 1..(top + 1) /\ top + 1 - n = k
        BY <1>1, <3>1, <3>2
      <3> HIDE DEF n
      <3>4. j \in Bits(h[n])
        BY <1>5, <3>1, <3>3
      <3> QED
        BY <2>2, <3>1, <3>3, <3>4
    <2> QED
      BY <2>3, <2>4
  <1> QED
    BY <1>1, <1>4, <1>6 DEF h

----------------------------------------------------------------------------
(* Keys.                                                                   *)

LastColon(k) == SelectLastInSeq(k, LAMBDA c : c = ":")

LEMMA Joining ==
    ASSUME NEW a \in Seq(Chars), NEW b \in Seq(Chars)
    PROVE  /\ a \o b \in Seq(Chars) /\ Len(a) \in Nat /\ Len(b) \in Nat
           /\ Len(a \o b) = Len(a) + Len(b)
           /\ \A n \in 1..Len(a) : (a \o b)[n] = a[n]
           /\ \A n \in 1..Len(b) : (a \o b)[Len(a) + n] = b[n]
  OBVIOUS

\* A key's parts, split at its last colon.
Tells(k, P, r, h) ==
    /\ k \in Seq(Chars)
    /\ Len(k) = Len(P) + Len(r) + 1 + Len(h)
    /\ SubSeq(k, 1, LastColon(k) - 1) = P \o r
    /\ SubSeq(k, LastColon(k) + 1, Len(k)) = h

LEMMA KeyParts ==
    ASSUME NEW P \in Seq(Chars), NEW r \in Seq(Chars), NEW h \in Seq(Chars),
           \A n \in 1..Len(h) : h[n] # ":"
    PROVE  Tells(P \o (r \o <<":">> \o h), P, r, h)
  <1> DEFINE colon == <<":">>
             rc == r \o colon
             j == rc \o h
             k == P \o j
             at == Len(P) + Len(r) + 1
  <1>0. Len(P) \in Nat /\ Len(r) \in Nat /\ Len(h) \in Nat
    OBVIOUS
  <1>1. colon \in Seq(Chars) /\ Len(colon) = 1 /\ colon[1] = ":"
    BY DEF Chars, Letters
  <1> HIDE DEF colon
  <1>2. rc \in Seq(Chars) /\ Len(rc) = Len(r) + 1 /\ rc[Len(r) + 1] = ":"
        /\ \A n \in 1..Len(r) : rc[n] = r[n]
    <2>1. /\ rc \in Seq(Chars) /\ Len(rc) = Len(r) + Len(colon)
          /\ \A n \in 1..Len(r) : rc[n] = r[n]
          /\ \A n \in 1..Len(colon) : rc[Len(r) + n] = colon[n]
      BY <1>1, Joining
    <2> HIDE DEF rc
    <2> QED
      BY <1>0, <1>1, <2>1
  <1> HIDE DEF rc
  <1>3. j \in Seq(Chars) /\ Len(j) = Len(r) + 1 + Len(h)
        /\ (\A n \in 1..(Len(r) + 1) : j[n] = rc[n])
        /\ \A n \in 1..Len(h) : j[Len(r) + 1 + n] = h[n]
    <2>1. /\ j \in Seq(Chars) /\ Len(j) = Len(rc) + Len(h)
          /\ \A n \in 1..Len(rc) : j[n] = rc[n]
          /\ \A n \in 1..Len(h) : j[Len(rc) + n] = h[n]
      BY <1>2, Joining
    <2> HIDE DEF j
    <2> QED
      BY <1>0, <1>2, <2>1
  <1> HIDE DEF j
  <1>4. k \in Seq(Chars) /\ Len(k) = at + Len(h)
        /\ (\A n \in 1..Len(P) : k[n] = P[n])
        /\ \A n \in 1..Len(j) : k[Len(P) + n] = j[n]
    <2>1. /\ k \in Seq(Chars) /\ Len(k) = Len(P) + Len(j)
          /\ \A n \in 1..Len(P) : k[n] = P[n]
          /\ \A n \in 1..Len(j) : k[Len(P) + n] = j[n]
      BY <1>3, Joining
    <2> HIDE DEF k
    <2> QED
      BY <1>0, <1>3, <2>1
  <1> HIDE DEF k
  <1>5. k[at] = ":" /\ at \in 1..Len(k)
    <2>1. Len(r) + 1 \in 1..Len(j) /\ at = Len(P) + (Len(r) + 1) /\ Len(r) + 1 \in 1..(Len(r) + 1)
      BY <1>0, <1>3
    <2> QED
      BY <1>0, <1>2, <1>3, <1>4, <2>1
  <1>6. ASSUME NEW n \in 1..Len(h) PROVE k[at + n] = h[n] /\ k[at + n] # ":"
    <2>1. Len(r) + 1 + n \in 1..Len(j) /\ at + n = Len(P) + (Len(r) + 1 + n)
      BY <1>0, <1>3
    <2>2. k[Len(P) + (Len(r) + 1 + n)] = j[Len(r) + 1 + n]
      BY <1>4, <2>1
    <2>3. j[Len(r) + 1 + n] = h[n]
      BY <1>3
    <2> QED
      BY <2>1, <2>2, <2>3
  <1>7. LastColon(k) = at
    <2> DEFINE I == {n \in 1..Len(k) : k[n] = ":"}
    <2>1. at \in I /\ I \subseteq Int
      BY <1>5
    <2>2. ASSUME NEW n \in I PROVE n <= at
      <3> SUFFICES ASSUME n > at PROVE FALSE
        BY <1>0
      <3>1. n - at \in 1..Len(h) /\ at + (n - at) = n
        BY <1>0, <1>4
      <3> QED
        BY <1>6, <3>1
    <2>3. LastColon(k) = Max(I)
      BY <2>1 DEF LastColon, SelectLastInSeq
    <2> HIDE DEF I
    <2> QED
      BY <2>1, <2>2, <2>3, MaxIs
  <1>8. SubSeq(k, 1, at - 1) = P \o r
    <2> DEFINE a == SubSeq(k, 1, at - 1)
               b == P \o r
    <2>1. a \in Seq(Chars) /\ Len(a) = at - 1 /\ \A n \in 1..(at - 1) : a[n] = k[n]
      BY <1>0, <1>4
    <2>2. b \in Seq(Chars) /\ Len(b) = at - 1
      BY <1>0
    <2>3. ASSUME NEW n \in 1..(at - 1) PROVE a[n] = b[n]
      <3>1. CASE n <= Len(P)
        BY <1>0, <1>4, <2>1, <3>1
      <3>2. CASE n > Len(P)
        <4> DEFINE q == n - Len(P)
        <4>1. q \in 1..Len(r) /\ n = Len(P) + q /\ q \in 1..Len(j) /\ q \in 1..(Len(r) + 1)
          BY <1>0, <1>3, <3>2
        <4>2. b[n] = r[q]
          BY <1>0, <3>2, <4>1
        <4> HIDE DEF q
        <4>3. k[n] = r[q]
          BY <1>2, <1>3, <1>4, <4>1
        <4> QED
          BY <2>1, <4>2, <4>3
      <3> QED
        BY <1>0, <3>1, <3>2
    <2> HIDE DEF a, b
    <2>4. a = b
      BY <2>1, <2>2, <2>3
    <2> QED
      BY <2>4 DEF a, b
  <1>9. SubSeq(k, at + 1, Len(k)) = h
    <2> DEFINE a == SubSeq(k, at + 1, Len(k))
    <2>1. a \in Seq(Chars) /\ Len(a) = Len(h) /\ \A n \in 1..Len(h) : a[n] = k[at + n]
      <3>1. \A n \in 1..Len(h) : (at + 1) + n - 1 = at + n
        BY <1>0
      <3> QED
        BY <1>0, <1>4, <3>1
    <2> HIDE DEF a, at
    <2>2. \A n \in 1..Len(h) : a[n] = h[n]
      BY <1>6, <2>1
    <2>3. a = h
      BY <2>1, <2>2
    <2> QED
      BY <2>3 DEF a
  <1>10. Tells(k, P, r, h)
    BY <1>0, <1>4, <1>7, <1>8, <1>9 DEF Tells
  <1> QED
    BY <1>10 DEF k, j, rc, colon

LEMMA Cut ==
    ASSUME NEW k \in Seq(Chars), k # <<>>
    PROVE  /\ Len(yaslrange(k, 0, KeyEnd)) <= KeyEnd + 1
           /\ Len(k) <= KeyEnd + 1 => yaslrange(k, 0, KeyEnd) = k
  <1> DEFINE n == Len(k)
             last == Min({KeyEnd, n - 1})
  <1>1. KeyEnd \in Nat /\ n \in Nat /\ n >= 1
    BY KeyAssumption
  <1>2. last = IF KeyEnd <= n - 1 THEN KeyEnd ELSE n - 1
    <2> DEFINE S == {KeyEnd, n - 1}
    <2>1. S \subseteq Int
      BY <1>1
    <2>2. CASE KeyEnd <= n - 1
      <3>1. KeyEnd \in S /\ \A x \in S : KeyEnd <= x
        BY <1>1, <2>2
      <3> HIDE DEF S
      <3>2. Min(S) = KeyEnd
        BY <2>1, <3>1, MinIs
      <3> QED
        BY <2>2, <3>2 DEF S
    <2>3. CASE ~(KeyEnd <= n - 1)
      <3>1. n - 1 \in S /\ \A x \in S : n - 1 <= x
        BY <1>1, <2>3
      <3> DEFINE m == n - 1
      <3> HIDE DEF S, m
      <3>2. Min(S) = m
        BY <2>1, <3>1, MinIs DEF m
      <3> QED
        BY <2>3, <3>2 DEF S, m
    <2> QED
      BY <2>2, <2>3
  <1>3. yaslrange(k, 0, KeyEnd) = SubSeq(k, 1, last + 1)
    <2>1. FromStart(0, n) = 0 /\ FromStart(KeyEnd, n) = KeyEnd /\ 0 + 1 = 1
      BY <1>1 DEF FromStart
    <2> QED
      BY <2>1 DEF yaslrange
  <1> HIDE DEF last
  <1>4. Len(SubSeq(k, 1, last + 1)) = last + 1
    BY <1>1, <1>2
  <1>5. ASSUME n <= KeyEnd + 1 PROVE SubSeq(k, 1, last + 1) = k
    <2>1. last + 1 = Len(k)
      BY <1>1, <1>2, <1>5
    <2> QED
      BY <2>1
  <1> QED
    BY <1>1, <1>2, <1>3, <1>4, <1>5

Unkeyed == [c \in DOMAIN Prefix |-> none]
Whole(b) == Prefix[b] \o Joined(rh)

KeyInv ==
    /\ FingerprintInv
    /\ rcpt \in Recipients
    /\ key["lmdb"] \in {none, yaslrange(Whole("lmdb"), 0, KeyEnd)}
    /\ key["redis"] \in {none, Whole("redis")}
    /\ key = Unkeyed \/ i = Len(s)

LEMMA PrefixesAre ==
    /\ DOMAIN Prefix = {"lmdb", "redis"}
    /\ \A b \in DOMAIN Prefix : Prefix[b] \in Seq(Chars)
    /\ Len(Prefix["lmdb"]) = 5 /\ Len(Prefix["redis"]) = 17
  <1>1. DOMAIN Prefix = {"lmdb", "redis"}
    BY DEF Prefix
  <1>2. Prefix["lmdb"] \in Seq(Letters) /\ Len(Prefix["lmdb"]) = 5
    BY DEF Prefix, Letters
  <1>3. Prefix["redis"] \in Seq(Letters) /\ Len(Prefix["redis"]) = 17
    BY DEF Prefix, Letters
  <1>4. \A x : x \in Seq(Letters) => x \in Seq(Chars)
    BY DEF Chars
  <1> QED
    BY <1>1, <1>2, <1>3, <1>4

LEMMA WholeTells ==
    ASSUME NEW b \in DOMAIN Prefix, rcpt \in Recipients, rh \in Poly(63)
    PROVE  /\ Tells(Whole(b), Prefix[b], rcpt, Hex(rh))
           /\ Len(rcpt) \in Nat
           /\ Whole(b) # <<>>
  <1>1. rcpt \in Seq(Chars)
    <2>1. rcpt \in Seq(STRING)
      BY KeyAssumption
    <2> QED
      BY <2>1 DEF Chars
  <1>2. Prefix[b] \in Seq(Chars)
    BY PrefixesAre
  <1> DEFINE h == Hex(rh)
  <1>3. h \in Seq(Chars) /\ Len(h) \in 1..16 /\ \A n \in 1..Len(h) : h[n] # ":"
    <2>1. h \in Seq(Digits)
      BY HexIs
    <2> HIDE DEF h
    <2>2. h \in Seq(Chars)
      BY <2>1 DEF Chars
    <2> QED
      BY <2>2, HexIs DEF h
  <1> HIDE DEF h
  <1>4. Tells(Prefix[b] \o (rcpt \o <<":">> \o h), Prefix[b], rcpt, h)
    BY <1>1, <1>2, <1>3, KeyParts
  <1>5. Whole(b) = Prefix[b] \o (rcpt \o <<":">> \o h)
    BY DEF Whole, Joined, h
  <1>6. Len(rcpt) \in Nat /\ Len(Prefix[b]) \in Nat
    BY <1>1, <1>2
  <1>7. Len(Whole(b)) >= 1
    BY <1>3, <1>4, <1>5, <1>6 DEF Tells
  <1>8. Whole(b) # <<>>
    BY <1>7
  <1> QED
    BY <1>4, <1>5, <1>6, <1>8 DEF h

LEMMA UnkeyedIs ==
    /\ Unkeyed["lmdb"] = none /\ Unkeyed["redis"] = none
    /\ Unkeyed = [b \in {"lmdb", "redis"} |-> none]
  BY PrefixesAre DEF Unkeyed

LEMMA KeyStarts ==
    ASSUME KeyInit
    PROVE  KeyInv
  <1>1. FingerprintInv
    BY FingerprintStarts DEF KeyInit
  <1>2. key = Unkeyed /\ rcpt \in Recipients
    BY DEF KeyInit, Unkeyed
  <1> QED
    BY <1>1, <1>2, UnkeyedIs DEF KeyInv

LEMMA KeyKeeps ==
    ASSUME KeyInv, [KeyNext]_keyVars
    PROVE  KeyInv'
  <1>1. CASE ByteStep /\ UNCHANGED <<rcpt, key>>
    <2>1. FingerprintInv'
      BY <1>1, ByteKeeps DEF KeyInv
    <2>2. i # Len(s)
      <3>1. s \in Seq(Byte) /\ i \in Nat /\ Len(s) \in Nat /\ i < Len(s) % 8
        BY <1>1 DEF KeyInv, FingerprintInv, FingerprintTypeOK, ByteStep
      <3> QED
        BY <3>1
    <2>3. key' = Unkeyed /\ rcpt' = rcpt
      BY <1>1, <2>2 DEF KeyInv
    <2>4. Unkeyed' = Unkeyed
      BY DEF Unkeyed
    <2> QED
      BY <2>1, <2>3, <2>4, UnkeyedIs DEF KeyInv
  <1>2. CASE BlockStep /\ UNCHANGED <<rcpt, key>>
    <2>1. FingerprintInv'
      BY <1>2, BlockKeeps DEF KeyInv
    <2>2. i # Len(s)
      <3>1. s \in Seq(Byte) /\ i \in Nat /\ Len(s) \in Nat /\ i < Len(s)
        BY <1>2 DEF KeyInv, FingerprintInv, FingerprintTypeOK, BlockStep
      <3> QED
        BY <3>1
    <2>3. key' = Unkeyed /\ rcpt' = rcpt
      BY <1>2, <2>2 DEF KeyInv
    <2>4. Unkeyed' = Unkeyed
      BY DEF Unkeyed
    <2> QED
      BY <2>1, <2>3, <2>4, UnkeyedIs DEF KeyInv
  <1>3. ASSUME UNCHANGED <<fingerprintVars, rcpt>>
        PROVE  /\ FingerprintInv' /\ rcpt' = rcpt /\ Whole("lmdb")' = Whole("lmdb")
               /\ Whole("redis")' = Whole("redis") /\ s' = s /\ i' = i /\ Unkeyed' = Unkeyed
    <2>1. s' = s /\ i' = i /\ rh' = rh /\ rcpt' = rcpt
      BY <1>3 DEF fingerprintVars
    <2>2. FingerprintInv'
      BY <2>1 DEF KeyInv, FingerprintInv, FingerprintTypeOK, InStep
    <2> QED
      BY <2>1, <2>2 DEF Whole, Joined, Unkeyed
  <1>4. CASE lmdb_vdb_key
    <2>1. /\ i = Len(s) /\ key = Unkeyed /\ UNCHANGED <<fingerprintVars, rcpt>>
          /\ key' = [key EXCEPT !["lmdb"] = yaslrange(Whole("lmdb"), 0, KeyEnd)]
      BY <1>4 DEF lmdb_vdb_key, MakesKey, Unkeyed, Whole
    <2>2. key'["lmdb"] = yaslrange(Whole("lmdb"), 0, KeyEnd) /\ key'["redis"] = none
      BY <2>1, UnkeyedIs
    <2> QED
      BY <1>3, <2>1, <2>2 DEF KeyInv
  <1>5. CASE redis_vdb_key
    <2>1. /\ i = Len(s) /\ key = Unkeyed /\ UNCHANGED <<fingerprintVars, rcpt>>
          /\ key' = [key EXCEPT !["redis"] = Whole("redis")]
      BY <1>5 DEF redis_vdb_key, MakesKey, Unkeyed, Whole
    <2>2. key'["redis"] = Whole("redis") /\ key'["lmdb"] = none
      BY <2>1, UnkeyedIs
    <2> QED
      BY <1>3, <2>1, <2>2 DEF KeyInv
  <1>6. CASE UNCHANGED keyVars
    <2>1. UNCHANGED <<fingerprintVars, rcpt>> /\ key' = key
      BY <1>6 DEF keyVars
    <2> QED
      BY <1>3, <2>1 DEF KeyInv
  <1> QED
    BY <1>1, <1>2, <1>4, <1>5, <1>6 DEF KeyNext, FingerprintNext

THEOREM KeyInvariant == KeySpec => []KeyInv
  <1>1. KeyInit => KeyInv
    BY KeyStarts
  <1>2. KeyInv /\ [KeyNext]_keyVars => KeyInv'
    BY KeyKeeps
  <1> QED
    BY <1>1, <1>2, PTL DEF KeySpec

\* The fingerprint is the residue of the bytes read, for addresses of any length and
\* any bytes: eight tables, byte order and the odd bytes at the front (rabin.c:34-2136).
THEOREM FingerprintRight == KeySpec => []FingerprintIsResidue
  <1>1. KeyInv => FingerprintIsResidue
    BY ResidueShown DEF KeyInv
  <1> QED
    BY <1>1, KeyInvariant, PTL

\* A difference confined to eight bytes in a row is never lost, wherever it stands in
\* an address and however long that is (rabin.c:24-27).
THEOREM DifferencesNotLost == KeySpec => []ShortDifferencesShow
  <1>1. KeyInv => ShortDifferencesShow
    BY DifferencesShown DEF KeyInv
  <1> QED
    BY <1>1, KeyInvariant, PTL

LEMMA KeyLengths ==
    ASSUME KeyInv
    PROVE  /\ Tells(Whole("lmdb"), Prefix["lmdb"], rcpt, Hex(rh))
           /\ Tells(Whole("redis"), Prefix["redis"], rcpt, Hex(rh))
           /\ Len(Whole("redis")) \in (19 + Len(rcpt))..(34 + Len(rcpt))
           /\ Len(yaslrange(Whole("lmdb"), 0, KeyEnd)) <= KeyEnd + 1
           /\ Len(Whole("lmdb")) <= KeyEnd + 1 => yaslrange(Whole("lmdb"), 0, KeyEnd) = Whole("lmdb")
           /\ Value(Hex(rh)) = rh
  <1>1. rcpt \in Recipients /\ rh \in Poly(63)
    BY DEF KeyInv, FingerprintInv, FingerprintTypeOK, Poly
  <1>2. "lmdb" \in DOMAIN Prefix /\ "redis" \in DOMAIN Prefix
    BY PrefixesAre
  <1>3. /\ Tells(Whole("lmdb"), Prefix["lmdb"], rcpt, Hex(rh)) /\ Whole("lmdb") # <<>>
        /\ Tells(Whole("redis"), Prefix["redis"], rcpt, Hex(rh)) /\ Len(rcpt) \in Nat
    BY <1>1, <1>2, WholeTells
  <1>4. Whole("lmdb") \in Seq(Chars) /\ Len(Whole("redis")) = Len(Prefix["redis"]) + Len(rcpt) + 1 + Len(Hex(rh))
    BY <1>3 DEF Tells
  <1>5. Len(Hex(rh)) \in 1..16 /\ Value(Hex(rh)) = rh
    BY <1>1, HexIs
  <1>6. Len(Whole("redis")) \in (19 + Len(rcpt))..(34 + Len(rcpt))
    <2>1. Len(Prefix["redis"]) = 17 /\ Len(rcpt) \in Nat
      BY <1>3, PrefixesAre
    <2> DEFINE n == Len(Whole("redis"))
               m == Len(Hex(rh))
               l == Len(rcpt)
    <2>2. n = 17 + l + 1 + m /\ m \in 1..16 /\ l \in Nat
      BY <1>4, <1>5, <2>1
    <2> HIDE DEF n, m, l
    <2>3. n \in (19 + l)..(34 + l)
      BY <2>2
    <2> QED
      BY <2>3 DEF n, l
  <1>7. /\ Len(yaslrange(Whole("lmdb"), 0, KeyEnd)) <= KeyEnd + 1
        /\ Len(Whole("lmdb")) <= KeyEnd + 1 => yaslrange(Whole("lmdb"), 0, KeyEnd) = Whole("lmdb")
    BY <1>3, <1>4, Cut
  <1> QED
    BY <1>3, <1>5, <1>6, <1>7

\* Types, and the lengths of keys: at most 512 bytes in LMDB, and in Redis as many as
\* prefix, recipient and one to sixteen digits take (vdb_lmdb.c:244-255, vdb_redis.c:128-136).
THEOREM KeyTypeCorrect == KeySpec => []KeyTypeOK
  <1>1. KeyInv => KeyTypeOK
    <2> SUFFICES ASSUME KeyInv PROVE KeyTypeOK
      OBVIOUS
    <2>1. FingerprintTypeOK /\ rcpt \in Recipients
      BY DEF KeyInv, FingerprintInv
    <2>2. key["lmdb"] # none => Len(key["lmdb"]) <= KeyEnd + 1
      BY KeyLengths DEF KeyInv
    <2>3. key["redis"] # none => Len(key["redis"]) \in (19 + Len(rcpt))..(34 + Len(rcpt))
      BY KeyLengths DEF KeyInv
    <2> QED
      BY <2>1, <2>2, <2>3 DEF KeyTypeOK
  <1> QED
    BY <1>1, KeyInvariant, PTL

\* A key that was not cut tells recipient and fingerprint, whatever the recipient is:
\* two pairs never share a record (vdb_lmdb.c:246-250, vdb_redis.c:130-132).
THEOREM KeysTell == KeySpec => []KeyTells
  <1>1. KeyInv => KeyTells
    <2> SUFFICES ASSUME KeyInv, NEW b \in DOMAIN Prefix, key[b] # none,
                        b = "lmdb" => Len(Prefix[b] \o Joined(rh)) <= KeyEnd + 1
                 PROVE  /\ SubSeq(key[b], 1, LastColon(key[b]) - 1) = Prefix[b] \o rcpt
                        /\ Value(SubSeq(key[b], LastColon(key[b]) + 1, Len(key[b]))) = rh
      BY DEF KeyTells, LastColon
    <2>1. b = "lmdb" \/ b = "redis"
      BY PrefixesAre
    <2>2. key[b] = Whole(b)
      <3>1. CASE b = "lmdb"
        BY <3>1, KeyLengths DEF KeyInv, Whole
      <3>2. CASE b = "redis"
        BY <3>2 DEF KeyInv
      <3> QED
        BY <2>1, <3>1, <3>2
    <2>3. Tells(Whole(b), Prefix[b], rcpt, Hex(rh)) /\ Value(Hex(rh)) = rh
      BY <2>1, KeyLengths
    <2> QED
      BY <2>2, <2>3 DEF Tells
  <1> QED
    BY <1>1, KeyInvariant, PTL
=============================================================================
