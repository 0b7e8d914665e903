---------------------------- MODULE Pexecv_proofs --------------------------
(***************************************************************************)
(* Proofs about the null backend and about the hand-off to the mailer, for *)
(* any deliveries and attempts, and any size of reply, buffer and pipe.    *)
(***************************************************************************)
EXTENDS Pexecv, Simvacation_proofs, TLAPS

----------------------------------------------------------------------------
(* The null backend.                                                       *)

LEMMA NullStepType ==
    ASSUME TypeOK, NEW r \in Run, Start(r) \/ RunStep(r) \/ Kill(r)
    PROVE  TypeOK'
<1>1. CASE Start(r) \/ MainStep(r) \/ Kill(r)
  BY <1>1, MainType DEF TypeOK
<1>2. CASE Recent(r) \/ StoreReply(r)
  BY <1>2 DEF Recent, StoreReply, Goto, Pcs, FrontPcs, BackendPcs, TypeOK, SimTypeOK,
              mainVars, vdbCallVars, historyVars
<1> QED
  BY <1>1, <1>2 DEF RunStep

\* Over the null backend every variable of main keeps its type.
THEOREM NullTypeCorrect == Spec => []TypeOK
<1>1. SimInit => TypeOK
  BY DEF SimInit, TypeOK, SimTypeOK, Pcs, FrontPcs, Results
<1>2. TypeOK /\ [Next]_vars => TypeOK'
  BY NullStepType DEF Next, vars, simVars, TypeOK, SimTypeOK
<1> QED
  BY <1>1, <1>2, PTL DEF Spec

\* A run with a mailer has left main's last call, and not by a fault.
MailedLeft ==
    \A r \in Run : mailed[r] =>
        pc[r] \in {"exiting", "done"} /\ retval[r] \in {"ok", "tempfail", "signal"}

\* Until it leaves, a run's retval is what it was set to at the start.
StillOk == \A r \in Run : pc[r] \notin {"exiting", "done"} => retval[r] = "ok"

NullInv == TypeOK /\ Retried /\ MailedLeft /\ StillOk

LEMMA NullStepInv ==
    ASSUME NullInv, NEW r \in Run, Start(r) \/ RunStep(r) \/ Kill(r)
    PROVE  NullInv'
<1> USE DEF NullInv, TypeOK
<1>1. TypeOK'
  BY NullStepType
<1>2. /\ pc[r] # "done"
      /\ pc[r] = "idle" => MayStart(r)
      /\ \A s \in Run \ {r} : /\ pc'[s] = pc[s] /\ retval'[s] = retval[s]
                              /\ mailed'[s] = mailed[s]
  BY DEF Start, RunStep, MainStep, Kill, Recent, StoreReply, Search, GroupSearch, VdbInit,
         ReadHeaders, CheckFrom, SendFail, Handoff, HandoffEmpty, ChildFail, Exit,
         Goto, LeaveWith, Abandon, mainVars, SimTypeOK
<1>3. Retried'
  BY <1>2, RetriedStep
<1>4. /\ mailed'[r] => pc'[r] \in {"exiting", "done"}
                       /\ retval'[r] \in {"ok", "tempfail", "signal"}
      /\ pc'[r] \notin {"exiting", "done"} => retval'[r] = "ok"
  <2> USE DEF MailedLeft, StillOk, SimTypeOK, Goto, LeaveWith, Abandon, mainVars
  <2>1. CASE Start(r) \/ Search(r) \/ GroupSearch(r) \/ VdbInit(r) \/ ReadHeaders(r)
    BY <2>1 DEF Start, Search, GroupSearch, VdbInit, ReadHeaders
  <2>2. CASE CheckFrom(r) \/ Recent(r) \/ StoreReply(r)
    BY <2>2 DEF CheckFrom, Recent, StoreReply
  <2>3. CASE SendFail(r) \/ Handoff(r) \/ HandoffEmpty(r) \/ ChildFail(r) \/ Exit(r)
    BY <2>3 DEF SendFail, Handoff, HandoffEmpty, ChildFail, Exit
  <2>4. CASE Kill(r)
    BY <2>4 DEF Kill
  <2> QED
    BY <2>1, <2>2, <2>3, <2>4 DEF RunStep, MainStep
<1>5. MailedLeft' /\ StillOk'
  BY <1>2, <1>4 DEF MailedLeft, StillOk
<1> QED
  BY <1>1, <1>3, <1>5

\* Without a database, a delivery's second reply takes a signal, or a failure
\* of pexecv after its fork.
THEOREM SecondReplyHolds == Spec => []SecondReplyNeedsFailure
<1>1. SimInit => NullInv
  BY DEF SimInit, NullInv, TypeOK, SimTypeOK, Pcs, FrontPcs, Results, Retried, MailedLeft,
         StillOk
<1>2. NullInv /\ [Next]_vars => NullInv'
  <2>1. CASE UNCHANGED vars
    BY <2>1 DEF vars, simVars, NullInv, TypeOK, SimTypeOK, Retried, MailedLeft, StillOk
  <2> QED
    BY <2>1, NullStepInv DEF Next
<1>3. NullInv => SecondReplyNeedsFailure
  BY DEF NullInv, Retried, MailedLeft, Failures, SecondReplyNeedsFailure
<1> QED
  BY <1>1, <1>2, <1>3, PTL DEF Spec

----------------------------------------------------------------------------
(* Descriptors.                                                            *)

FdsType == fds \in [Run -> [Processes -> [Descriptors -> Ends]]]

LEMMA CloseEffect ==
    ASSUME FdsType, NEW r \in Run, NEW p \in Processes, NEW d \in Descriptors,
           Close(r, p, d)
    PROVE  /\ FdsType'
           /\ \A s \in Run, q \in Processes, e \in Descriptors :
                 fds'[s][q][e] = IF s = r /\ q = p /\ e = d THEN "none" ELSE fds[s][q][e]
           /\ \A s \in Run \ {r} : fds'[s] = fds[s]
  BY DEF FdsType, Close, Ends

LEMMA Dup2Effect ==
    ASSUME FdsType, NEW r \in Run, NEW p \in Processes, NEW f \in Descriptors,
           NEW t \in Descriptors, Dup2(r, p, f, t)
    PROVE  /\ FdsType'
           /\ \A s \in Run, q \in Processes, e \in Descriptors :
                 fds'[s][q][e] = IF s = r /\ q = p /\ e = t THEN fds[r][p][f]
                                 ELSE fds[s][q][e]
           /\ \A s \in Run \ {r} : fds'[s] = fds[s]
  BY DEF FdsType, Dup2

LEMMA CloseAllEffect ==
    ASSUME FdsType, NEW r \in Run, NEW p \in Processes, CloseAll(r, p)
    PROVE  /\ FdsType'
           /\ \A s \in Run, q \in Processes, e \in Descriptors :
                 fds'[s][q][e] = IF s = r /\ q = p THEN "none" ELSE fds[s][q][e]
           /\ \A s \in Run \ {r} : fds'[s] = fds[s]
  BY DEF FdsType, CloseAll, AllClosed, Ends

LEMMA PipeEffect ==
    ASSUME FdsType, NEW r \in Run, Pipe(r)
    PROVE  /\ FdsType'
           /\ fds'[r]["run"]["fd0"] = "read" /\ fds'[r]["run"]["fd1"] = "write"
           /\ \A s \in Run \ {r} : fds'[s] = fds[s]
<1>1. "run" \in Processes /\ {"fd0", "fd1"} \subseteq Descriptors /\ {"read", "write"} \subseteq Ends
  BY DEF Processes, Descriptors, Ends
<1>2. fds' = [fds EXCEPT ![r]["run"]["fd0"] = "read", ![r]["run"]["fd1"] = "write"]
  BY DEF Pipe
<1> QED
  BY <1>1, <1>2 DEF FdsType

LEMMA ForkEffect ==
    ASSUME FdsType, NEW r \in Run, Fork(r)
    PROVE  /\ FdsType'
           /\ fds'[r]["run"] = fds[r]["run"] /\ fds'[r]["child"] = fds[r]["run"]
           /\ \A s \in Run \ {r} : fds'[s] = fds[s]
<1>1. {"run", "child"} \subseteq Processes /\ "run" # "child"
  BY DEF Processes
<1>2. fds' = [fds EXCEPT ![r]["child"] = fds[r]["run"]]
  BY DEF Fork
<1> QED
  BY <1>1, <1>2 DEF FdsType

LEMMA FdsStep ==
    ASSUME FdsType, NEW r \in Run, HandoffStep(r)
    PROVE  FdsType' /\ \A s \in Run \ {r} : fds'[s] = fds[s]
<1>1. {"run", "child"} \subseteq Processes /\ {"0", "1", "fd0", "fd1"} \subseteq Descriptors
  BY DEF Processes, Descriptors
<1>2. CASE Pipe(r)
  BY <1>2, PipeEffect
<1>3. CASE Fork(r)
  BY <1>3, ForkEffect
<1>4. CASE CallFails(r)
  BY <1>1, <1>4, CloseEffect DEF CallFails, FdsType
<1>5. CASE Close0(r) \/ Close1(r) \/ ChildClose1(r) \/ ChildClose0(r)
  BY <1>1, <1>5, CloseEffect DEF Close0, Close1, ChildClose1, ChildClose0
<1>6. CASE DupStdout(r) \/ ChildDupStdin(r)
  BY <1>1, <1>6, Dup2Effect DEF DupStdout, ChildDupStdin
<1>7. CASE WriteSignalled(r) \/ RunExits(r) \/ KillRun(r)
  BY <1>1, <1>7, CloseAllEffect DEF WriteSignalled, RunExits, KillRun
<1>8. CASE ChildExits(r) \/ MailerSeesEnd(r) \/ MailerQuits(r)
  BY <1>1, <1>8, CloseAllEffect DEF ChildExits, MailerSeesEnd, MailerQuits
<1>9. CASE UNCHANGED fds
  BY <1>9 DEF FdsType
<1> QED
  BY <1>2, <1>3, <1>4, <1>5, <1>6, <1>7, <1>8, <1>9
     DEF HandoffStep, SendStep, ChildStep, handoffVars, Utter, Write, WriteLost, Printed,
         ChildExecs, MailerReads

----------------------------------------------------------------------------
(* The invariant of one run, its child and their pipe.                     *)

\* How far main and send_message have come agrees with the child.
Located(r) ==
    /\ pc[r] \notin {"send", "exiting", "done"} => step[r] = "pipe"
    /\ pc[r] \notin {"exiting", "done"} => retval[r] = "ok"
    /\ step[r] \in {"pipe", "fork"} => child[r] = "none" /\ fate[r] = "none"
    /\ step[r] # "pipe" => retval[r] \in {"ok", "tempfail", "signal"}
    /\ child[r] = "mailer" => fate[r] = "execs"
    /\ mailed[r] => fate[r] = "execs"

\* Text is printed only after the last call that may fail, and all of it
\* unless a signal comes.
Told(r) ==
    /\ step[r] # "printf" => printed[r] = 0
    /\ printed[r] > 0 => retval[r] \in {"ok", "signal"}
    /\ pc[r] \in {"exiting", "done"} /\ step[r] # "pipe" /\ retval[r] = "ok"
       => printed[r] = TextSize
    /\ pc[r] = "done" /\ retval[r] = "ok" => buffer[r] = 0

\* No text comes from nowhere, and none is lost while a child could read it.
Counted(r) ==
    /\ got[r] + inPipe[r] + buffer[r] <= printed[r]
    /\ child[r] \in ChildSteps \union {"mailer"}
       => got[r] + inPipe[r] + buffer[r] = printed[r]

\* A run that could still print holds the pipe's one end, a child that could
\* still read the other.
Connected(r) ==
    /\ pc[r] \in {"send", "exiting"} =>
          /\ step[r] \in {"fork", "close0", "dup2"} => fds[r]["run"]["fd1"] = "write"
          /\ step[r] \in {"close1", "printf"} => fds[r]["run"]["1"] = "write"
    /\ pc[r] = "send" /\ step[r] = "fork" => fds[r]["run"]["fd0"] = "read"
    /\ child[r] \in {"close1", "dup2"} => fds[r]["child"]["fd0"] = "read"
    /\ child[r] \in {"close0", "execv", "mailer"} => fds[r]["child"]["0"] = "read"

\* What a mailer's end of file says of the run.
Over(r) ==
    eof[r] => /\ pc[r] = "done" /\ child[r] = "over"
              /\ got[r] = TextSize \/ retval[r] \in {"tempfail", "signal"}

RunInv(r) == Located(r) /\ Told(r) /\ Counted(r) /\ Connected(r) /\ Over(r)

HandoffInv == HandoffTypeOK /\ Retried /\ \A r \in Run : RunInv(r)

LEMMA HandoffInitInv == HandoffInit => HandoffInv
  BY SizeAssumption
     DEF HandoffInit, SimInit, HandoffInv, HandoffTypeOK, TypeOK, SimTypeOK, Pcs, FrontPcs,
         Results, Steps, ChildSteps, Processes, Descriptors, Ends, Retried, RunInv, Located,
         Told, Counted, Connected, Over

\* What is as it was for one run, its child and their pipe.
Same(s) ==
    /\ pc'[s] = pc[s] /\ retval'[s] = retval[s] /\ mailed'[s] = mailed[s]
    /\ step'[s] = step[s] /\ child'[s] = child[s] /\ fate'[s] = fate[s]
    /\ fds'[s] = fds[s] /\ printed'[s] = printed[s] /\ buffer'[s] = buffer[s]
    /\ inPipe'[s] = inPipe[s] /\ got'[s] = got[s] /\ eof'[s] = eof[s]

LEMMA SameInv == ASSUME NEW s \in Run, Same(s), RunInv(s) PROVE RunInv(s)'
  BY DEF Same, RunInv, Located, Told, Counted, Connected, Over

LEMMA OthersSame ==
    ASSUME HandoffTypeOK, NEW r \in Run, HandoffStep(r), NEW s \in Run \ {r}
    PROVE  Same(s)
<1> USE DEF HandoffTypeOK, TypeOK, SimTypeOK, Goto, LeaveWith, Abandon, mainVars, simVars
<1>1. fds'[s] = fds[s]
  BY FdsStep DEF FdsType
<1>2. pc'[s] = pc[s] /\ retval'[s] = retval[s] /\ mailed'[s] = mailed[s]
  BY DEF HandoffStep, SendStep, ChildStep, FrontStep, Start, Search, GroupSearch, VdbInit,
         ReadHeaders, CheckFrom, Recent, StoreReply, Pipe, Fork, CallFails, Fails, Succeeds,
         Close0, DupStdout, Close1, Utter, Write, WriteSignalled, WriteLost, Printed,
         RunExits, Exit, ChildClose1, ChildDupStdin, ChildClose0, ChildExecs, ChildExits,
         MailerReads, MailerSeesEnd, MailerQuits, KillRun, childVars
<1>3. /\ step'[s] = step[s] /\ child'[s] = child[s] /\ fate'[s] = fate[s]
      /\ printed'[s] = printed[s] /\ buffer'[s] = buffer[s]
      /\ inPipe'[s] = inPipe[s] /\ got'[s] = got[s] /\ eof'[s] = eof[s]
  BY DEF HandoffStep, SendStep, ChildStep, FrontStep, Pipe, Fork, CallFails, Fails, Succeeds,
         Then, Close0, DupStdout, Close1, Utter, Write, WriteSignalled, WriteLost, Printed,
         RunExits, ChildGoes, ChildClose1, ChildDupStdin, ChildClose0, ChildExecs, ChildExits,
         MailerReads, MailerSeesEnd, MailerQuits, KillRun, childVars, textVars, handoffVars
<1> QED
  BY <1>1, <1>2, <1>3 DEF Same

LEMMA Numbers ==
    ASSUME HandoffTypeOK, NEW r \in Run
    PROVE  /\ printed[r] \in Nat /\ buffer[r] \in Nat /\ inPipe[r] \in Nat /\ got[r] \in Nat
           /\ printed[r] <= TextSize /\ buffer[r] <= BufferSize /\ inPipe[r] <= PipeSize
           /\ TextSize \in Nat /\ BufferSize \in Nat /\ PipeSize \in Nat
<1>1. /\ printed[r] \in 0..TextSize /\ buffer[r] \in 0..BufferSize
      /\ inPipe[r] \in 0..PipeSize /\ got[r] \in 0..TextSize
  BY DEF HandoffTypeOK
<1> QED
  BY <1>1, SizeAssumption

LEMMA NothingPrinted ==
    ASSUME HandoffTypeOK, NEW r \in Run, Counted(r), printed[r] = 0
    PROVE  buffer[r] = 0 /\ inPipe[r] = 0 /\ got[r] = 0
<1>1. got[r] + inPipe[r] + buffer[r] <= 0
  BY DEF Counted
<1> QED
  BY <1>1, Numbers

\* One lemma per part of the process: main before it sends, pexecv in the run,
\* printing, the child, the mailer, a signal.
LEMMA FrontInv ==
    ASSUME HandoffInv, NEW r \in Run, (Start(r) \/ FrontStep(r)) /\ UNCHANGED handoffVars
    PROVE  HandoffTypeOK' /\ RunInv(r)'
<1>1. TypeOK'
  BY NullStepType DEF HandoffInv, HandoffTypeOK, FrontStep, RunStep, MainStep
<1>2. HandoffTypeOK'
  BY <1>1 DEF HandoffInv, HandoffTypeOK, handoffVars
<1>3. /\ pc[r] \notin {"send", "exiting", "done"}
      /\ mailed' = mailed
      /\ pc'[r] \in {"exiting", "done"} \/ retval' = retval
  BY DEF FrontStep, Start, Search, GroupSearch, VdbInit, ReadHeaders, CheckFrom, Recent,
         StoreReply, Goto, LeaveWith, Abandon, mainVars, HandoffInv, HandoffTypeOK, TypeOK,
         SimTypeOK
<1>4. step[r] = "pipe" /\ child[r] = "none" /\ printed[r] = 0 /\ ~eof[r]
  BY <1>3 DEF HandoffInv, RunInv, Located, Told, Over, HandoffTypeOK
<1>5. buffer[r] = 0 /\ got[r] = 0 /\ inPipe[r] = 0
  BY <1>4, NothingPrinted DEF HandoffInv, RunInv
<1> QED
  BY <1>2, <1>3, <1>4, <1>5
     DEF HandoffInv, RunInv, Located, Told, Counted, Connected, Over, handoffVars

LEMMA PexecvInv ==
    ASSUME HandoffInv, NEW r \in Run,
           Pipe(r) \/ Fork(r) \/ Close0(r) \/ DupStdout(r) \/ Close1(r)
    PROVE  HandoffTypeOK' /\ RunInv(r)'
<1> USE DEF HandoffInv, HandoffTypeOK, RunInv, Succeeds, Then, At
<1>1. /\ pc[r] = "send" /\ retval[r] = "ok" /\ ~eof[r]
      /\ UNCHANGED <<simVars, printed, buffer, inPipe, got, eof>>
  BY DEF Pipe, Fork, Close0, DupStdout, Close1, Located, Over, textVars
<1>2. TypeOK' /\ UNCHANGED <<pc, retval, mailed>>
  BY <1>1 DEF simVars, TypeOK, SimTypeOK
<1>3. FdsType'
  BY FdsStep DEF FdsType, HandoffStep, SendStep
<1>4. /\ step' \in [Run -> Steps] /\ fate' \in [Run -> {"none", "execs", "fails"}]
      /\ child' \in [Run -> ChildSteps \union {"none", "mailer", "over"}]
  <2>1. CASE Fork(r)
    <3>1. PICK f \in {"execs", "fails"} : fate' = [fate EXCEPT ![r] = f]
      BY <2>1 DEF Fork
    <3> QED
      BY <2>1, <3>1 DEF Fork, Steps, ChildSteps
  <2>2. CASE Pipe(r) \/ Close0(r) \/ DupStdout(r) \/ Close1(r)
    <3>1. UNCHANGED <<child, fate>>
      BY <2>2 DEF Pipe, Close0, DupStdout, Close1
    <3> QED
      BY <2>2, <3>1 DEF Pipe, Close0, DupStdout, Close1, Steps
  <2> QED
    BY <2>1, <2>2
<1>5. HandoffTypeOK'
  BY <1>1, <1>2, <1>3, <1>4 DEF FdsType
<1>6. Located(r)' /\ Told(r)' /\ Counted(r)' /\ Over(r)'
  <2>0. printed[r] = 0
    BY DEF Pipe, Fork, Close0, DupStdout, Close1, Told
  <2>1. printed[r] = 0 /\ buffer[r] = 0 /\ got[r] = 0 /\ inPipe[r] = 0
    BY <2>0, NothingPrinted
  <2> QED
    BY <1>1, <1>2, <2>1 DEF Located, Told, Counted, Over, Pipe, Fork, Close0, DupStdout,
                            Close1
<1>7. Connected(r)'
  <2> USE <1>2 DEF Connected, Located
  <2>0. {"run", "child"} \subseteq Processes /\ {"0", "1", "fd0", "fd1"} \subseteq Descriptors
    BY DEF Processes, Descriptors
  <2>1. CASE Pipe(r)
    <3>1. step'[r] = "fork" /\ child'[r] = "none"
      BY <2>1 DEF Pipe
    <3> QED
      BY <2>1, <3>1, PipeEffect DEF FdsType
  <2>2. CASE Fork(r)
    <3>1. step'[r] = "close0" /\ child'[r] = "close1"
      BY <2>2 DEF Fork
    <3>2. fds[r]["run"]["fd0"] = "read" /\ fds[r]["run"]["fd1"] = "write"
      BY <1>1, <2>2 DEF Fork
    <3> QED
      BY <2>2, <3>1, <3>2, ForkEffect DEF FdsType
  <2>3. CASE Close0(r)
    <3>1. /\ fds'[r]["run"]["fd1"] = fds[r]["run"]["fd1"]
          /\ fds'[r]["child"]["fd0"] = fds[r]["child"]["fd0"]
          /\ fds'[r]["child"]["0"] = fds[r]["child"]["0"]
      BY <2>0, <2>3, CloseEffect DEF FdsType, Close0
    <3>2. step[r] = "close0" /\ step'[r] = "dup2" /\ child' = child
      BY <2>3 DEF Close0
    <3> QED
      BY <1>1, <3>1, <3>2
  <2>4. CASE DupStdout(r)
    BY <2>0, <2>4, Dup2Effect DEF FdsType, DupStdout
  <2>5. CASE Close1(r)
    <3>1. step'[r] = "printf" /\ child' = child /\ Close(r, "run", "fd1")
      BY <2>5 DEF Close1
    <3>2. fds[r]["run"]["1"] = "write"
      BY <1>1, <2>5 DEF Close1
    <3>3. /\ fds'[r]["run"]["1"] = fds[r]["run"]["1"]
          /\ fds'[r]["child"]["fd0"] = fds[r]["child"]["fd0"]
          /\ fds'[r]["child"]["0"] = fds[r]["child"]["0"]
      BY <2>0, <3>1, CloseEffect DEF FdsType
    <3> QED
      BY <1>1, <3>1, <3>2, <3>3
  <2> QED
    BY <2>1, <2>2, <2>3, <2>4, <2>5
<1> QED
  BY <1>5, <1>6, <1>7

LEMMA ChildReads ==
    ASSUME HandoffInv, NEW r \in Run, child[r] \in ChildSteps \union {"mailer"}
    PROVE  Holds(r, "read")
<1>1. "child" \in Processes /\ {"0", "fd0"} \subseteq Descriptors
  BY DEF Processes, Descriptors
<1>2. fds[r]["child"]["fd0"] = "read" \/ fds[r]["child"]["0"] = "read"
  BY DEF HandoffInv, RunInv, Connected, ChildSteps
<1> QED
  BY <1>1, <1>2 DEF Holds

LEMMA RunWrites ==
    ASSUME HandoffInv, NEW r \in Run, child[r] # "none", ~ Holds(r, "write")
    PROVE  pc[r] = "done"
<1>1. "run" \in Processes /\ {"1", "fd1"} \subseteq Descriptors
  BY DEF Processes, Descriptors
<1>2. step[r] \in {"close0", "dup2", "close1", "printf"}
  BY DEF HandoffInv, HandoffTypeOK, RunInv, Located, Steps
<1>3. pc[r] \in {"send", "exiting", "done"}
  BY <1>2 DEF HandoffInv, RunInv, Located
<1>4. fds[r]["run"]["1"] # "write" /\ fds[r]["run"]["fd1"] # "write"
  BY <1>1 DEF Holds
<1> QED
  BY <1>2, <1>3, <1>4 DEF HandoffInv, RunInv, Connected

LEMMA CallFailsInv ==
    ASSUME HandoffInv, NEW r \in Run, CallFails(r)
    PROVE  HandoffTypeOK' /\ RunInv(r)'
<1>1. /\ pc[r] = "send" /\ step[r] # "printf"
      /\ UNCHANGED <<now, group, mailed, last, chk, stamp, count, look, blind, rank, erank>>
      /\ UNCHANGED <<step, child, fate, printed, buffer, inPipe, got, eof>>
  BY DEF CallFails, Fails, vdbCallVars, historyVars, childVars, textVars
<1>2. /\ pc' \in [Run -> Pcs] /\ retval' \in [Run -> Results]
      /\ pc'[r] = "exiting" /\ retval'[r] = "tempfail"
  BY DEF CallFails, Fails, LeaveWith, Goto, HandoffInv, HandoffTypeOK, TypeOK, SimTypeOK, Pcs,
         Results
<1>3. FdsType'
  BY FdsStep DEF FdsType, HandoffStep, SendStep, HandoffInv, HandoffTypeOK
<1>4. HandoffTypeOK'
  BY <1>1, <1>2, <1>3 DEF HandoffInv, HandoffTypeOK, TypeOK, SimTypeOK, FdsType
<1>5. Connected(r)'
  <2>0. {"run", "child"} \subseteq Processes /\ {"0", "1", "fd0", "fd1"} \subseteq Descriptors
        /\ FdsType
    BY DEF Processes, Descriptors, FdsType, HandoffInv, HandoffTypeOK
  <2>1. /\ step[r] # "close1" => fds'[r]["run"]["fd1"] = fds[r]["run"]["fd1"]
        /\ fds'[r]["run"]["1"] = fds[r]["run"]["1"]
        /\ fds'[r]["child"]["fd0"] = fds[r]["child"]["fd0"]
        /\ fds'[r]["child"]["0"] = fds[r]["child"]["0"]
    <3>1. CASE UNCHANGED fds
      BY <3>1
    <3>2. CASE step[r] = "close0" /\ Close(r, "run", "fd0")
      BY <2>0, <3>2, CloseEffect
    <3>3. CASE step[r] = "close1" /\ Close(r, "run", "fd1")
      BY <2>0, <3>3, CloseEffect
    <3> QED
      BY <3>1, <3>2, <3>3 DEF CallFails
  <2> QED
    BY <1>1, <1>2, <2>1 DEF HandoffInv, RunInv, Connected
<1> QED
  BY <1>1, <1>2, <1>4, <1>5 DEF HandoffInv, RunInv, Located, Told, Counted, Over

LEMMA PrintInv ==
    ASSUME HandoffInv, NEW r \in Run, Utter(r) \/ Write(r) \/ WriteLost(r)
    PROVE  HandoffTypeOK' /\ RunInv(r)'
<1>1. /\ UNCHANGED <<simVars, step, child, fate, fds, got, eof>>
      /\ step[r] = "printf" \/ pc[r] = "exiting"
      /\ pc[r] \in {"send", "exiting"}
  BY DEF Utter, Write, WriteLost, At, Flushing
<1>2. TypeOK' /\ UNCHANGED <<pc, retval, mailed>>
  BY <1>1 DEF simVars, HandoffInv, HandoffTypeOK, TypeOK, SimTypeOK
<1>3. Located(r)' /\ Connected(r)' /\ Over(r)'
  BY <1>1, <1>2 DEF HandoffInv, RunInv, Located, Connected, Over
<1> USE Numbers DEF HandoffInv
<1>4. /\ printed' \in [Run -> 0..TextSize] /\ buffer' \in [Run -> 0..BufferSize]
      /\ inPipe' \in [Run -> 0..PipeSize]
      /\ Told(r)' /\ Counted(r)'
  <2>1. CASE Utter(r)
    <3>1. /\ printed' = [printed EXCEPT ![r] = printed[r] + 1]
          /\ buffer' = [buffer EXCEPT ![r] = buffer[r] + 1]
          /\ inPipe' = inPipe /\ printed[r] < TextSize /\ buffer[r] < BufferSize
          /\ pc[r] = "send" /\ step[r] = "printf"
      BY <2>1 DEF Utter, At
    <3>2. printed' \in [Run -> 0..TextSize] /\ buffer' \in [Run -> 0..BufferSize]
      BY <3>1 DEF HandoffTypeOK
    <3>3. printed'[r] = printed[r] + 1 /\ buffer'[r] = buffer[r] + 1
      BY <3>1 DEF HandoffTypeOK
    <3>4. Told(r)'
      BY <1>1, <1>2, <3>1 DEF RunInv, Located, Told
    <3>5. Counted(r)'
      BY <1>1, <3>1, <3>3 DEF RunInv, Counted
    <3> QED
      BY <3>1, <3>2, <3>4, <3>5 DEF HandoffTypeOK
  <2>2. CASE Write(r)
    <3>1. /\ inPipe' = [inPipe EXCEPT ![r] = inPipe[r] + 1]
          /\ buffer' = [buffer EXCEPT ![r] = buffer[r] - 1]
          /\ printed' = printed /\ inPipe[r] < PipeSize /\ buffer[r] > 0
      BY <2>2 DEF Write, Flushing
    <3>2. inPipe' \in [Run -> 0..PipeSize] /\ buffer' \in [Run -> 0..BufferSize]
      BY <3>1 DEF HandoffTypeOK
    <3>3. inPipe'[r] = inPipe[r] + 1 /\ buffer'[r] = buffer[r] - 1
      BY <3>1 DEF HandoffTypeOK
    <3>4. Told(r)'
      BY <1>1, <1>2, <3>1 DEF RunInv, Told
    <3>5. Counted(r)'
      BY <1>1, <3>1, <3>3 DEF RunInv, Counted
    <3> QED
      BY <3>1, <3>2, <3>4, <3>5 DEF HandoffTypeOK
  <2>3. CASE WriteLost(r)
    <3>1. /\ buffer' = [buffer EXCEPT ![r] = 0]
          /\ printed' = printed /\ inPipe' = inPipe
          /\ child[r] \notin ChildSteps \union {"mailer"}
      BY <2>3, ChildReads DEF WriteLost
    <3>2. buffer' \in [Run -> 0..BufferSize] /\ buffer'[r] = 0
      BY <3>1 DEF HandoffTypeOK
    <3>3. Told(r)'
      BY <1>1, <1>2, <3>1 DEF RunInv, Told
    <3>4. Counted(r)'
      BY <1>1, <3>1, <3>2 DEF RunInv, Counted
    <3> QED
      BY <3>1, <3>2, <3>3, <3>4 DEF HandoffTypeOK
  <2> QED
    BY <2>1, <2>2, <2>3
<1>5. HandoffTypeOK'
  BY <1>1, <1>2, <1>4 DEF HandoffTypeOK
<1> QED
  BY <1>3, <1>4, <1>5 DEF RunInv

LEMMA PrintedInv ==
    ASSUME HandoffInv, NEW r \in Run, Printed(r)
    PROVE  HandoffTypeOK' /\ RunInv(r)'
<1> USE DEF HandoffInv, HandoffTypeOK, TypeOK, SimTypeOK
<1>1. /\ pc[r] = "send" /\ step[r] = "printf" /\ printed[r] = TextSize
      /\ pc' = [pc EXCEPT ![r] = "exiting"] /\ UNCHANGED handoffVars
      /\ UNCHANGED <<now, retval, group, mailed, last, chk, stamp, count, look, blind, rank, erank>>
  BY DEF Printed, At, Goto, mainVars, vdbCallVars, historyVars
<1>2. HandoffTypeOK'
  BY <1>1 DEF handoffVars, Pcs
<1> QED
  BY <1>1, <1>2 DEF RunInv, Located, Told, Counted, Connected, Over, handoffVars

\* The three ways in which a run's process is gone.
LEMMA GoneInv ==
    ASSUME HandoffInv, NEW r \in Run, WriteSignalled(r) \/ RunExits(r) \/ KillRun(r)
    PROVE  HandoffTypeOK' /\ RunInv(r)'
<1>1. /\ pc[r] \notin {"idle", "done"}
      /\ UNCHANGED <<now, group, mailed, last, chk, stamp, count, look, blind, rank, erank>>
      /\ UNCHANGED <<step, child, fate, printed, buffer, inPipe, got, eof>>
      /\ CloseAll(r, "run")
  BY DEF WriteSignalled, RunExits, KillRun, Flushing, At, Exit, mainVars, vdbCallVars,
         historyVars, childVars, textVars
<1>2. /\ pc' \in [Run -> Pcs] /\ retval' \in [Run -> Results] /\ pc'[r] = "done"
      /\ \/ retval'[r] = "signal"
         \/ retval'[r] = retval[r] /\ pc[r] = "exiting" /\ buffer[r] = 0
  BY DEF WriteSignalled, RunExits, KillRun, Abandon, Exit, mainVars, Goto, HandoffInv,
         HandoffTypeOK, TypeOK, SimTypeOK, Pcs, Results
<1>3. /\ FdsType'
      /\ fds'[r]["child"]["fd0"] = fds[r]["child"]["fd0"]
      /\ fds'[r]["child"]["0"] = fds[r]["child"]["0"]
  <2>1. {"run", "child"} \subseteq Processes /\ {"0", "fd0"} \subseteq Descriptors /\ FdsType
    BY DEF Processes, Descriptors, FdsType, HandoffInv, HandoffTypeOK
  <2> QED
    BY <1>1, <2>1, CloseAllEffect
<1>4. HandoffTypeOK'
  BY <1>1, <1>2, <1>3 DEF HandoffInv, HandoffTypeOK, TypeOK, SimTypeOK, FdsType
<1> QED
  BY <1>1, <1>2, <1>3, <1>4
     DEF HandoffInv, RunInv, Located, Told, Counted, Connected, Over

LEMMA ChildInv ==
    ASSUME HandoffInv, NEW r \in Run,
           \/ ChildClose1(r) \/ ChildDupStdin(r) \/ ChildClose0(r) \/ ChildExecs(r)
           \/ ChildExits(r) \/ MailerQuits(r)
    PROVE  HandoffTypeOK' /\ RunInv(r)'
<1>1. /\ UNCHANGED <<now, pc, retval, group, last, chk, stamp, count, look, blind, rank, erank>>
      /\ UNCHANGED <<step, fate, printed, buffer, inPipe, got, eof>>
      /\ child[r] \in ChildSteps \union {"mailer"}
  BY DEF ChildClose1, ChildDupStdin, ChildClose0, ChildExecs, ChildExits, MailerQuits,
         ChildGoes, simVars, vdbCallVars, historyVars, textVars, ChildSteps
<1>2. /\ child' \in [Run -> ChildSteps \union {"none", "mailer", "over"}]
      /\ child'[r] \in ChildSteps \union {"mailer", "over"}
      /\ child'[r] = "mailer" => fate[r] = "execs"
      /\ mailed' \in [Run -> BOOLEAN] /\ (mailed'[r] => mailed[r] \/ fate[r] = "execs")
  <2> USE DEF HandoffInv, HandoffTypeOK, TypeOK, SimTypeOK, ChildGoes, ChildSteps, simVars
  <2>1. CASE ChildClose1(r) \/ ChildDupStdin(r) \/ ChildClose0(r)
    BY <2>1 DEF ChildClose1, ChildDupStdin, ChildClose0
  <2>2. CASE ChildExecs(r)
    BY <2>2 DEF ChildExecs
  <2>3. CASE ChildExits(r) \/ MailerQuits(r)
    BY <2>3 DEF ChildExits, MailerQuits
  <2> QED
    BY <2>1, <2>2, <2>3
<1>3. FdsType /\ FdsType'
  BY FdsStep DEF FdsType, HandoffStep, ChildStep, HandoffInv, HandoffTypeOK
<1>4. HandoffTypeOK'
  BY <1>1, <1>2, <1>3 DEF HandoffInv, HandoffTypeOK, TypeOK, SimTypeOK, FdsType
<1>5. Located(r)' /\ Told(r)' /\ Counted(r)' /\ Over(r)'
  BY <1>1, <1>2 DEF HandoffInv, RunInv, Located, Told, Counted, Over, ChildSteps
<1>6. Connected(r)'
  <2>0. {"run", "child"} \subseteq Processes /\ {"0", "1", "fd0", "fd1"} \subseteq Descriptors
    BY DEF Processes, Descriptors
  <2>1. /\ fds'[r]["run"]["0"] = fds[r]["run"]["0"] /\ fds'[r]["run"]["1"] = fds[r]["run"]["1"]
        /\ fds'[r]["run"]["fd0"] = fds[r]["run"]["fd0"]
        /\ fds'[r]["run"]["fd1"] = fds[r]["run"]["fd1"]
    <3>1. CASE ChildClose1(r)
      BY <1>3, <2>0, <3>1, CloseEffect DEF ChildClose1
    <3>2. CASE ChildDupStdin(r)
      BY <1>3, <2>0, <3>2, Dup2Effect DEF ChildDupStdin
    <3>3. CASE ChildClose0(r)
      BY <1>3, <2>0, <3>3, CloseEffect DEF ChildClose0
    <3>4. CASE ChildExecs(r)
      BY <3>4 DEF ChildExecs
    <3>5. CASE ChildExits(r) \/ MailerQuits(r)
      BY <1>3, <2>0, <3>5, CloseAllEffect DEF ChildExits, MailerQuits
    <3> QED
      BY <3>1, <3>2, <3>3, <3>4, <3>5
  <2>2. /\ child'[r] = "dup2" => fds'[r]["child"]["fd0"] = "read"
        /\ child'[r] \in {"close0", "execv", "mailer"} => fds'[r]["child"]["0"] = "read"
        /\ child'[r] # "close1"
    <3> USE DEF HandoffInv, RunInv, Connected, ChildGoes, HandoffTypeOK
    <3>1. CASE ChildClose1(r)
      <4>1. child[r] = "close1" /\ child'[r] = "dup2" /\ Close(r, "child", "fd1")
        BY <3>1 DEF ChildClose1
      <4>2. fds'[r]["child"]["fd0"] = fds[r]["child"]["fd0"]
        BY <1>3, <2>0, <4>1, CloseEffect
      <4> QED
        BY <4>1, <4>2
    <3>2. CASE ChildDupStdin(r)
      <4>1. child[r] = "dup2" /\ child'[r] = "close0" /\ Dup2(r, "child", "fd0", "0")
        BY <3>2 DEF ChildDupStdin
      <4>2. fds'[r]["child"]["0"] = fds[r]["child"]["fd0"]
        BY <1>3, <2>0, <4>1, Dup2Effect
      <4> QED
        BY <4>1, <4>2
    <3>3. CASE ChildClose0(r)
      <4>1. child[r] = "close0" /\ child'[r] = "execv" /\ Close(r, "child", "fd0")
        BY <3>3 DEF ChildClose0
      <4>2. fds'[r]["child"]["0"] = fds[r]["child"]["0"]
        BY <1>3, <2>0, <4>1, CloseEffect
      <4> QED
        BY <4>1, <4>2
    <3>4. CASE ChildExecs(r)
      BY <3>4 DEF ChildExecs
    <3>5. CASE ChildExits(r) \/ MailerQuits(r)
      BY <3>5 DEF ChildExits, MailerQuits
    <3> QED
      BY <3>1, <3>2, <3>3, <3>4, <3>5
  <2> QED
    BY <1>1, <2>1, <2>2 DEF HandoffInv, RunInv, Connected
<1> QED
  BY <1>4, <1>5, <1>6 DEF RunInv

LEMMA MailerInv ==
    ASSUME HandoffInv, NEW r \in Run, MailerReads(r) \/ MailerSeesEnd(r)
    PROVE  HandoffTypeOK' /\ RunInv(r)'
<1>1. child[r] = "mailer" /\ UNCHANGED simVars /\ UNCHANGED <<step, fate, printed, buffer>>
  BY DEF MailerReads, MailerSeesEnd
<1>2. TypeOK' /\ UNCHANGED <<pc, retval, mailed>>
  BY <1>1 DEF simVars, HandoffInv, HandoffTypeOK, TypeOK, SimTypeOK
<1>3. got[r] + inPipe[r] + buffer[r] = printed[r]
  BY <1>1 DEF HandoffInv, RunInv, Counted
<1> USE Numbers DEF HandoffInv
<1>4. CASE MailerReads(r)
  <2>1. /\ inPipe' = [inPipe EXCEPT ![r] = inPipe[r] - 1]
        /\ got' = [got EXCEPT ![r] = got[r] + 1]
        /\ inPipe[r] > 0 /\ UNCHANGED <<child, fds, eof>>
    BY <1>4 DEF MailerReads
  <2>2. got[r] + 1 \in 0..TextSize
    BY <1>3, <2>1
  <2>3. HandoffTypeOK'
    BY <1>1, <1>2, <2>1, <2>2 DEF HandoffTypeOK
  <2>4. inPipe'[r] = inPipe[r] - 1 /\ got'[r] = got[r] + 1
    BY <2>1 DEF HandoffTypeOK
  <2>5. Counted(r)'
    BY <1>1, <1>3, <2>1, <2>4 DEF Counted
  <2>6. ~ eof[r]
    BY <1>1 DEF RunInv, Over
  <2> QED
    BY <1>1, <1>2, <2>1, <2>3, <2>5, <2>6 DEF RunInv, Located, Told, Connected, Over
<1>5. CASE MailerSeesEnd(r)
  <2>1. /\ child' = [child EXCEPT ![r] = "over"] /\ eof' = [eof EXCEPT ![r] = TRUE]
        /\ inPipe[r] = 0 /\ UNCHANGED <<inPipe, got>> /\ CloseAll(r, "child")
        /\ pc[r] = "done"
    BY <1>1, <1>5, RunWrites DEF MailerSeesEnd
  <2>2. FdsType'
    BY FdsStep, <1>5 DEF FdsType, HandoffStep, ChildStep, HandoffTypeOK
  <2>3. HandoffTypeOK'
    BY <1>1, <1>2, <2>1, <2>2 DEF HandoffTypeOK, FdsType
  <2>4. child'[r] = "over" /\ step[r] # "pipe"
    BY <1>1, <2>1 DEF HandoffTypeOK, RunInv, Located
  <2>5. retval[r] = "ok" => got[r] = TextSize
    BY <1>3, <2>1, <2>4 DEF RunInv, Told
  <2>6. Over(r)'
    BY <1>1, <1>2, <2>1, <2>4, <2>5 DEF RunInv, Over, Located
  <2> QED
    BY <1>1, <1>2, <2>1, <2>3, <2>4, <2>6
       DEF RunInv, Located, Told, Counted, Connected, ChildSteps
<1> QED
  BY <1>4, <1>5

LEMMA HandoffStepInv ==
    ASSUME HandoffInv, NEW r \in Run, HandoffStep(r)
    PROVE  HandoffInv'
<1>1. HandoffTypeOK' /\ RunInv(r)'
  BY FrontInv, PexecvInv, CallFailsInv, PrintInv, PrintedInv, GoneInv, ChildInv, MailerInv
     DEF HandoffStep, SendStep, ChildStep
<1>2. \A s \in Run \ {r} : Same(s)
  BY OthersSame DEF HandoffInv
<1>3. \A s \in Run : RunInv(s)'
  BY <1>1, <1>2, SameInv DEF HandoffInv
<1>4. Retried'
  <2>1. CASE pc[r] = "done"
    <3>1. pc' = pc /\ retval' = retval
      BY <2>1 DEF HandoffStep, FrontStep, SendStep, ChildStep, Start, Search, GroupSearch,
         VdbInit, ReadHeaders, CheckFrom, Recent, StoreReply, Pipe, Fork, CallFails,
         Close0, DupStdout, Close1, Utter, Write, WriteSignalled, WriteLost, Printed, RunExits,
         Exit, At, Flushing, ChildClose1, ChildDupStdin, ChildClose0, ChildExecs, ChildExits,
         MailerReads, MailerSeesEnd, MailerQuits, KillRun, simVars
    <3> QED
      BY <3>1 DEF HandoffInv, Retried
  <2>2. CASE pc[r] # "done"
    <3>1. pc[r] = "idle" => MayStart(r) \/ (pc' = pc /\ retval' = retval)
      BY DEF HandoffStep, FrontStep, SendStep, ChildStep, Start, Search, GroupSearch,
         VdbInit, ReadHeaders, CheckFrom, Recent, StoreReply, Pipe, Fork, CallFails,
         Close0, DupStdout, Close1, Utter, Write, WriteSignalled, WriteLost, Printed, RunExits,
         Exit, At, Flushing, ChildClose1, ChildDupStdin, ChildClose0, ChildExecs, ChildExits,
         MailerReads, MailerSeesEnd, MailerQuits, KillRun, simVars
    <3>2. CASE pc' = pc /\ retval' = retval
      BY <3>2 DEF HandoffInv, Retried
    <3>3. CASE pc[r] = "idle" => MayStart(r)
      BY <1>2, <2>2, <3>3, RetriedStep DEF HandoffInv, HandoffTypeOK, TypeOK, Same
    <3> QED
      BY <3>1, <3>2, <3>3
  <2> QED
    BY <2>1, <2>2
<1> QED
  BY <1>1, <1>3, <1>4 DEF HandoffInv

LEMMA HandoffInductive == HandoffSafe => []HandoffInv
<1>1. HandoffInv /\ [HandoffNext]_allVars => HandoffInv'
  <2>1. ASSUME HandoffInv, UNCHANGED allVars PROVE HandoffInv'
    BY <2>1 DEF allVars, simVars, handoffVars, HandoffInv, HandoffTypeOK, TypeOK, SimTypeOK,
       Retried, RunInv, Located, Told, Counted, Connected, Over
  <2> QED
    BY <2>1, HandoffStepInv DEF HandoffNext
<1> QED
  BY <1>1, HandoffInitInv, PTL DEF HandoffSafe

----------------------------------------------------------------------------
(* What follows from it.                                                   *)

\* Run, child, mailer and pipe keep their types: among them, that no more is
\* buffered, piped or read than fits, or than was printed.
THEOREM HandoffTypeCorrect == HandoffSafe => []HandoffTypeOK
  BY HandoffInductive, PTL DEF HandoffInv

\* Two mailers of one delivery: the first run had ended by a signal or failed.
THEOREM HandoffSecondReply == HandoffSafe => []SecondReplyNeedsFailure
<1>1. HandoffInv => SecondReplyNeedsFailure
  <2> SUFFICES ASSUME HandoffInv, NEW p \in Run, NEW q \in Run, p[1] = q[1], p[2] < q[2],
                      mailed[p], mailed[q]
               PROVE  retval[p] \in {"signal", "tempfail"}
    BY DEF SecondReplyNeedsFailure
  <2>1. step[p] # "pipe" /\ step[q] # "pipe"
    BY DEF HandoffInv, RunInv, Located
  <2>2. pc[q] # "idle"
    BY <2>1 DEF HandoffInv, RunInv, Located
  <2> QED
    BY <2>1, <2>2 DEF HandoffInv, RunInv, Located, Retried, Failures
<1> QED
  BY <1>1, HandoffInductive, PTL

\* Two mailers of one delivery that both have text: the first run was ended by
\* a signal.
THEOREM TextTwiceHolds == HandoffSafe => []TextTwiceNeedsSignal
<1>1. HandoffInv => TextTwiceNeedsSignal
  <2> SUFFICES ASSUME HandoffInv, NEW p \in Run, NEW q \in Run, p[1] = q[1], p[2] < q[2],
                      got[p] > 0, got[q] > 0
               PROVE  retval[p] = "signal"
    BY DEF TextTwiceNeedsSignal
  <2>1. printed[p] # 0 /\ printed[q] # 0
    BY NothingPrinted, Numbers DEF HandoffInv, RunInv
  <2>2. printed[p] > 0 /\ step[q] = "printf"
    BY <2>1, Numbers DEF HandoffInv, RunInv, Told
  <2>3. pc[q] # "idle"
    BY <2>2 DEF HandoffInv, RunInv, Located
  <2> QED
    BY <2>2, <2>3 DEF HandoffInv, RunInv, Told, Retried, Failures
<1> QED
  BY <1>1, HandoffInductive, PTL

\* A mailer that saw the end of a cut reply had a run the MTA takes for failed.
THEOREM CutMeansFailureHolds == HandoffSafe => []CutMeansFailure
<1>1. HandoffInv => CutMeansFailure
  BY Numbers DEF HandoffInv, RunInv, Over, CutMeansFailure
<1> QED
  BY <1>1, HandoffInductive, PTL

----------------------------------------------------------------------------
(* Who waits for whom: the safe half of SendingEnds and MailerEnds.  That  *)
(* a process that can move does move is a question of fairness and stays   *)
(* with TLC.                                                               *)

\* The run sleeps in write, on a full pipe; the mailer in read, on an empty one.
RunWaits(r) == Flushing(r) /\ Holds(r, "read") /\ inPipe[r] = PipeSize
MailerWaits(r) == child[r] = "mailer" /\ inPipe[r] = 0 /\ Holds(r, "write")

\* Nobody waits for itself, and no two for each other: the only one that can
\* keep a printing run from its error or its signal is a child that will read,
\* the only one that can keep a mailer from the end of its input is a run that
\* will write or exit.  Hence the closes in pexecv: a run with a copy of the end
\* to read from would fill the pipe and sleep after its mailer has died, a child
\* with a copy of the end to write to would make a mailer that never sees the
\* end (vutil.c:76-97).
NobodyWaitsInACircle ==
    \A r \in Run :
        /\ Flushing(r) =>
              (Holds(r, "read") <=> child[r] \in ChildSteps \union {"mailer"})
        /\ child[r] = "mailer" =>
              (Holds(r, "write") <=> pc[r] \in {"send", "exiting"})
        /\ ~(RunWaits(r) /\ MailerWaits(r))

\* What Connected leaves open: an end that is not needed is closed in time.
RunTidy(r) ==
    \A d \in Descriptors :
        /\ fds[r]["run"][d] = "read" =>
              /\ pc[r] \in {"send", "exiting"}
              /\ step[r] \in {"fork", "close0"}
              /\ d = "fd0"
        /\ fds[r]["run"][d] = "write" =>
              /\ pc[r] \in {"send", "exiting"}
              /\ step[r] # "pipe"
              /\ step[r] \in {"fork", "close0"} => d = "fd1"

ChildTidy(r) ==
    \A d \in Descriptors :
        /\ fds[r]["child"][d] = "read" => child[r] \in ChildSteps \union {"mailer"}
        /\ fds[r]["child"][d] = "write" => child[r] = "close1" /\ d = "fd1"

Tidy == \A r \in Run : RunTidy(r) /\ ChildTidy(r)

LEMMA InitTidy == HandoffInit => Tidy
  BY DEF HandoffInit, Tidy, RunTidy, ChildTidy, Processes, Descriptors

LEMMA RunTidyStep ==
    ASSUME HandoffInv, NEW r \in Run, RunTidy(r), HandoffStep(r)
    PROVE  RunTidy(r)'
<1>0. /\ {"run", "child"} \subseteq Processes /\ {"0", "1", "fd0", "fd1"} \subseteq Descriptors
      /\ "run" # "child" /\ FdsType
  BY DEF Processes, Descriptors, FdsType, HandoffInv, HandoffTypeOK
<1> USE DEF RunTidy
<1>1. CASE Pipe(r)
  <2>1. /\ fds' = [fds EXCEPT ![r]["run"]["fd0"] = "read", ![r]["run"]["fd1"] = "write"]
        /\ pc[r] = "send" /\ pc' = pc /\ step[r] = "pipe"
        /\ step' = [step EXCEPT ![r] = "fork"]
    BY <1>1 DEF Pipe, At, Succeeds, Then, simVars
  <2>2. /\ fds'[r]["run"]["fd0"] = "read" /\ fds'[r]["run"]["fd1"] = "write"
        /\ \A d \in Descriptors \ {"fd0", "fd1"} : fds'[r]["run"][d] = fds[r]["run"][d]
    BY <1>0, <2>1 DEF FdsType
  <2>3. step'[r] = "fork"
    BY <2>1 DEF HandoffInv, HandoffTypeOK
  <2> QED
    BY <2>1, <2>2, <2>3
<1>2. CASE Fork(r)
  <2>1. fds'[r]["run"] = fds[r]["run"]
    BY <1>0, <1>2, ForkEffect
  <2>2. step[r] = "fork" /\ step'[r] = "close0" /\ pc' = pc
    BY <1>2 DEF Fork, At, Succeeds, Then, simVars, HandoffInv, HandoffTypeOK
  <2> QED
    BY <2>1, <2>2
<1>3. CASE CallFails(r)
  <2>1. step' = step /\ pc'[r] = "exiting" /\ pc[r] = "send"
    BY <1>3 DEF CallFails, Fails, LeaveWith, Goto, HandoffInv, HandoffTypeOK, TypeOK, SimTypeOK
  <2>2. \A d \in Descriptors : fds'[r]["run"][d] \in {fds[r]["run"][d], "none"}
    <3>1. CASE UNCHANGED fds
      BY <3>1
    <3>2. CASE Close(r, "run", "fd0") \/ Close(r, "run", "fd1")
      BY <1>0, <3>2, CloseEffect
    <3> QED
      BY <1>3, <3>1, <3>2 DEF CallFails
  <2> QED
    BY <2>1, <2>2
<1>4. CASE Close0(r)
  <2>1. step[r] = "close0" /\ step'[r] = "dup2" /\ pc[r] = "send" /\ pc' = pc
    BY <1>4 DEF Close0, At, Succeeds, Then, simVars, HandoffInv, HandoffTypeOK
  <2>2. \A d \in Descriptors :
           fds'[r]["run"][d] = IF d = "fd0" THEN "none" ELSE fds[r]["run"][d]
    BY <1>0, <1>4, CloseEffect DEF Close0
  <2> QED
    BY <2>1, <2>2
<1>5. CASE DupStdout(r)
  <2>1. step[r] = "dup2" /\ step'[r] = "close1" /\ pc[r] = "send" /\ pc' = pc
    BY <1>5 DEF DupStdout, At, Succeeds, Then, simVars, HandoffInv, HandoffTypeOK
  <2>2. \A d \in Descriptors :
           fds'[r]["run"][d] = IF d = "1" THEN fds[r]["run"]["fd1"] ELSE fds[r]["run"][d]
    BY <1>0, <1>5, Dup2Effect DEF DupStdout
  <2> QED
    BY <1>0, <2>1, <2>2
<1>6. CASE Close1(r)
  <2>1. step[r] = "close1" /\ step'[r] = "printf" /\ pc[r] = "send" /\ pc' = pc
    BY <1>6 DEF Close1, At, Succeeds, Then, simVars, HandoffInv, HandoffTypeOK
  <2>2. \A d \in Descriptors :
           fds'[r]["run"][d] = IF d = "fd1" THEN "none" ELSE fds[r]["run"][d]
    BY <1>0, <1>6, CloseEffect DEF Close1
  <2> QED
    BY <2>1, <2>2
<1>7. CASE WriteSignalled(r) \/ RunExits(r) \/ KillRun(r)
  <2>1. CloseAll(r, "run")
    BY <1>7 DEF WriteSignalled, RunExits, KillRun
  <2>2. \A d \in Descriptors : fds'[r]["run"][d] = "none"
    BY <1>0, <2>1, CloseAllEffect
  <2> QED
    BY <2>2
<1>8. CASE ChildStep(r) \/ MailerQuits(r)
  <2>1. step' = step /\ pc' = pc
    BY <1>8 DEF ChildStep, MailerQuits, ChildClose1, ChildDupStdin, ChildClose0, ChildExecs,
         ChildExits, MailerReads, MailerSeesEnd, ChildGoes, simVars
  <2>2. \A d \in Descriptors : fds'[r]["run"][d] = fds[r]["run"][d]
    <3>1. CASE ChildClose1(r) \/ ChildClose0(r)
      BY <1>0, <3>1, CloseEffect DEF ChildClose1, ChildClose0
    <3>2. CASE ChildDupStdin(r)
      BY <1>0, <3>2, Dup2Effect DEF ChildDupStdin
    <3>3. CASE ChildExits(r) \/ MailerSeesEnd(r) \/ MailerQuits(r)
      BY <1>0, <3>3, CloseAllEffect DEF ChildExits, MailerSeesEnd, MailerQuits
    <3>4. CASE UNCHANGED fds
      BY <3>4
    <3> QED
      BY <1>8, <3>1, <3>2, <3>3, <3>4 DEF ChildStep, ChildExecs, MailerReads
  <2> QED
    BY <2>1, <2>2
<1>9. CASE Utter(r) \/ Write(r) \/ WriteLost(r) \/ Printed(r)
  BY <1>9 DEF Utter, Write, WriteLost, Printed, At, Goto, simVars, handoffVars, HandoffInv,
         HandoffTypeOK, TypeOK, SimTypeOK
<1>10. CASE (Start(r) \/ FrontStep(r)) /\ UNCHANGED handoffVars
  <2>1. pc[r] \notin {"send", "exiting"}
    BY <1>10 DEF FrontStep, Start, Search, GroupSearch, VdbInit, ReadHeaders, CheckFrom,
         Recent, StoreReply
  <2> QED
    BY <1>10, <2>1 DEF handoffVars
<1> QED
  BY <1>1, <1>2, <1>3, <1>4, <1>5, <1>6, <1>7, <1>8, <1>9, <1>10 DEF HandoffStep, SendStep

LEMMA ChildTidyStep ==
    ASSUME HandoffInv, NEW r \in Run, RunTidy(r), ChildTidy(r), HandoffStep(r)
    PROVE  ChildTidy(r)'
<1>0. /\ {"run", "child"} \subseteq Processes /\ {"0", "1", "fd0", "fd1"} \subseteq Descriptors
      /\ "run" # "child" /\ FdsType
  BY DEF Processes, Descriptors, FdsType, HandoffInv, HandoffTypeOK
<1> USE DEF ChildTidy
<1>1. CASE Fork(r)
  <2>1. /\ fds'[r]["child"] = fds[r]["run"]
        /\ step[r] = "fork" /\ child'[r] = "close1"
    BY <1>0, <1>1, ForkEffect DEF Fork, At, HandoffInv, HandoffTypeOK
  <2> QED
    BY <2>1 DEF RunTidy, ChildSteps
<1>2. CASE ChildClose1(r)
  <2>1. child[r] = "close1" /\ child'[r] = "dup2"
    BY <1>2 DEF ChildClose1, ChildGoes, HandoffInv, HandoffTypeOK
  <2>2. \A d \in Descriptors :
           fds'[r]["child"][d] = IF d = "fd1" THEN "none" ELSE fds[r]["child"][d]
    BY <1>0, <1>2, CloseEffect DEF ChildClose1
  <2> QED
    BY <2>1, <2>2 DEF ChildSteps
<1>3. CASE ChildDupStdin(r)
  <2>1. child[r] = "dup2" /\ child'[r] = "close0"
    BY <1>3 DEF ChildDupStdin, ChildGoes, HandoffInv, HandoffTypeOK
  <2>2. \A d \in Descriptors :
           fds'[r]["child"][d] = IF d = "0" THEN fds[r]["child"]["fd0"] ELSE fds[r]["child"][d]
    BY <1>0, <1>3, Dup2Effect DEF ChildDupStdin
  <2> QED
    BY <1>0, <2>1, <2>2 DEF ChildSteps
<1>4. CASE ChildClose0(r)
  <2>1. child[r] = "close0" /\ child'[r] = "execv"
    BY <1>4 DEF ChildClose0, ChildGoes, HandoffInv, HandoffTypeOK
  <2>2. \A d \in Descriptors :
           fds'[r]["child"][d] = IF d = "fd0" THEN "none" ELSE fds[r]["child"][d]
    BY <1>0, <1>4, CloseEffect DEF ChildClose0
  <2> QED
    BY <2>1, <2>2 DEF ChildSteps
<1>5. CASE ChildExecs(r)
  BY <1>5 DEF ChildExecs, ChildGoes, HandoffInv, HandoffTypeOK
<1>6. CASE ChildExits(r) \/ MailerSeesEnd(r) \/ MailerQuits(r)
  <2>1. CloseAll(r, "child")
    BY <1>6 DEF ChildExits, MailerSeesEnd, MailerQuits
  <2>2. \A d \in Descriptors : fds'[r]["child"][d] = "none"
    BY <1>0, <2>1, CloseAllEffect
  <2> QED
    BY <2>2
<1>7. CASE child' = child /\ \A d \in Descriptors : fds'[r]["child"][d] = fds[r]["child"][d]
  BY <1>7
<1>8. ASSUME \/ (Start(r) \/ FrontStep(r)) /\ UNCHANGED handoffVars
             \/ SendStep(r) /\ ~Fork(r)
             \/ MailerReads(r) \/ KillRun(r)
      PROVE  child' = child /\ \A d \in Descriptors : fds'[r]["child"][d] = fds[r]["child"][d]
  <2>1. child' = child
    BY <1>8 DEF SendStep, Pipe, Close0, DupStdout, Close1, CallFails, Fails, Utter, Write,
         WriteSignalled, WriteLost, Printed, RunExits, MailerReads, KillRun, handoffVars,
         childVars
  <2>2. CASE Pipe(r)
    <3>1. fds' = [fds EXCEPT ![r]["run"]["fd0"] = "read", ![r]["run"]["fd1"] = "write"]
      BY <2>2 DEF Pipe
    <3>2. fds'[r]["child"] = fds[r]["child"]
      BY <1>0, <3>1 DEF FdsType
    <3> QED
      BY <2>1, <3>2
  <2>3. CASE Close(r, "run", "fd0") \/ Close(r, "run", "fd1")
    BY <1>0, <2>1, <2>3, CloseEffect
  <2>4. CASE DupStdout(r)
    BY <1>0, <2>1, <2>4, Dup2Effect DEF DupStdout
  <2>5. CASE CloseAll(r, "run")
    BY <1>0, <2>1, <2>5, CloseAllEffect
  <2>6. CASE UNCHANGED fds
    BY <2>1, <2>6
  <2> QED
    BY <1>8, <2>2, <2>3, <2>4, <2>5, <2>6
       DEF SendStep, Close0, Close1, CallFails, Utter, Write, WriteSignalled, WriteLost,
           Printed, RunExits, MailerReads, KillRun, handoffVars
<1> QED
  BY <1>1, <1>2, <1>3, <1>4, <1>5, <1>6, <1>7, <1>8 DEF HandoffStep, ChildStep

LEMMA TidyInvariant == HandoffSafe => []Tidy
<1>1. HandoffInv /\ Tidy /\ [HandoffNext]_allVars => Tidy'
  <2>1. ASSUME HandoffInv, Tidy, NEW r \in Run, HandoffStep(r) PROVE Tidy'
    <3>1. RunTidy(r)' /\ ChildTidy(r)'
      BY <2>1, RunTidyStep, ChildTidyStep DEF Tidy
    <3>2. \A s \in Run \ {r} : Same(s)
      BY <2>1, OthersSame DEF HandoffInv
    <3>3. \A s \in Run \ {r} : RunTidy(s)' /\ ChildTidy(s)'
      BY <2>1, <3>2 DEF Tidy, RunTidy, ChildTidy, Same
    <3> QED
      BY <3>1, <3>3 DEF Tidy
  <2>2. ASSUME Tidy, UNCHANGED allVars PROVE Tidy'
    BY <2>2 DEF Tidy, RunTidy, ChildTidy, allVars, simVars, handoffVars
  <2> QED
    BY <2>1, <2>2 DEF HandoffNext
<1> QED
  BY <1>1, InitTidy, HandoffInductive, PTL DEF HandoffSafe

\* Run, child and mailer never wait for themselves or for each other.
THEOREM NobodyWaits == HandoffSafe => []NobodyWaitsInACircle
<1>1. ASSUME HandoffInv, Tidy PROVE NobodyWaitsInACircle
  <2> SUFFICES ASSUME NEW r \in Run
               PROVE  /\ Flushing(r) =>
                            (Holds(r, "read") <=> child[r] \in ChildSteps \union {"mailer"})
                      /\ child[r] = "mailer" =>
                            (Holds(r, "write") <=> pc[r] \in {"send", "exiting"})
                      /\ ~(RunWaits(r) /\ MailerWaits(r))
    BY DEF NobodyWaitsInACircle
  <2>1. ASSUME Flushing(r), Holds(r, "read")
        PROVE  child[r] \in ChildSteps \union {"mailer"}
    <3>1. printed[r] # 0
      BY <1>1, <2>1, NothingPrinted, Numbers DEF Flushing, HandoffInv, RunInv
    <3>2. step[r] = "printf"
      BY <1>1, <3>1 DEF HandoffInv, RunInv, Told
    <3>3. PICK p \in Processes, d \in Descriptors : fds[r][p][d] = "read"
      BY <2>1 DEF Holds
    <3> QED
      BY <1>1, <3>2, <3>3 DEF Tidy, RunTidy, ChildTidy, Processes
  <2>2. ASSUME child[r] = "mailer", Holds(r, "write")
        PROVE  pc[r] \in {"send", "exiting"}
    <3>1. PICK p \in Processes, d \in Descriptors : fds[r][p][d] = "write"
      BY <2>2 DEF Holds
    <3> QED
      BY <1>1, <2>2, <3>1 DEF Tidy, RunTidy, ChildTidy, Processes
  <2>3. ~(RunWaits(r) /\ MailerWaits(r))
    BY SizeAssumption DEF RunWaits, MailerWaits
  <2> QED
    BY <1>1, <2>1, <2>2, <2>3, ChildReads, RunWrites
<1> QED
  BY <1>1, HandoffInductive, TidyInvariant, PTL

----------------------------------------------------------------------------
(* Nobody runs in circles either: with NobodyWaitsInACircle this is what   *)
(* SendingEnds and MailerEnds need besides fairness.                       *)

MainWork(r) ==
    CASE pc[r] = "idle" -> 10
      [] pc[r] = "search" -> 9
      [] pc[r] = "group" -> 8
      [] pc[r] = "vdb" -> 7
      [] pc[r] = "headers" -> 6
      [] pc[r] = "from" -> 5
      [] pc[r] = "recent" -> 4
      [] pc[r] = "stamp" -> 3
      [] pc[r] = "exiting" -> 1
      [] pc[r] = "done" -> 0
      [] OTHER -> 2

\* fork makes the five steps of a child.
StepWork(r) ==
    CASE step[r] = "pipe" -> 11
      [] step[r] = "fork" -> 10
      [] step[r] = "close0" -> 4
      [] step[r] = "dup2" -> 3
      [] step[r] = "close1" -> 2
      [] step[r] = "printf" -> 1

ChildWork(r) ==
    CASE child[r] = "close1" -> 5
      [] child[r] = "dup2" -> 4
      [] child[r] = "close0" -> 3
      [] child[r] = "execv" -> 2
      [] child[r] = "mailer" -> 1
      [] OTHER -> 0

\* Each piece of text is printed, written and read.
TextWork(r) == 3 * (TextSize - printed[r]) + 2 * buffer[r] + inPipe[r]

\* A bound on what run r, its child and its mailer still do.
Work(r) == MainWork(r) + StepWork(r) + ChildWork(r) + TextWork(r)

\* Every step of anybody, a failure, a signal and an error of write included,
\* brings the one run it belongs to nearer to its end, and nothing ever puts
\* work back: a run makes no more than Work(r) steps, whatever it meets
\* (vutil.c:56-100, simvacation.c:401-521).
WorkShrinks ==
    \E r \in Run :
        /\ Work(r)' < Work(r)
        /\ \A s \in Run \ {r} : Work(s)' = Work(s)

LEMMA WorkIsNat == ASSUME HandoffTypeOK, NEW r \in Run PROVE Work(r) \in Nat
<1>1. MainWork(r) \in Nat /\ ChildWork(r) \in Nat
  BY DEF MainWork, ChildWork
<1>2. StepWork(r) \in Nat
  BY DEF StepWork, HandoffTypeOK, Steps
<1>3. TextWork(r) \in Nat
  BY Numbers DEF TextWork
<1> QED
  BY <1>1, <1>2, <1>3 DEF Work

LEMMA WorkStep ==
    ASSUME HandoffInv, HandoffTypeOK', NEW r \in Run, HandoffStep(r)
    PROVE  Work(r)' < Work(r)
<1>0. /\ MainWork(r) \in Nat /\ MainWork(r)' \in Nat
      /\ StepWork(r) \in Nat /\ StepWork(r)' \in Nat
      /\ ChildWork(r) \in Nat /\ ChildWork(r)' \in Nat
      /\ TextWork(r) \in Nat /\ TextWork(r)' \in Nat
  <2>1. /\ MainWork(r) \in Nat /\ MainWork(r)' \in Nat
        /\ ChildWork(r) \in Nat /\ ChildWork(r)' \in Nat
    BY DEF MainWork, ChildWork
  <2>2. StepWork(r) \in Nat /\ StepWork(r)' \in Nat
    BY DEF StepWork, HandoffTypeOK, HandoffInv, Steps
  <2>3. TextWork(r) \in Nat /\ TextWork(r)' \in Nat
    <3>1. /\ printed[r] \in 0..TextSize /\ buffer[r] \in Nat /\ inPipe[r] \in Nat
          /\ printed'[r] \in 0..TextSize /\ buffer'[r] \in Nat /\ inPipe'[r] \in Nat
      BY DEF HandoffTypeOK, HandoffInv
    <3> QED
      BY <3>1, SizeAssumption DEF TextWork
  <2> QED
    BY <2>1, <2>2, <2>3
<1> USE DEF HandoffInv
<1>2. CASE (Start(r) \/ FrontStep(r)) /\ UNCHANGED handoffVars
  <2>1. /\ StepWork(r)' = StepWork(r) /\ ChildWork(r)' = ChildWork(r)
        /\ TextWork(r)' = TextWork(r)
    BY <1>2 DEF handoffVars, StepWork, ChildWork, TextWork
  <2>2. MainWork(r)' < MainWork(r)
    BY <1>2 DEF FrontStep, Start, Search, GroupSearch, VdbInit, ReadHeaders, CheckFrom,
         Recent, StoreReply, Goto, LeaveWith, Abandon, MainWork, HandoffTypeOK, TypeOK,
         SimTypeOK
  <2> QED
    BY <1>0, <2>1, <2>2 DEF Work
<1>3. CASE Pipe(r) \/ Close0(r) \/ DupStdout(r) \/ Close1(r)
  <2>1. /\ MainWork(r)' = MainWork(r) /\ ChildWork(r)' = ChildWork(r)
        /\ TextWork(r)' = TextWork(r)
    BY <1>3 DEF Pipe, Close0, DupStdout, Close1, Succeeds, simVars, textVars,
         MainWork, ChildWork, TextWork
  <2>2. StepWork(r)' < StepWork(r)
    BY <1>3 DEF Pipe, Close0, DupStdout, Close1, At, Succeeds, Then, StepWork, HandoffTypeOK
  <2> QED
    BY <1>0, <2>1, <2>2 DEF Work
<1>4. CASE Fork(r)
  <2>1. MainWork(r)' = MainWork(r) /\ TextWork(r)' = TextWork(r)
    BY <1>4 DEF Fork, Succeeds, simVars, textVars,
         MainWork, ChildWork, TextWork
  <2>2. StepWork(r) = 10 /\ StepWork(r)' = 4 /\ ChildWork(r)' = 5
    BY <1>4 DEF Fork, At, Succeeds, Then, StepWork, ChildWork, HandoffTypeOK
  <2> QED
    BY <1>0, <2>1, <2>2 DEF Work
<1>5. CASE CallFails(r) \/ Printed(r)
  <2>1. /\ StepWork(r)' = StepWork(r) /\ ChildWork(r)' = ChildWork(r)
        /\ TextWork(r)' = TextWork(r)
    BY <1>5 DEF CallFails, Fails, Printed, handoffVars, childVars, textVars,
         StepWork, ChildWork, TextWork
  <2>2. MainWork(r) = 2 /\ MainWork(r)' = 1
    BY <1>5 DEF CallFails, Fails, Printed, At, LeaveWith, Goto, MainWork, HandoffTypeOK,
         TypeOK, SimTypeOK
  <2> QED
    BY <1>0, <2>1, <2>2 DEF Work
<1>6. CASE WriteSignalled(r) \/ RunExits(r) \/ KillRun(r)
  <2>1. /\ StepWork(r)' = StepWork(r) /\ ChildWork(r)' = ChildWork(r)
        /\ TextWork(r)' = TextWork(r)
    BY <1>6 DEF WriteSignalled, RunExits, KillRun, childVars, textVars,
         StepWork, ChildWork, TextWork
  <2>2. pc[r] # "done" /\ pc'[r] = "done"
    BY <1>6 DEF WriteSignalled, RunExits, KillRun, Flushing, At, Exit, Abandon, Goto,
         HandoffTypeOK, TypeOK, SimTypeOK
  <2>3. MainWork(r)' < MainWork(r)
    BY <2>2 DEF MainWork
  <2> QED
    BY <1>0, <2>1, <2>3 DEF Work
<1>7. CASE Utter(r) \/ Write(r) \/ WriteLost(r) \/ MailerReads(r)
  <2>1. /\ MainWork(r)' = MainWork(r) /\ StepWork(r)' = StepWork(r)
        /\ ChildWork(r)' = ChildWork(r)
    BY <1>7 DEF Utter, Write, WriteLost, MailerReads, simVars,
         MainWork, StepWork, ChildWork
  <2>2. TextWork(r)' < TextWork(r)
    <3> USE Numbers DEF HandoffTypeOK, TextWork
    <3>1. CASE Utter(r)
      <4>1. /\ printed'[r] = printed[r] + 1 /\ buffer'[r] = buffer[r] + 1
            /\ inPipe'[r] = inPipe[r]
        BY <3>1 DEF Utter
      <4> QED
        BY <4>1
    <3>2. CASE Write(r)
      <4>1. /\ printed'[r] = printed[r] /\ buffer'[r] = buffer[r] - 1
            /\ inPipe'[r] = inPipe[r] + 1
        BY <3>2 DEF Write
      <4> QED
        BY <4>1
    <3>3. CASE WriteLost(r)
      <4>1. printed'[r] = printed[r] /\ buffer'[r] = 0 /\ inPipe'[r] = inPipe[r] /\ buffer[r] > 0
        BY <3>3 DEF WriteLost, Flushing
      <4> QED
        BY <4>1
    <3>4. CASE MailerReads(r)
      <4>1. /\ printed'[r] = printed[r] /\ buffer'[r] = buffer[r]
            /\ inPipe'[r] = inPipe[r] - 1
        BY <3>4 DEF MailerReads
      <4> QED
        BY <4>1
    <3> QED
      BY <1>7, <3>1, <3>2, <3>3, <3>4
  <2> QED
    BY <1>0, <2>1, <2>2 DEF Work
<1>8. CASE \/ ChildClose1(r) \/ ChildDupStdin(r) \/ ChildClose0(r) \/ ChildExecs(r)
           \/ ChildExits(r) \/ MailerSeesEnd(r) \/ MailerQuits(r)
  <2>1. /\ MainWork(r)' = MainWork(r) /\ StepWork(r)' = StepWork(r)
        /\ TextWork(r)' = TextWork(r)
    BY <1>8 DEF ChildClose1, ChildDupStdin, ChildClose0, ChildExecs, ChildExits,
         MailerSeesEnd, MailerQuits, ChildGoes, simVars, textVars, MainWork, StepWork, TextWork
  <2>2. ChildWork(r)' < ChildWork(r)
    BY <1>8 DEF ChildClose1, ChildDupStdin, ChildClose0, ChildExecs, ChildExits,
         MailerSeesEnd, MailerQuits, ChildGoes, ChildWork, ChildSteps, HandoffTypeOK
  <2> QED
    BY <1>0, <2>1, <2>2 DEF Work
<1> QED
  BY <1>2, <1>3, <1>4, <1>5, <1>6, <1>7, <1>8 DEF HandoffStep, SendStep, ChildStep

\* However it goes, the hand-off comes to an end: each step leaves its run, child
\* and mailer with less to do, a natural number.
THEOREM HandoffTerminates ==
    HandoffSafe => [](\A r \in Run : Work(r) \in Nat) /\ [][WorkShrinks]_allVars
<1>1. HandoffInv => \A r \in Run : Work(r) \in Nat
  BY WorkIsNat DEF HandoffInv
<1>2. HandoffInv /\ HandoffInv' /\ [HandoffNext]_allVars => [WorkShrinks]_allVars
  <2>1. ASSUME HandoffInv, HandoffInv', NEW r \in Run, HandoffStep(r) PROVE WorkShrinks
    <3>1. Work(r)' < Work(r)
      BY <2>1, WorkStep DEF HandoffInv
    <3>2. \A s \in Run \ {r} : Work(s)' = Work(s)
      BY <2>1, OthersSame
         DEF HandoffInv, Same, Work, MainWork, StepWork, ChildWork, TextWork
    <3> QED
      BY <3>1, <3>2 DEF WorkShrinks
  <2> QED
    BY <2>1 DEF HandoffNext
<1> QED
  BY <1>1, <1>2, HandoffInductive, PTL DEF HandoffSafe

----------------------------------------------------------------------------
(* The outcomes.                                                           *)

\* A mailer counts from when its run leaves send_message, if it is to come.
Promised == [r \in Run |-> pc[r] # "send" /\ fate[r] = "execs"]

LEMMA InitOutcomes == HandoffInit => Outcomes!SimInit
<1>1. HandoffInit => Promised = [r \in Run |-> FALSE]
  BY DEF HandoffInit, Promised
<1> QED
  BY <1>1 DEF HandoffInit, SimInit, Outcomes!SimInit, Promised, Outcomes!Run, Run

LEMMA PromisedStep ==
    ASSUME HandoffTypeOK, NEW r \in Run, HandoffStep(r)
    PROVE  /\ Promised' = [Promised EXCEPT ![r] = pc'[r] # "send" /\ fate'[r] = "execs"]
           /\ (pc'[r] # "send" /\ fate'[r] = "execs") = Promised[r] => Promised' = Promised
<1>1. \A s \in Run \ {r} : pc'[s] = pc[s] /\ fate'[s] = fate[s]
  BY OthersSame DEF Same
<1> QED
  BY <1>1 DEF Promised

\* Steps that leave main's variables and the promise alone.
Idle == /\ UNCHANGED <<now, pc, retval, group, last, chk, stamp, count, look, blind, rank, erank>>
        /\ Promised' = Promised

LEMMA IdleStutters == Idle => UNCHANGED Outcomes!vars
  BY DEF Idle, Promised, Outcomes!vars, Outcomes!simVars

LEMMA FrontRefines ==
    ASSUME HandoffInv, NEW r \in Run, (Start(r) \/ FrontStep(r)) /\ UNCHANGED handoffVars
    PROVE  Outcomes!Start(r) \/ Outcomes!RunStep(r)
<1>1. fate[r] = "none" /\ fate' = fate
  <2>1. pc[r] \notin {"send", "exiting", "done"}
    BY DEF FrontStep, Start, Search, GroupSearch, VdbInit, ReadHeaders, CheckFrom, Recent,
           StoreReply
  <2> QED
    BY <2>1 DEF HandoffInv, RunInv, Located, handoffVars
<1>2. Promised' = Promised
  BY <1>1, PromisedStep DEF HandoffInv, HandoffStep, Promised
<1> USE <1>2 DEF Promised, Goto, LeaveWith, Abandon, MayStart, Ended, mainVars, vdbCallVars, historyVars,
      Outcomes!Goto, Outcomes!LeaveWith, Outcomes!Abandon, Outcomes!MayStart, Outcomes!Ended, Outcomes!Run, Run,
      Outcomes!mainVars, Outcomes!vdbCallVars, Outcomes!historyVars
<1>3. CASE Start(r)
  BY <1>3 DEF Start, Outcomes!Start
<1>4. CASE Search(r)
  BY <1>4 DEF Search, Outcomes!Search, Outcomes!MainStep, Outcomes!RunStep
<1>5. CASE GroupSearch(r)
  BY <1>5 DEF GroupSearch, Outcomes!GroupSearch, Outcomes!MainStep, Outcomes!RunStep
<1>6. CASE VdbInit(r)
  BY <1>6 DEF VdbInit, Outcomes!VdbInit, Outcomes!MainStep, Outcomes!RunStep
<1>7. CASE ReadHeaders(r)
  BY <1>7 DEF ReadHeaders, Outcomes!ReadHeaders, Outcomes!MainStep, Outcomes!RunStep
<1>8. CASE CheckFrom(r)
  BY <1>8 DEF CheckFrom, Outcomes!CheckFrom, Outcomes!MainStep, Outcomes!RunStep
<1>9. CASE Recent(r)
  BY <1>9 DEF Recent, Outcomes!Recent, Outcomes!RunStep
<1>10. CASE StoreReply(r)
  BY <1>10 DEF StoreReply, Outcomes!StoreReply, Outcomes!RunStep
<1> QED
  BY <1>3, <1>4, <1>5, <1>6, <1>7, <1>8, <1>9, <1>10 DEF FrontStep

LEMMA InnerStutters ==
    ASSUME HandoffInv, NEW r \in Run,
           \/ Pipe(r) \/ Fork(r) \/ Close0(r) \/ DupStdout(r) \/ Close1(r)
           \/ Utter(r) \/ Write(r) \/ WriteLost(r) \/ ChildStep(r) \/ MailerQuits(r)
    PROVE  Idle
<1>1. /\ UNCHANGED <<now, pc, retval, group, last, chk, stamp, count, look, blind, rank, erank>>
      /\ fate'[r] = fate[r] \/ pc[r] = "send"
  BY DEF Pipe, Fork, Close0, DupStdout, Close1, Utter, Write, WriteLost, ChildStep,
         MailerQuits, ChildClose1, ChildDupStdin, ChildClose0, ChildExecs, ChildExits,
         MailerReads, MailerSeesEnd, ChildGoes, Succeeds, At, simVars, vdbCallVars,
         historyVars
<1>2. HandoffStep(r)
  BY DEF HandoffStep, SendStep
<1>3. (pc'[r] # "send" /\ fate'[r] = "execs") = Promised[r]
  BY <1>1 DEF Promised
<1>4. Promised' = Promised
  BY <1>2, <1>3, PromisedStep DEF HandoffInv
<1> QED
  BY <1>1, <1>4 DEF Idle

LEMMA OutcomeRefines ==
    ASSUME HandoffInv, NEW r \in Run,
           CallFails(r) \/ Printed(r) \/ WriteSignalled(r) \/ RunExits(r) \/ KillRun(r)
    PROVE  Outcomes!RunStep(r) \/ Outcomes!Kill(r)
<1>1. Promised' = [Promised EXCEPT ![r] = pc'[r] # "send" /\ fate'[r] = "execs"]
      /\ ((pc'[r] # "send" /\ fate'[r] = "execs") = Promised[r] => Promised' = Promised)
  BY PromisedStep DEF HandoffInv, HandoffStep, SendStep
<1>2. /\ fate' = fate /\ pc'[r] # "send"
      /\ pc[r] # "send" => Promised[r] = (fate[r] = "execs")
      /\ pc[r] = "send" => Promised[r] = FALSE
      /\ pc \in [Run -> Pcs]
  BY DEF CallFails, Fails, LeaveWith, Printed, WriteSignalled, RunExits, Exit, KillRun,
         Abandon, Goto, handoffVars, childVars, Promised, HandoffInv, HandoffTypeOK, TypeOK,
         SimTypeOK
<1>3. /\ fate[r] = "execs" => Promised' = [Promised EXCEPT ![r] = TRUE]
      /\ pc[r] # "send" \/ fate[r] # "execs" => Promised' = Promised
  BY <1>1, <1>2
<1> HIDE DEF Promised
<1> USE <1>3 DEF Goto, LeaveWith, Abandon, vdbCallVars, historyVars,
      Outcomes!Goto, Outcomes!LeaveWith, Outcomes!Abandon,
      Outcomes!vdbCallVars, Outcomes!historyVars
<1>4. CASE CallFails(r)
  <2>1. CASE fate[r] = "execs"
    <3>1. Outcomes!HandoffEmpty(r)
      BY <1>4, <2>1 DEF CallFails, Fails, Outcomes!HandoffEmpty, Promised
    <3> QED
      BY <3>1 DEF Outcomes!RunStep, Outcomes!MainStep
  <2>2. CASE fate[r] # "execs"
    <3>1. Outcomes!SendFail(r)
      BY <1>4, <2>2 DEF CallFails, Fails, Outcomes!SendFail, Promised
    <3> QED
      BY <3>1 DEF Outcomes!RunStep, Outcomes!MainStep
  <2> QED
    BY <2>1, <2>2
<1>5. CASE Printed(r)
  <2>1. CASE fate[r] = "execs"
    <3>1. Outcomes!Handoff(r)
      BY <1>5, <2>1 DEF Printed, At, mainVars, Outcomes!Handoff, Promised
    <3> QED
      BY <3>1 DEF Outcomes!RunStep, Outcomes!MainStep
  <2>2. CASE fate[r] # "execs"
    <3>1. Outcomes!ChildFail(r)
      BY <1>5, <2>2 DEF Printed, At, mainVars, Outcomes!ChildFail, Promised
    <3> QED
      BY <3>1 DEF Outcomes!RunStep, Outcomes!MainStep
  <2> QED
    BY <2>1, <2>2
<1>6. CASE WriteSignalled(r) \/ KillRun(r)
  <2>1. /\ pc[r] \notin {"idle", "done"} /\ Abandon(r, "signal")
        /\ UNCHANGED <<now, group, last, chk, stamp, count, look, blind, rank, erank>>
    BY <1>6 DEF WriteSignalled, KillRun, Flushing, At
  <2>2. Promised' = Promised \/ (pc[r] = "send" /\ Promised' = [Promised EXCEPT ![r] = TRUE])
    OBVIOUS
  <2>3. Outcomes!Kill(r)
    BY <2>1, <2>2 DEF Outcomes!Kill, Promised
  <2> QED
    BY <2>3
<1>7. CASE RunExits(r)
  <2>1. Outcomes!Exit(r)
    BY <1>7 DEF RunExits, Exit, mainVars, Outcomes!Exit, Outcomes!mainVars, Promised
  <2> QED
    BY <2>1 DEF Outcomes!RunStep, Outcomes!MainStep
<1> QED
  BY <1>4, <1>5, <1>6, <1>7

\* The hand-off, step by step, implements the pipeline in which it is one step
\* with four outcomes.
THEOREM HandoffRefinesOutcomes == HandoffSafe => NullSpec
<1>1. HandoffInv /\ [HandoffNext]_allVars => [Outcomes!Next]_(Outcomes!vars)
  <2>1. ASSUME HandoffInv, UNCHANGED allVars PROVE UNCHANGED Outcomes!vars
    BY <2>1 DEF allVars, simVars, handoffVars, Outcomes!vars, Outcomes!simVars
  <2>2. ASSUME HandoffInv, NEW r \in Run, HandoffStep(r)
        PROVE  \/ Outcomes!Start(r) \/ Outcomes!RunStep(r) \/ Outcomes!Kill(r)
               \/ UNCHANGED Outcomes!vars
    BY <2>2, FrontRefines, InnerStutters, IdleStutters, OutcomeRefines
       DEF HandoffStep, SendStep
  <2> QED
    BY <2>1, <2>2 DEF HandoffNext, Outcomes!Next, Outcomes!Run, Run
<1> QED
  BY <1>1, InitOutcomes, HandoffInductive, PTL DEF HandoffSafe, NullSpec, Outcomes!Spec
=============================================================================
