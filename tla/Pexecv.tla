------------------------------- MODULE Pexecv ------------------------------
(***************************************************************************)
(* send_message and pexecv step by step, in place of the outcomes that     *)
(* Simvacation has for them: the run makes a pipe and a child, turns its   *)
(* standard output into the pipe and prints the reply; the child turns its *)
(* standard input into the pipe and becomes the mailer.  Run and child     *)
(* work on their own copies of the descriptors and nobody waits for the    *)
(* other.  printf fills a buffer that is written when it is full and when  *)
(* the run exits; nothing is in it at the fork.                            *)
(*                                                                         *)
(* The database is the null backend, so that nothing but the hand-off      *)
(* keeps a retry silent.  Kernel, stdio and mailer are external.           *)
(***************************************************************************)
EXTENDS VdbNull

CONSTANTS
    TextSize,     \* size of the reply
    BufferSize,   \* size of stdout's buffer
    PipeSize      \* what the pipe holds

ASSUME SizeAssumption ==
    TextSize \in Nat /\ BufferSize \in Nat \ {0} /\ PipeSize \in Nat \ {0}

VARIABLES
    step,         \* step[r]: the call in send_message that r makes next
    child,        \* child[r]: the call in pexecv its child makes next
    fate,         \* fate[r]: whether the child will execute the mailer
    fds,          \* fds[r][p][d]: what process p of r has descriptor d open on
    printed,      \* printed[r]: what r has printed of the reply
    buffer,       \* buffer[r]: what of that is not written yet
    inPipe,       \* inPipe[r]: what of that is not read yet
    got,          \* got[r]: what the mailer has read
    eof           \* eof[r]: the mailer has read to the end

textVars == <<printed, buffer, inPipe, got, eof>>
childVars == <<child, fate, mailed>>
handoffVars == <<step, child, fate, fds, printed, buffer, inPipe, got, eof>>
allVars == <<simVars, handoffVars>>

Processes == {"run", "child"}
Descriptors == {"0", "1", "fd0", "fd1"}
Ends == {"none", "mta", "read", "write"}
Steps == {"pipe", "fork", "close0", "dup2", "close1", "printf"}
ChildSteps == {"close1", "dup2", "close0", "execv"}

HandoffTypeOK ==
    /\ TypeOK
    /\ step \in [Run -> Steps]
    /\ child \in [Run -> ChildSteps \union {"none", "mailer", "over"}]
    /\ fate \in [Run -> {"none", "execs", "fails"}]
    /\ fds \in [Run -> [Processes -> [Descriptors -> Ends]]]
    /\ printed \in [Run -> 0..TextSize]
    /\ buffer \in [Run -> 0..BufferSize]
    /\ inPipe \in [Run -> 0..PipeSize]
    /\ got \in [Run -> 0..TextSize]
    /\ eof \in [Run -> BOOLEAN]

AllClosed == [d \in Descriptors |-> "none"]

HandoffInit ==
    /\ SimInit
    /\ step = [r \in Run |-> "pipe"]
    /\ child = [r \in Run |-> "none"]
    /\ fate = [r \in Run |-> "none"]
    /\ fds = [r \in Run |->
                [p \in Processes |-> [d \in Descriptors |->
                    IF p = "run" /\ d \in {"0", "1"} THEN "mta" ELSE "none"]]]
    /\ printed = [r \in Run |-> 0]
    /\ buffer = [r \in Run |-> 0]
    /\ inPipe = [r \in Run |-> 0]
    /\ got = [r \in Run |-> 0]
    /\ eof = [r \in Run |-> FALSE]

----------------------------------------------------------------------------
(* The kernel.                                                             *)

Holds(r, end) ==
    \E p \in Processes, d \in Descriptors : fds[r][p][d] = end

Close(r, p, d) == fds' = [fds EXCEPT ![r][p][d] = "none"]
Dup2(r, p, from, to) == fds' = [fds EXCEPT ![r][p][to] = fds[r][p][from]]
CloseAll(r, p) == fds' = [fds EXCEPT ![r][p] = AllClosed]

----------------------------------------------------------------------------
(* The run, in pexecv.                                                     *)

At(r, s) == pc[r] = "send" /\ step[r] = s
Then(r, s) == step' = [step EXCEPT ![r] = s]

\* Mutant: pexecv's own result becomes the exit status.
FailsRaw(r) ==
    /\ LeaveWith(r, "VAC_RESULT_TEMPFAIL")
    /\ UNCHANGED <<now, group, vdbCallVars, historyVars, step, childVars,
                   textVars>>

\* VAC_RESULT_TEMPFAIL, for which send_message returns EX_TEMPFAIL.
Fails(r) ==
    /\ LeaveWith(r, "tempfail")
    /\ UNCHANGED <<now, group, vdbCallVars, historyVars, step, childVars,
                   textVars>>

\* A call of pexecv that succeeds changes nothing of main's.
Succeeds(r, next) ==
    /\ Then(r, next)
    /\ UNCHANGED <<simVars, textVars>>

Pipe(r) ==
    /\ At(r, "pipe")
    /\ fds' = [fds EXCEPT ![r]["run"]["fd0"] = "read",
                          ![r]["run"]["fd1"] = "write"]
    /\ Succeeds(r, "fork")
    /\ UNCHANGED <<child, fate>>

\* The child has a copy of every descriptor.
Fork(r) ==
    /\ At(r, "fork")
    /\ child' = [child EXCEPT ![r] = "close1"]
    /\ \E f \in {"execs", "fails"} : fate' = [fate EXCEPT ![r] = f]
    /\ fds' = [fds EXCEPT ![r]["child"] = fds[r]["run"]]
    /\ Succeeds(r, "close0")

\* pipe, fork, close or dup2 fails; close may have closed all the same.
CallFails(r) ==
    /\ pc[r] = "send"
    /\ step[r] # "printf"
    /\ Fails(r)
    /\ \/ UNCHANGED fds
       \/ step[r] = "close0" /\ Close(r, "run", "fd0")
       \/ step[r] = "close1" /\ Close(r, "run", "fd1")

\* Mutant: the end to read from stays open.
Close0Not(r) ==
    /\ At(r, "close0")
    /\ Succeeds(r, "dup2")
    /\ UNCHANGED <<fds, child, fate>>

Close0(r) ==
    /\ At(r, "close0")
    /\ Close(r, "run", "fd0")
    /\ Succeeds(r, "dup2")
    /\ UNCHANGED <<child, fate>>

DupStdout(r) ==
    /\ At(r, "dup2")
    /\ Dup2(r, "run", "fd1", "1")
    /\ Succeeds(r, "close1")
    /\ UNCHANGED <<child, fate>>

Close1(r) ==
    /\ At(r, "close1")
    /\ Close(r, "run", "fd1")
    /\ Succeeds(r, "printf")
    /\ UNCHANGED <<child, fate>>

----------------------------------------------------------------------------
(* The run, printing.                                                      *)

Utter(r) ==
    /\ At(r, "printf")
    /\ printed[r] < TextSize
    /\ buffer[r] < BufferSize
    /\ printed' = [printed EXCEPT ![r] = @ + 1]
    /\ buffer' = [buffer EXCEPT ![r] = @ + 1]
    /\ UNCHANGED <<simVars, step, child, fate, fds, inPipe, got, eof>>

\* The buffer is full and there is more to print, or the run exits.
Flushing(r) ==
    /\ buffer[r] > 0
    /\ \/ At(r, "printf") /\ buffer[r] = BufferSize /\ printed[r] < TextSize
       \/ pc[r] = "exiting"

Write(r) ==
    /\ Flushing(r)
    /\ Holds(r, "read")
    /\ inPipe[r] < PipeSize
    /\ inPipe' = [inPipe EXCEPT ![r] = @ + 1]
    /\ buffer' = [buffer EXCEPT ![r] = @ - 1]
    /\ UNCHANGED <<simVars, step, child, fate, fds, printed, got, eof>>

\* Nobody can read: SIGPIPE, as a rule.
WriteSignalled(r) ==
    /\ Flushing(r)
    /\ ~ Holds(r, "read")
    /\ Abandon(r, "signal")
    /\ CloseAll(r, "run")
    /\ UNCHANGED <<now, group, vdbCallVars, historyVars, step, childVars,
                   textVars>>

\* Mutant: an error on stdout is a reason to try again.
WriteLostTold(r) ==
    /\ Flushing(r)
    /\ ~ Holds(r, "read")
    /\ buffer' = [buffer EXCEPT ![r] = 0]
    /\ LeaveWith(r, "tempfail")
    /\ UNCHANGED <<now, group, vdbCallVars, historyVars, step, childVars,
                   fds, printed, inPipe, got, eof>>

\* Where the MTA has SIGPIPE ignored, an error nobody looks at.
WriteLost(r) ==
    /\ Flushing(r)
    /\ ~ Holds(r, "read")
    /\ buffer' = [buffer EXCEPT ![r] = 0]
    /\ UNCHANGED <<simVars, step, child, fate, fds, printed, inPipe, got, eof>>

\* send_message returns EX_OK, whatever became of the child.
Printed(r) ==
    /\ At(r, "printf")
    /\ printed[r] = TextSize
    /\ Goto(r, "exiting")
    /\ UNCHANGED <<now, mainVars, vdbCallVars, historyVars, handoffVars>>

\* Mutant: _exit, which writes no buffer.
RunExitsUnflushed(r) ==
    /\ Exit(r)
    /\ CloseAll(r, "run")
    /\ UNCHANGED <<step, child, fate, textVars>>

\* exit, when the buffer is written.
RunExits(r) ==
    /\ buffer[r] = 0
    /\ Exit(r)
    /\ CloseAll(r, "run")
    /\ UNCHANGED <<step, child, fate, textVars>>

----------------------------------------------------------------------------
(* The child, in pexecv.                                                   *)

ChildGoes(r, from, to) ==
    /\ child[r] = from
    /\ child' = [child EXCEPT ![r] = to]
    /\ UNCHANGED <<step, fate, textVars>>

\* Mutant: the end to write to stays open.
ChildClose1Not(r) ==
    /\ ChildGoes(r, "close1", "dup2")
    /\ UNCHANGED <<fds, simVars>>

ChildClose1(r) ==
    /\ ChildGoes(r, "close1", "dup2")
    /\ Close(r, "child", "fd1")
    /\ UNCHANGED simVars

ChildDupStdin(r) ==
    /\ ChildGoes(r, "dup2", "close0")
    /\ Dup2(r, "child", "fd0", "0")
    /\ UNCHANGED simVars

ChildClose0(r) ==
    /\ ChildGoes(r, "close0", "execv")
    /\ Close(r, "child", "fd0")
    /\ UNCHANGED simVars

ChildExecs(r) ==
    /\ fate[r] = "execs"
    /\ ChildGoes(r, "execv", "mailer")
    /\ mailed' = [mailed EXCEPT ![r] = TRUE]
    /\ UNCHANGED <<now, pc, retval, group, vdbCallVars, historyVars, fds>>

\* A call of the child fails, or it is killed; the exit status is nobody's.
ChildExits(r) ==
    /\ fate[r] = "fails"
    /\ child[r] \in ChildSteps
    /\ ChildGoes(r, child[r], "over")
    /\ CloseAll(r, "child")
    /\ UNCHANGED simVars

----------------------------------------------------------------------------
(* The mailer.                                                             *)

MailerReads(r) ==
    /\ child[r] = "mailer"
    /\ inPipe[r] > 0
    /\ inPipe' = [inPipe EXCEPT ![r] = @ - 1]
    /\ got' = [got EXCEPT ![r] = @ + 1]
    /\ UNCHANGED <<simVars, step, child, fate, fds, printed, buffer, eof>>

\* The pipe is empty and nobody can write to it.
MailerSeesEnd(r) ==
    /\ inPipe[r] = 0
    /\ ~ Holds(r, "write")
    /\ child[r] = "mailer"
    /\ child' = [child EXCEPT ![r] = "over"]
    /\ eof' = [eof EXCEPT ![r] = TRUE]
    /\ CloseAll(r, "child")
    /\ UNCHANGED <<simVars, step, fate, printed, buffer, inPipe, got>>

\* It fails, or is killed, before it has read everything.
MailerQuits(r) ==
    /\ ChildGoes(r, "mailer", "over")
    /\ CloseAll(r, "child")
    /\ UNCHANGED simVars

----------------------------------------------------------------------------
\* The process is killed; its child is not.
KillRun(r) ==
    /\ pc[r] \notin {"idle", "done"}
    /\ Abandon(r, "signal")
    /\ CloseAll(r, "run")
    /\ UNCHANGED <<now, group, vdbCallVars, historyVars, step, childVars,
                   textVars>>

FrontStep(r) ==
    \/ Search(r)
    \/ GroupSearch(r)
    \/ VdbInit(r)
    \/ ReadHeaders(r)
    \/ CheckFrom(r)
    \/ Recent(r)
    \/ StoreReply(r)

SendStep(r) ==
    \/ Pipe(r)
    \/ Fork(r)
    \/ Close0(r)
    \/ DupStdout(r)
    \/ Close1(r)
    \/ CallFails(r)
    \/ Utter(r)
    \/ Write(r)
    \/ WriteSignalled(r)
    \/ WriteLost(r)
    \/ Printed(r)
    \/ RunExits(r)

\* The child's process, which the mailer takes over.
ChildStep(r) ==
    \/ ChildClose1(r)
    \/ ChildDupStdin(r)
    \/ ChildClose0(r)
    \/ ChildExecs(r)
    \/ ChildExits(r)
    \/ MailerReads(r)
    \/ MailerSeesEnd(r)

HandoffStep(r) ==
    \/ (Start(r) \/ FrontStep(r)) /\ UNCHANGED handoffVars
    \/ SendStep(r)
    \/ ChildStep(r)
    \/ MailerQuits(r)
    \/ KillRun(r)

HandoffNext == \E r \in Run : HandoffStep(r)

HandoffSafe == HandoffInit /\ [][HandoffNext]_allVars

\* Run, child and mailer are scheduled and a mailer reads; nobody has to be
\* killed or to fail.
HandoffSpec ==
    /\ HandoffSafe
    /\ \A r \in Run :
          /\ WF_allVars(SendStep(r))
          /\ WF_allVars(ChildStep(r))

----------------------------------------------------------------------------
Outcomes == INSTANCE VdbNull WITH
    mailed <- [r \in Run |-> pc[r] # "send" /\ fate[r] = "execs"]

\* The four outcomes Simvacation gives to "send" are all there are: whatever
\* run, child, mailer and signals do, main sees SendFail, Handoff, HandoffEmpty,
\* ChildFail or a kill (vutil.c:56-100, simvacation.c:401-521).
NullSpec == Outcomes!Spec

\* The MTA's retry brings the text, or part of it, to a second mailer only if
\* a signal ended the run before: EX_TEMPFAIL comes before the first printf
\* (vutil.c:88-98, simvacation.c:423-426, 520).
TextTwiceNeedsSignal ==
    \A p, q \in Run :
        p[1] = q[1] /\ p[2] < q[2] /\ got[p] > 0 /\ got[q] > 0
        => retval[p] = "signal"

\* A mailer that reads to the end and misses part of the text had a sender
\* whose end the MTA takes for a failure: of a truncated reply nobody is told
\* otherwise (simvacation.c:520, 182).
CutMeansFailure ==
    \A r \in Run :
        eof[r] /\ got[r] < TextSize => retval[r] \in {"tempfail", "signal"}

\* A run that begins to send ends, although it may wait for a mailer that was
\* never executed, or is gone, to read (vutil.c:89).
SendingEnds == \A r \in Run : pc[r] = "send" ~> pc[r] = "done"

\* A mailer comes to the end of its input, although it was made with a copy
\* of the end to write to (vutil.c:75).
MailerEnds == \A r \in Run : child[r] = "mailer" ~> child[r] = "over"
=============================================================================
