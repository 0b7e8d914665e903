--------------------------- MODULE Simunvacation ---------------------------
(***************************************************************************)
(* simunvacation.c, main: the periodic job that vacuums the database.  A   *)
(* backend module takes a job from jobpc "gc" to "exiting".                *)
(*                                                                         *)
(* get_names is the one of vdb.c:87-90 in every backend and returns no     *)
(* name, so the loop that searches the directory for each user and calls   *)
(* clean (simunvacation.c:93-110) has an empty range and makes no step.    *)
(***************************************************************************)
CONSTANT Jobs     \* processes that run simunvacation

VARIABLES
    jobpc,        \* jobpc[j]: the call in main that j makes next
    jobexit       \* jobexit[j]: how j ended

jobMainVars == <<jobpc, jobexit>>

JobPcs == {"idle", "vdb", "vlu", "gc", "gcbegin", "sweep", "exiting", "done"}

JobTypeOK ==
    /\ jobpc \in [Jobs -> JobPcs]
    /\ jobexit \in [Jobs -> {"ok", "failure", "fault", "signal"}]

JobInit ==
    /\ jobpc = [j \in Jobs |-> "idle"]
    /\ jobexit = [j \in Jobs |-> "ok"]

JobGoto(j, next) == jobpc' = [jobpc EXCEPT ![j] = next]

JobEnds(j, how) ==
    /\ JobGoto(j, "done")
    /\ jobexit' = [jobexit EXCEPT ![j] = how]

\* Options, configuration, backend table.
JobStart(j) ==
    /\ jobpc[j] = "idle"
    /\ \/ JobEnds(j, "failure")
       \/ JobGoto(j, "vdb") /\ UNCHANGED jobexit

\* vdb->init is given a C literal where it expects a counted string: yasldup
\* reads a length from before the literal.  It may find something harmless,
\* run out of memory, or fault.
JobVdbInit(j) ==
    /\ jobpc[j] = "vdb"
    /\ \/ JobEnds(j, "failure")
       \/ JobEnds(j, "fault")
       \/ JobGoto(j, "vlu") /\ UNCHANGED jobexit

\* get_names, vlu_backend, vlu->init, and the loop over no names.
JobVluInit(j) ==
    /\ jobpc[j] = "vlu"
    /\ \/ JobEnds(j, "failure")
       \/ JobGoto(j, "gc") /\ UNCHANGED jobexit

\* vdb->close, vlu->close, exit(0).
JobExit(j) ==
    /\ jobpc[j] = "exiting"
    /\ JobGoto(j, "done")
    /\ UNCHANGED jobexit

JobKill(j) ==
    /\ jobpc[j] \notin {"idle", "done"}
    /\ JobEnds(j, "signal")

JobMainStep(j) ==
    \/ JobVdbInit(j)
    \/ JobVluInit(j)
    \/ JobExit(j)
=============================================================================
