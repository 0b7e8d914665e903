------------------------------ MODULE VdbLmdb ------------------------------
(***************************************************************************)
(* vdb_lmdb.c with the two programs that call it.  LMDB itself is          *)
(* external: readers see the last commit and block nobody; one writer at a *)
(* time holds a mutex that the kernel hands on when its owner dies; a      *)
(* write transaction that is not committed leaves no trace.                *)
(***************************************************************************)
EXTENDS Simvacation, Simunvacation, Integers

CONSTANTS
    Retention,    \* 604800 s in lmdb_vdb_gc
    MapAddrs      \* addresses of records in LMDB's map, cast to time_t

ASSUME RetentionAssumption == Retention \in Nat /\ MapAddrs \subseteq Int
ASSUME ProcessAssumption == Run \cap Jobs = {} /\ NoRun \notin Jobs

VARIABLES
    db,           \* db[k]: the committed record
    writer,       \* owner of LMDB's writer mutex: a run, a job, or NoRun
    cutoff        \* cutoff[j]: `expire' in lmdb_vdb_gc

lmdbVars == <<db, writer, cutoff>>
vars == <<now, pc, retval, group, last, chk, stamp, mailed,
          count, look, blind, rank, erank,
          jobpc, jobexit, db, writer, cutoff>>

TypeOK ==
    /\ SimTypeOK
    /\ JobTypeOK
    /\ db \in [Keys -> Record \union {NoRecord}]
    /\ writer \in Run \union Jobs \union {NoRun}
    /\ cutoff \in [Jobs -> Int]

Init ==
    /\ SimInit
    /\ JobInit
    /\ db = [k \in Keys |-> NoRecord]
    /\ writer = NoRun
    /\ cutoff = [j \in Jobs |-> 0]

----------------------------------------------------------------------------
(* lmdb_vdb_recent: a read-only transaction.                               *)

\* One snapshot: the transaction begins, reads, and later only compares.
RecentGet(r) ==
    /\ pc[r] = "recent"
    /\ ReadRecord(r, db[RunKey[r]], "decide")
    /\ UNCHANGED <<lmdbVars, jobMainVars>>

\* Any error of the transaction or of mdb_get is "not recent".
RecentError(r) ==
    /\ pc[r] = "recent"
    /\ ReadFails(r)
    /\ UNCHANGED <<lmdbVars, jobMainVars>>

RecentCompare(r) ==
    /\ pc[r] = "decide"
    /\ Compare(r, "stamp")
    /\ UNCHANGED <<lmdbVars, jobMainVars>>

----------------------------------------------------------------------------
(* lmdb_vdb_store_reply: time() comes before the write transaction.        *)

StoreTime(r) ==
    /\ TakeTime(r, "begin")
    /\ UNCHANGED <<lmdbVars, jobMainVars>>

\* mdb_txn_begin waits for the writer mutex.
StoreBegin(r) ==
    /\ pc[r] = "begin"
    /\ writer = NoRun
    /\ writer' = r
    /\ Goto(r, "commit")
    /\ UNCHANGED <<now, mainVars, vdbCallVars, historyVars, db, cutoff, jobMainVars>>

\* mdb_txn_begin fails; main ignores the result, here and below.
StoreBeginError(r) ==
    /\ pc[r] = "begin"
    /\ Goto(r, "send")
    /\ UNCHANGED <<now, mainVars, vdbCallVars, historyVars, lmdbVars, jobMainVars>>

\* mdb_put and mdb_txn_commit.
StoreCommit(r) ==
    /\ pc[r] = "commit"
    /\ db' = [db EXCEPT ![RunKey[r]] = MyRecord(r)]
    /\ writer' = NoRun
    /\ count' = count + 1
    /\ rank' = [rank EXCEPT ![r] = count + 1]
    /\ Goto(r, "send")
    /\ UNCHANGED <<now, mainVars, vdbCallVars, look, blind, erank, cutoff, jobMainVars>>

\* Mutant: the error path forgets mdb_txn_abort.
StoreAbortLeaks(r) ==
    /\ pc[r] = "commit"
    /\ Goto(r, "send")
    /\ UNCHANGED <<now, mainVars, vdbCallVars, historyVars, lmdbVars, jobMainVars>>

StoreAbort(r) ==
    /\ pc[r] = "commit"
    /\ writer' = NoRun
    /\ Goto(r, "send")
    /\ UNCHANGED <<now, mainVars, vdbCallVars, historyVars, db, cutoff, jobMainVars>>

\* lmdb_vdb_assert exits from inside any call of LMDB.
LmdbAssert(r) ==
    /\ pc[r] \in {"recent", "begin", "commit"}
    /\ Abandon(r, "tempfail")
    /\ writer' = IF writer = r THEN NoRun ELSE writer
    /\ UNCHANGED <<now, group, mailed, vdbCallVars, historyVars, db, cutoff, jobMainVars>>

\* The mutex of a dead process is handed on.
KillRun(r) ==
    /\ Kill(r)
    /\ writer' = IF writer = r THEN NoRun ELSE writer
    /\ UNCHANGED <<db, cutoff, jobMainVars>>

----------------------------------------------------------------------------
(* lmdb_vdb_gc: again time() comes first.                                  *)

GcTime(j) ==
    /\ jobpc[j] = "gc"
    /\ cutoff' = [cutoff EXCEPT ![j] = now - Retention]
    /\ JobGoto(j, "gcbegin")
    /\ UNCHANGED <<simVars, jobexit, db, writer>>

GcBegin(j) ==
    /\ jobpc[j] = "gcbegin"
    /\ writer = NoRun
    /\ writer' = j
    /\ JobGoto(j, "sweep")
    /\ UNCHANGED <<simVars, jobexit, db, cutoff>>

GcBeginError(j) ==
    /\ jobpc[j] = "gcbegin"
    /\ JobGoto(j, "exiting")
    /\ UNCHANGED <<simVars, jobexit, lmdbVars>>

\* Mutant: the comparison the wrong way round.
CondemnedBackwards(j) ==
    {k \in Keys : db[k] # NoRecord /\ \E a \in MapAddrs : a > cutoff[j]}

\* (time_t)data.mv_data < expire: what is compared is the address of the
\* time stamp in the map, not the time stamp.
Condemned(j) ==
    {k \in Keys : db[k] # NoRecord /\ \E a \in MapAddrs : a < cutoff[j]}

\* The cursor visits every record while the transaction keeps writers out.
\* A failing mdb_del is skipped over, a failing commit undoes them all.
GcSweep(j) ==
    /\ jobpc[j] = "sweep"
    /\ \E gone \in SUBSET Condemned(j) :
          db' = [k \in Keys |-> IF k \in gone THEN NoRecord ELSE db[k]]
    /\ writer' = NoRun
    /\ JobGoto(j, "exiting")
    /\ UNCHANGED <<simVars, jobexit, cutoff>>

JobAssert(j) ==
    /\ jobpc[j] \in {"gcbegin", "sweep"}
    /\ JobEnds(j, "failure")
    /\ writer' = IF writer = j THEN NoRun ELSE writer
    /\ UNCHANGED <<simVars, db, cutoff>>

KillJob(j) ==
    /\ JobKill(j)
    /\ writer' = IF writer = j THEN NoRun ELSE writer
    /\ UNCHANGED <<simVars, db, cutoff>>

----------------------------------------------------------------------------
RunStep(r) ==
    \/ MainStep(r) /\ UNCHANGED <<lmdbVars, jobMainVars>>
    \/ RecentGet(r)
    \/ RecentCompare(r)
    \/ StoreTime(r)
    \/ StoreBegin(r)
    \/ StoreCommit(r)

RunFailure(r) ==
    \/ RecentError(r)
    \/ StoreBeginError(r)
    \/ StoreAbort(r)
    \/ LmdbAssert(r)
    \/ KillRun(r)

JobStep(j) ==
    \/ JobMainStep(j) /\ UNCHANGED <<simVars, lmdbVars>>
    \/ GcTime(j)
    \/ GcBegin(j)
    \/ GcSweep(j)

JobFailure(j) ==
    \/ GcBeginError(j)
    \/ JobAssert(j)
    \/ KillJob(j)

Next ==
    \/ PassTime /\ UNCHANGED <<lmdbVars, jobMainVars>>
    \/ \E r \in Run :
          \/ Start(r) /\ UNCHANGED <<lmdbVars, jobMainVars>>
          \/ RunStep(r)
          \/ RunFailure(r)
    \/ \E j \in Jobs :
          \/ JobStart(j) /\ UNCHANGED <<simVars, lmdbVars>>
          \/ JobStep(j)
          \/ JobFailure(j)

Spec == Init /\ [][Next]_vars

\* A started process is scheduled, its calls return, and one that waits for
\* the mutex gets it once the mutex stays free.  No fairness on failures:
\* nothing may rely on one to end a wait.
FairSpec ==
    /\ Spec
    /\ \A r \in Run : WF_vars(RunStep(r))
    /\ \A j \in Jobs : WF_vars(JobStep(j))

----------------------------------------------------------------------------
(* The backend keeps what the ledger promises.                             *)

LP64 == \A a \in MapAddrs : a > MaxTime

Ledger == INSTANCE ReplyLedger WITH
    MaxInterval <- LongestInterval,
    holder <- [k \in Keys |-> Writer(db[k])],
    phase <- [r \in Run |-> PhaseOf(pc[r])],
    interval <- [r \in Run |-> Interval(r)],
    found <- [r \in Run |-> Writer(last[r])]

\* Every behaviour of the two programs over LMDB is one of the ledger, where
\* addresses lie above any time: one transaction to look and another to
\* record, time() before the writer mutex, errors that count as "not
\* recent", killed owners of the mutex, and the sweep among them
\* (vdb_lmdb.c:89-242).
LedgerSpec == Ledger!Spec

\* A retry sends nothing while the interval of the record an earlier attempt
\* left is running, whether or not that attempt's reply ever went out
\* (simvacation.c:160 stores before :167 sends), unless runs of another
\* delivery to the same correspondent interfered.
RetryIsSilent ==
    \A p, q \in Run :
        /\ p[1] = q[1] /\ p[2] < q[2]
        /\ 0 < rank[p]
        /\ ~blind[q]
        /\ chk[q] < stamp[p] + Interval(q)
        /\ mailed[q]
        => \E w \in Run : w[1] # p[1] /\ Ledger!Interference(p, w, look[q])

\* Every process ends: nobody waits for ever for the writer mutex, although
\* its owners fail and are killed (vdb_lmdb.c:157, 209).
EveryProcessEnds ==
    /\ \A r \in Run : pc[r] # "idle" ~> Ended(r)
    /\ \A j \in Jobs : jobpc[j] # "idle" ~> jobpc[j] = "done"

\* "Clean up entries older than 7 days." (vdb_lmdb.c:206): a sweep that
\* removes all it condemns leaves no record from before its cutoff.
GcCollects ==
    [][\A j \in Jobs :
         /\ GcSweep(j)
         /\ \A k \in Condemned(j) : db'[k] = NoRecord
         => \A k \in Keys : db'[k] = NoRecord \/ db'[k].stamp >= cutoff[j]]_vars
=============================================================================
