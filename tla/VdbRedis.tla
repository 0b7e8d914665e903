------------------------------ MODULE VdbRedis -----------------------------
(***************************************************************************)
(* vdb_redis.c with the runs of simvacation that call it.  The server is   *)
(* external: it executes one command at a time, keeps what it was told     *)
(* when a client dies, and drops a key whose time to live is over.  Each   *)
(* command is a step of its own, and may fail; one that was on its way     *)
(* when its sender was killed is executed at any later time, or lost.      *)
(* simunvacation does nothing here: get_names and gc are the empty ones of *)
(* vdb.c.                                                                  *)
(***************************************************************************)
EXTENDS Simvacation

CONSTANTS
    Retention,    \* 604800 s in EXPIRE
    NoExpiry      \* "no time to live"

ASSUME RetentionAssumption ==
    /\ Retention \in Nat
    /\ NoExpiry \notin Nat

VARIABLES
    db,           \* db[k]: value of key k
    ttl,          \* ttl[k]: when the server drops key k
    wire          \* wire[r]: the command that r left behind when it was killed

serverVars == <<db, ttl>>
redisVars == <<db, ttl, wire>>
vars == <<now, pc, retval, group, last, chk, stamp, mailed,
          count, look, blind, rank, erank, db, ttl, wire>>

\* A command is named by the pc it is sent from, and leads to the next one.
Commands == {"drop", "set", "expire"}

TypeOK ==
    /\ SimTypeOK
    /\ db \in [Keys -> Record \union {NoRecord}]
    /\ ttl \in [Keys -> Nat \union {NoExpiry}]
    /\ wire \in [Run -> Commands \union {"none", "stamp", "send"}]

Init ==
    /\ SimInit
    /\ db = [k \in Keys |-> NoRecord]
    /\ ttl = [k \in Keys |-> NoExpiry]
    /\ wire = [r \in Run |-> "none"]

----------------------------------------------------------------------------
(* What the server does with a command of r.                               *)

\* DEL of the key, whatever it holds by now.
ServerDel(r) ==
    /\ db' = [db EXCEPT ![RunKey[r]] = NoRecord]
    /\ ttl' = [ttl EXCEPT ![RunKey[r]] = NoExpiry]
    /\ count' = count + 1
    /\ erank' = [erank EXCEPT ![r] = count + 1]
    /\ UNCHANGED <<look, blind, rank>>

\* SET takes away the time to live the key had.
ServerSet(r) ==
    /\ db' = [db EXCEPT ![RunKey[r]] = MyRecord(r)]
    /\ ttl' = [ttl EXCEPT ![RunKey[r]] = NoExpiry]
    /\ count' = count + 1
    /\ rank' = [rank EXCEPT ![r] = count + 1]
    /\ UNCHANGED <<look, blind, erank>>

\* Mutant: EXPIREAT, from the time of the lookup.
ServerExpireAt(r) ==
    /\ ttl' = IF db[RunKey[r]] = NoRecord THEN ttl
              ELSE [ttl EXCEPT ![RunKey[r]] = chk[r] + Retention]
    /\ UNCHANGED <<historyVars, db>>

\* EXPIRE counts from the server's clock, and does nothing to an absent key.
ServerExpire(r) ==
    /\ ttl' = IF db[RunKey[r]] = NoRecord THEN ttl
              ELSE [ttl EXCEPT ![RunKey[r]] = now + Retention]
    /\ UNCHANGED <<historyVars, db>>

----------------------------------------------------------------------------
(* redis_vdb_recent.                                                       *)

\* GET: a string, or nil.
RecentGet(r) ==
    /\ pc[r] = "recent"
    /\ ReadRecord(r, db[RunKey[r]], "decide")
    /\ UNCHANGED redisVars

\* No answer, or an error reply.
RecentError(r) ==
    /\ pc[r] = "recent"
    /\ ReadFails(r)
    /\ UNCHANGED redisVars

RecentCompare(r) ==
    /\ pc[r] = "decide"
    /\ Compare(r, "drop")
    /\ UNCHANGED redisVars

RecentDel(r) ==
    /\ pc[r] = "drop"
    /\ ServerDel(r)
    /\ Goto(r, "stamp")
    /\ UNCHANGED <<now, mainVars, vdbCallVars, wire>>

RecentDelError(r) ==
    /\ pc[r] = "drop"
    /\ Goto(r, "stamp")
    /\ UNCHANGED <<now, mainVars, vdbCallVars, historyVars, redisVars>>

----------------------------------------------------------------------------
(* redis_vdb_store_reply.                                                  *)

StoreTime(r) ==
    /\ TakeTime(r, "set")
    /\ UNCHANGED redisVars

StoreSet(r) ==
    /\ pc[r] = "set"
    /\ ServerSet(r)
    /\ Goto(r, "expire")
    /\ UNCHANGED <<now, mainVars, vdbCallVars, wire>>

\* The results of SET and EXPIRE are ignored.
StoreSetError(r) ==
    /\ pc[r] = "set"
    /\ Goto(r, "expire")
    /\ UNCHANGED <<now, mainVars, vdbCallVars, historyVars, redisVars>>

StoreExpire(r) ==
    /\ pc[r] = "expire"
    /\ ServerExpire(r)
    /\ Goto(r, "send")
    /\ UNCHANGED <<now, mainVars, vdbCallVars, wire>>

StoreExpireError(r) ==
    /\ pc[r] = "expire"
    /\ Goto(r, "send")
    /\ UNCHANGED <<now, mainVars, vdbCallVars, historyVars, redisVars>>

----------------------------------------------------------------------------
(* Commands that outlive their process.                                    *)

KillRun(r) ==
    /\ Kill(r)
    /\ \/ UNCHANGED wire
       \/ pc[r] \in Commands /\ wire' = [wire EXCEPT ![r] = pc[r]]
    /\ UNCHANGED serverVars

\* The server comes to the command at last.
LateCommand(r) ==
    /\ \/ /\ wire[r] = "drop"
          /\ ServerDel(r)
          /\ wire' = [wire EXCEPT ![r] = "stamp"]
       \/ /\ wire[r] = "set"
          /\ ServerSet(r)
          /\ wire' = [wire EXCEPT ![r] = "send"]
       \/ /\ wire[r] = "expire"
          /\ ServerExpire(r)
          /\ wire' = [wire EXCEPT ![r] = "send"]
    /\ UNCHANGED <<now, pc, mainVars, vdbCallVars>>

----------------------------------------------------------------------------
(* The server's expiry.  The clock counts seconds and a key may go at any  *)
(* moment of its last one, but not later.                                  *)

Due(k) == db[k] # NoRecord /\ ttl[k] # NoExpiry /\ ttl[k] <= now

ServerExpires(k) ==
    /\ Due(k)
    /\ db' = [db EXCEPT ![k] = NoRecord]
    /\ ttl' = [ttl EXCEPT ![k] = NoExpiry]
    /\ UNCHANGED <<simVars, wire>>

SecondEnds ==
    /\ ~ \E k \in Keys : Due(k)
    /\ PassTime
    /\ UNCHANGED redisVars

----------------------------------------------------------------------------
RunStep(r) ==
    \/ (Start(r) \/ MainStep(r)) /\ UNCHANGED redisVars
    \/ KillRun(r)
    \/ RecentGet(r)
    \/ RecentError(r)
    \/ RecentCompare(r)
    \/ RecentDel(r)
    \/ RecentDelError(r)
    \/ StoreTime(r)
    \/ StoreSet(r)
    \/ StoreSetError(r)
    \/ StoreExpire(r)
    \/ StoreExpireError(r)

Next ==
    \/ SecondEnds
    \/ \E k \in Keys : ServerExpires(k)
    \/ \E r \in Run : RunStep(r) \/ LateCommand(r)

Spec == Init /\ [][Next]_vars

----------------------------------------------------------------------------
\* How far a run has come, counting what the server may still do for it.
Standing(r) == IF wire[r] = "none" THEN pc[r] ELSE wire[r]

\* The code compares the interval with the retention nowhere: of a longer
\* interval only the retention is kept.
Shorter(a, b) == IF a < b THEN a ELSE b
KeptInterval(r) == Shorter(Interval(r), Retention)

Ledger == INSTANCE ReplyLedger WITH
    MaxInterval <- Shorter(LongestInterval, Retention),
    holder <- [k \in Keys |-> Writer(db[k])],
    phase <- [r \in Run |-> PhaseOf(Standing(r))],
    interval <- [r \in Run |-> KeptInterval(r)],
    found <- [r \in Run |-> Writer(last[r])]

\* Every behaviour of the runs over Redis is one of the ledger, for as much of
\* each interval as the retention covers: GET, DEL, SET and EXPIRE are four
\* commands, any of which may fail, never be sent, or be executed after its
\* sender was killed and others had their turn (vdb_redis.c:74-126).
LedgerSpec == Ledger!Spec

\* A record never goes before its own retention is over, although SET and
\* EXPIRE are two commands and the EXPIRE that applies to a record may be that
\* of another run (vdb_redis.c:121-123).
RecordsKeepTheirRetention ==
    \A k \in Keys :
        db[k] # NoRecord /\ ttl[k] # NoExpiry => ttl[k] >= db[k].stamp + Retention
=============================================================================
