------------------------------ MODULE VdbNull ------------------------------
(***************************************************************************)
(* simvacation with the null backend (vdb.c): `recent' always answers "not *)
(* recent" and `store_reply' keeps nothing, so only the MTA stands between *)
(* a correspondent and a second reply.                                     *)
(***************************************************************************)
EXTENDS Simvacation

vars == simVars

\* vdb_recent returns VDB_STATUS_OK.
Recent(r) ==
    /\ pc[r] = "recent"
    /\ Goto(r, "stamp")
    /\ UNCHANGED <<now, mainVars, vdbCallVars, historyVars>>

\* vdb_store_reply returns VAC_RESULT_OK.
StoreReply(r) ==
    /\ pc[r] = "stamp"
    /\ Goto(r, "send")
    /\ UNCHANGED <<now, mainVars, vdbCallVars, historyVars>>

RunStep(r) ==
    \/ MainStep(r)
    \/ Recent(r)
    \/ StoreReply(r)

Next ==
    \E r \in Run :
        \/ Start(r)
        \/ RunStep(r)
        \/ Kill(r)

Spec == SimInit /\ [][Next]_vars

----------------------------------------------------------------------------
TypeOK == SimTypeOK

\* One delivery sends a second reply only if the run that sent the first was
\* killed, or failed after its mailer had been started: main returns
\* EX_TEMPFAIL nowhere else once the mailer may have the message
\* (simvacation.c:423-426, 520).
SecondReplyNeedsFailure ==
    \A p, q \in Run :
        p[1] = q[1] /\ p[2] < q[2] /\ mailed[p] /\ mailed[q]
        => retval[p] \in {"signal", "tempfail"}
=============================================================================
