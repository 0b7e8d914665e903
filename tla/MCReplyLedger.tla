--------------------------- MODULE MCReplyLedger ---------------------------
(***************************************************************************)
(* Three runs of one key: one to record, one to interfere, one to look.    *)
(***************************************************************************)
EXTENDS ReplyLedger, TLC

CONSTANTS r1, r2, r3, k1

MCRun == {r1, r2, r3}
MCKeys == {k1}
MCRunKey == [r \in MCRun |-> k1]
\* All runs share the one key, and no definition names a run.
MCSymmetry == Permutations(MCRun)
=============================================================================
