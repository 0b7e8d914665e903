----------------------------- MODULE MCVdbRedis ----------------------------
(***************************************************************************)
(* Two deliveries of one key.                                              *)
(***************************************************************************)
EXTENDS VdbRedis, TLC

CONSTANTS d1, d2, k1

MCDeliveries == {d1, d2}
MCKeys == {k1}
Once == [d \in MCDeliveries |-> 1]
MCKeyOf == [d \in MCDeliveries |-> k1]
\* Both deliveries have the same key and number of attempts.
MCSymmetry == Permutations(MCDeliveries)
=============================================================================
