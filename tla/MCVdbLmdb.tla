----------------------------- MODULE MCVdbLmdb -----------------------------
(***************************************************************************)
(* Two deliveries of one key.  Addresses are far above the clock, as in a  *)
(* 64-bit process, or on both sides of it.                                 *)
(***************************************************************************)
EXTENDS VdbLmdb

CONSTANTS d1, d2, k1, j1

MCDeliveries == {d1, d2}
MCKeys == {k1}
MCJobs == {j1}
Once == [d \in MCDeliveries |-> 1]
TwiceAlone == [d \in MCDeliveries |-> IF d = d1 THEN 2 ELSE 0]
MCKeyOf == [d \in MCDeliveries |-> k1]
High == {1000}
SignedAddrs == {-1000, 1000}
=============================================================================
