------------------------------ MODULE MCPexecv -----------------------------
(***************************************************************************)
(* A delivery with two attempts: over the null backend deliveries do not   *)
(* meet.  A reply of two pieces is longer than the buffer, and than the    *)
(* pipe holds.                                                             *)
(***************************************************************************)
EXTENDS Pexecv

CONSTANTS d1, k1

MCDeliveries == {d1}
MCKeys == {k1}
MCMaxRuns == [d \in MCDeliveries |-> 2]
MCKeyOf == [d \in MCDeliveries |-> k1]
=============================================================================
