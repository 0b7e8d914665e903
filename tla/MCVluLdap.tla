----------------------------- MODULE MCVluLdap -----------------------------
(***************************************************************************)
(* Every pair of entries with no time, a time that comes and goes during   *)
(* the model, and one a second later; three seconds, so that there is time *)
(* on either side of both.                                                 *)
(***************************************************************************)
EXTENDS VluLdap

MCTimes == {0, 1, 2}
=============================================================================
