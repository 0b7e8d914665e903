----------------------------- MODULE MCStrings -----------------------------
(***************************************************************************)
(* What a run does with text: the strings and the command line on one      *)
(* side, the sender's address and the recipient's names on the other.      *)
(* They share no state, and each is examined while the other rests.        *)
(***************************************************************************)
EXTENDS MCYasl, MCCheckFrom

allVars == <<vars, splitVars, pathVars, matchVars>>

\* Bound: one of the two has a single input.
StringsInit == SplitInit /\ MatchInit /\ (mode = "idle" \/ origin = <<>>)

UseStrings == origin = <<>> /\ MatchInit /\ SplitNext /\ UNCHANGED <<pathVars, matchVars>>

CheckSender == mode = "idle" /\ Init /\ MatchNext /\ UNCHANGED <<vars, splitVars>>

StringsNext == UseStrings \/ CheckSender

StringsSpec == StringsInit /\ [][StringsNext]_allVars
=============================================================================
