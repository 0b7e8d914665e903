----------------------------- MODULE MCLookups -----------------------------
(***************************************************************************)
(* What a run looks up, the recipient in the directory and the             *)
(* correspondent's record by its key.  The key is made of the addresses    *)
(* and of nothing the directory says, so each is examined while the other  *)
(* rests: the directory for one message, the key for one directory.        *)
(***************************************************************************)
EXTENDS MCVluLdap, MCVdbKeys

allVars == <<vars, keyVars>>

Nobody == [matches |-> 0, vacation |-> FALSE, start |-> 0, end |-> 0]

\* Bound: one of the two has a single input.
LookupInit ==
    \/ s = <<>> /\ rcpt = <<"u", "1">> /\ KeyInit /\ Init
    \/ provider = "null" /\ entry = [b \in Bases |-> Nobody] /\ Init /\ KeyInit

AskDirectory == s = <<>> /\ (\A b \in DOMAIN key : key[b] = none) /\ Next /\ UNCHANGED keyVars

MakeKey == provider = "null" /\ Init /\ KeyNext /\ UNCHANGED vars

\* The one step that is no call: with its key, the run leaves this model.
KeyMade == (\E b \in DOMAIN key : key[b] # none) /\ UNCHANGED allVars

LookupNext == AskDirectory \/ MakeKey \/ KeyMade

LookupSpec == LookupInit /\ [][LookupNext]_allVars
=============================================================================
