----------------------------- MODULE MCVdbKeys -----------------------------
(***************************************************************************)
(* Messages of up to 17 bytes, so that two blocks and every length of the  *)
(* odd part occur and a byte passes through the tables twice; at most two  *)
(* bytes are not zero, each the first bit, the last, or a mixture.  The    *)
(* fingerprint is linear, so single bits already tell any two tables       *)
(* apart.  Recipients hold a colon or a digit; with 23 characters kept, a  *)
(* key of 16 digits is cut and one of 15 is not.                           *)
(***************************************************************************)
EXTENDS VdbKeys

Samples == {{0}, {7}, {1, 4, 6}}

MCMessages ==
    LET Zero(n) == [k \in 1..n |-> {}]
    IN  {Zero(n) : n \in 0..17} \union
        UNION {{[Zero(n) EXCEPT ![j] = a, ![k] = b] :
                   j \in 1..n, k \in 1..n, a \in Samples, b \in Samples} : n \in 1..17}

MCRecipients == {<<"u", "1">>, <<":", "u">>}
=============================================================================
