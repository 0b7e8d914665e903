------------------------------ MODULE VdbKeys ------------------------------
(***************************************************************************)
(* The key of a record: "user:", the recipient, a colon and the sender's   *)
(* fingerprint in hexadecimal, in LMDB cut to 512 bytes.  The fingerprint  *)
(* is computed first (RabinFingerprint), then a backend makes its key.     *)
(*                                                                         *)
(* A recipient is a sequence of characters, whatever the MTA names, and    *)
(* may hold colons and digits itself.                                      *)
(***************************************************************************)
EXTENDS RabinFingerprint

CONSTANTS
    Recipients,     \* sequences of characters
    KeyEnd          \* the last place LMDB's key keeps: 511 in the code

ASSUME KeyAssumption ==
    /\ \A r \in Recipients : r \in Seq(STRING)
    /\ KeyEnd \in Nat

none == <<"none">>

VARIABLES
    rcpt,       \* the recipient
    key         \* key[b]: the key backend b made, or none

keyVars == <<fingerprintVars, rcpt, key>>

HexDigit == <<"0", "1", "2", "3", "4", "5", "6", "7",
              "8", "9", "a", "b", "c", "d", "e", "f">>

KeyTypeOK ==
    /\ FingerprintTypeOK
    /\ rcpt \in Recipients
    /\ key["lmdb"] # none => Len(key["lmdb"]) <= KeyEnd + 1
    /\ key["redis"] # none => Len(key["redis"]) \in (19 + Len(rcpt))..(34 + Len(rcpt))

----------------------------------------------------------------------------
(* yaslrange: the places start..end of a string, counted from 0, and from  *)
(* the end if negative.                                                    *)

FromStart(x, len) == IF x < 0 THEN Max({len + x, 0}) ELSE x

\* Mutant: the end is taken for a length and still rounded up.
yaslrangeWide(str, start, end) ==
    SubSeq(str, FromStart(start, Len(str)) + 1, Min({FromStart(end, Len(str)) + 2, Len(str)}))

yaslrange(str, start, end) ==
    LET first == FromStart(start, Len(str))
        last == Min({FromStart(end, Len(str)), Len(str) - 1})
    IN  SubSeq(str, first + 1, last + 1)

----------------------------------------------------------------------------
(* %lx: no leading zeros, but one digit at least.                          *)

Digit(w, e) == IF e \in w THEN 1 ELSE 0
Nibble(w, k) == Digit(w, 4*k) + 2 * Digit(w, 4*k + 1) + 4 * Digit(w, 4*k + 2) + 8 * Digit(w, 4*k + 3)

Hex(w) ==
    LET top == Max({0} \union {k \in 0..15 : Nibble(w, k) # 0})
    IN  [n \in 1..(top + 1) |-> HexDigit[Nibble(w, top + 1 - n) + 1]]

\* Mutant: the colon between the halves is left out.
JoinedUnseparated(w) == rcpt \o Hex(w)

Joined(w) == rcpt \o <<":">> \o Hex(w)

Prefix == [lmdb |-> <<"u", "s", "e", "r", ":">>,
           redis |-> <<"s", "i", "m", "v", "a", "c", "a", "t", "i", "o", "n", ":",
                       "u", "s", "e", "r", ":">>]

KeyInit ==
    /\ FingerprintInit
    /\ rcpt \in Recipients
    /\ key = [b \in DOMAIN Prefix |-> none]

\* The fingerprint is complete; one backend is in use.
MakesKey(b) == i = Len(s) /\ key = [c \in DOMAIN Prefix |-> none] /\ UNCHANGED <<fingerprintVars, rcpt>>

lmdb_vdb_key ==
    /\ MakesKey("lmdb")
    /\ key' = [key EXCEPT !["lmdb"] = yaslrange(Prefix["lmdb"] \o Joined(rh), 0, KeyEnd)]

redis_vdb_key ==
    /\ MakesKey("redis")
    /\ key' = [key EXCEPT !["redis"] = Prefix["redis"] \o Joined(rh)]

KeyNext ==
    \/ FingerprintNext /\ UNCHANGED <<rcpt, key>>
    \/ lmdb_vdb_key
    \/ redis_vdb_key

KeySpec == KeyInit /\ [][KeyNext]_keyVars

----------------------------------------------------------------------------
\* The value of hexadecimal digits.
Bits(d) == CHOOSE x \in SUBSET (0..3) : HexDigit[Nibble(x, 0) + 1] = d
Value(digits) ==
    UNION {{j + 4 * (Len(digits) - n) : j \in Bits(digits[n])} : n \in DOMAIN digits}

\* Two pairs of recipient and sender share a record only if they are the same
\* recipient and the same fingerprint: a key tells both, split at its last colon,
\* although recipients may hold colons and digits; in Redis always, in LMDB
\* unless the key was cut (vdb_lmdb.c:246-250, vdb_redis.c:130-132).
KeyTells ==
    \A b \in DOMAIN Prefix :
        (/\ key[b] # none
         /\ b = "lmdb" => Len(Prefix[b] \o Joined(rh)) <= KeyEnd + 1)
        => LET colon == SelectLastInSeq(key[b], LAMBDA c : c = ":")
           IN  /\ SubSeq(key[b], 1, colon - 1) = Prefix[b] \o rcpt
               /\ Value(SubSeq(key[b], colon + 1, Len(key[b]))) = rh
=============================================================================
