-------------------------- MODULE RabinFingerprint --------------------------
(***************************************************************************)
(* rabin.c: the sender in a record's key is the residue of its address,    *)
(* read as a polynomial over GF(2), modulo x^64 + x^4 + x^3 + x + 1.  The  *)
(* code adds the odd bytes at the front one at a time and then eight bytes *)
(* at a time, multiplying by x^64 through eight tables of 256 entries.     *)
(*                                                                         *)
(* A uint64_t is the polynomial of its bits: the set of their numbers, and *)
(* the set of exponents with coefficient 1.  ^ is Xor; a shift left adds   *)
(* to every exponent and loses those of 64 and more.                       *)
(***************************************************************************)
EXTENDS Integers, SequencesExt

CONSTANT Messages   \* sequences of bytes

Byte == SUBSET (0..7)

ASSUME MessagesAssumption == \A s \in Messages : s \in Seq(Byte)

VARIABLES
    s,      \* the argument; its length is the argument len
    i,      \* bytes read
    rh      \* the fingerprint so far

fingerprintVars == <<s, i, rh>>

FingerprintTypeOK ==
    /\ s \in Seq(Byte)
    /\ i \in 0..Len(s)
    /\ rh \subseteq 0..63

Xor(a, b) == (a \ b) \union (b \ a)

\* The sum of the polynomials p[e], e \in I.
XorOver(I, p) ==
    {x \in UNION {p[e] : e \in I} : Cardinality({e \in I : x \in p[e]}) % 2 = 1}

\* What x^64 is replaced by.
Low == {0, 1, 3, 4}

----------------------------------------------------------------------------
(* The tables.  Entry b of table<32 + 8k> is b * x^(64 + 8k) reduced.      *)

\* x^(64 + e) becomes x^e times what x^64 is replaced by.
Replaced(w) == XorOver(w, [e \in w |-> IF e < 64 THEN {e} ELSE {e - 64 + d : d \in Low}])

\* The replacement may reach x^64 again, but not a third time.
Reduced(b, shift) == Replaced(Replaced({j + shift : j \in b}))

table32 == [b \in Byte |-> Reduced(b, 64)]
table40 == [b \in Byte |-> Reduced(b, 72)]
table48 == [b \in Byte |-> Reduced(b, 80)]
table56 == [b \in Byte |-> Reduced(b, 88)]
table64 == [b \in Byte |-> Reduced(b, 96)]
table72 == [b \in Byte |-> Reduced(b, 104)]
table80 == [b \in Byte |-> Reduced(b, 112)]
table88 == [b \in Byte |-> Reduced(b, 120)]

ByteOf(w, k) == {j \in 0..7 : j + 8 * k \in w}

tables == <<table32, table40, table48, table56, table64, table72, table80, table88>>

\* Mutant: seven of the eight bytes are looked up.
rh_lookupSeven(w) == XorOver(0..6, [k \in 0..6 |-> tables[k + 1][ByteOf(w, k)]])

rh_lookup(w) == XorOver(0..7, [k \in 0..7 |-> tables[k + 1][ByteOf(w, k)]])

----------------------------------------------------------------------------
(* rabin_fingerprint                                                       *)

Shift(w, n) == {e + n : e \in w} \intersect 0..63

FingerprintInit == s \in Messages /\ i = 0 /\ rh = {}

\* The first len % 8 bytes.
ByteStep ==
    /\ i < Len(s) % 8
    /\ rh' = Xor(Shift(rh, 8), s[i + 1])
    /\ i' = i + 1
    /\ UNCHANGED s

\* Mutant: the block is read as a little-endian machine has it.
BlockSwapped == UNION {Shift(s[i + k], 8 * (k - 1)) : k \in 1..8}

\* Eight bytes, the first in the highest place.
Block == UNION {Shift(s[i + k], 64 - 8 * k) : k \in 1..8}

BlockStep ==
    /\ Len(s) % 8 <= i /\ i < Len(s)
    /\ rh' = Xor(rh_lookup(rh), Block)
    /\ i' = i + 8
    /\ UNCHANGED s

FingerprintNext == ByteStep \/ BlockStep

----------------------------------------------------------------------------
(* Division by x^64 + x^4 + x^3 + x + 1, one bit at a time, as it is done  *)
(* by hand.                                                                *)

BringDown(r, bit) ==
    LET up == {e + 1 : e \in r} \union bit
    IN  IF 64 \in up THEN Xor(up \ {64}, Low) ELSE up

\* The n-th bit of a byte, the highest first.
Bit(b, n) == IF 8 - n \in b THEN {0} ELSE {}

\* All eight, from the remainder before them.
DownBits(r, b) ==
    LET down[n \in 0..8] == IF n = 0 THEN r ELSE BringDown(down[n - 1], Bit(b, n))
    IN  down[8]

\* A function, for what it is applied to is evaluated before it.
ByteDown == [r \in SUBSET (0..63) |-> [b \in Byte |-> DownBits(r, b)]]

\* What remains after each byte.
Division(t) ==
    LET r[k \in 0..Len(t)] == IF k = 0 THEN {} ELSE ByteDown[r[k - 1]][t[k]]
    IN  r

Residue(t) == Division(t)[Len(t)]

\* After every step the fingerprint is the residue of the bytes read: tables,
\* byte order and the odd bytes at the front agree (rabin.c:34-2136).
FingerprintIsResidue == rh = Residue(SubSeq(s, 1, i))

\* A difference confined to eight bytes in a row is never lost, wherever they
\* stand: fingerprints are linear, so two addresses of one length that differ
\* only there have different fingerprints (rabin.c:24-27).
ShortDifferencesShow ==
    LET differs == {k \in 1..i : s[k] # {}}
    IN  (differs # {} /\ \A j, k \in differs : j - k < 8) => rh # {}
=============================================================================
