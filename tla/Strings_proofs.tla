--------------------------- MODULE Strings_proofs ---------------------------
(***************************************************************************)
(* Strings.  A yasl string's header tells its block and a string holds its *)
(* text, for any bytes, texts and sizes; and the words of a command line   *)
(* are the ones it was written for, for any bytes, words and lines.        *)
(*                                                                         *)
(* For the first the invariant is the conjunction of the two and of the    *)
(* types; the lemmas say what writing, ending, growing and appending leave *)
(* of a string that fulfils it.  For the second it says where in the line  *)
(* each word stands and how far it is read; what FlattenSeq joins is laid  *)
(* out first.                                                              *)
(***************************************************************************)
EXTENDS YaslSplitargs, RcptMatch, FiniteSetTheorems, WellFoundedInduction, TLAPS

\* A string with its block, whatever bytes are in it.
Shaped(s) ==
    /\ s.size \in Nat /\ s.len \in Nat /\ s.free \in Nat
    /\ s = [size |-> s.size, len |-> s.len, free |-> s.free, buf |-> s.buf]
    /\ s.buf \in Bytes(s.size)

Sound(s) ==
    /\ Shaped(s)
    /\ Held(s) => s.len + s.free + 1 = s.size /\ s.buf[s.len] = NUL

\* s is a sound string, or none, with the text t in it.
Holds(s, t) == Sound(s) /\ (Held(s) => TextOf(s) = t)

IsText(x) == x \in Seq(Byte)

StringInv == Holds(str, text) /\ IsText(text) /\ TypeOK

LEMMA NullHolds == ASSUME NEW t PROVE Holds(NULL, t)
  BY YaslAssumption DEF Holds, Sound, Shaped, NULL, Held, Bytes

LEMMA NulText == Len(<<NUL>>) = 1 /\ <<NUL>> \in [1..1 -> Byte] /\ <<NUL>>[1] = NUL
  BY YaslAssumption

\* Writing touches the bytes it writes and leaves the block its size.
LEMMA WriteBytes ==
    ASSUME NEW size \in Nat, NEW buf \in Bytes(size), NEW at \in Nat,
           NEW n \in Nat, NEW x \in [1..n -> Byte \cup {junk}], Len(x) = n
    PROVE  /\ Write(buf, at, x) \in Bytes(size)
           /\ \A i \in 0..(size - 1) :
                  Write(buf, at, x)[i] = IF at <= i /\ i < at + n THEN x[i - at + 1] ELSE buf[i]
  <1>1. DOMAIN buf = 0..(size - 1)
    BY DEF Bytes
  <1>2. ASSUME NEW i \in 0..(size - 1)
        PROVE  /\ i - at + 1 \in 1..Len(x) <=> at <= i /\ i < at + Len(x)
               /\ buf[i] \in Byte \cup {junk}
    BY DEF Bytes
  <1>3. ASSUME NEW i \in 0..(size - 1), i - at + 1 \in 1..Len(x)
        PROVE  x[i - at + 1] \in Byte \cup {junk}
    BY <1>3
  <1> QED
    BY <1>1, <1>2, <1>3 DEF Bytes, Write

LEMMA WriteNul ==
    ASSUME NEW size \in Nat, NEW buf \in Bytes(size), NEW at \in Nat, at < size
    PROVE  /\ Write(buf, at, <<NUL>>) \in Bytes(size)
           /\ Write(buf, at, <<NUL>>)[at] = NUL
           /\ \A i \in 0..(at - 1) : Write(buf, at, <<NUL>>)[i] = buf[i]
  <1> DEFINE x == <<NUL>>
             w == Write(buf, at, x)
  <1>1. Len(x) = 1 /\ Len(x) \in Nat /\ x \in [1..Len(x) -> Byte \cup {junk}] /\ x[1] = NUL
    BY NulText
  <1> HIDE DEF x
  <1>2. /\ w \in Bytes(size)
        /\ \A i \in 0..(size - 1) :
               w[i] = IF at <= i /\ i < at + Len(x) THEN x[i - at + 1] ELSE buf[i]
    BY ZenonT(60), <1>1, WriteBytes
  <1> HIDE DEF w
  <1>3. w[at] = x[at - at + 1] /\ at - at + 1 = 1
    BY <1>1, <1>2
  <1>4. ASSUME NEW i \in 0..(at - 1) PROVE w[i] = buf[i]
    BY <1>1, <1>2
  <1> QED
    BY <1>1, <1>2, <1>3, <1>4 DEF w, x

\* Ending a string inside its block makes it sound, with what stands before.
LEMMA EndsHolds ==
    ASSUME NEW s, Shaped(s), s.len + s.free + 1 = s.size, NEW n \in Nat, n < s.size
    PROVE  Holds(Ends(s, n), [i \in 1..n |-> s.buf[i - 1]]) /\ Ends(s, n).size = s.size
  <1> DEFINE e == Ends(s, n)
             w == Write(s.buf, n, <<NUL>>)
  <1>1. w \in Bytes(s.size) /\ w[n] = NUL /\ \A i \in 0..(n - 1) : w[i] = s.buf[i]
    <2>2. s.buf \in Bytes(s.size) /\ s.size \in Nat
      BY DEF Shaped
    <2> QED
      BY <2>2, WriteNul
  <1>2. /\ e.size = s.size /\ e.len = n /\ e.free = s.free + s.len - n /\ e.buf = w
        /\ e = [size |-> e.size, len |-> e.len, free |-> e.free, buf |-> e.buf]
    BY DEF Ends
  <1> HIDE DEF e, w
  <1>3. e.free \in Nat /\ e.len + e.free + 1 = e.size /\ e.size \in Nat /\ e.len \in Nat
    BY <1>2 DEF Shaped
  <1>4. TextOf(e) = [i \in 1..n |-> s.buf[i - 1]]
    <2>1. ASSUME NEW i \in 1..n PROVE e.buf[i - 1] = s.buf[i - 1]
      BY <1>1, <1>2
    <2> QED
      BY <2>1, <1>2 DEF TextOf
  <1>5. Sound(e)
    BY <1>1, <1>2, <1>3 DEF Sound, Shaped
  <1> QED
    BY <1>2, <1>4, <1>5 DEF Holds, e

\* A sound string has its text and room told by its header.
LEMMA SoundFacts ==
    ASSUME NEW s, NEW t, Holds(s, t), Held(s)
    PROVE  /\ s.size \in Nat /\ s.len \in Nat /\ s.free \in Nat /\ s.buf \in Bytes(s.size)
           /\ s = [size |-> s.size, len |-> s.len, free |-> s.free, buf |-> s.buf]
           /\ s.len + s.free + 1 = s.size
           /\ s.buf[s.len] = NUL
           /\ t = TextOf(s)
  BY DEF Holds, Sound, Shaped

\* yaslMakeRoomFor keeps the text and leaves the room asked for.
LEMMA RoomHolds ==
    ASSUME NEW s, NEW t, Holds(s, t), Held(s), NEW n \in Nat, NEW d \in MakeRoomFor(s, n)
    PROVE  Holds(d, t) /\ (Held(d) => d.free >= n /\ d.len = s.len)
  <1>1. CASE s.free >= n
    BY <1>1 DEF MakeRoomFor
  <1>2. CASE d = NULL
    <2>1. ~Held(d)
      BY <1>2 DEF Held, NULL
    <2> QED
      BY <1>2, <2>1, NullHolds
  <1>3. CASE ~(s.free >= n) /\ d = Grown(s, n)
    <2> DEFINE wanted == s.len + n
               newlen == IF wanted < YASL_MAX_PREALLOC THEN 2 * wanted
                                                       ELSE wanted + YASL_MAX_PREALLOC
    <2>1. /\ s.size \in Nat /\ s.len \in Nat /\ s.free \in Nat /\ s.buf \in Bytes(s.size)
          /\ s.len + s.free + 1 = s.size /\ s.buf[s.len] = NUL /\ t = TextOf(s)
      BY SoundFacts
    <2>2. newlen \in Nat /\ newlen >= s.len + n
      BY <2>1, YaslAssumption
    <2>3. /\ d.size = newlen + 1 /\ d.len = s.len /\ d.free = newlen - s.len
          /\ d.buf = Realloc(s.buf, newlen + 1)
          /\ d = [size |-> d.size, len |-> d.len, free |-> d.free, buf |-> d.buf]
      BY <1>3 DEF Grown
    <2> HIDE DEF newlen, wanted
    <2>4. DOMAIN s.buf = 0..(s.size - 1) /\ \A i \in 0..(s.size - 1) : s.buf[i] \in Byte \cup {junk}
      BY <2>1 DEF Bytes
    <2>5. d.buf \in Bytes(newlen + 1) /\ \A i \in 0..s.len : d.buf[i] = s.buf[i]
      <3>1. \A i \in 0..((newlen + 1) - 1) :
                Realloc(s.buf, newlen + 1)[i] = IF i \in 0..(s.size - 1) THEN s.buf[i] ELSE junk
        BY <2>4 DEF Realloc
      <3>2. Realloc(s.buf, newlen + 1) \in [0..((newlen + 1) - 1) -> Byte \cup {junk}]
        BY <2>4 DEF Realloc
      <3>3. ASSUME NEW i \in 0..s.len
            PROVE  i \in 0..((newlen + 1) - 1) /\ i \in 0..(s.size - 1)
        BY <2>1, <2>2
      <3>4. ASSUME NEW i \in 0..s.len PROVE d.buf[i] = s.buf[i]
        BY <3>1, <3>3, <2>3
      <3> QED
        BY <3>2, <3>4, <2>3 DEF Bytes
    <2>6. TextOf(d) = TextOf(s)
      <3>1. ASSUME NEW i \in 1..s.len PROVE d.buf[i - 1] = s.buf[i - 1]
        BY <2>1, <2>5
      <3> QED
        BY <3>1, <2>3 DEF TextOf
    <2>7. d.buf[d.len] = NUL
      BY <2>1, <2>3, <2>5
    <2>8. d.free \in Nat /\ d.free >= n /\ d.len + d.free + 1 = d.size /\ d.size \in Nat
      BY <2>1, <2>2, <2>3
    <2> QED
      BY <2>1, <2>3, <2>5, <2>6, <2>7, <2>8 DEF Holds, Sound, Shaped
  <1> QED
    BY <1>1, <1>2, <1>3 DEF MakeRoomFor

\* The text of s up to place at, then x.
Spliced(s, at, x) ==
    [i \in 1..(at + Len(x)) |-> IF i <= at THEN s.buf[i - 1] ELSE x[i - at]]

\* Bytes written from place at on, and the string ended behind them.
LEMMA PutHolds ==
    ASSUME NEW s, NEW t, Holds(s, t), Held(s), NEW at \in Nat,
           NEW n \in Nat, NEW x \in [1..n -> Byte \cup {junk}], Len(x) = n,
           at + n < s.size
    PROVE  Holds(Put(s, at, x), Spliced(s, at, x))
  <1> DEFINE w == Write(s.buf, at, x)
             m == [s EXCEPT !.buf = w]
  <1>1. /\ s.size \in Nat /\ s.len \in Nat /\ s.free \in Nat /\ s.buf \in Bytes(s.size)
        /\ s = [size |-> s.size, len |-> s.len, free |-> s.free, buf |-> s.buf]
        /\ s.len + s.free + 1 = s.size
    BY SoundFacts
  <1>2. /\ w \in Bytes(s.size)
        /\ \A i \in 0..(s.size - 1) :
               w[i] = IF at <= i /\ i < at + n THEN x[i - at + 1] ELSE s.buf[i]
    BY <1>1, WriteBytes
  <1> HIDE DEF w
  <1>3. m = [size |-> s.size, len |-> s.len, free |-> s.free, buf |-> w]
    BY <1>1
  <1> HIDE DEF m
  <1>4. m.size = s.size /\ m.len = s.len /\ m.free = s.free /\ m.buf = w
    BY <1>3
  <1>5. Shaped(m) /\ m.len + m.free + 1 = m.size
    BY <1>1, <1>2, <1>3, <1>4 DEF Shaped
  <1>6. Holds(Ends(m, at + n), [i \in 1..(at + n) |-> m.buf[i - 1]])
    <2>1. at + n \in Nat /\ at + n < m.size
      BY <1>4
    <2>2. \A k \in Nat : k < m.size => Holds(Ends(m, k), [i \in 1..k |-> m.buf[i - 1]])
      BY <1>5, EndsHolds
    <2> QED
      BY <2>1, <2>2
  <1>7. ASSUME NEW i \in 1..(at + n)
        PROVE  m.buf[i - 1] = IF i <= at THEN s.buf[i - 1] ELSE x[i - at]
    <2>1. i - 1 \in 0..(s.size - 1) /\ (at <= i - 1 <=> ~(i <= at)) /\ i - 1 < at + n
          /\ (i - 1) - at + 1 = i - at
      BY <1>1
    <2> QED
      BY <1>2, <1>4, <2>1
  <1>8. [i \in 1..(at + n) |-> m.buf[i - 1]]
            = [i \in 1..(at + n) |-> IF i <= at THEN s.buf[i - 1] ELSE x[i - at]]
    BY <1>7
  <1> QED
    BY <1>6, <1>8 DEF m, w, Put, Spliced

LEMMA TextIsSeq ==
    ASSUME NEW x, IsText(x)
    PROVE  /\ Len(x) \in Nat /\ x \in [1..Len(x) -> Byte \cup {junk}]
           /\ x = [i \in 1..Len(x) |-> x[i]]
  <1>1. Len(x) \in Nat /\ DOMAIN x = 1..Len(x) /\ x = [i \in 1..Len(x) |-> x[i]]
    BY DEF IsText
  <1>2. \A i \in 1..Len(x) : x[i] \in Byte
    BY DEF IsText
  <1> QED
    BY <1>1, <1>2

\* Putting x behind the text appends it; putting it at the front replaces the text.
LEMMA PutText ==
    ASSUME NEW s, NEW t, Holds(s, t), Held(s), IsText(t), NEW x, IsText(x)
    PROVE  /\ s.len + Len(x) < s.size => Holds(Put(s, s.len, x), t \o x)
           /\ Len(x) < s.size => Holds(Put(s, 0, x), x)
           /\ s.len = Len(t)
           /\ IsText(t \o x)
  <1> DEFINE n == Len(x)
  <1>1. /\ s.size \in Nat /\ s.len \in Nat /\ s.free \in Nat
        /\ t = TextOf(s) /\ n \in Nat /\ x \in [1..n -> Byte \cup {junk}] /\ Len(x) = n
        /\ x \in Seq(Byte) /\ t \in Seq(Byte)
    BY SoundFacts, TextIsSeq DEF IsText
  <1>2. s.len = Len(t)
    <2>1. DOMAIN t = 1..s.len /\ DOMAIN t = 1..Len(t)
      BY <1>1 DEF TextOf, IsText
    <2>2. Len(t) \in Nat
      BY DEF IsText
    <2> QED
      BY <1>1, <2>1, <2>2
  <1> HIDE DEF n
  <1>3. ASSUME s.len + n < s.size PROVE Holds(Put(s, s.len, x), t \o x)
    <2>1. Holds(Put(s, s.len, x), Spliced(s, s.len, x))
      BY <1>1, <1>3, PutHolds
    <2>2. ASSUME NEW i \in 1..(s.len + n)
          PROVE  (t \o x)[i] = IF i <= s.len THEN s.buf[i - 1] ELSE x[i - s.len]
      <3>1. (t \o x)[i] = IF i <= Len(t) THEN t[i] ELSE x[i - Len(t)]
        BY <1>1, <1>2
      <3>2. i <= s.len => t[i] = s.buf[i - 1]
        BY <1>1 DEF TextOf
      <3> QED
        BY <1>2, <3>1, <3>2
    <2>3. t \o x \in Seq(Byte) /\ Len(t \o x) = s.len + n
      BY <1>1, <1>2
    <2>4. t \o x = [i \in 1..(s.len + n) |-> (t \o x)[i]]
      <3>1. IsText(t \o x)
        BY <2>3 DEF IsText
      <3> HIDE DEF IsText
      <3> DEFINE y == t \o x
      <3>2. IsText(y) /\ Len(y) = s.len + n
        BY <2>3, <3>1
      <3> HIDE DEF y
      <3>3. y = [i \in 1..(s.len + n) |-> y[i]]
        BY <3>2, TextIsSeq
      <3> QED
        BY <3>3 DEF y
    <2>5. t \o x = Spliced(s, s.len, x)
      BY <1>1, <2>2, <2>4 DEF Spliced
    <2> QED
      BY <2>1, <2>5
  <1>4. ASSUME n < s.size PROVE Holds(Put(s, 0, x), x)
    <2>1. Holds(Put(s, 0, x), Spliced(s, 0, x))
      <3>1. 0 + n < s.size
        BY <1>1, <1>4
      <3> QED
        BY <1>1, <3>1, PutHolds
    <2>2. 0 + n = n /\ x = [i \in 1..n |-> x[i]]
      BY <1>1
    <2>3. ASSUME NEW i \in 1..n
          PROVE  x[i] = IF i <= 0 THEN s.buf[i - 1] ELSE x[i - 0]
      BY <1>1
    <2>4. x = Spliced(s, 0, x)
      BY <1>1, <2>2, <2>3 DEF Spliced
    <2> QED
      BY <2>1, <2>4
  <1>5. IsText(t \o x)
    BY <1>1 DEF IsText
  <1> QED
    BY <1>2, <1>3, <1>4, <1>5 DEF n

\* Nothing is left to say of a string that was lost.
LEMMA LostHolds == ASSUME NEW s, NEW t, NEW u, Holds(s, t), ~Held(s) PROVE Holds(s, u)
  BY DEF Holds

\* yaslcatlen appends, or the string is lost.
LEMMA CatHolds ==
    ASSUME NEW s, NEW t, Holds(s, t), Held(s), IsText(t), NEW x, IsText(x), NEW d \in Cat(s, x)
    PROVE  Holds(d, t \o x)
  <1>1. PICK r \in MakeRoomFor(s, Len(x)) :
            d = IF Held(r) THEN Put(r, r.len, x) ELSE r
    BY DEF Cat
  <1>2. Holds(r, t) /\ (Held(r) => r.free >= Len(x)) /\ Len(x) \in Nat
    BY <1>1, RoomHolds DEF IsText
  <1>3. CASE Held(r)
    <2>1. r.len \in Nat /\ r.free \in Nat /\ r.size \in Nat /\ r.len + r.free + 1 = r.size
      BY <1>2, <1>3, SoundFacts
    <2>2. r.len + Len(x) < r.size
      BY <1>2, <1>3, <2>1
    <2> QED
      BY <1>1, <1>2, <1>3, <2>2, PutText
  <1>4. CASE ~Held(r)
    BY <1>1, <1>2, <1>4, LostHolds
  <1> QED
    BY <1>3, <1>4

LEMMA NewHolds == ASSUME NEW x, IsText(x) PROVE Holds(New(x), x)
  <1> DEFINE n == Len(x)
             d == New(x)
  <1>1. n \in Nat /\ x \in [1..n -> Byte \cup {junk}] /\ x = [i \in 1..n |-> x[i]]
    BY TextIsSeq
  <1>2. /\ d.size = n + 1 /\ d.len = n /\ d.free = 0
        /\ d.buf = [i \in 0..n |-> IF i = n THEN NUL ELSE x[i + 1]]
        /\ d = [size |-> d.size, len |-> d.len, free |-> d.free, buf |-> d.buf]
    BY DEF New
  <1> HIDE DEF n, d
  <1>3. ASSUME NEW i \in 0..n PROVE (IF i = n THEN NUL ELSE x[i + 1]) \in Byte \cup {junk}
    <2>1. CASE i = n
      BY <2>1, YaslAssumption
    <2>2. CASE i # n
      <3>1. i + 1 \in 1..n
        BY <1>1, <2>2
      <3> QED
        BY <1>1, <2>2, <3>1
    <2> QED
      BY <2>1, <2>2
  <1>4. d.buf \in Bytes(d.size)
    <2>1. (n + 1) - 1 = n
      BY <1>1
    <2>2. d.buf \in [0..n -> Byte \cup {junk}]
      BY <1>2, <1>3
    <2> QED
      BY <1>2, <2>1, <2>2 DEF Bytes
  <1>5. d.buf[d.len] = NUL /\ d.len + d.free + 1 = d.size
    BY <1>1, <1>2
  <1>6. TextOf(d) = x
    <2>1. ASSUME NEW i \in 1..n PROVE d.buf[i - 1] = x[i]
      <3>1. i - 1 \in 0..n /\ i - 1 # n /\ (i - 1) + 1 = i
        BY <1>1
      <3> QED
        BY <1>2, <3>1
    <2>2. TextOf(d) = [i \in 1..n |-> x[i]]
      BY <1>2, <2>1 DEF TextOf
    <2> QED
      BY <1>1, <2>2
  <1>7. d.size \in Nat /\ d.len \in Nat /\ d.free \in Nat
    BY <1>1, <1>2
  <1>8. Shaped(d)
    BY <1>2, <1>4, <1>7 DEF Shaped
  <1>9. Holds(d, x)
    BY <1>5, <1>6, <1>8 DEF Holds, Sound
  <1> QED
    BY <1>9 DEF d

\* The text of a string, byte by byte.
LEMMA TextBytes ==
    ASSUME NEW s, NEW t, Holds(s, t), Held(s), IsText(t)
    PROVE  Len(t) = s.len /\ \A i \in 1..s.len : t[i] = s.buf[i - 1] /\ s.buf[i - 1] \in Byte
  <1>1. s.len \in Nat /\ t = TextOf(s)
    BY SoundFacts
  <1>2. DOMAIN t = 1..s.len /\ DOMAIN t = 1..Len(t) /\ Len(t) \in Nat
    BY <1>1 DEF TextOf, IsText
  <1>3. Len(t) = s.len
    BY <1>1, <1>2
  <1>4. \A i \in 1..s.len : t[i] = s.buf[i - 1]
    BY <1>1 DEF TextOf
  <1>5. \A i \in 1..Len(t) : t[i] \in Byte
    BY DEF IsText
  <1> QED
    BY <1>3, <1>4, <1>5

\* Cutting a text.
LEMMA Cut ==
    ASSUME NEW t, IsText(t), NEW first \in Nat, NEW k \in Nat, first + k <= Len(t)
    PROVE  /\ IsText(SubSeq(t, first + 1, first + k))
           /\ SubSeq(t, first + 1, first + k) = [i \in 1..k |-> t[first + i]]
  <1> DEFINE y == SubSeq(t, first + 1, first + k)
  <1>1. y \in Seq(Byte) /\ Len(y) = k
    BY DEF IsText
  <1>2. ASSUME NEW i \in 1..k PROVE y[i] = t[first + i]
    BY DEF IsText
  <1> HIDE DEF y
  <1>3. IsText(y)
    BY <1>1 DEF IsText
  <1>4. y = [i \in 1..k |-> y[i]]
    BY <1>1, <1>3, TextIsSeq
  <1>5. y = [i \in 1..k |-> t[first + i]]
    BY <1>2, <1>4
  <1> QED
    BY <1>3, <1>5 DEF y

\* Ending a string inside its text cuts the text.
LEMMA EndsCuts ==
    ASSUME NEW s, NEW t, Holds(s, t), Held(s), IsText(t), NEW n \in Nat, n <= s.len
    PROVE  Holds(Ends(s, n), SubSeq(t, 1, n)) /\ IsText(SubSeq(t, 1, n))
  <1>1. /\ s.size \in Nat /\ s.len \in Nat /\ s.free \in Nat /\ s.len + s.free + 1 = s.size
        /\ Shaped(s)
    BY SoundFacts DEF Holds, Sound
  <1>2. n < s.size
    BY <1>1
  <1>3. Holds(Ends(s, n), [i \in 1..n |-> s.buf[i - 1]])
    BY <1>1, <1>2, EndsHolds
  <1>4. Len(t) = s.len /\ \A i \in 1..s.len : t[i] = s.buf[i - 1]
    BY TextBytes
  <1>5. IsText(SubSeq(t, 0 + 1, 0 + n)) /\ SubSeq(t, 0 + 1, 0 + n) = [i \in 1..n |-> t[0 + i]]
    <2>1. 0 \in Nat /\ 0 + n <= Len(t)
      BY <1>4
    <2> QED
      BY <2>1, Cut
  <1>6. ASSUME NEW i \in 1..n PROVE t[0 + i] = s.buf[i - 1]
    BY <1>1, <1>4
  <1>7. [i \in 1..n |-> t[0 + i]] = [i \in 1..n |-> s.buf[i - 1]]
    BY <1>6
  <1>8. 0 + 1 = 1 /\ 0 + n = n
    OBVIOUS
  <1> QED
    BY <1>3, <1>5, <1>7, <1>8

\* Moving a stretch of the text to the front keeps that stretch.
LEMMA KeptHolds ==
    ASSUME NEW s, NEW t, Holds(s, t), Held(s), IsText(t),
           NEW first \in Nat, NEW last \in Nat, first <= last, last < s.len
    PROVE  Holds(Kept(s, first, last), SubSeq(t, first + 1, last + 1))
           /\ IsText(SubSeq(t, first + 1, last + 1))
  <1> DEFINE k == last - first + 1
             x == [i \in 1..(last - first + 1) |-> s.buf[first + i - 1]]
  <1>1. /\ s.size \in Nat /\ s.len \in Nat /\ s.free \in Nat /\ s.len + s.free + 1 = s.size
    BY SoundFacts
  <1>2. k \in Nat /\ first + k <= s.len /\ first + k = last + 1 /\ k < s.size
    BY <1>1
  <1>3. Len(t) = s.len /\ \A i \in 1..s.len : t[i] = s.buf[i - 1]
    BY TextBytes
  <1>4. IsText(SubSeq(t, first + 1, first + k))
        /\ SubSeq(t, first + 1, first + k) = [i \in 1..k |-> t[first + i]]
    BY <1>2, <1>3, Cut
  <1>5. ASSUME NEW i \in 1..k PROVE s.buf[first + i - 1] = t[first + i]
    BY <1>2, <1>3
  <1>6. x = [i \in 1..k |-> t[first + i]]
    BY <1>5
  <1>7. x = SubSeq(t, first + 1, last + 1) /\ IsText(x)
    BY <1>2, <1>4, <1>6
  <1>8. Kept(s, first, last) = Put(s, 0, x)
    BY DEF Kept
  <1>9. Len(x) = k
    BY <1>2, <1>4, <1>6 DEF IsText
  <1> HIDE DEF x, k
  <1>10. Holds(Put(s, 0, x), x)
    BY <1>2, <1>7, <1>9, PutText
  <1> QED
    BY <1>7, <1>8, <1>10

----------------------------------------------------------------------------
(* Every operation keeps the invariant.                                    *)

LEMMA InvFacts ==
    ASSUME StringInv
    PROVE  Holds(str, text) /\ IsText(text) /\ fmt \in Text \cup {<<>>} /\ buflen \in Nat
           /\ (Held(str) => str.len \in Nat /\ str.free \in Nat /\ str.size \in Nat
                            /\ str.len + str.free + 1 = str.size /\ Len(text) = str.len)
  BY SoundFacts, TextBytes DEF StringInv, TypeOK

LEMMA TextsAreTexts == (\A x \in Text : IsText(x)) /\ (\A x \in Text \cup {<<>>} : IsText(x))
  <1>1. \A x \in Text : IsText(x)
    BY YaslAssumption DEF IsText
  <1>2. IsText(<<>>)
    BY DEF IsText
  <1> QED
    BY <1>1, <1>2

\* A call that leaves a string that holds its text keeps the invariant.
LEMMA CallKeeps ==
    ASSUME StringInv, Holds(str, text)', IsText(text)', buflen = 0, UNCHANGED <<fmt, buflen>>
    PROVE  StringInv'
  BY DEF StringInv, TypeOK, Holds, Sound, Shaped, IsText

LEMMA StepKeeps ==
    ASSUME Holds(str, text)', IsText(text)', fmt' \in Text \cup {<<>>}, buflen' \in Nat,
           buflen' > 0 => Held(str)' /\ buflen' >= FirstBuflen
    PROVE  StringInv'
  BY DEF StringInv, TypeOK, Holds, Sound, Shaped, IsText

LEMMA InitStringInv == Init => StringInv
  <1> SUFFICES ASSUME Init PROVE StringInv
    OBVIOUS
  <1>1. Holds(NULL, text)
    BY NullHolds
  <1>2. IsText(text)
    BY DEF Init, IsText
  <1>3. Shaped(NULL)
    BY YaslAssumption DEF NULL, Shaped, Bytes
  <1> QED
    BY <1>1, <1>2, <1>3 DEF Init, StringInv, TypeOK, Shaped, IsText

\* Operations that make, give up or leave the text.
LEMMA Making ==
    ASSUME StringInv, yaslfree \/ yasldup \/ yaslRemoveFreeSpace
                      \/ (\E x \in Text : yaslnew(x)) \/ (\E n \in 0..MaxLen : yaslMakeRoomFor(n))
    PROVE  StringInv'
  <1>0. Holds(str, text) /\ IsText(text)
    BY InvFacts
  <1>1. CASE yaslfree
    <2>1. Holds(NULL, <<>>) /\ IsText(<<>>)
      BY NullHolds DEF IsText
    <2> QED
      BY <1>1, <2>1, CallKeeps DEF yaslfree, Calls
  <1>2. CASE yasldup
    <2>1. Holds(NULL, text)
      BY NullHolds
    <2>2. Held(str) /\ TextOf(str) = text
      BY <1>0, <1>2 DEF yasldup, Calls, Holds
    <2>3. Holds(New(text), text)
      BY <1>0, NewHolds
    <2>4. Holds(str', text')
      BY <1>2, <2>1, <2>2, <2>3 DEF yasldup
    <2> QED
      BY <1>0, <1>2, <2>4, CallKeeps DEF yasldup, Calls
  <1>3. CASE yaslRemoveFreeSpace
    <2> DEFINE d == [size |-> str.len + 1, len |-> str.len, free |-> 0,
                     buf |-> Realloc(str.buf, str.len + 1)]
    <2>1. /\ Held(str) /\ str.len \in Nat /\ str.free \in Nat /\ str.size \in Nat
          /\ str.len + str.free + 1 = str.size /\ str.buf \in Bytes(str.size)
          /\ str.buf[str.len] = NUL /\ text = TextOf(str)
      BY <1>0, <1>3, SoundFacts DEF yaslRemoveFreeSpace, Calls
    <2>2. /\ d.size = str.len + 1 /\ d.len = str.len /\ d.free = 0
          /\ d.buf = Realloc(str.buf, str.len + 1)
          /\ d = [size |-> d.size, len |-> d.len, free |-> d.free, buf |-> d.buf]
      OBVIOUS
    <2> HIDE DEF d
    <2>3. /\ DOMAIN str.buf = 0..(str.size - 1)
          /\ \A i \in 0..(str.size - 1) : str.buf[i] \in Byte \cup {junk}
      BY <2>1 DEF Bytes
    <2>4. ASSUME NEW i \in 0..((str.len + 1) - 1)
          PROVE  i \in 0..(str.size - 1)
      BY <2>1
    <2>5. /\ d.buf \in Bytes(d.size)
          /\ \A i \in 0..((str.len + 1) - 1) : d.buf[i] = str.buf[i]
      BY <2>2, <2>3, <2>4 DEF Realloc, Bytes
    <2>6. ASSUME NEW i \in 1..str.len PROVE d.buf[i - 1] = str.buf[i - 1]
      <3>1. i - 1 \in 0..((str.len + 1) - 1)
        BY <2>1
      <3> QED
        BY <2>5, <3>1
    <2>7. TextOf(d) = text
      BY <2>1, <2>2, <2>6 DEF TextOf
    <2>8. d.buf[d.len] = NUL /\ d.len + d.free + 1 = d.size
          /\ d.size \in Nat /\ d.len \in Nat /\ d.free \in Nat
      BY <2>1, <2>2, <2>5
    <2>9. Shaped(d)
      BY <2>2, <2>5, <2>8 DEF Shaped
    <2>10. Holds(d, text)
      BY <2>7, <2>8, <2>9 DEF Holds, Sound
    <2>11. str' \in {str, d} /\ text' = text
      BY <1>3 DEF yaslRemoveFreeSpace, d
    <2>12. Holds(str', text') /\ IsText(text')
      BY <1>0, <2>10, <2>11
    <2> QED
      BY <1>3, <2>12, CallKeeps DEF yaslRemoveFreeSpace, Calls
  <1>4. ASSUME NEW x \in Text, yaslnew(x) PROVE StringInv'
    <2>1. IsText(x)
      BY TextsAreTexts
    <2>2. Holds(NULL, x) /\ Holds(New(x), x)
      BY <2>1, NullHolds, NewHolds
    <2>3. Holds(str', text') /\ IsText(text')
      BY <1>4, <2>1, <2>2 DEF yaslnew
    <2> QED
      BY <1>4, <2>3, CallKeeps DEF yaslnew
  <1>5. ASSUME NEW n \in 0..MaxLen, yaslMakeRoomFor(n) PROVE StringInv'
    <2>1. n \in Nat /\ Held(str)
      BY <1>5, YaslAssumption DEF yaslMakeRoomFor, Calls
    <2>2. Holds(str', text') /\ IsText(text')
      BY <1>0, <1>5, <2>1, RoomHolds DEF yaslMakeRoomFor
    <2> QED
      BY <1>5, <2>2, CallKeeps DEF yaslMakeRoomFor, Calls
  <1> QED
    BY <1>1, <1>2, <1>3, <1>4, <1>5

\* Operations that write a text.
LEMMA Writing ==
    ASSUME StringInv, NEW x \in Text, yaslcpylen(x) \/ yaslcatlen(x) \/ yaslIncrLen(x)
    PROVE  StringInv'
  <1>0. /\ Holds(str, text) /\ IsText(text) /\ IsText(x) /\ Len(x) \in Nat /\ Held(str)
        /\ str.len \in Nat /\ str.free \in Nat /\ str.size \in Nat
        /\ str.len + str.free + 1 = str.size /\ IsText(text \o x)
    BY InvFacts, TextsAreTexts, TextIsSeq, PutText DEF yaslcpylen, yaslcatlen, yaslIncrLen, Calls
  <1>n. CASE NoSource /\ (yaslcpylen(x) \/ yaslcatlen(x))
    <2>1. Holds(str', text') /\ IsText(text')
      BY <1>0, <1>n, NullHolds DEF NoSource
    <2> QED
      BY <1>n, <2>1, CallKeeps DEF yaslcpylen, yaslcatlen, Calls
  <1>1. CASE yaslcpylen(x) /\ ~NoSource
    <2>1. PICK d \in IF str.free + str.len < Len(x) THEN MakeRoomFor(str, Len(x) - str.len)
                                                    ELSE {str} :
              str' = IF Held(d) THEN Put(d, 0, x) ELSE d
      BY <1>1 DEF yaslcpylen
    <2>2. Holds(d, text) /\ (Held(d) => Len(x) < d.size)
      <3>1. CASE str.free + str.len < Len(x)
        <4>1. Len(x) - str.len \in Nat /\ d \in MakeRoomFor(str, Len(x) - str.len)
          BY <1>0, <2>1, <3>1
        <4>2. Holds(d, text) /\ (Held(d) => d.free >= Len(x) - str.len /\ d.len = str.len)
          BY <1>0, <4>1, RoomHolds
        <4>3. Held(d) => d.len \in Nat /\ d.free \in Nat /\ d.len + d.free + 1 = d.size
          BY <4>2, SoundFacts
        <4> QED
          BY <1>0, <4>2, <4>3
      <3>2. CASE ~(str.free + str.len < Len(x))
        BY <1>0, <2>1, <3>2
      <3> QED
        BY <3>1, <3>2
    <2>3. Held(d) => Holds(Put(d, 0, x), x)
      BY <1>0, <2>2, PutText
    <2>4. ~Held(d) => Holds(d, x)
      BY <2>2, LostHolds
    <2>5. Holds(str', text') /\ IsText(text')
      BY <1>0, <1>1, <2>1, <2>3, <2>4 DEF yaslcpylen
    <2> QED
      BY <1>1, <2>5, CallKeeps DEF yaslcpylen, Calls
  <1>2. CASE yaslcatlen(x) /\ ~NoSource
    <2>1. Holds(str', text') /\ IsText(text')
      BY <1>0, <1>2, CatHolds DEF yaslcatlen
    <2> QED
      BY <1>2, <2>1, CallKeeps DEF yaslcatlen, Calls
  <1>3. CASE yaslIncrLen(x)
    <2>1. str.len + Len(x) < str.size
      BY <1>0, <1>3 DEF yaslIncrLen
    <2>2. Holds(Put(str, str.len, x), text \o x)
      BY <1>0, <2>1, PutText
    <2>3. Holds(str', text') /\ IsText(text')
      BY <1>0, <1>3, <2>2 DEF yaslIncrLen
    <2> QED
      BY <1>3, <2>3, CallKeeps DEF yaslIncrLen, Calls
  <1> QED
    BY <1>n, <1>1, <1>2, <1>3

\* The first NUL of a text is one place only.
LEMMA OneStrlen ==
    ASSUME NEW x, IsText(x), NEW n \in 0..Len(x), NEW k \in 0..Len(x), IsStrlen(x, n), IsStrlen(x, k)
    PROVE  n = k
  <1>0. Len(x) \in Nat
    BY TextIsSeq
  <1>1. CASE n < k
    <2>1. x[n + 1] = NUL /\ n + 1 \in 1..k
      BY <1>0, <1>1 DEF IsStrlen
    <2> QED
      BY <2>1 DEF IsStrlen
  <1>2. CASE k < n
    <2>1. x[k + 1] = NUL /\ k + 1 \in 1..n
      BY <1>0, <1>2 DEF IsStrlen
    <2> QED
      BY <2>1 DEF IsStrlen
  <1> QED
    BY <1>0, <1>1, <1>2

LEMMA StartInText ==
    ASSUME NEW x \in Int, NEW len \in Nat
    PROVE  FromStart(x, len) \in Nat
  BY DEF FromStart

LEMMA Lengthening ==
    ASSUME StringInv, NEW n \in 0..MaxLen, yaslgrowzero(n)
    PROVE  StringInv'
  <1>0. /\ Holds(str, text) /\ IsText(text) /\ Held(str) /\ n \in Nat
        /\ str.len \in Nat /\ Len(text) = str.len
    BY InvFacts, YaslAssumption DEF yaslgrowzero, Calls
  <1>1. CASE n <= str.len
    BY <1>0, <1>1, CallKeeps DEF yaslgrowzero, Calls
  <1>2. CASE ~(n <= str.len)
    <2> DEFINE x == [i \in 1..(n - str.len) |-> NUL]
    <2>1. n - str.len \in Nat /\ x \in [1..(n - str.len) -> Byte]
      BY <1>0, <1>2, YaslAssumption
    <2>2. IsText(x)
      BY <2>1 DEF IsText
    <2>3. str' \in Cat(str, x) /\ text' = text \o x
      BY <1>0, <1>2 DEF yaslgrowzero
    <2> HIDE DEF x
    <2>4. Holds(str', text') /\ IsText(text')
      BY <1>0, <2>2, <2>3, CatHolds, PutText
    <2> QED
      BY <1>2, <2>4, CallKeeps DEF yaslgrowzero, Calls
  <1> QED
    BY <1>1, <1>2

LEMMA Shortening ==
    ASSUME StringInv,
           \/ yaslclear \/ yaslupdatelen \/ (\E x \in Text : yasltrim(x))
           \/ (\E start, end \in (-MaxLen - 1)..(MaxLen + 1) : yaslrange(start, end))
    PROVE  StringInv'
  <1>0. /\ Holds(str, text) /\ IsText(text) /\ Held(str)
        /\ str.len \in Nat /\ Len(text) = str.len
        /\ \A i \in 1..str.len : text[i] = str.buf[i - 1]
    BY InvFacts, TextBytes DEF yaslclear, yaslupdatelen, yasltrim, yaslrange, Calls
  <1>a. ASSUME NEW n \in Nat, n <= str.len
        PROVE  Holds(Ends(str, n), SubSeq(text, 1, n)) /\ IsText(SubSeq(text, 1, n))
    BY <1>0, <1>a, EndsCuts
  <1>b. SubSeq(text, 1, 0) = <<>> /\ 0 <= str.len /\ 0 \in Nat
    BY <1>0 DEF IsText
  <1>c. Holds(Ends(str, 0), <<>>) /\ IsText(<<>>)
    <2>1. Holds(Ends(str, 0), SubSeq(text, 1, 0)) /\ IsText(SubSeq(text, 1, 0))
      BY <1>a, <1>b
    <2> QED
      BY <1>b, <2>1
  <1>1. CASE yaslclear
    BY <1>1, <1>c, CallKeeps DEF yaslclear, Calls
  <1>2. CASE yaslupdatelen
    <2>1. PICK n \in 0..str.len :
              /\ str.buf[n] = NUL /\ \A i \in 0..(n - 1) : str.buf[i] # NUL
              /\ str' = Ends(str, n)
      BY <1>2 DEF yaslupdatelen
    <2>2. PICK k \in 0..Len(text) : IsStrlen(text, k) /\ text' = SubSeq(text, 1, k)
      BY <1>2 DEF yaslupdatelen
    <2>3. IsStrlen(text, n)
      <3>1. ASSUME NEW i \in 1..n PROVE text[i] # NUL
        <4>1. i - 1 \in 0..(n - 1) /\ i \in 1..str.len
          BY <1>0
        <4> QED
          BY <1>0, <2>1, <4>1
      <3>2. ASSUME n < Len(text) PROVE text[n + 1] = NUL
        <4>1. n + 1 \in 1..str.len /\ (n + 1) - 1 = n
          BY <1>0, <3>2
        <4> QED
          BY <1>0, <2>1, <4>1
      <3> QED
        BY <3>1, <3>2 DEF IsStrlen
    <2>4. n = k
      BY <1>0, <2>2, <2>3, OneStrlen
    <2>5. Holds(str', text') /\ IsText(text')
      BY <1>0, <1>a, <2>1, <2>2, <2>4
    <2> QED
      BY <1>2, <2>5, CallKeeps DEF yaslupdatelen, Calls
  <1>3. ASSUME NEW x \in Text, yasltrim(x) PROVE StringInv'
    <2> DEFINE stay == {i \in 0..(str.len - 1) :
                            str.buf[i] # NUL /\ \A n \in DOMAIN x : x[n] # str.buf[i]}
    <2>1. CASE str' = Ends(str, 0) /\ text' = <<>>
      BY <1>3, <1>c, <2>1, CallKeeps DEF yasltrim, Calls
    <2>2. CASE \E first, last \in stay :
                  /\ \A i \in stay : first <= i /\ i <= last
                  /\ str' = Kept(str, first, last)
                  /\ text' = SubSeq(text, first + 1, last + 1)
      <3>1. PICK first \in stay, last \in stay :
                  /\ \A i \in stay : first <= i /\ i <= last
                  /\ str' = Kept(str, first, last)
                  /\ text' = SubSeq(text, first + 1, last + 1)
        BY <2>2
      <3>2. first \in Nat /\ last \in Nat /\ first <= last /\ last < str.len
        BY <1>0, <3>1
      <3>3. Holds(str', text') /\ IsText(text')
        BY <1>0, <3>1, <3>2, KeptHolds
      <3> QED
        BY <1>3, <3>3, CallKeeps DEF yasltrim, Calls
    <2> QED
      BY <1>3, <2>1, <2>2 DEF yasltrim
  <1>4. ASSUME NEW start \in (-MaxLen - 1)..(MaxLen + 1), NEW end \in (-MaxLen - 1)..(MaxLen + 1),
               yaslrange(start, end)
        PROVE  StringInv'
    <2> DEFINE first == FromStart(start, str.len)
               upto == FromStart(end, str.len)
               last == IF upto >= str.len THEN str.len - 1 ELSE upto
    <2>1. first \in Nat /\ upto \in Nat /\ last \in Int /\ last < str.len
      <3>1. start \in Int /\ end \in Int /\ str.len \in Nat
        BY <1>0, YaslAssumption
      <3>2. first \in Nat /\ upto \in Nat
        BY <3>1, StartInText
      <3> HIDE DEF first, upto
      <3> QED
        BY <3>1, <3>2
    <2>2. /\ str' = IF str.len = 0 THEN str
                    ELSE IF first > last THEN Ends(str, 0) ELSE Kept(str, first, last)
          /\ text' = SubSeq(text, first + 1, last + 1)
      BY <1>4 DEF yaslrange
    <2> HIDE DEF first, last, upto
    <2>3. CASE first > last
      <3>1. text' = <<>>
        BY <1>0, <2>1, <2>2, <2>3 DEF IsText
      <3>2. str.len = 0 => text = <<>>
        BY <1>0 DEF IsText
      <3>3. Holds(str', text') /\ IsText(text')
        BY <1>0, <1>c, <2>2, <2>3, <3>1, <3>2
      <3> QED
        BY <1>4, <3>3, CallKeeps DEF yaslrange, Calls
    <2>4. CASE ~(first > last)
      <3>1. last \in Nat /\ first <= last /\ str.len # 0
        BY <1>0, <2>1, <2>4
      <3>2. Holds(str', text') /\ IsText(text')
        BY <1>0, <2>1, <2>2, <2>4, <3>1, KeptHolds
      <3> QED
        BY <1>4, <3>2, CallKeeps DEF yaslrange, Calls
    <2> QED
      BY <2>3, <2>4
  <1> QED
    BY <1>1, <1>2, <1>3, <1>4

LEMMA Mapping == ASSUME StringInv, NEW f \in Remaps, yaslmapchars(f) PROVE StringInv'
  <1> DEFINE w == [i \in DOMAIN str.buf |-> IF i < str.len THEN f[str.buf[i]] ELSE str.buf[i]]
             d == [str EXCEPT !.buf = w]
             u == [i \in 1..Len(text) |-> f[text[i]]]
  <1>1. /\ Holds(str, text) /\ IsText(text) /\ Held(str) /\ Len(text) = str.len
        /\ \A i \in 1..str.len : text[i] = str.buf[i - 1] /\ str.buf[i - 1] \in Byte
        /\ f \in [Byte -> Byte]
    BY InvFacts, TextBytes, YaslAssumption DEF yaslmapchars, Calls
  <1>2. /\ str.size \in Nat /\ str.len \in Nat /\ str.free \in Nat /\ str.buf \in Bytes(str.size)
        /\ str = [size |-> str.size, len |-> str.len, free |-> str.free, buf |-> str.buf]
        /\ str.len + str.free + 1 = str.size /\ str.buf[str.len] = NUL
    BY <1>1, SoundFacts
  <1>3. DOMAIN str.buf = 0..(str.size - 1) /\ \A i \in 0..(str.size - 1) : str.buf[i] \in Byte \cup {junk}
    BY <1>2 DEF Bytes
  <1>4. ASSUME NEW i \in 0..(str.size - 1), i < str.len PROVE str.buf[i] \in Byte
    <2>1. i + 1 \in 1..str.len /\ (i + 1) - 1 = i
      BY <1>2, <1>4
    <2> QED
      BY <1>1, <2>1
  <1>5. /\ \A i \in 0..(str.size - 1) : w[i] = IF i < str.len THEN f[str.buf[i]] ELSE str.buf[i]
        /\ w \in Bytes(str.size)
    BY <1>1, <1>3, <1>4 DEF Bytes
  <1>6. str' = d /\ text' = u
    BY DEF yaslmapchars
  <1> HIDE DEF w
  <1>7. /\ d.size = str.size /\ d.len = str.len /\ d.free = str.free /\ d.buf = w
        /\ d = [size |-> d.size, len |-> d.len, free |-> d.free, buf |-> d.buf]
    BY <1>2
  <1> HIDE DEF d
  <1>8. d.buf[d.len] = NUL
    <2>1. str.len \in 0..(str.size - 1) /\ ~(str.len < str.len)
      BY <1>2
    <2> QED
      BY <1>2, <1>5, <1>7, <2>1
  <1>9. ASSUME NEW i \in 1..str.len PROVE w[i - 1] = f[text[i]] /\ f[text[i]] \in Byte
    <2>1. i - 1 \in 0..(str.size - 1) /\ i - 1 < str.len
      BY <1>2
    <2> QED
      BY <1>1, <1>5, <2>1
  <1>10. TextOf(d) = u
    BY <1>1, <1>7, <1>9 DEF TextOf
  <1>11. IsText(u)
    <2>1. u \in [1..str.len -> Byte]
      BY <1>1, <1>9
    <2> HIDE DEF u
    <2> QED
      BY <1>2, <2>1 DEF IsText
  <1>12. Shaped(d)
    BY <1>2, <1>5, <1>7 DEF Shaped
  <1>13. Holds(d, u)
    BY <1>2, <1>7, <1>8, <1>10, <1>12 DEF Holds, Sound
  <1>14. Holds(str', text') /\ IsText(text')
    BY <1>6, <1>11, <1>13
  <1> QED
    BY <1>14, CallKeeps DEF yaslmapchars, Calls

\* What was written into the buffer is cut where the formatted text is.
LEMMA WrittenWhole ==
    ASSUME StringInv, buflen > 0, Whole, NEW n \in 0..Len(Written), IsStrlen(Written, n),
           NEW k \in 0..Len(fmt), IsStrlen(fmt, k)
    PROVE  SubSeq(Written, 1, n) = SubSeq(fmt, 1, k) /\ IsText(SubSeq(fmt, 1, k))
  <1> DEFINE m == IF Len(fmt) < buflen THEN Len(fmt) ELSE buflen - 1
             y == SubSeq(fmt, 1, m)
  <1>1. IsText(fmt) /\ buflen \in Nat /\ buflen > 1 /\ Len(fmt) \in Nat
    BY TextsAreTexts, TextIsSeq, YaslAssumption DEF StringInv, TypeOK
  <1>2. m \in Nat /\ m <= Len(fmt) /\ (m = Len(fmt) \/ m = buflen - 1)
    BY <1>1
  <1>3. Written = y
    BY DEF Written
  <1> HIDE DEF m
  <1>4. y \in Seq(Byte) /\ Len(y) = m /\ \A i \in 1..m : y[i] = fmt[i]
    BY <1>1, <1>2 DEF IsText
  <1> HIDE DEF y
  <1>5. n \in 0..m /\ IsStrlen(y, n) /\ (m = buflen - 1 => y[m] = NUL)
    BY <1>3, <1>4 DEF Whole
  <1>6. IsStrlen(fmt, n)
    <2>1. ASSUME NEW i \in 1..n PROVE fmt[i] # NUL
      BY <1>2, <1>4, <1>5 DEF IsStrlen
    <2>2. ASSUME n < Len(fmt) PROVE fmt[n + 1] = NUL
      <3>1. CASE n < m
        BY <1>2, <1>4, <1>5, <3>1 DEF IsStrlen
      <3>2. CASE n = m
        <4>1. m = buflen - 1 /\ m \in 1..n
          BY <1>1, <1>2, <2>2, <3>2
        <4> QED
          BY <1>5, <4>1 DEF IsStrlen
      <3> QED
        BY <1>2, <1>5, <3>1, <3>2
    <2> QED
      BY <2>1, <2>2 DEF IsStrlen
  <1>7. n \in 0..Len(fmt)
    BY <1>1, <1>2, <1>5
  <1>8. n = k
    BY <1>1, <1>6, <1>7, OneStrlen
  <1>9. ASSUME NEW x, IsText(x), n <= Len(x)
        PROVE  SubSeq(x, 1, n) \in Seq(Byte) /\ SubSeq(x, 1, n) = [i \in 1..n |-> x[i]]
    <2>1. 0 \in Nat /\ n \in Nat /\ 0 + n <= Len(x) /\ 0 + 1 = 1 /\ 0 + n = n
      BY <1>9
    <2>2. IsText(SubSeq(x, 0 + 1, 0 + n)) /\ SubSeq(x, 0 + 1, 0 + n) = [i \in 1..n |-> x[0 + i]]
      BY <1>9, <2>1, Cut
    <2>3. [i \in 1..n |-> x[0 + i]] = [i \in 1..n |-> x[i]]
      OBVIOUS
    <2> QED
      BY <2>1, <2>2, <2>3 DEF IsText
  <1>10. SubSeq(fmt, 1, n) \in Seq(Byte) /\ SubSeq(fmt, 1, n) = [i \in 1..n |-> fmt[i]]
    BY <1>1, <1>7, <1>9
  <1>11. SubSeq(y, 1, n) = [i \in 1..n |-> y[i]]
    BY <1>4, <1>5, <1>9 DEF IsText
  <1>12. [i \in 1..n |-> y[i]] = [i \in 1..n |-> fmt[i]]
    BY <1>2, <1>4, <1>5
  <1> QED
    BY <1>3, <1>8, <1>10, <1>11, <1>12 DEF IsText

LEMMA Formatting ==
    ASSUME StringInv, (\E x \in Text : yaslcatvprintf(x)) \/ TryLarger \/ Formatted
    PROVE  StringInv'
  <1>0. Holds(str, text) /\ IsText(text) /\ Holds(NULL, text)
    BY InvFacts, NullHolds
  <1>1. ASSUME NEW x \in Text, yaslcatvprintf(x) PROVE StringInv'
    <2>1. CASE str' = NULL /\ UNCHANGED <<fmt, buflen>>
      BY <1>0, <1>1, <2>1, CallKeeps DEF yaslcatvprintf
    <2>2. CASE buflen' = FirstBuflen /\ fmt' = x /\ UNCHANGED str
      BY <1>0, <1>1, <2>2, YaslAssumption DEF yaslcatvprintf, StringInv, TypeOK, Holds, Sound, Shaped
    <2> QED
      BY <1>1, <2>1, <2>2 DEF yaslcatvprintf
  <1>2. CASE TryLarger
    <2>1. CASE buflen' = 2 * buflen /\ UNCHANGED <<str, fmt>>
      <3>1. buflen' \in Nat /\ buflen' >= FirstBuflen /\ Held(str') /\ fmt' \in Text \cup {<<>>}
        BY <1>2, <2>1, YaslAssumption DEF TryLarger, StringInv, TypeOK
      <3>2. Holds(str', text') /\ IsText(text')
        BY <1>0, <1>2, <2>1 DEF TryLarger
      <3> QED
        BY <3>1, <3>2, StepKeeps
    <2>2. CASE buflen' = 0 /\ fmt' = <<>> /\ str' = NULL
      <3>1. Holds(str', text') /\ IsText(text')
        BY <1>0, <1>2, <2>2 DEF TryLarger
      <3> QED
        BY <2>2, <3>1, StepKeeps
    <2> QED
      BY <1>2, <2>1, <2>2 DEF TryLarger
  <1>3. CASE Formatted
    <2>1. PICK n \in 0..Len(Written) :
              IsStrlen(Written, n) /\ str' \in Cat(str, SubSeq(Written, 1, n))
      BY <1>3 DEF Formatted
    <2>2. PICK k \in 0..Len(fmt) : IsStrlen(fmt, k) /\ text' = text \o SubSeq(fmt, 1, k)
      BY <1>3 DEF Formatted
    <2> DEFINE x == SubSeq(fmt, 1, k)
    <2>3. str' \in Cat(str, x) /\ IsText(x) /\ Held(str)
      BY <1>3, <2>1, <2>2, WrittenWhole DEF Formatted, StringInv, TypeOK
    <2>4. text' = text \o x
      BY <2>2
    <2> HIDE DEF x
    <2>5. Holds(str', text') /\ IsText(text')
      BY <1>0, <2>3, <2>4, CatHolds, PutText
    <2> QED
      BY <1>3, <2>5, StepKeeps DEF Formatted
  <1> QED
    BY <1>1, <1>2, <1>3

THEOREM StringInvariant == Spec => []StringInv
  <1>1. StringInv /\ UNCHANGED vars => StringInv'
    BY DEF StringInv, TypeOK, Holds, Sound, Shaped, Held, TextOf, vars
  <1>2. StringInv /\ Next => StringInv'
    <2> SUFFICES ASSUME StringInv, Next PROVE StringInv'
      OBVIOUS
    <2> QED
      BY Making, Writing, Lengthening, Shortening, Mapping, Formatting DEF Next
  <1> QED
    BY <1>1, <1>2, InitStringInv, PTL DEF Spec

\* Every string has its header, block and bytes, for any bytes, texts and bounds
\* (yasl.h:28-32).
THEOREM StringTypeCorrect == Spec => []TypeOK
  <1>1. StringInv => TypeOK
    BY DEF StringInv
  <1> QED
    BY <1>1, StringInvariant, PTL

\* A string's header tells its block, whatever YASL_MAX_PREALLOC is and whichever
\* allocations fail (yasl.c:672-711).
THEOREM HeaderHolds == Spec => []HeaderTellsBlock
  <1>1. StringInv => HeaderTellsBlock
    BY DEF StringInv, Holds, Sound, HeaderTellsBlock
  <1> QED
    BY <1>1, StringInvariant, PTL

\* A string holds what the operations on it should have left, or was lost as a
\* whole, for texts of any length (yasl.c:96-318, 501-610).
THEOREM TextHolds == Spec => []HoldsItsText
  <1>1. StringInv => HoldsItsText
    BY DEF StringInv, Holds, HoldsItsText
  <1> QED
    BY <1>1, StringInvariant, PTL

----------------------------------------------------------------------------
(* Numbers and joined sequences.                                           *)

\* Induction over sets of numbers.
LEMMA Smallest ==
    ASSUME NEW B, B \subseteq Nat, B # {}
    PROVE  \E n \in B : \A k \in B : n <= k
  <1> DEFINE R == OpToRel(<, Nat)
  <1>1. IsWellFoundedOn(R, Nat)
    BY NatLessThanWellFounded
  <1> HIDE DEF R
  <1>2. PICK n \in B : \A k \in B : ~(<<k, n>> \in R)
    BY <1>1, WFMin
  <1>3. \A k \in B : ~(k < n)
    BY <1>2 DEF R, OpToRel
  <1> QED
    BY <1>3

LEMMA UpwardsFromZero ==
    ASSUME NEW G, 0 \in G, \A n \in Nat : n \in G => n + 1 \in G
    PROVE  \A n \in Nat : n \in G
  <1> DEFINE B == {n \in Nat : n \notin G}
  <1> SUFFICES ASSUME B # {} PROVE FALSE
    OBVIOUS
  <1>1. PICK n \in B : \A k \in B : n <= k
    <2> HIDE DEF B
    <2>1. B \subseteq Nat
      BY DEF B
    <2> QED
      BY <2>1, Smallest
  <1>2. n # 0 /\ n - 1 \in Nat /\ (n - 1) + 1 = n
    OBVIOUS
  <1>3. n - 1 \in G
    BY <1>1, <1>2
  <1> QED
    BY <1>2, <1>3

\* FlattenSeq joins its elements one after the other.
IsFlattening(S, f) ==
    f = [i \in 1..Len(S) |-> IF i = 1 THEN S[i] ELSE f[i - 1] \o S[i]]

LEMMA FlatteningExists ==
    ASSUME NEW S, Len(S) \in Nat
    PROVE  \E f : IsFlattening(S, f)
  <1> DEFINE Is(n, f) == f = [i \in 1..n |-> IF i = 1 THEN S[i] ELSE f[i - 1] \o S[i]]
             G == {n \in Nat : \E f : Is(n, f)}
  <1>1. 0 \in G
    <2> DEFINE f == [i \in 1..0 |-> S[i]]
    <2>1. Is(0, f)
      OBVIOUS
    <2> QED
      BY <2>1
  <1>2. ASSUME NEW n \in Nat, n \in G PROVE n + 1 \in G
    <2>1. PICK f : Is(n, f)
      BY <1>2
    <2> DEFINE g == [i \in 1..(n + 1) |-> IF i = 1 THEN S[i] ELSE f[i - 1] \o S[i]]
    <2>2. ASSUME NEW i \in 1..n PROVE g[i] = f[i]
      <3>1. g[i] = IF i = 1 THEN S[i] ELSE f[i - 1] \o S[i]
        OBVIOUS
      <3>2. f[i] = IF i = 1 THEN S[i] ELSE f[i - 1] \o S[i]
        BY <2>1
      <3> QED
        BY <3>1, <3>2
    <2>3. ASSUME NEW i \in 1..(n + 1) PROVE g[i] = IF i = 1 THEN S[i] ELSE g[i - 1] \o S[i]
      <3>1. CASE i = 1
        BY <3>1
      <3>2. CASE i # 1
        <4>1. i - 1 \in 1..n
          BY <3>2
        <4>2. g[i - 1] = f[i - 1]
          BY <4>1, <2>2
        <4> QED
          BY <3>2, <4>2
      <3> QED
        BY <3>1, <3>2
    <2>4. Is(n + 1, g)
      <3> DEFINE h == [i \in 1..(n + 1) |-> IF i = 1 THEN S[i] ELSE g[i - 1] \o S[i]]
      <3>1. \A i \in 1..(n + 1) : g[i] = h[i]
        BY <2>3
      <3>2. g = h
        BY <3>1
      <3> QED
        BY <3>2
    <2> HIDE DEF Is, g
    <2>5. \E h : Is(n + 1, h)
      BY <2>4
    <2> QED
      BY <2>5
  <1> HIDE DEF G
  <1>3. \A n \in Nat : n \in G => n + 1 \in G
    BY <1>2
  <1>4. Len(S) \in G
    BY <1>1, <1>3, UpwardsFromZero
  <1> QED
    BY <1>4 DEF G, IsFlattening

LEMMA Flattening ==
    ASSUME NEW S, Len(S) \in Nat, Len(S) > 0
    PROVE  \E f : IsFlattening(S, f) /\ FlattenSeq(S) = f[Len(S)]
  <1> DEFINE g == CHOOSE f : IsFlattening(S, f)
  <1>1. IsFlattening(S, g)
    BY FlatteningExists
  <1>2. FlattenSeq(S) = g[Len(S)]
    BY DEF FlattenSeq, IsFlattening
  <1> QED
    BY <1>1, <1>2

LEMMA Joined ==
    ASSUME NEW R, NEW a \in Seq(R), NEW b \in Seq(R)
    PROVE  /\ a \o b \in Seq(R) /\ Len(a \o b) = Len(a) + Len(b)
           /\ \A i \in 1..Len(a) : (a \o b)[i] = a[i]
           /\ \A i \in 1..Len(b) : (a \o b)[Len(a) + i] = b[i]
  OBVIOUS

\* x is the elements of S one after the other, and S[k] ends at place at[k].
Laid(S, x, at) ==
    /\ at \in [0..Len(S) -> Nat] /\ at[0] = 0
    /\ Len(x) = at[Len(S)]
    /\ \A k \in 1..Len(S) :
           /\ at[k] = at[k - 1] + Len(S[k]) /\ at[k] <= Len(x)
           /\ \A j \in 1..Len(S[k]) : x[at[k - 1] + j] = S[k][j]

LEMMA FlattenLaysLong ==
    ASSUME NEW R, NEW S, Len(S) \in Nat, Len(S) > 0,
           \A k \in 1..Len(S) : S[k] \in Seq(R) /\ Len(S[k]) \in Nat
    PROVE  FlattenSeq(S) \in Seq(R) /\ \E at : Laid(S, FlattenSeq(S), at)
  <1> DEFINE N == Len(S)
  <1>0. N \in Nat /\ N > 0 /\ \A k \in 1..N : S[k] \in Seq(R) /\ Len(S[k]) \in Nat
    OBVIOUS
  <1>1. PICK f : IsFlattening(S, f) /\ FlattenSeq(S) = f[N]
    BY Flattening
  <1>2. /\ f[1] = S[1]
        /\ \A n \in Nat : n \in 1..N /\ n + 1 \in 1..N => f[n + 1] = f[n] \o S[n + 1]
    <2>1. \A i \in 1..N : f[i] = IF i = 1 THEN S[i] ELSE f[i - 1] \o S[i]
      BY <1>1 DEF IsFlattening
    <2>2. ASSUME NEW n \in Nat, n \in 1..N, n + 1 \in 1..N PROVE f[n + 1] = f[n] \o S[n + 1]
      <3>1. n + 1 # 1 /\ (n + 1) - 1 = n
        BY <2>2
      <3> QED
        BY <2>1, <2>2, <3>1
    <2>3. f[1] = S[1]
      BY <1>0, <2>1
    <2> HIDE DEF N
    <2> QED
      BY <2>2, <2>3
  <1> DEFINE at == [k \in 0..N |-> IF k = 0 THEN 0 ELSE Len(f[k])]
             Fits(n, k) == /\ at[k - 1] \in Nat /\ at[k] = at[k - 1] + Len(S[k])
                           /\ at[k] <= at[n]
                           /\ \A j \in 1..Len(S[k]) : f[n][at[k - 1] + j] = S[k][j]
             Good(n) == f[n] \in Seq(R) /\ \A k \in 1..n : Fits(n, k)
             G == {n \in Nat : n \in 1..N => Good(n)}
  <1>3. /\ at[0] = 0 /\ \A k \in 1..N : at[k] = Len(f[k])
        /\ \A k \in 1..N : f[k] \in Seq(R) => at[k] \in Nat
    <2>1. /\ at[0] = 0 /\ \A k \in 1..N : at[k] = Len(f[k])
      BY <1>0
    <2>2. \A x \in Seq(R) : Len(x) \in Nat
      OBVIOUS
    <2> HIDE DEF at
    <2> QED
      BY <2>1, <2>2
  <1> HIDE DEF at, N
  <1>4. 0 \in G
    OBVIOUS
  <1>5. ASSUME NEW n \in Nat, n \in G, n + 1 \in 1..N PROVE Good(n + 1)
    <2>2. CASE n = 0
      <3>1. f[1] = S[1] /\ at[1] = Len(S[1]) /\ S[1] \in Seq(R) /\ at[1] \in Nat
        BY <1>0, <1>2, <1>3
      <3>2. Fits(1, 1)
        BY <3>1, <1>3
      <3>3. Good(1)
        BY <3>1, <3>2
      <3> QED
        BY <2>2, <3>3
    <2>3. CASE n \in 1..N
      <3>0. Good(n)
        BY <1>5, <2>3
      <3>1. f[n + 1] = f[n] \o S[n + 1] /\ S[n + 1] \in Seq(R) /\ f[n] \in Seq(R)
            /\ Len(S[n + 1]) \in Nat /\ n \in 1..N
        <4> HIDE DEF Fits
        <4> QED
          BY <1>0, <1>2, <1>5, <2>3, <3>0
      <3>2. /\ f[n + 1] \in Seq(R) /\ Len(f[n + 1]) = Len(f[n]) + Len(S[n + 1])
            /\ \A i \in 1..Len(f[n]) : f[n + 1][i] = f[n][i]
            /\ \A i \in 1..Len(S[n + 1]) : f[n + 1][Len(f[n]) + i] = S[n + 1][i]
        <4> DEFINE u == f[n]
                   v == S[n + 1]
        <4>1. u \in Seq(R) /\ v \in Seq(R) /\ f[n + 1] = u \o v
          BY <3>1
        <4> HIDE DEF u, v
        <4>2. /\ u \o v \in Seq(R) /\ Len(u \o v) = Len(u) + Len(v)
              /\ \A i \in 1..Len(u) : (u \o v)[i] = u[i]
              /\ \A i \in 1..Len(v) : (u \o v)[Len(u) + i] = v[i]
          BY <4>1, Joined
        <4> QED
          BY <4>1, <4>2 DEF u, v
      <3>3. /\ at[n] = Len(f[n]) /\ at[n + 1] = Len(f[n + 1]) /\ at[n] \in Nat
            /\ at[n + 1] = at[n] + Len(S[n + 1]) /\ Len(S[n + 1]) \in Nat
        BY <1>3, <1>5, <3>1, <3>2
      <3>4. ASSUME NEW k \in 1..n PROVE Fits(n + 1, k)
        <4>1. Fits(n, k) /\ Len(S[k]) \in Nat
          <5>1. k \in 1..N
            BY <1>0, <1>5
          <5> HIDE DEF Fits
          <5> QED
            BY <1>0, <3>0, <5>1
        <4>a. /\ at[k - 1] \in Nat /\ Len(S[k]) \in Nat /\ at[k] = at[k - 1] + Len(S[k])
              /\ at[k] <= at[n] /\ at[n] \in Nat
          BY <3>3, <4>1
        <4>2. \A j \in 1..Len(S[k]) : at[k - 1] + j \in 1..Len(f[n])
          BY SMTT(60), <3>3, <4>a
        <4>3. at[k] <= at[n + 1]
          <5> DEFINE a == at[n]
                     l == Len(S[n + 1])
                     b == at[n + 1]
          <5>1. a \in Nat /\ l \in Nat /\ b = a + l
            BY <3>3
          <5> HIDE DEF a, l, b
          <5>2. b \in Nat /\ a <= b
            BY <5>1
          <5> QED
            BY <4>a, <5>2 DEF a, b
        <4> QED
          BY <3>2, <4>1, <4>2, <4>3
      <3>5. Fits(n + 1, n + 1)
        <4>1. (n + 1) - 1 = n
          OBVIOUS
        <4>2. at[n + 1] <= at[n + 1]
          BY <3>3
        <4>3. \A j \in 1..Len(S[n + 1]) : f[n + 1][at[n] + j] = S[n + 1][j]
          BY <3>2, <3>3
        <4> QED
          BY <3>3, <4>1, <4>2, <4>3
      <3>6. \A k \in 1..(n + 1) : k \in 1..n \/ k = n + 1
        OBVIOUS
      <3> HIDE DEF Fits
      <3> QED
        BY <3>2, <3>4, <3>5, <3>6
    <2>4. n = 0 \/ n \in 1..N
      BY <1>0, <1>5
    <2> QED
      BY <2>2, <2>3, <2>4
  <1> HIDE DEF Good
  <1>6. \A n \in Nat : n \in G => n + 1 \in G
    BY <1>5
  <1> HIDE DEF G
  <1>7. N \in G
    BY <1>0, <1>4, <1>6, UpwardsFromZero
  <1>8. Good(N)
    BY <1>0, <1>7 DEF G
  <1>9. \A k \in 0..N : at[k] \in Nat
    BY <1>0, <1>3, <1>8 DEF Good
  <1>10. at \in [0..N -> Nat]
    BY <1>9 DEF at
  <1>11. Laid(S, f[N], at)
    BY <1>0, <1>3, <1>8, <1>10 DEF Good, Laid, N
  <1> QED
    BY <1>1, <1>8, <1>11 DEF Good

LEMMA FlattenLays ==
    ASSUME NEW R, NEW S \in Seq(Seq(R))
    PROVE  FlattenSeq(S) \in Seq(R) /\ \E at : Laid(S, FlattenSeq(S), at)
  <1>1. CASE Len(S) = 0
    <2>1. FlattenSeq(S) = S /\ S = <<>>
      BY <1>1 DEF FlattenSeq
    <2>2. Laid(S, S, [k \in 0..0 |-> 0])
      BY <2>1 DEF Laid
    <2> QED
      BY <2>1, <2>2
  <1>2. CASE Len(S) > 0
    <2>1. Len(S) \in Nat /\ \A k \in 1..Len(S) : S[k] \in Seq(R) /\ Len(S[k]) \in Nat
      OBVIOUS
    <2> QED
      BY <1>2, <2>1, FlattenLaysLong
  <1> QED
    BY <1>1, <1>2

----------------------------------------------------------------------------
(* Steps of the splitter.                                                  *)

SplitBasic == StringInv /\ SplitTypeOK /\ (mode # "idle" => buflen = 0)

\* What stands ahead of the place read to.
LEMMA Ahead ==
    ASSUME SplitTypeOK, NEW n \in Nat, p + n <= Len(line)
    PROVE  /\ C(n) = NUL <=> p + n = Len(line)
           /\ p + n < Len(line) => C(n) = line[p + n + 1] /\ C(n) \in Byte /\ C(n) # NUL
           /\ p \in Nat /\ Len(line) \in Nat /\ p <= Len(line)
  <1>1. line \in Seq(Byte \ {NUL}) /\ p \in 0..Len(line) /\ Len(line) \in Nat
    BY DEF SplitTypeOK
  <1> DEFINE i == p + n + 1
  <1>2. i \in 1..(Len(line) + 1) /\ (i = Len(line) + 1 <=> p + n = Len(line))
    BY <1>1
  <1>3. C(n) = IF i <= Len(line) THEN line[i] ELSE NUL
    <2>1. C(n) = (line \o <<NUL>>)[i]
      BY DEF C
    <2> HIDE DEF i
    <2> QED
      BY <1>1, <1>2, <2>1
  <1>4. i <= Len(line) => line[i] \in Byte /\ line[i] # NUL
    BY <1>1, <1>2
  <1> QED
    BY <1>1, <1>2, <1>3, <1>4

LEMMA Hexadecimal ==
    /\ \A c \in isxdigit : hex_digit_to_int(c) \in 0..15 /\ c # NUL
    /\ \A c, d \in isxdigit : 16 * hex_digit_to_int(c) + hex_digit_to_int(d) \in Byte
  <1>1. \A c \in isxdigit : hex_digit_to_int(c) \in 0..15 /\ c # NUL
    BY SMTT(60), SplitAssumption DEF isxdigit, hex_digit_to_int
  <1>2. \A a, b \in 0..15 : 16 * a + b \in 0..255
    OBVIOUS
  <1> QED
    BY <1>1, <1>2, SplitAssumption

LEMMA EscapeBytes ==
    /\ DOMAIN Escapes = {110, 114, 116, 98, 97}
    /\ Escapes[110] = 10 /\ Escapes[114] = 13 /\ Escapes[116] = 9 /\ Escapes[98] = 8 /\ Escapes[97] = 7
    /\ \A c \in DOMAIN Escapes : Escapes[c] \in Byte
  BY SplitAssumption DEF Escapes

\* What a step within a word does.
LEMMA WordSteps ==
    ASSUME SplitTypeOK, Word \/ Quoted \/ SingleQuoted
    PROVE  \/ \E c \in Byte, n \in 1..4 : p + n <= Len(line) /\ Take(c, n)
           \/ p < Len(line) /\ (Opens("quoted") \/ Opens("single"))
           \/ WordEnds
           \/ Gives("refused")
  <1>0. /\ p \in Nat /\ Len(line) \in Nat /\ p <= Len(line)
        /\ C(0) = NUL <=> p = Len(line)
        /\ p < Len(line) => C(0) \in Byte
    BY Ahead DEF SplitTypeOK
  <1>a. ASSUME NEW c \in Byte, NEW n \in 1..4, p + n <= Len(line), Take(c, n)
        PROVE  \E d \in Byte, m \in 1..4 : p + m <= Len(line) /\ Take(d, m)
    BY <1>a
  <1>1. CASE Word
    <2>1. CASE Take(C(0), 1) /\ C(0) # NUL
      BY <1>0, <1>a, <2>1
    <2> QED
      BY <1>0, <1>1, <2>1, SplitAssumption DEF Word, Quote, Apostrophe
  <1>b. C(0) # NUL => (C(1) = NUL <=> p + 1 = Len(line))
                      /\ (p + 1 < Len(line) => C(1) \in Byte)
    BY <1>0, Ahead
  <1>2. CASE Quoted
    <2>1. CASE IsHex /\ Take(16 * hex_digit_to_int(C(2)) + hex_digit_to_int(C(3)), 4)
      <3>1. C(0) # NUL /\ C(1) # NUL /\ C(2) # NUL /\ C(3) # NUL
        BY <2>1, Hexadecimal, SplitAssumption DEF IsHex, Backslash
      <3>2. p + 2 <= Len(line)
        BY <1>0, <1>b, <3>1
      <3>3. p + 2 # Len(line)
        BY <3>1, <3>2, Ahead
      <3>4. p + 3 # Len(line)
        BY <1>0, <3>1, <3>2, <3>3, Ahead
      <3>5. p + 4 <= Len(line)
        BY <1>0, <3>2, <3>3, <3>4
      <3>6. 16 * hex_digit_to_int(C(2)) + hex_digit_to_int(C(3)) \in Byte
        BY <2>1, Hexadecimal DEF IsHex
      <3> QED
        BY <1>a, <2>1, <3>5, <3>6
    <2>2. CASE /\ ~IsHex /\ C(0) = Backslash /\ C(1) # NUL
               /\ Take(IF C(1) \in DOMAIN Escapes THEN Escapes[C(1)] ELSE C(1), 2)
      <3>1. p + 1 < Len(line) /\ C(1) \in Byte
        BY <1>0, <1>b, <2>2, SplitAssumption DEF Backslash
      <3>2. (IF C(1) \in DOMAIN Escapes THEN Escapes[C(1)] ELSE C(1)) \in Byte
        BY <3>1, EscapeBytes
      <3>3. p + 2 <= Len(line)
        BY <1>0, <3>1
      <3> QED
        BY <1>a, <2>2, <3>2, <3>3
    <2>3. CASE C(0) \notin {Quote, NUL} /\ Take(C(0), 1)
      BY <1>0, <1>a, <2>3
    <2> QED
      BY <1>2, <2>1, <2>2, <2>3 DEF Quoted, Closes
  <1>3. CASE SingleQuoted
    <2>1. CASE C(0) = Backslash /\ C(1) = Apostrophe /\ Take(Apostrophe, 2)
      <3>1. p + 2 <= Len(line) /\ Apostrophe \in Byte
        BY <1>0, <1>b, <2>1, SplitAssumption DEF Backslash, Apostrophe
      <3> QED
        BY <1>a, <2>1, <3>1
    <2>2. CASE C(0) \notin {Apostrophe, NUL} /\ Take(C(0), 1)
      BY <1>0, <1>a, <2>2
    <2> QED
      BY <1>3, <2>1, <2>2 DEF SingleQuoted, Closes
  <1> QED
    BY <1>1, <1>2, <1>3

\* A character is taken; a word ends; it is given up.
LEMMA TakeKeeps ==
    ASSUME SplitBasic, mode # "idle", UNCHANGED <<fmt, buflen>>,
           NEW c \in Byte, NEW n \in Nat, Take(c, n)
    PROVE  StringInv' /\ (Held(str') => Held(str))
  <1>1. StringInv /\ buflen = 0 /\ Holds(str, text) /\ IsText(text)
    BY InvFacts DEF SplitBasic
  <1> DEFINE x == <<c>>
  <1>2. IsText(x) /\ text' = text \o x
    BY <1>1 DEF Take, IsText
  <1>3. str' \in IF Held(str) THEN Cat(str, x) ELSE {str}
    BY DEF Take
  <1> HIDE DEF x
  <1>4. IsText(text')
    BY <1>1, <1>2 DEF IsText
  <1>5. Holds(str', text')
    <2>1. CASE Held(str)
      BY <1>1, <1>2, <1>3, <2>1, CatHolds
    <2>2. CASE ~Held(str)
      BY <1>1, <1>2, <1>3, <2>2, LostHolds
    <2> QED
      BY <2>1, <2>2
  <1> QED
    BY <1>1, <1>3, <1>4, <1>5, CallKeeps

LEMMA EmptyHolds == Holds(NULL, <<>>) /\ IsText(<<>>) /\ ~Held(NULL) /\ Holds(New(<<>>), <<>>)
  <1>1. IsText(<<>>) /\ ~Held(NULL)
    BY DEF IsText, Held, NULL
  <1> QED
    BY <1>1, NullHolds, NewHolds

LEMMA EmptyKeeps ==
    ASSUME SplitBasic, mode # "idle", UNCHANGED <<fmt, buflen>>,
           str' \in {NULL, New(<<>>)}, text' = <<>>
    PROVE  StringInv'
  <1>1. StringInv /\ buflen = 0
    BY DEF SplitBasic
  <1>2. Holds(str', text') /\ IsText(text')
    BY EmptyHolds
  <1> QED
    BY <1>1, <1>2, CallKeeps

\* What joins the vector is the text of the word, or its absence.
LEMMA WordJoins ==
    ASSUME SplitBasic, NEW w, w = IF Held(str) THEN TextOf(str) ELSE lost
    PROVE  w = lost \/ (w = text /\ w \in Seq(Byte))
  BY InvFacts DEF SplitBasic, Holds, IsText

LEMMA SplitStepBasic ==
    ASSUME SplitBasic, SplitStep
    PROVE  SplitBasic'
  <1>0. /\ mode # "idle" /\ UNCHANGED <<line, asked, argv, binary, fmt, buflen>> /\ buflen = 0
        /\ SplitTypeOK /\ mode \notin Over
        /\ mode \in {"blanks", "word", "quoted", "single"}
    BY DEF SplitStep, SkipBlank, StartWord, LineEnds, Word, Quoted, SingleQuoted, In, Over, SplitBasic
  <1>1. p \in Nat /\ Len(line) \in Nat /\ p <= Len(line) /\ line \in Seq(Byte \ {NUL})
    BY <1>0 DEF SplitTypeOK
  <1>2. C(0) = NUL <=> p = Len(line)
    BY <1>0, <1>1, Ahead
  <1>3. CASE SkipBlank
    <2>1. p + 1 <= Len(line) /\ UNCHANGED <<str, text, mode, words>> /\ p' = p + 1
      BY <1>1, <1>2, <1>3, SplitAssumption DEF SkipBlank, isspace
    <2> QED
      BY <1>0, <1>1, <2>1 DEF SplitBasic, SplitTypeOK, StringInv, TypeOK
  <1>4. CASE StartWord
    <2>1. StringInv'
      BY <1>0, <1>4, EmptyKeeps DEF StartWord
    <2>2. SplitTypeOK'
      BY <1>0, <1>1, <1>4 DEF StartWord, SplitTypeOK
    <2> QED
      BY <1>0, <2>1, <2>2 DEF SplitBasic
  <1>5. CASE LineEnds
    BY <1>0, <1>1, <1>5 DEF LineEnds, In, SplitBasic, SplitTypeOK, StringInv, TypeOK
  <1>6. CASE Word \/ Quoted \/ SingleQuoted
    <2>0. mode \in {"word", "quoted", "single"}
      BY <1>6 DEF Word, Quoted, SingleQuoted, In
    <2>1. ASSUME NEW c \in Byte, NEW n \in 1..4, p + n <= Len(line), Take(c, n)
          PROVE  SplitBasic'
      <3>1. StringInv' /\ (Held(str') => Held(str))
        BY <1>0, <2>1, TakeKeeps
      <3>2. p' \in 0..Len(line) /\ UNCHANGED <<mode, words>>
        BY <1>1, <2>1 DEF Take
      <3>3. SplitTypeOK'
        BY <1>0, <2>0, <3>2 DEF SplitTypeOK
      <3> QED
        BY <1>0, <3>1, <3>3 DEF SplitBasic
    <2>2. ASSUME p < Len(line), Opens("quoted") \/ Opens("single") PROVE SplitBasic'
      <3>1. UNCHANGED <<str, text, words>> /\ p' \in 0..Len(line) /\ mode' \in {"quoted", "single"}
        BY <1>1, <2>2 DEF Opens
      <3> QED
        BY <1>0, <2>0, <3>1 DEF SplitBasic, SplitTypeOK, StringInv, TypeOK
    <2>3. ASSUME NEW m \in {"refused", "noMemory"}, Gives(m) PROVE SplitBasic'
      <3>1. StringInv'
        BY <1>0, <2>3, EmptyKeeps DEF Gives
      <3>2. SplitTypeOK'
        BY <1>0, <1>1, <2>3, EmptyHolds DEF Gives, SplitTypeOK, Over
      <3> QED
        BY <1>0, <3>1, <3>2 DEF SplitBasic
    <2>4. ASSUME words' = Append(words, IF Held(str) THEN TextOf(str) ELSE lost),
                 str' = NULL, text' = <<>>, mode' = "blanks",
                 p' = IF C(0) = NUL THEN p ELSE p + 1
          PROVE  SplitBasic'
      <3>1. StringInv'
        BY <1>0, <2>4, EmptyKeeps
      <3> DEFINE w == IF Held(str) THEN TextOf(str) ELSE lost
      <3>2. w = lost \/ w \in Seq(Byte)
        BY WordJoins
      <3>3. p' \in 0..Len(line)
        BY <1>1, <1>2, <2>4
      <3>4. words' = Append(words, w)
        BY <2>4
      <3> HIDE DEF w
      <3>5. words' \in Seq(Seq(Byte) \union {lost})
        <4> DEFINE R == Seq(Byte) \union {lost}
        <4>1. words \in Seq(R) /\ w \in R
          BY <1>0, <3>2 DEF SplitTypeOK
        <4> HIDE DEF R
        <4>2. Append(words, w) \in Seq(R)
          BY <4>1
        <4> QED
          BY <3>4, <4>2 DEF R
      <3>6. SplitTypeOK'
        BY <1>0, <2>4, <3>3, <3>5, EmptyHolds DEF SplitTypeOK
      <3> QED
        BY <1>0, <3>1, <3>6 DEF SplitBasic
    <2> QED
      BY <1>0, <1>6, <2>1, <2>2, <2>3, <2>4, WordSteps DEF WordEnds
  <1> QED
    BY <1>3, <1>4, <1>5, <1>6 DEF SplitStep

\* An argument is a word up to its first NUL.
LEMMA CutAtNul ==
    ASSUME NEW w \in Seq(Byte), w # Placeholder
    PROVE  /\ IsPrefix(ToRecipient(w), w)
           /\ Len(ToRecipient(w)) < Len(w) => w[Len(ToRecipient(w)) + 1] = NUL
           /\ ToRecipient(w) \in Seq(Byte \ {NUL})
           /\ \E n \in 0..Len(w) : ToRecipient(w) = SubSeq(w, 1, n)
  <1> DEFINE nuls == {i \in 0..Len(w) : i < Len(w) => w[i + 1] = NUL}
             n == CHOOSE i \in 0..Len(w) : IsStrlen(w, i)
             a == SubSeq(w, 1, n)
  <1>0. Len(w) \in Nat
    OBVIOUS
  <1>1. \E i \in 0..Len(w) : IsStrlen(w, i)
    <2>1. nuls \subseteq Nat /\ Len(w) \in nuls
      BY <1>0
    <2>2. PICK i \in nuls : \A k \in nuls : i <= k
      <3> HIDE DEF nuls
      <3> QED
        BY <2>1, Smallest
    <2>3. ASSUME NEW j \in 1..i PROVE w[j] # NUL
      <3>1. j - 1 \in 0..Len(w) /\ j - 1 < Len(w) /\ (j - 1) + 1 = j /\ ~(i <= j - 1)
        BY <1>0, <2>2
      <3> QED
        BY <2>2, <3>1
    <2> QED
      BY <2>2, <2>3 DEF IsStrlen
  <1>2. n \in 0..Len(w) /\ IsStrlen(w, n)
    BY <1>1
  <1>3. ToRecipient(w) = a
    BY DEF ToRecipient
  <1> HIDE DEF n
  <1>4. Len(a) = n /\ SubSeq(a, 1, n) = a /\ a \in Seq(Byte) /\ \A i \in 1..n : a[i] = w[i]
    BY <1>0, <1>2
  <1>5. a \in Seq(Byte \ {NUL})
    <2>1. \A i \in 1..Len(a) : a[i] \in Byte \ {NUL}
      BY <1>0, <1>2, <1>4 DEF IsStrlen
    <2> HIDE DEF a
    <2> QED
      BY <1>4, <2>1
  <1> QED
    BY <1>0, <1>2, <1>3, <1>4, <1>5 DEF IsPrefix, IsStrlen

LEMMA WholeIsPart ==
    ASSUME NEW w \in Seq(Byte)
    PROVE  \E k \in 0..Len(w) : w = SubSeq(w, 1, k)
  <1>1. Len(w) \in 0..Len(w)
    OBVIOUS
  <1>2. w = SubSeq(w, 1, Len(w))
    OBVIOUS
  <1> QED
    BY <1>1, <1>2, Zenon

LEMMA Arguments ==
    ASSUME NEW w \in Seq(Byte)
    PROVE  ToRecipient(w) \in Seq(Byte \ {NUL})
  <1>1. CASE w = Placeholder
    BY <1>1, SplitAssumption DEF ToRecipient
  <1>2. CASE w # Placeholder
    BY <1>2, CutAtNul
  <1> QED
    BY <1>1, <1>2

\* A name is its directory and, without slashes, what follows that.
LEMMA Directory ==
    ASSUME NEW S, NEW a \in Seq(S)
    PROVE  /\ BaseName(a) \in Seq(S)
           /\ \A k \in DOMAIN BaseName(a) : BaseName(a)[k] # Slash
           /\ \E n \in 0..Len(a) : (n > 0 => a[n] = Slash) /\ SubSeq(a, 1, n) \o BaseName(a) = a
  <1> DEFINE ends == {i \in 0..Len(a) : \A k \in (i + 1)..Len(a) : a[k] # Slash}
             n == CHOOSE i \in 0..Len(a) : IsLastSlash(a, i)
             b == SubSeq(a, n + 1, Len(a))
  <1>0. Len(a) \in Nat
    OBVIOUS
  <1>1. \E i \in 0..Len(a) : IsLastSlash(a, i)
    <2>1. ends \subseteq Nat /\ Len(a) \in ends
      BY <1>0
    <2>2. PICK i \in ends : \A k \in ends : i <= k
      <3> HIDE DEF ends
      <3> QED
        BY <2>1, Smallest
    <2>3. ASSUME i > 0, a[i] # Slash PROVE FALSE
      <3>1. i - 1 \in 0..Len(a) /\ ~(i <= i - 1) /\ (i - 1) + 1 = i
        BY <1>0, <2>2, <2>3
      <3>2. ASSUME NEW k \in i..Len(a) PROVE a[k] # Slash
        <4>1. k = i \/ k \in (i + 1)..Len(a)
          BY <1>0, <2>2
        <4> QED
          BY <2>2, <2>3, <4>1
      <3> QED
        BY <2>2, <3>1, <3>2
    <2> QED
      BY <2>2, <2>3 DEF IsLastSlash
  <1>2. n \in 0..Len(a) /\ IsLastSlash(a, n)
    BY <1>1
  <1>3. BaseName(a) = SubSeq(a, 1 + n, Len(a))
    BY DEF BaseName
  <1> HIDE DEF n
  <1>4. b \in Seq(S) /\ Len(b) = Len(a) - n /\ \A k \in 1..Len(b) : b[k] = a[n + k]
    BY <1>0, <1>2
  <1>5. \A k \in 1..Len(b) : n + k \in (n + 1)..Len(a)
    BY <1>0, <1>2, <1>4
  <1>6. \A k \in DOMAIN b : b[k] # Slash
    BY <1>2, <1>4, <1>5 DEF IsLastSlash
  <1>7. BaseName(a) = b
    <2>1. 1 + n = n + 1
      BY <1>0, <1>2
    <2> QED
      BY <1>3, <2>1
  <1>8. SubSeq(a, 1, n) \o b = a
    <2> DEFINE d == SubSeq(a, 1, n)
    <2>1. d \in Seq(S) /\ Len(d) = n /\ \A k \in 1..n : d[k] = a[k]
      BY <1>0, <1>2
    <2> HIDE DEF d, b
    <2> DEFINE x == d \o b
    <2>2. /\ x \in Seq(S) /\ Len(x) = Len(d) + Len(b)
          /\ \A k \in 1..Len(d) : x[k] = d[k]
          /\ \A k \in 1..Len(b) : x[Len(d) + k] = b[k]
      BY <1>4, <2>1, Joined
    <2> HIDE DEF x
    <2>3. Len(x) = Len(a)
      BY <1>0, <1>2, <1>4, <2>1, <2>2
    <2>4. ASSUME NEW k \in 1..Len(a) PROVE x[k] = a[k]
      <3>1. CASE k <= n
        BY <1>0, <1>2, <2>1, <2>2, <3>1
      <3>2. CASE k > n
        <4>1. k - n \in 1..Len(b) /\ n + (k - n) = k
          BY <1>0, <1>2, <1>4, <3>2
        <4> QED
          BY <1>4, <2>1, <2>2, <4>1
      <3> QED
        BY <1>0, <1>2, <3>1, <3>2
    <2>5. x = a
      BY <2>2, <2>3, <2>4
    <2> QED
      BY <2>5 DEF x, d
  <1> QED
    BY <1>2, <1>6, <1>7, <1>8, <1>4 DEF IsLastSlash

LEMMA LostIsNoWord == lost \notin Seq(Byte)
  <1> SUFFICES ASSUME lost \in Seq(Byte) PROVE FALSE
    OBVIOUS
  <1>1. Len(lost) = 1 /\ lost[1] = junk
    BY DEF lost
  <1> HIDE DEF lost
  <1>2. lost[1] \in Byte
    BY <1>1
  <1> QED
    BY <1>1, <1>2, YaslAssumption

\* The words execv comes to are the first ones.
Reached(v) == {i \in DOMAIN v : \A j \in 1..i : v[j] # lost}

LEMMA FirstWords ==
    ASSUME NEW v \in Seq(Seq(Byte) \union {lost})
    PROVE  \E m \in 0..Len(v) : Reached(v) = 1..m /\ \A i \in 1..m : v[i] \in Seq(Byte)
  <1> DEFINE gone == {k \in 1..(Len(v) + 1) : k = Len(v) + 1 \/ v[k] = lost}
  <1>0. Len(v) \in Nat /\ DOMAIN v = 1..Len(v)
    OBVIOUS
  <1>1. gone \subseteq Nat /\ Len(v) + 1 \in gone
    BY <1>0
  <1>2. PICK k \in gone : \A j \in gone : k <= j
    <2> HIDE DEF gone
    <2> QED
      BY <1>1, Smallest
  <1>3. k - 1 \in 0..Len(v) /\ k \in 1..(Len(v) + 1)
    BY <1>0, <1>2
  <1>4. ASSUME NEW i \in 1..(k - 1) PROVE i \in DOMAIN v /\ v[i] # lost
    <2>1. i \in 1..Len(v) /\ ~(k <= i)
      BY <1>0, <1>3
    <2> QED
      BY <1>0, <1>2, <2>1
  <1>5. ASSUME NEW i \in Reached(v) PROVE i \in 1..(k - 1)
    <2>1. i \in 1..Len(v) /\ \A j \in 1..i : v[j] # lost
      BY <1>0 DEF Reached
    <2>2. CASE k <= i
      <3>1. k \in 1..i /\ k # Len(v) + 1
        BY <1>0, <1>3, <2>1, <2>2
      <3> QED
        BY <1>2, <2>1, <3>1
    <2> QED
      BY <1>3, <2>1, <2>2
  <1>6. ASSUME NEW i \in 1..(k - 1) PROVE i \in Reached(v)
    <2>1. \A j \in 1..i : j \in 1..(k - 1)
      BY <1>3
    <2> QED
      BY <1>4, <2>1 DEF Reached
  <1>7. \A i \in 1..(k - 1) : v[i] \in Seq(Byte)
    BY <1>4
  <1> QED
    BY <1>3, <1>5, <1>6, <1>7

\* The i-th argument when the words are v.
Argument(v, i) ==
    IF i = 1 \/ (v[1] = Placeholder /\ v[i] = Placeholder) THEN BaseName(ToRecipient(v[i]))
    ELSE ToRecipient(v[i])

\* What execv is given when the words are v: the first ones, none of them lost.
Sends(v, args, bin) ==
    \E m \in Nat \ {0} :
        /\ m <= Len(v) /\ \A i \in 1..m : v[i] \in Seq(Byte)
        /\ args = [i \in 1..m |-> Argument(v, i)]
        /\ bin \in {ToRecipient(v[1]), lost}

LEMMA Sent ==
    ASSUME SplitTypeOK, send_message, mode' = "sent"
    PROVE  /\ Sends(words, argv', binary')
           /\ argv' \in Seq(Seq(Byte \ {NUL})) /\ binary' \in Seq(Byte \ {NUL}) \union {lost}
  <1>1. words \in Seq(Seq(Byte) \union {lost})
    BY DEF SplitTypeOK
  <1>2. PICK m \in 0..Len(words) : Reached(words) = 1..m /\ \A i \in 1..m : words[i] \in Seq(Byte)
    BY <1>1, FirstWords
  <1>3. /\ Reached(words) # {} /\ argv' = [i \in Reached(words) |-> Argument(words, i)]
        /\ binary' \in {ToRecipient(words[1]), lost}
    BY DEF send_message, Reached, Argument
  <1>4. m \in Nat \ {0} /\ m <= Len(words) /\ 1 \in 1..m
    BY <1>1, <1>2, <1>3
  <1>5. ASSUME NEW i \in 1..m
        PROVE  ToRecipient(words[i]) \in Seq(Byte \ {NUL}) /\ Argument(words, i) \in Seq(Byte \ {NUL})
    <2>1. ToRecipient(words[i]) \in Seq(Byte \ {NUL})
      BY <1>2, Arguments
    <2>2. BaseName(ToRecipient(words[i])) \in Seq(Byte \ {NUL})
      BY <2>1, Directory
    <2> QED
      BY <2>1, <2>2 DEF Argument
  <1>6. argv' \in Seq(Seq(Byte \ {NUL}))
    <2>1. argv' = [i \in 1..m |-> Argument(words, i)]
      BY <1>2, <1>3
    <2> QED
      BY <1>4, <1>5, <2>1
  <1> QED
    BY <1>2, <1>3, <1>4, <1>5, <1>6 DEF Sends

LEMMA SendBasic ==
    ASSUME SplitBasic, send_message
    PROVE  SplitBasic'
  <1>1. /\ UNCHANGED <<str, text, fmt, buflen, line, asked, p, words>> /\ mode' \in {"crashed", "sent"}
        /\ mode \in {"done", "refused", "noMemory"}
        /\ UNCHANGED <<argv, binary>> \/ mode' = "sent"
    BY DEF send_message, vars
  <1>2. /\ argv' \in Seq(Seq(Byte \ {NUL})) /\ binary' \in Seq(Byte \ {NUL}) \union {lost}
        /\ mode' # "sent" => argv' = <<>> /\ binary' = lost
    BY <1>1, Sent DEF SplitBasic, SplitTypeOK
  <1> QED
    BY <1>1, <1>2 DEF SplitBasic, SplitTypeOK, StringInv, TypeOK, Over

\* The splitting starts with a line and its words.
LEMMA IdleStep ==
    ASSUME StringInv, Next
    PROVE  StringInv'
  BY Making, Writing, Lengthening, Shortening, Mapping, Formatting DEF Next

LEMMA SplitNextBasic ==
    ASSUME SplitBasic, [SplitNext]_<<vars, splitVars>>
    PROVE  SplitBasic'
  <1>1. CASE mode = "idle" /\ Next /\ UNCHANGED splitVars
    <2>1. StringInv'
      BY <1>1, IdleStep DEF SplitBasic
    <2> QED
      BY <1>1, <2>1 DEF SplitBasic, SplitTypeOK, splitVars
  <1>2. CASE UNCHANGED <<vars, splitVars>>
    BY <1>2 DEF SplitBasic, SplitTypeOK, StringInv, TypeOK, Holds, Sound, Shaped, vars, splitVars
  <1> QED
    BY <1>1, <1>2, SplitStepBasic, SendBasic DEF SplitNext

----------------------------------------------------------------------------
(* How a word is written in quotes, and read.                              *)

\* The two ways a word is written, called by the mode that reads it.
Ways == {"quoted", "single"}
Mark(q) == IF q = "quoted" THEN Quote ELSE Apostrophe
Piece(q, c) == IF q = "quoted" THEN Shown(c) ELSE Spared(c)
Pieces(q, x) == [i \in DOMAIN x |-> Piece(q, x[i])]
Inside(q, x) == FlattenSeq(Pieces(q, x))
InQuotes(q, x) == <<Mark(q)>> \o Inside(q, x) \o <<Mark(q)>>
Parts(q, c, b) == [i \in DOMAIN c |-> IF i = Len(c) THEN InQuotes(q, c[i]) ELSE InQuotes(q, c[i]) \o b]

Writable(q, x) ==
    x \in Seq(Byte) /\ (q = "single" => \A k \in DOMAIN x : x[k] \notin {NUL, Backslash})

Chars == Byte \ {NUL}

\* The shapes a character is shown in.
LEMMA ShownShapes ==
    ASSUME NEW c \in Byte
    PROVE  \/ c \in {Backslash, Quote} /\ Shown(c) = <<Backslash, c>>
           \/ \E e \in DOMAIN Escapes : Escapes[e] = c /\ Shown(c) = <<Backslash, e>>
           \/ c \in isprint \ {Backslash, Quote} /\ Shown(c) = <<c>>
           \/ /\ Shown(c) = <<Backslash, 120, HexDigit(c \div 16), HexDigit(c % 16)>>
  <1>1. CASE c \in {Backslash, Quote}
    BY <1>1 DEF Shown
  <1>2. CASE c \notin {Backslash, Quote} /\ \E e \in DOMAIN Escapes : Escapes[e] = c
    <2> DEFINE d == CHOOSE e \in DOMAIN Escapes : Escapes[e] = c
    <2>1. d \in DOMAIN Escapes /\ Escapes[d] = c
      BY <1>2
    <2>2. Shown(c) = <<Backslash, d>>
      BY <1>2 DEF Shown
    <2> HIDE DEF d
    <2> QED
      BY <2>1, <2>2
  <1>3. CASE c \notin {Backslash, Quote} /\ ~ \E e \in DOMAIN Escapes : Escapes[e] = c
    BY <1>3 DEF Shown
  <1> QED
    BY <1>1, <1>2, <1>3

LEMMA HexDigits ==
    /\ \A d \in 0..15 : HexDigit(d) \in isxdigit /\ hex_digit_to_int(HexDigit(d)) = d
    /\ \A c \in Byte : c \div 16 \in 0..15 /\ c % 16 \in 0..15
                         /\ \A d, e \in 0..15 : d = c \div 16 /\ e = c % 16 => 16 * d + e = c
  <1>1. \A d \in 0..15 : HexDigit(d) \in isxdigit /\ hex_digit_to_int(HexDigit(d)) = d
    BY DEF HexDigit, isxdigit, hex_digit_to_int
  <1>2. ASSUME NEW c \in 0..255
        PROVE  /\ c \div 16 \in 0..15 /\ c % 16 \in 0..15
               /\ \A d, e \in 0..15 : d = c \div 16 /\ e = c % 16 => 16 * d + e = c
    <2>1. c \div 16 \in 0..15
      OBVIOUS
    <2>2. c % 16 \in 0..15
      OBVIOUS
    <2>3. ASSUME NEW d \in 0..15, NEW e \in 0..15, d = c \div 16, e = c % 16
          PROVE  16 * d + e = c
      <3>1. c - 16 * (c \div 16) = c % 16
        OBVIOUS
      <3> QED
        BY <2>3, <3>1
    <2> QED
      BY <2>1, <2>2, <2>3
  <1> QED
    BY <1>1, <1>2, SplitAssumption

LEMMA PieceType ==
    ASSUME NEW q \in Ways, NEW c \in Byte, q = "single" => c \notin {NUL, Backslash}
    PROVE  /\ Piece(q, c) \in Seq(Chars) /\ Len(Piece(q, c)) \in 1..4
           /\ Piece(q, c)[1] # Mark(q)
  <1>1. CASE q = "quoted"
    <2>0. Piece(q, c) = Shown(c) /\ Mark(q) = Quote
      BY <1>1 DEF Piece, Mark
    <2>1. CASE c \in {Backslash, Quote} /\ Shown(c) = <<Backslash, c>>
      BY <2>0, <2>1, SplitAssumption DEF Backslash, Quote, Chars
    <2>2. ASSUME NEW e \in DOMAIN Escapes, Escapes[e] = c, Shown(c) = <<Backslash, e>>
          PROVE  /\ Piece(q, c) \in Seq(Chars) /\ Len(Piece(q, c)) \in 1..4
                 /\ Piece(q, c)[1] # Mark(q)
      <3>1. e \in Chars
        BY EscapeBytes, SplitAssumption DEF Chars
      <3> QED
        BY <2>0, <2>2, <3>1, SplitAssumption DEF Backslash, Quote, Chars
    <2>3. CASE c \in isprint \ {Backslash, Quote} /\ Shown(c) = <<c>>
      BY <2>0, <2>3, SplitAssumption DEF isprint, Chars
    <2>4. CASE Shown(c) = <<Backslash, 120, HexDigit(c \div 16), HexDigit(c % 16)>>
      <3> DEFINE g == HexDigit(c \div 16)
                 h == HexDigit(c % 16)
      <3>0. g \in isxdigit /\ h \in isxdigit
        BY HexDigits
      <3>1. g \in Chars /\ h \in Chars /\ 120 \in Chars /\ Backslash \in Chars
        <4> HIDE DEF g, h
        <4> QED
          BY <3>0, SplitAssumption DEF Chars, isxdigit, Backslash
      <3>2. Shown(c) = <<Backslash, 120, g, h>>
        BY <2>4
      <3> HIDE DEF g, h
      <3> QED
        BY <2>0, <3>1, <3>2 DEF Backslash, Quote
    <2> QED
      BY <2>1, <2>2, <2>3, <2>4, ShownShapes
  <1>2. CASE q = "single"
    <2>1. Piece(q, c) = Spared(c) /\ Mark(q) = Apostrophe /\ c \in Chars
      BY <1>2 DEF Piece, Mark, Chars
    <2>2. Backslash \in Chars /\ Backslash # Apostrophe
      BY SplitAssumption DEF Backslash, Apostrophe, Chars
    <2>3. CASE c = Apostrophe
      <3>1. Piece(q, c) = <<Backslash, c>>
        BY <2>1, <2>3 DEF Spared
      <3> QED
        BY <2>1, <2>2, <3>1
    <2>4. CASE c # Apostrophe
      <3>1. Piece(q, c) = <<c>>
        BY <2>1, <2>4 DEF Spared
      <3> QED
        BY <2>1, <2>4, <3>1
    <2> QED
      BY <2>3, <2>4
  <1> QED
    BY <1>1, <1>2 DEF Ways

\* A character that is shown ahead is taken whole.
LEMMA ShownTakes ==
    ASSUME NEW c \in Byte, Quoted, \A j \in 1..Len(Shown(c)) : C(j - 1) = Shown(c)[j]
    PROVE  Take(c, Len(Shown(c)))
  <1>1. CASE c \in {Backslash, Quote} /\ Shown(c) = <<Backslash, c>>
    <2>1. C(1 - 1) = Backslash /\ C(2 - 1) = c /\ Len(Shown(c)) = 2
      BY <1>1
    <2>2. C(0) = Backslash /\ C(1) = c
      BY <2>1
    <2> QED
      BY <1>1, <2>1, <2>2, EscapeBytes, SplitAssumption DEF Quoted, IsHex, Backslash, Quote
  <1>2. ASSUME NEW e \in DOMAIN Escapes, Escapes[e] = c, Shown(c) = <<Backslash, e>>
        PROVE  Take(c, Len(Shown(c)))
    <2>1. C(1 - 1) = Backslash /\ C(2 - 1) = e /\ Len(Shown(c)) = 2
      BY <1>2
    <2>2. C(0) = Backslash /\ C(1) = e
      BY <2>1
    <2> QED
      BY <1>2, <2>1, <2>2, EscapeBytes, SplitAssumption DEF Quoted, IsHex, Backslash, Quote
  <1>3. CASE c \in isprint \ {Backslash, Quote} /\ Shown(c) = <<c>>
    <2>1. C(1 - 1) = c /\ Len(Shown(c)) = 1
      BY <1>3
    <2>2. C(0) = c
      BY <2>1
    <2> QED
      BY <1>3, <2>1, <2>2, SplitAssumption DEF Quoted, IsHex, isprint
  <1>4. CASE Shown(c) = <<Backslash, 120, HexDigit(c \div 16), HexDigit(c % 16)>>
    <2>1. /\ C(1 - 1) = Backslash /\ C(2 - 1) = 120 /\ C(3 - 1) = HexDigit(c \div 16)
          /\ C(4 - 1) = HexDigit(c % 16) /\ Len(Shown(c)) = 4
      BY <1>4
    <2>2. /\ C(0) = Backslash /\ C(1) = 120 /\ C(2) = HexDigit(c \div 16)
          /\ C(3) = HexDigit(c % 16)
      BY <2>1
    <2> DEFINE d == hex_digit_to_int(C(2))
               e == hex_digit_to_int(C(3))
    <2>3. /\ C(2) \in isxdigit /\ C(3) \in isxdigit
          /\ d = c \div 16 /\ e = c % 16 /\ d \in 0..15 /\ e \in 0..15
      BY SMTT(60), <2>2, HexDigits
    <2> HIDE DEF d, e
    <2>4. IsHex /\ 16 * d + e = c
      BY <2>2, <2>3, HexDigits DEF IsHex
    <2>5. Take(16 * d + e, 4)
      BY <2>2, <2>4, SplitAssumption DEF Quoted, Backslash, Quote, d, e
    <2> QED
      BY <2>1, <2>4, <2>5
  <1> QED
    BY <1>1, <1>2, <1>3, <1>4, ShownShapes

LEMMA SparedTakes ==
    ASSUME NEW c \in Chars \ {Backslash}, SingleQuoted,
           \A j \in 1..Len(Spared(c)) : C(j - 1) = Spared(c)[j]
    PROVE  Take(c, Len(Spared(c)))
  <1>1. CASE c = Apostrophe
    <2>1. C(1 - 1) = Backslash /\ C(2 - 1) = c /\ Len(Spared(c)) = 2
      BY <1>1 DEF Spared
    <2>2. C(0) = Backslash /\ C(1) = c
      BY <2>1
    <2>3. Backslash # NUL /\ Backslash # Apostrophe
      BY SplitAssumption DEF Backslash, Apostrophe
    <2>4. C(0) # Apostrophe /\ C(0) # NUL /\ C(1) = Apostrophe
      BY <1>1, <2>2, <2>3
    <2>5. Take(Apostrophe, 2)
      BY <2>2, <2>4 DEF SingleQuoted
    <2> QED
      BY <1>1, <2>1, <2>5
  <1>2. CASE c # Apostrophe
    <2>1. C(1 - 1) = c /\ Len(Spared(c)) = 1
      BY <1>2 DEF Spared
    <2>2. C(0) = c
      BY <2>1
    <2> QED
      BY <1>2, <2>1, <2>2, SplitAssumption DEF SingleQuoted, Backslash, Apostrophe, Chars
  <1> QED
    BY <1>1, <1>2

\* x stands in w in quotes behind place a, and its character m ends at a + 1 + to[m].
Spells(w, a, q, x, to) ==
    /\ to \in [0..Len(x) -> Nat] /\ to[0] = 0
    /\ w[a + 1] = Mark(q) /\ w[a + to[Len(x)] + 2] = Mark(q)
    /\ \A m \in 1..Len(x) :
           /\ to[m] = to[m - 1] + Len(Piece(q, x[m])) /\ to[m] <= to[Len(x)]
           /\ \A j \in 1..Len(Piece(q, x[m])) : w[a + 1 + to[m - 1] + j] = Piece(q, x[m])[j]

\* It does in the line, with nothing but blanks from there to place z; at least
\* one, unless the line ends there.
WordAt(q, x, a, z, to) ==
    /\ Spells(line, a, q, x, to)
    /\ a + to[Len(x)] + 2 <= z /\ (a + to[Len(x)] + 2 = z => z = Len(line))
    /\ \A j \in (a + to[Len(x)] + 3)..z : line[j] \in isspace

\* The line is the words asked for, with blanks between them.
Spelled(q, at) ==
    /\ at \in [0..Len(asked) -> Nat] /\ at[0] = 0 /\ at[Len(asked)] = Len(line)
    /\ \A k \in 1..Len(asked) :
           /\ Writable(q, asked[k]) /\ at[k] <= Len(line)
           /\ \E to : WordAt(q, asked[k], at[k - 1], at[k], to)

LEMMA MarkChars ==
    ASSUME NEW q \in Ways
    PROVE  Mark(q) \in Chars /\ Mark(q) \notin isspace /\ Mark(q) \notin {32, 10, 13, 9, NUL}
  BY SplitAssumption DEF Mark, Chars, Quote, Apostrophe, isspace

LEMMA InQuotesPlaces ==
    ASSUME NEW q \in Ways, NEW x, Writable(q, x)
    PROVE  /\ InQuotes(q, x) \in Seq(Chars)
           /\ \E to : Spells(InQuotes(q, x), 0, q, x, to) /\ Len(InQuotes(q, x)) = to[Len(x)] + 2
  <1>0. x \in Seq(Byte) /\ Len(x) \in Nat /\ DOMAIN x = 1..Len(x)
    BY DEF Writable
  <1>1. \A m \in 1..Len(x) : Piece(q, x[m]) \in Seq(Chars) /\ Len(Piece(q, x[m])) \in Nat
    <2> TAKE m \in 1..Len(x)
    <2>1. x[m] \in Byte /\ (q = "single" => x[m] \notin {NUL, Backslash})
      BY <1>0 DEF Writable
    <2> QED
      BY <2>1, PieceType
  <1>2. /\ Pieces(q, x) \in Seq(Seq(Chars)) /\ Len(Pieces(q, x)) = Len(x)
        /\ \A m \in 1..Len(x) : Pieces(q, x)[m] = Piece(q, x[m])
    BY <1>0, <1>1 DEF Pieces
  <1> DEFINE S == Pieces(q, x)
             v == Inside(q, x)
             mark == Mark(q)
             w == InQuotes(q, x)
  <1>3. v \in Seq(Chars) /\ \E to : Laid(S, v, to)
    <2>1. v = FlattenSeq(S)
      BY DEF Inside
    <2> HIDE DEF S, v
    <2> QED
      BY <1>2, <2>1, FlattenLays DEF S
  <1>4. mark \in Chars /\ w = <<mark>> \o v \o <<mark>>
    BY MarkChars DEF InQuotes
  <1>5. PICK to : Laid(S, v, to)
    BY <1>3
  <1> HIDE DEF v, mark, w
  <1>6. /\ w \in Seq(Chars) /\ Len(w) = Len(v) + 2 /\ w[1] = mark /\ w[Len(v) + 2] = mark
        /\ \A j \in 1..Len(v) : w[1 + j] = v[j]
    BY <1>3, <1>4
  <1>7. /\ to \in [0..Len(x) -> Nat] /\ to[0] = 0 /\ Len(v) = to[Len(x)]
        /\ \A m \in 1..Len(x) : /\ to[m] = to[m - 1] + Len(Piece(q, x[m])) /\ to[m] <= Len(v)
                                /\ \A j \in 1..Len(Piece(q, x[m])) : v[to[m - 1] + j] = Piece(q, x[m])[j]
    <2>1. /\ to \in [0..Len(x) -> Nat] /\ to[0] = 0 /\ Len(v) = to[Len(x)]
          /\ \A m \in 1..Len(x) : /\ to[m] = to[m - 1] + Len(S[m]) /\ to[m] <= Len(v)
                                  /\ \A j \in 1..Len(S[m]) : v[to[m - 1] + j] = S[m][j]
      <3> HIDE DEF S
      <3> QED
        BY <1>2, <1>5 DEF Laid, S
    <2>2. \A m \in 1..Len(x) : S[m] = Piece(q, x[m])
      BY <1>2
    <2> HIDE DEF S
    <2> QED
      BY SMTT(60), <2>1, <2>2
  <1>8. ASSUME NEW m \in 1..Len(x), NEW j \in 1..Len(Piece(q, x[m]))
        PROVE  w[0 + 1 + to[m - 1] + j] = Piece(q, x[m])[j]
    <2> DEFINE i == to[m - 1]
               l == Len(Piece(q, x[m]))
               n == i + j
    <2>1. i \in Nat /\ l \in Nat /\ i + l <= Len(v) /\ v[i + j] = Piece(q, x[m])[j] /\ Len(v) \in Nat
      <3>1. m \in 0..Len(x) /\ m - 1 \in 0..Len(x)
        BY <1>0
      <3>2. to[m] = i + l /\ to[m] <= Len(v) /\ v[i + j] = Piece(q, x[m])[j]
        BY <1>7
      <3>3. to[m] \in Nat /\ i \in Nat
        BY <1>7, <3>1
      <3>4. l \in Nat /\ Len(v) \in Nat
        BY <1>1, <1>3
      <3> QED
        BY <3>2, <3>3, <3>4
    <2> HIDE DEF i
    <2>2. n \in 1..Len(v) /\ 0 + 1 + i + j = 1 + n /\ v[n] = Piece(q, x[m])[j]
      BY <2>1
    <2> HIDE DEF n
    <2>3. w[1 + n] = Piece(q, x[m])[j]
      BY <1>6, <2>2
    <2> QED
      BY <2>2, <2>3 DEF i
  <1>9. 0 + to[Len(x)] + 2 = Len(v) + 2 /\ 0 + 1 = 1
    BY <1>0, <1>3, <1>7
  <1>10. Spells(w, 0, q, x, to)
    BY <1>6, <1>7, <1>8, <1>9 DEF Spells, mark
  <1> QED
    BY <1>6, <1>7, <1>10 DEF w

LEMMA PartPlaces ==
    ASSUME NEW q \in Ways, NEW c, Len(c) \in Nat, DOMAIN c = 1..Len(c),
           \A k \in 1..Len(c) : Writable(q, c[k]), NEW b \in Gaps
    PROVE  /\ Parts(q, c, b) \in Seq(Seq(Chars)) /\ Len(Parts(q, c, b)) = Len(c)
           /\ \A k \in 1..Len(c) : Parts(q, c, b)[k] = IF k = Len(c) THEN InQuotes(q, c[k])
                                                       ELSE InQuotes(q, c[k]) \o b
  <1>1. b \in Seq(Chars)
    <2>1. b \in Seq(isspace) /\ isspace \subseteq Chars
      BY SplitAssumption DEF isspace, Chars
    <2> QED
      BY <2>1
  <1>2. \A k \in 1..Len(c) : InQuotes(q, c[k]) \in Seq(Chars)
    BY InQuotesPlaces
  <1>3. \A k \in 1..Len(c) : InQuotes(q, c[k]) \o b \in Seq(Chars)
    BY <1>1, <1>2, Joined
  <1> QED
    BY <1>2, <1>3 DEF Parts

\* A word among the parts of the line.
LEMMA WordPlaces ==
    ASSUME NEW q \in Ways, NEW x, Writable(q, x), NEW b \in Gaps, line \in Seq(Chars),
           NEW a \in Nat, NEW z \in Nat, NEW w, z <= Len(line), z = a + Len(w),
           \/ w = InQuotes(q, x) /\ z = Len(line)
           \/ w = InQuotes(q, x) \o b,
           \A j \in 1..Len(w) : line[a + j] = w[j]
    PROVE  \E to : WordAt(q, x, a, z, to)
  <1> DEFINE v == InQuotes(q, x)
  <1>1. v \in Seq(Chars)
    BY InQuotesPlaces
  <1>2. PICK to : Spells(v, 0, q, x, to) /\ Len(v) = to[Len(x)] + 2
    BY InQuotesPlaces
  <1>3. b \in Seq(isspace) /\ Len(b) > 0 /\ Len(b) \in Nat /\ b \in Seq(Chars)
    <2>1. b \in Seq(isspace) /\ isspace \subseteq Chars /\ b # <<>>
      BY SplitAssumption DEF isspace, Chars
    <2> QED
      BY <2>1
  <1>4. (w = v /\ z = Len(line)) \/ w = v \o b
    OBVIOUS
  <1> HIDE DEF v
  <1>5. /\ Len(w) \in Nat /\ Len(v) \in Nat /\ Len(v) <= Len(w) /\ \A j \in 1..Len(v) : w[j] = v[j]
        /\ Len(w) = Len(v) => z = Len(line)
        /\ \A j \in (Len(v) + 1)..Len(w) : w[j] \in isspace
    <2>1. CASE w = v /\ z = Len(line)
      BY <1>1, <2>1
    <2>2. CASE w = v \o b
      <3>1. /\ Len(v \o b) = Len(v) + Len(b) /\ Len(v) \in Nat
            /\ \A j \in 1..Len(v) : (v \o b)[j] = v[j]
            /\ \A j \in 1..Len(b) : (v \o b)[Len(v) + j] = b[j]
        BY <1>1, <1>3, Joined
      <3>2. \A j \in 1..Len(b) : b[j] \in isspace
        BY <1>3
      <3>3. \A j \in (Len(v) + 1)..Len(w) : w[j] \in isspace
        <4> TAKE j \in (Len(v) + 1)..Len(w)
        <4> DEFINE i == j - Len(v)
        <4>1. i \in 1..Len(b) /\ j = Len(v) + i
          BY <1>3, <2>2, <3>1
        <4> HIDE DEF i
        <4> QED
          BY <2>2, <3>1, <3>2, <4>1
      <3> QED
        BY <1>3, <2>2, <3>1, <3>3
    <2> QED
      BY <1>4, <2>1, <2>2
  <1> DEFINE n == to[Len(x)]
  <1>6. Len(x) \in Nat /\ n \in Nat /\ Len(v) = n + 2
    BY <1>2 DEF Spells, Writable
  <1>7. \A i \in 1..Len(v) : line[a + i] = v[i]
    BY SMTT(60), <1>5
  <1>8. /\ line[a + 1] = Mark(q) /\ line[a + n + 2] = Mark(q)
    <2>1. v[0 + 1] = Mark(q) /\ v[0 + n + 2] = Mark(q)
      BY <1>2 DEF Spells
    <2> HIDE DEF n
    <2>2. 0 + 1 \in 1..Len(v) /\ 0 + n + 2 \in 1..Len(v) /\ a + (0 + 1) = a + 1 /\ a + (0 + n + 2) = a + n + 2
      BY SMTT(60), <1>6
    <2> QED
      BY <1>7, <2>1, <2>2
  <1>9. ASSUME NEW m \in 1..Len(x), NEW j \in 1..Len(Piece(q, x[m]))
        PROVE  line[a + 1 + to[m - 1] + j] = Piece(q, x[m])[j]
    <2> DEFINE l == Len(Piece(q, x[m]))
               u == to[m - 1]
               i == 0 + 1 + u + j
    <2>0. to[m] = u + l /\ to[m] <= n /\ u \in Nat /\ to[m] \in Nat /\ v[i] = Piece(q, x[m])[j]
      <3>1. to \in [0..Len(x) -> Nat] /\ to[m] = u + l /\ to[m] <= n /\ v[i] = Piece(q, x[m])[j]
        BY <1>2 DEF Spells
      <3>2. m \in 0..Len(x) /\ m - 1 \in 0..Len(x)
        BY <1>6
      <3> QED
        BY <3>1, <3>2
    <2>1. l \in Nat
      <3>1. x[m] \in Byte /\ (q = "single" => x[m] \notin {NUL, Backslash})
        BY DEF Writable
      <3> QED
        BY <3>1, PieceType
    <2>a. j \in 1..l
      OBVIOUS
    <2> HIDE DEF u, n, l
    <2>2. i \in 1..Len(v) /\ a + i = a + 1 + u + j
      BY SMTT(60), <1>6, <2>0, <2>1, <2>a
    <2> HIDE DEF i
    <2>3. line[a + 1 + u + j] = Piece(q, x[m])[j]
      BY <1>7, <2>0, <2>2
    <2> QED
      BY <2>3 DEF u
  <1>10. Spells(line, a, q, x, to)
    BY <1>2, <1>8, <1>9 DEF Spells
  <1>11. a + n + 2 <= z /\ (a + n + 2 = z => z = Len(line))
    <2> HIDE DEF n
    <2> QED
      BY <1>5, <1>6
  <1>12. ASSUME NEW j \in (a + n + 3)..z PROVE line[j] \in isspace
    <2> HIDE DEF n
    <2> DEFINE i == j - a
    <2>1. i \in (Len(v) + 1)..Len(w) /\ i \in 1..Len(w) /\ a + i = j
      BY <1>5, <1>6
    <2> HIDE DEF i
    <2> QED
      BY <1>5, <2>1
  <1> QED
    BY <1>10, <1>11, <1>12 DEF WordAt

LEMMA Spelling ==
    ASSUME asked \in Seq(Seq(Byte)), NEW q \in Ways, NEW b \in Gaps,
           \A k \in DOMAIN asked : Writable(q, asked[k]), line = FlattenSeq(Parts(q, asked, b))
    PROVE  line \in Seq(Chars) /\ \E at : Spelled(q, at)
  <1>0. Len(asked) \in Nat /\ DOMAIN asked = 1..Len(asked) /\ \A k \in 1..Len(asked) : Writable(q, asked[k])
    OBVIOUS
  <1> DEFINE S == Parts(q, asked, b)
  <1>1. /\ S \in Seq(Seq(Chars)) /\ Len(S) = Len(asked)
        /\ \A k \in 1..Len(asked) : S[k] = IF k = Len(asked) THEN InQuotes(q, asked[k])
                                           ELSE InQuotes(q, asked[k]) \o b
    BY <1>0, PartPlaces
  <1> HIDE DEF S
  <1>2. line \in Seq(Chars) /\ \E at : Laid(S, line, at)
    BY <1>1, FlattenLays DEF S
  <1>3. PICK at : Laid(S, line, at)
    BY <1>2
  <1>4. /\ at \in [0..Len(asked) -> Nat] /\ at[0] = 0 /\ Len(line) = at[Len(asked)]
        /\ \A k \in 1..Len(asked) : /\ at[k] = at[k - 1] + Len(S[k]) /\ at[k] <= Len(line)
                                    /\ \A j \in 1..Len(S[k]) : line[at[k - 1] + j] = S[k][j]
    BY <1>1, <1>3 DEF Laid
  <1>5. ASSUME NEW k \in 1..Len(asked)
        PROVE  \E to : WordAt(q, asked[k], at[k - 1], at[k], to)
    <2> DEFINE x == asked[k]
               a == at[k - 1]
               z == at[k]
               w == S[k]
    <2>1. /\ Writable(q, x) /\ a \in Nat /\ z \in Nat /\ z <= Len(line) /\ z = a + Len(w)
          /\ \A j \in 1..Len(w) : line[a + j] = w[j]
          /\ (w = InQuotes(q, x) /\ z = Len(line)) \/ w = InQuotes(q, x) \o b
      <3>1. k \in 0..Len(asked) /\ k - 1 \in 0..Len(asked)
        BY <1>0
      <3>2. a \in Nat /\ z \in Nat /\ z <= Len(line) /\ z = a + Len(w)
            /\ \A j \in 1..Len(w) : line[a + j] = w[j]
        BY <1>4, <3>1
      <3>3. (w = InQuotes(q, x) /\ z = Len(line)) \/ w = InQuotes(q, x) \o b
        <4>1. CASE k = Len(asked)
          BY <1>1, <1>4, <4>1
        <4>2. CASE k # Len(asked)
          BY <1>1, <4>2
        <4> QED
          BY <4>1, <4>2
      <3> QED
        BY <1>0, <3>2, <3>3
    <2> HIDE DEF x, a, z, w
    <2>2. \E to : WordAt(q, x, a, z, to)
      BY <1>2, <2>1, WordPlaces
    <2> QED
      BY <2>2 DEF x, a, z
  <1>6. Spelled(q, at)
    BY <1>0, <1>4, <1>5 DEF Spelled
  <1> QED
    BY <1>2, <1>6

\* How far the line of words asked for is read.
Reading(q, at) ==
    LET k == Len(words)
    IN  /\ k <= Len(asked)
        /\ \A i \in 1..k : words[i] \in {asked[i], lost}
        /\ mode \notin {"idle", "refused"}
        /\ mode = "blanks" => p <= at[k] /\ \A j \in (p + 1)..at[k] : line[j] \in isspace
        /\ mode = "word" => k < Len(asked) /\ p = at[k] /\ text = <<>>
        /\ mode \in Ways =>
               /\ mode = q /\ k < Len(asked)
               /\ \E to : /\ WordAt(q, asked[k + 1], at[k], at[k + 1], to)
                          /\ \E m \in 0..Len(asked[k + 1]) :
                                 p = at[k] + 1 + to[m] /\ text = SubSeq(asked[k + 1], 1, m)
        /\ mode = "done" => k = Len(asked)

Coming == asked # none => \E q, at : q \in Ways /\ Spelled(q, at) /\ Reading(q, at)

LEMMA InputShapes ==
    ASSUME NEW x \in Inputs
    PROVE  /\ x[1] \in Seq(Chars) /\ (x[2] = none \/ x[2] \in Commands)
           /\ x[2] # none =>
                  /\ x[2] \in Seq(Seq(Byte))
                  /\ \E q \in Ways, b \in Gaps :
                         /\ \A k \in DOMAIN x[2] : Writable(q, x[2][k])
                         /\ x[1] = FlattenSeq(Parts(q, x[2], b))
  <1>1. ASSUME NEW c \in Commands, NEW b \in Gaps, NEW q \in Ways, NEW T,
               T = [i \in DOMAIN c |-> InQuotes(q, c[i])],
               \A k \in DOMAIN c : Writable(q, c[k]), x = <<yasljoin(T, b), c>>
        PROVE  /\ x[1] \in Seq(Chars) /\ x[2] \in Commands
               /\ x[2] \in Seq(Seq(Byte))
               /\ \A k \in DOMAIN x[2] : Writable(q, x[2][k])
               /\ x[1] = FlattenSeq(Parts(q, x[2], b))
    <2>1. c \in Seq(Seq(Byte)) /\ Len(c) \in Nat /\ DOMAIN c = 1..Len(c)
      BY SplitAssumption
    <2>2. DOMAIN T = DOMAIN c /\ Len(T) = Len(c) /\ \A i \in DOMAIN c : T[i] = InQuotes(q, c[i])
      BY <1>1, <2>1
    <2>3. [i \in DOMAIN T |-> IF i = Len(T) THEN T[i] ELSE T[i] \o b] = Parts(q, c, b)
      BY <2>2 DEF Parts
    <2>4. yasljoin(T, b) = FlattenSeq(Parts(q, c, b))
      BY <2>3 DEF yasljoin
    <2>5. FlattenSeq(Parts(q, c, b)) \in Seq(Chars)
      BY <1>1, <2>1, PartPlaces, FlattenLays
    <2> QED
      BY <1>1, <2>1, <2>4, <2>5
  <1> DEFINE Doubly == {<<yasljoin([i \in DOMAIN c |-> yaslcatrepr(c[i])], b), c>> :
                            c \in Commands, b \in Gaps}
             Singly == {<<yasljoin([i \in DOMAIN c |-> Single(c[i])], b), c>> :
                            c \in {d \in Commands : Plain(d)}, b \in Gaps}
             Bare == {<<l, none>> : l \in Lines}
  <1>2. CASE x \in Doubly
    <2>1. PICK c \in Commands, b \in Gaps :
              x = <<yasljoin([i \in DOMAIN c |-> yaslcatrepr(c[i])], b), c>>
      BY <1>2
    <2>2. \A y : yaslcatrepr(y) = InQuotes("quoted", y)
      <3> TAKE y
      <3>1. [i \in DOMAIN y |-> Shown(y[i])] = Pieces("quoted", y)
        BY DEF Pieces, Piece
      <3> QED
        BY <3>1 DEF yaslcatrepr, InQuotes, Inside, Mark
    <2> DEFINE T == [i \in DOMAIN c |-> InQuotes("quoted", c[i])]
    <2>3. [i \in DOMAIN c |-> yaslcatrepr(c[i])] = T
      BY <2>2
    <2>4. \A k \in DOMAIN c : Writable("quoted", c[k])
      BY SplitAssumption DEF Writable
    <2>5. x = <<yasljoin(T, b), c>>
      BY <2>1, <2>3
    <2> HIDE DEF T
    <2> QED
      BY <1>1, <2>4, <2>5 DEF T, Ways
  <1>3. CASE x \in Singly
    <2>1. PICK c \in Commands, b \in Gaps :
              Plain(c) /\ x = <<yasljoin([i \in DOMAIN c |-> Single(c[i])], b), c>>
      BY <1>3
    <2>2. \A y : Single(y) = InQuotes("single", y)
      <3> TAKE y
      <3>1. [i \in DOMAIN y |-> Spared(y[i])] = Pieces("single", y)
        BY DEF Pieces, Piece
      <3> QED
        BY <3>1 DEF Single, InQuotes, Inside, Mark
    <2> DEFINE T == [i \in DOMAIN c |-> InQuotes("single", c[i])]
    <2>3. [i \in DOMAIN c |-> Single(c[i])] = T
      BY <2>2
    <2>4. \A k \in DOMAIN c : Writable("single", c[k])
      BY <2>1, SplitAssumption DEF Writable, Plain
    <2>5. x = <<yasljoin(T, b), c>>
      BY <2>1, <2>3
    <2> HIDE DEF T
    <2> QED
      BY <1>1, <2>4, <2>5 DEF T, Ways
  <1>4. CASE x \in Bare
    <2>1. x[1] \in Seq(Chars) /\ x[2] = none
      BY <1>4, SplitAssumption DEF Chars
    <2> QED
      BY <2>1
  <1>5. x \in Doubly \/ x \in Singly \/ x \in Bare
    BY DEF Inputs
  <1> HIDE DEF Doubly, Singly, Bare
  <1> QED
    BY <1>2, <1>3, <1>4, <1>5

LEMMA SplitStarts == SplitInit => SplitBasic /\ Coming
  <1> SUFFICES ASSUME SplitInit PROVE SplitBasic /\ Coming
    OBVIOUS
  <1>1. StringInv /\ buflen = 0 /\ text = <<>> /\ ~Held(str)
    BY InitStringInv, EmptyHolds DEF SplitInit, Init
  <1>2. p = 0 /\ words = <<>> /\ argv = <<>> /\ binary = lost
    BY DEF SplitInit
  <1>3. CASE mode = "idle" /\ line = <<>> /\ asked = none
    BY <1>1, <1>2, <1>3 DEF SplitBasic, SplitTypeOK, Coming
  <1>4. ASSUME mode = "blanks", NEW x \in Inputs, line = x[1], asked = x[2]
        PROVE  SplitBasic /\ Coming
    <2>1. line \in Seq(Chars) /\ (asked = none \/ asked \in Commands)
      BY <1>4, InputShapes
    <2>2. SplitBasic
      BY <1>1, <1>2, <1>4, <2>1 DEF SplitBasic, SplitTypeOK, Chars
    <2>3. ASSUME asked # none PROVE \E q, at : q \in Ways /\ Spelled(q, at) /\ Reading(q, at)
      <3>1. PICK q \in Ways, b \in Gaps :
                 (\A k \in DOMAIN asked : Writable(q, asked[k])) /\ line = FlattenSeq(Parts(q, asked, b))
        BY <1>4, <2>3, InputShapes
      <3>2. asked \in Seq(Seq(Byte))
        BY <1>4, <2>3, InputShapes
      <3>3. PICK at : Spelled(q, at)
        BY <3>1, <3>2, Spelling
      <3>4. Len(words) = 0 /\ at[0] = 0 /\ Len(asked) \in Nat
        BY <1>2, <3>2, <3>3 DEF Spelled
      <3>5. Reading(q, at)
        BY <1>2, <1>4, <3>4 DEF Reading, Ways
      <3> QED
        BY <3>3, <3>5
    <2> QED
      BY <2>2, <2>3 DEF Coming
  <1> QED
    BY <1>3, <1>4 DEF SplitInit

\* The next word, when not all are read.
LEMMA NextWord ==
    ASSUME NEW q \in Ways, NEW at, Spelled(q, at), asked \in Seq(Seq(Byte)), NEW k \in Nat, k < Len(asked)
    PROVE  /\ Len(asked) \in Nat /\ Writable(q, asked[k + 1]) /\ Len(asked[k + 1]) \in Nat
           /\ at[k] \in Nat /\ at[k + 1] \in Nat /\ at[k] < at[k + 1] /\ at[k + 1] <= Len(line)
           /\ line[at[k] + 1] = Mark(q)
           /\ \E to : WordAt(q, asked[k + 1], at[k], at[k + 1], to)
  <1>1. Len(asked) \in Nat /\ k + 1 \in 1..Len(asked) /\ k \in 0..Len(asked) /\ (k + 1) - 1 = k
    BY DEF Spelled
  <1>2. /\ at[k] \in Nat /\ at[k + 1] \in Nat /\ at[k + 1] <= Len(line) /\ Writable(q, asked[k + 1])
    <2>1. at \in [0..Len(asked) -> Nat] /\ \A i \in 1..Len(asked) : Writable(q, asked[i]) /\ at[i] <= Len(line)
      BY DEF Spelled
    <2>2. at[k] \in Nat /\ at[k + 1] \in Nat
      <3>1. k + 1 \in 0..Len(asked)
        BY <1>1
      <3> QED
        BY <1>1, <2>1, <3>1
    <2>3. Writable(q, asked[k + 1]) /\ at[k + 1] <= Len(line)
      BY <1>1, <2>1
    <2> QED
      BY <2>2, <2>3
  <1>3. \E to : WordAt(q, asked[k + 1], at[(k + 1) - 1], at[k + 1], to)
    BY <1>1 DEF Spelled
  <1>4. \E to : WordAt(q, asked[k + 1], at[k], at[k + 1], to)
    BY <1>1, <1>3
  <1>5. PICK to : WordAt(q, asked[k + 1], at[k], at[k + 1], to)
    BY <1>4
  <1> DEFINE x == asked[k + 1]
  <1>6. Len(x) \in Nat
    BY <1>2 DEF Writable
  <1> HIDE DEF x
  <1>7. to \in [0..Len(x) -> Nat] /\ line[at[k] + 1] = Mark(q) /\ at[k] + to[Len(x)] + 2 <= at[k + 1]
    BY <1>5 DEF WordAt, Spells, x
  <1> DEFINE n == to[Len(x)]
  <1>8. n \in Nat
    <2>1. Len(x) \in 0..Len(x)
      BY <1>6
    <2> QED
      BY <1>7, <2>1
  <1> HIDE DEF n
  <1>9. at[k] + n + 2 <= at[k + 1]
    BY <1>7 DEF n
  <1>10. at[k] < at[k + 1]
    BY <1>2, <1>8, <1>9
  <1> QED
    BY <1>1, <1>2, <1>4, <1>6, <1>7, <1>10 DEF x

\* Within a word, either its next character stands ahead, or its closing quote.
LEMMA WordGoesOn ==
    ASSUME NEW q \in Ways, NEW x, Writable(q, x), SplitTypeOK, NEW a \in Nat, NEW z \in Nat, z <= Len(line),
           NEW to, WordAt(q, x, a, z, to), NEW m \in 0..Len(x), p = a + 1 + to[m]
    PROVE  /\ Len(x) \in Nat
           /\ m < Len(x) =>
                  /\ x[m + 1] \in Byte /\ (q = "single" => x[m + 1] \notin {NUL, Backslash})
                  /\ \A j \in 1..Len(Piece(q, x[m + 1])) : C(j - 1) = Piece(q, x[m + 1])[j]
                  /\ p + Len(Piece(q, x[m + 1])) = a + 1 + to[m + 1]
           /\ m = Len(x) =>
                  /\ C(0) = Mark(q) /\ (C(1) = NUL \/ C(1) \in isspace)
                  /\ p + 1 <= z /\ \A j \in (p + 2)..z : line[j] \in isspace
  <1>1. x \in Seq(Byte) /\ Len(x) \in Nat /\ to \in [0..Len(x) -> Nat] /\ to[m] \in Nat
        /\ to[Len(x)] \in Nat /\ Len(line) \in Nat
    <2>1. x \in Seq(Byte) /\ Len(x) \in Nat
      BY DEF Writable
    <2>2. to \in [0..Len(x) -> Nat]
      BY DEF WordAt, Spells
    <2>3. Len(line) \in Nat
      BY DEF SplitTypeOK
    <2> QED
      BY <2>1, <2>2, <2>3
  <1> DEFINE n == to[Len(x)]
  <1>2. CASE m < Len(x)
    <2> DEFINE c == x[m + 1]
               l == Len(Piece(q, c))
               u == to[m]
               v == to[m + 1]
    <2>1. m + 1 \in 1..Len(x) /\ m \in 0..Len(x) /\ (m + 1) - 1 = m
      BY <1>1, <1>2
    <2>2. c \in Byte /\ (q = "single" => c \notin {NUL, Backslash})
      BY <1>1, <2>1 DEF Writable
    <2>3. l \in Nat
      BY <2>2, PieceType
    <2>4. /\ to[m + 1] = to[(m + 1) - 1] + l /\ to[m + 1] <= n
          /\ \A j \in 1..l : line[a + 1 + to[(m + 1) - 1] + j] = Piece(q, c)[j]
      BY <2>1 DEF WordAt, Spells
    <2>5. v = u + l /\ v <= n /\ \A j \in 1..l : line[a + 1 + u + j] = Piece(q, c)[j]
      BY <2>1, <2>4
    <2>6. a + n + 2 <= z
      BY DEF WordAt
    <2>7. u \in Nat /\ v \in Nat /\ n \in Nat /\ p = a + 1 + u
      BY <1>1, <2>1
    <2>8. ASSUME NEW j \in 1..l PROVE C(j - 1) = Piece(q, c)[j]
      <3>a. j \in Nat /\ 1 <= j /\ j <= l
        BY <2>3
      <3> HIDE DEF n, l, u, v
      <3>b. /\ v = u + l /\ v <= n /\ a + n + 2 <= z /\ u \in Nat /\ v \in Nat /\ n \in Nat /\ l \in Nat
            /\ p = a + 1 + u /\ Len(line) \in Nat /\ z <= Len(line)
        BY <1>1, <2>3, <2>5, <2>6, <2>7
      <3>c. u + j <= n /\ a + 1 + u + j < Len(line)
        BY <3>a, <3>b
      <3>d. j - 1 \in Nat /\ p + (j - 1) = a + u + j /\ p \in Nat
        BY <3>a, <3>b
      <3>1. j - 1 \in Nat /\ p + (j - 1) < Len(line) /\ p + (j - 1) + 1 = a + 1 + u + j
        BY <3>a, <3>b, <3>c, <3>d
      <3>2. C(j - 1) = line[p + (j - 1) + 1]
        BY <3>1, Ahead
      <3> QED
        BY <2>5, <3>1, <3>2
    <2>9. p + l = a + 1 + v
      <3> HIDE DEF n, l, u, v
      <3>1. v = u + l /\ u \in Nat /\ v \in Nat /\ l \in Nat /\ p = a + 1 + u
        BY <2>3, <2>5, <2>7
      <3>2. (a + 1 + u) + l = a + 1 + (u + l)
        BY <3>1
      <3> QED
        BY <3>1, <3>2
    <2> QED
      BY <1>1, <1>2, <2>2, <2>8, <2>9
  <1>3. CASE m = Len(x)
    <2>1. /\ line[a + n + 2] = Mark(q) /\ a + n + 2 <= z /\ (a + n + 2 = z => z = Len(line))
          /\ \A j \in (a + n + 3)..z : line[j] \in isspace
      BY DEF WordAt, Spells
    <2>2. n \in Nat /\ p = a + 1 + n
      BY <1>1, <1>3
    <2> HIDE DEF n
    <2>3. p + 0 < Len(line) /\ p + 1 <= Len(line) /\ p + 0 + 1 = a + n + 2 /\ p + 1 + 1 = a + n + 3 /\ p + 2 = a + n + 3
          /\ p + 1 <= z /\ p + 1 = a + n + 2
      <3>1. n \in Nat /\ p = a + 1 + n /\ a + n + 2 <= z /\ z <= Len(line) /\ Len(line) \in Nat
        BY <1>1, <2>1, <2>2
      <3> QED
        BY <3>1
    <2>4. C(0) = Mark(q)
      BY <2>1, <2>3, Ahead
    <2>5. \A j \in (p + 2)..z : line[j] \in isspace
      BY <2>1, <2>3
    <2>6. C(1) = NUL \/ C(1) \in isspace
      <3>1. CASE p + 1 = z
        <4>1. p + 1 = Len(line)
          BY <2>1, <2>3, <3>1
        <4> QED
          BY <2>3, <4>1, Ahead
      <3>2. CASE p + 1 < z
        <4>1. p + 1 < Len(line) /\ p + 1 + 1 \in (p + 2)..z
          BY <1>1, <2>2, <2>3, <3>2
        <4>2. C(1) = line[p + 1 + 1]
          BY <2>3, <4>1, Ahead
        <4> QED
          BY <2>5, <4>1, <4>2
      <3> QED
        BY <2>3, <3>1, <3>2
    <2> QED
      BY <1>1, <1>3, <2>3, <2>4, <2>5, <2>6
  <1> QED
    BY <1>1, <1>2, <1>3

LEMMA ReadingStep ==
    ASSUME SplitBasic, asked \in Seq(Seq(Byte)), NEW q \in Ways, NEW at, Spelled(q, at), Reading(q, at), SplitStep
    PROVE  Reading(q, at)'
  <1> DEFINE k == Len(words)
  <1>1. SplitTypeOK /\ UNCHANGED <<line, asked>> /\ p \in Nat /\ Len(line) \in Nat /\ p <= Len(line)
        /\ words \in Seq(Seq(Byte) \union {lost}) /\ k \in Nat /\ Len(asked) \in Nat
    BY DEF SplitBasic, SplitTypeOK, SplitStep, SkipBlank, StartWord, LineEnds, Word, Quoted, SingleQuoted, In
  <1>2. /\ k <= Len(asked)
        /\ \A i \in 1..k : words[i] \in {asked[i], lost}
        /\ mode = "blanks" => p <= at[k] /\ \A j \in (p + 1)..at[k] : line[j] \in isspace
        /\ mode = "word" => k < Len(asked) /\ p = at[k] /\ text = <<>>
    BY DEF Reading
  <1>3. /\ C(0) = NUL <=> p = Len(line)
        /\ p < Len(line) => C(0) = line[p + 1] /\ C(0) # NUL
    BY <1>1, Ahead
  <1>4. at[k] \in Nat /\ at[k] <= Len(line)
    BY <1>1, <1>2 DEF Spelled
  <1>5. k < Len(asked) => /\ at[k] < Len(line) /\ line[at[k] + 1] = Mark(q) /\ at[k + 1] \in Nat
                          /\ at[k + 1] <= Len(line) /\ Len(asked[k + 1]) \in Nat /\ Writable(q, asked[k + 1])
                          /\ \E to : WordAt(q, asked[k + 1], at[k], at[k + 1], to)
    <2> SUFFICES ASSUME k < Len(asked)
                 PROVE  /\ at[k] < Len(line) /\ line[at[k] + 1] = Mark(q) /\ at[k + 1] \in Nat
                        /\ at[k + 1] <= Len(line) /\ Len(asked[k + 1]) \in Nat /\ Writable(q, asked[k + 1])
                        /\ \E to : WordAt(q, asked[k + 1], at[k], at[k + 1], to)
      OBVIOUS
    <2> HIDE DEF k
    <2>1. /\ Len(asked) \in Nat /\ Writable(q, asked[k + 1]) /\ Len(asked[k + 1]) \in Nat
          /\ at[k] \in Nat /\ at[k + 1] \in Nat /\ at[k] < at[k + 1] /\ at[k + 1] <= Len(line)
          /\ line[at[k] + 1] = Mark(q)
          /\ \E to : WordAt(q, asked[k + 1], at[k], at[k + 1], to)
      BY <1>1, NextWord
    <2>2. at[k] < Len(line)
      BY <1>1, <2>1
    <2> QED
      BY <2>1, <2>2
  <1>6. k = Len(asked) => at[k] = Len(line)
    BY DEF Spelled
  <1>7. Mark(q) \in Chars /\ Mark(q) \notin isspace /\ Mark(q) \notin {32, 10, 13, 9, NUL}
    BY MarkChars
  <1> HIDE DEF k
  <1>8. NUL \notin isspace
    BY SplitAssumption DEF isspace
  <1>9. CASE SkipBlank
    <2>1. mode = "blanks" /\ C(0) \in isspace /\ p' = p + 1 /\ UNCHANGED <<mode, words>>
      BY <1>9 DEF SkipBlank, In
    <2>2. p < Len(line) /\ C(0) = line[p + 1]
      BY <1>1, <1>3, <1>8, <2>1
    <2>3. p # at[k]
      BY <1>1, <1>2, <1>5, <1>6, <1>7, <2>1, <2>2
    <2>4. p' <= at[k] /\ \A j \in (p' + 1)..at[k] : line[j] \in isspace
      <3>1. p \in Nat /\ at[k] \in Nat /\ p <= at[k] /\ p # at[k] /\ p' = p + 1
        BY <1>1, <1>2, <1>4, <2>1, <2>3
      <3>2. p' <= at[k] /\ (p' + 1)..at[k] \subseteq (p + 1)..at[k]
        BY ONLY <3>1
      <3> QED
        BY <1>2, <2>1, <3>2
    <2> QED
      BY <1>1, <1>2, <2>1, <2>4 DEF Reading, k, Ways
  <1>10. CASE StartWord
    <2>1. mode = "blanks" /\ C(0) \notin isspace \union {NUL} /\ UNCHANGED <<p, words>> /\ mode' = "word" /\ text' = <<>>
      BY <1>10 DEF StartWord, In
    <2>2. p < Len(line) /\ C(0) = line[p + 1]
      BY <1>1, <1>3, <2>1
    <2>3. p = at[k]
      <3>1. p + 1 \notin (p + 1)..at[k]
        BY <1>2, <2>1, <2>2
      <3> QED
        BY <1>1, <1>2, <1>4, <2>1, <3>1
    <2>4. k < Len(asked)
      BY <1>1, <1>2, <1>6, <2>2, <2>3
    <2> QED
      BY <1>1, <1>2, <2>1, <2>3, <2>4 DEF Reading, k, Ways
  <1>11. CASE LineEnds
    <2>1. mode = "blanks" /\ C(0) = NUL /\ UNCHANGED <<p, words>> /\ mode' = "done"
      BY <1>11 DEF LineEnds, In
    <2>2. p = at[k] /\ p = Len(line)
      BY <1>1, <1>2, <1>3, <1>4, <2>1
    <2>3. k = Len(asked)
      BY <1>1, <1>2, <1>5, <2>2
    <2> QED
      BY <1>1, <1>2, <2>1, <2>3 DEF Reading, k, Ways
  <1>12. CASE Word
    <2>1. mode = "word" /\ k < Len(asked) /\ p = at[k] /\ text = <<>>
      BY <1>2, <1>12 DEF Word, In
    <2>2. C(0) = Mark(q)
      BY <1>3, <1>4, <1>5, <2>1
    <2>3. Opens(q)
      BY <1>7, <1>12, <2>2 DEF Word, Mark, Ways, Quote, Apostrophe
    <2>4. mode' = q /\ p' = p + 1 /\ UNCHANGED <<text, words>>
      BY <2>3 DEF Opens
    <2>5. PICK to : WordAt(q, asked[k + 1], at[k], at[k + 1], to)
      BY <1>5, <2>1
    <2>6. to[0] = 0
      BY <2>5 DEF WordAt, Spells
    <2>7. 0 \in 0..Len(asked[k + 1]) /\ p' = at[k] + 1 + to[0] /\ text' = SubSeq(asked[k + 1], 1, 0)
      BY <1>4, <1>5, <2>1, <2>4, <2>6
    <2>8. WordAt(q, asked[k + 1], at[k], at[k + 1], to)'
      <3>1. UNCHANGED <<line, asked, words>>
        BY <1>1, <2>4
      <3> QED
        BY <2>5, <3>1 DEF WordAt, Spells, k
    <2> QED
      BY <1>1, <1>2, <2>1, <2>4, <2>7, <2>8 DEF Reading, k, Ways
  <1>13. CASE Quoted \/ SingleQuoted
    <2>0. mode \in Ways
      BY <1>13 DEF Quoted, SingleQuoted, In, Ways
    <2>1. mode = q /\ k < Len(asked)
      BY <2>0 DEF Reading, k
    <2> DEFINE x == asked[k + 1]
               a == at[k]
               z == at[k + 1]
    <2>2. PICK to : WordAt(q, x, a, z, to) /\ \E m \in 0..Len(x) : p = a + 1 + to[m] /\ text = SubSeq(x, 1, m)
      BY <2>0 DEF Reading, k
    <2>3. PICK m \in 0..Len(x) : p = a + 1 + to[m] /\ text = SubSeq(x, 1, m)
      BY <2>2
    <2>4. a \in Nat /\ z \in Nat /\ z <= Len(line) /\ Len(x) \in Nat /\ Writable(q, x) /\ x \in Seq(Byte)
      BY <1>4, <1>5, <2>1 DEF Writable
    <2> HIDE DEF x, a, z
    <2>5. /\ m < Len(x) =>
                  /\ x[m + 1] \in Byte /\ (q = "single" => x[m + 1] \notin {NUL, Backslash})
                  /\ \A j \in 1..Len(Piece(q, x[m + 1])) : C(j - 1) = Piece(q, x[m + 1])[j]
                  /\ p + Len(Piece(q, x[m + 1])) = a + 1 + to[m + 1]
          /\ m = Len(x) =>
                  /\ C(0) = Mark(q) /\ (C(1) = NUL \/ C(1) \in isspace)
                  /\ p + 1 <= z /\ \A j \in (p + 2)..z : line[j] \in isspace
      BY <1>1, <2>2, <2>3, <2>4, WordGoesOn
    <2>6. (q = "quoted" => Quoted) /\ (q = "single" => SingleQuoted)
      BY <1>13, <2>1 DEF Quoted, SingleQuoted, In
    <2>7. CASE m < Len(x)
      <3> DEFINE c == x[m + 1]
      <3>1. c \in Byte /\ (q = "single" => c \notin {NUL, Backslash})
            /\ \A j \in 1..Len(Piece(q, c)) : C(j - 1) = Piece(q, c)[j]
        BY <2>5, <2>7
      <3> HIDE DEF c
      <3>2. Take(c, Len(Piece(q, c)))
        <4>1. CASE q = "quoted"
          <5>1. Piece(q, c) = Shown(c)
            BY <4>1 DEF Piece
          <5> QED
            BY <2>6, <3>1, <4>1, <5>1, ShownTakes
        <4>2. CASE q = "single"
          <5>1. Piece(q, c) = Spared(c)
            BY <4>2 DEF Piece
          <5>2. c \in Chars \ {Backslash}
            BY <3>1, <4>2 DEF Chars
          <5> QED
            BY <2>6, <3>1, <4>2, <5>1, <5>2, SparedTakes
        <4> QED
          BY <4>1, <4>2 DEF Ways
      <3>3. p' = a + 1 + to[m + 1] /\ text' = Append(text, c) /\ UNCHANGED <<mode, words>>
        BY <2>5, <2>7, <3>2 DEF Take, c
      <3>4. text' = SubSeq(x, 1, m + 1) /\ m + 1 \in 0..Len(x)
        BY <2>3, <2>4, <2>7, <3>3 DEF c
      <3>5. WordAt(q, x, a, z, to)' 
        <4>1. UNCHANGED <<line, asked, words>>
          BY <1>1, <3>3
        <4> QED
          BY <2>2, <4>1 DEF WordAt, Spells, x, a, z, k
      <3> QED
        BY <1>1, <1>2, <2>1, <3>3, <3>4, <3>5 DEF Reading, k, Ways, x, a, z
    <2>8. CASE m = Len(x)
      <3>1. C(0) = Mark(q) /\ (C(1) = NUL \/ C(1) \in isspace) /\ text = x
        BY <2>3, <2>4, <2>5, <2>8
      <3>2. WordEnds
        <4>1. Closes
          BY <1>7, <2>1, <2>6, <3>1, SplitAssumption
             DEF Quoted, SingleQuoted, IsHex, Mark, Ways, Quote, Apostrophe, Backslash
        <4> QED
          BY <3>1, <4>1 DEF Closes
      <3>3. CASE Gives("noMemory")
        <4>1. mode' = "noMemory" /\ words' = <<>>
          BY <3>3 DEF Gives
        <4> QED
          BY <1>1, <4>1 DEF Reading, Ways
      <3>4. CASE /\ words' = Append(words, IF Held(str) THEN TextOf(str) ELSE lost)
                 /\ mode' = "blanks" /\ p' = IF C(0) = NUL THEN p ELSE p + 1
        <4> DEFINE w == IF Held(str) THEN TextOf(str) ELSE lost
        <4>1. w \in {x, lost}
          BY <3>1, WordJoins
        <4>2. words' = Append(words, w) /\ mode' = "blanks" /\ p' = p + 1
          BY <1>7, <3>1, <3>4
        <4> HIDE DEF w
        <4>3. Len(words') = k + 1 /\ words'[k + 1] = w /\ \A i \in 1..k : words'[i] = words[i]
          BY <1>1, <4>2 DEF k
        <4>4. \A i \in 1..(k + 1) : words'[i] \in {asked[i], lost}
          <5> TAKE i \in 1..(k + 1)
          <5>1. CASE i = k + 1
            BY <4>1, <4>3, <5>1 DEF x
          <5>2. CASE i # k + 1
            <6>1. i \in 1..k
              BY <1>1, <5>2
            <6> QED
              BY <1>2, <4>3, <6>1
          <5> QED
            BY <5>1, <5>2
        <4>5. p' <= z /\ \A j \in (p' + 1)..z : line[j] \in isspace
          <5>1. p' + 1 = p + 2
            BY <1>1, <4>2
          <5> QED
            BY <2>5, <2>8, <4>2, <5>1
        <4> QED
          BY <1>1, <2>1, <4>2, <4>3, <4>4, <4>5 DEF Reading, Ways, z
      <3> QED
        BY <3>2, <3>3, <3>4 DEF WordEnds
    <2> QED
      BY <2>3, <2>4, <2>7, <2>8
  <1> QED
    BY <1>9, <1>10, <1>11, <1>12, <1>13 DEF SplitStep

LEMMA ComingStep == SplitBasic /\ Coming /\ [SplitNext]_<<vars, splitVars>> => Coming'
  <1> SUFFICES ASSUME SplitBasic, Coming, [SplitNext]_<<vars, splitVars>>, asked' # none
               PROVE  \E q, at : q \in Ways /\ Spelled(q, at)' /\ Reading(q, at)'
    BY DEF Coming
  <1>1. UNCHANGED <<line, asked>>
    BY DEF SplitNext, SplitStep, SkipBlank, StartWord, LineEnds, Word, Quoted, SingleQuoted, In,
           send_message, splitVars
  <1>2. PICK q, at : q \in Ways /\ Spelled(q, at) /\ Reading(q, at)
    BY <1>1 DEF Coming
  <1>3. asked \in Seq(Seq(Byte)) /\ mode # "idle"
    BY <1>1, <1>2, SplitAssumption DEF SplitBasic, SplitTypeOK, Reading
  <1>4. Spelled(q, at)'
    <2>1. \A k \in 1..Len(asked) : \A to :
              WordAt(q, asked[k], at[k - 1], at[k], to) => WordAt(q, asked[k], at[k - 1], at[k], to)'
      BY <1>1, SMTT(60) DEF WordAt, Spells
    <2>2. \A k \in 1..Len(asked) : \E to : WordAt(q, asked[k], at[k - 1], at[k], to)'
      BY <1>2, <2>1 DEF Spelled
    <2> QED
      BY <1>1, <1>2, <2>2 DEF Spelled
  <1>5. Reading(q, at)'
    <2>1. CASE SplitStep
      BY <1>2, <1>3, <2>1, ReadingStep
    <2>2. CASE send_message
      <3>1. UNCHANGED words /\ mode' \in {"crashed", "sent"}
        BY <2>2 DEF send_message
      <3> QED
        BY <1>1, <1>2, <3>1 DEF Reading, Ways
    <2>3. CASE UNCHANGED <<vars, splitVars>>
      BY SMTT(60), <1>2, <2>3 DEF Reading, Ways, WordAt, Spells, vars, splitVars
    <2> QED
      BY <1>3, <2>1, <2>2, <2>3 DEF SplitNext
  <1> QED
    BY <1>2, <1>4, <1>5

\* What execv is given comes from words that were not lost.
Sending == mode = "sent" => Sends(words, argv, binary)

LEMMA SendingStep == SplitBasic /\ Sending /\ [SplitNext]_<<vars, splitVars>> => Sending'
  <1> SUFFICES ASSUME SplitBasic, Sending, [SplitNext]_<<vars, splitVars>> PROVE Sending'
    OBVIOUS
  <1>0. \A v, a, b : Sends(v, a, b)' <=> Sends(v, a, b)
    BY DEF Sends, Argument, ToRecipient, BaseName, IsStrlen, IsLastSlash
  <1>1. CASE send_message
    <2>1. words' = words
      BY <1>1 DEF send_message
    <2> QED
      BY <1>0, <1>1, <2>1, Sent DEF Sending, SplitBasic
  <1>2. CASE SplitStep
    BY <1>2 DEF Sending, SplitStep, SkipBlank, StartWord, LineEnds, Word, Quoted, SingleQuoted, In,
                WordEnds, Take, Opens, Gives, Closes
  <1>3. CASE UNCHANGED <<words, mode, argv, binary>>
    BY <1>0, <1>3 DEF Sending
  <1> QED
    BY <1>1, <1>2, <1>3 DEF SplitNext, splitVars

SplitInv == SplitBasic /\ Coming /\ Sending

LEMMA SplitInvariant == SplitSpec => []SplitInv
  <1>1. SplitInit => SplitInv
    <2> SUFFICES ASSUME SplitInit PROVE SplitInv
      OBVIOUS
    <2>1. mode # "sent"
      BY DEF SplitInit
    <2> QED
      BY <2>1, SplitStarts DEF SplitInv, Sending
  <1>2. SplitInv /\ [SplitNext]_<<vars, splitVars>> => SplitInv'
    BY SplitNextBasic, ComingStep, SendingStep DEF SplitInv
  <1> QED
    BY <1>1, <1>2, PTL DEF SplitSpec

\* The splitter's state has its types, whatever lines and words there are
\* (yasl.c:325-443).
THEOREM SplitTypeCorrect == SplitSpec => []SplitTypeOK
  <1>1. SplitInv => SplitTypeOK
    BY DEF SplitInv, SplitBasic
  <1> QED
    BY <1>1, SplitInvariant, PTL

\* Words of any bytes, any number of them, with any blanks between, come back
\* from the line they were written in with quotes (yasl.c:325-443, 539-566).
THEOREM QuotingRoundTrip == SplitSpec => []QuotedComesBack
  <1>1. SplitInv => QuotedComesBack
    <2> SUFFICES ASSUME SplitInv, asked # none
                 PROVE  /\ mode # "refused"
                        /\ mode = "done" => Len(words) = Len(asked)
                        /\ \A i \in DOMAIN words : words[i] \in {asked[i], lost}
      BY DEF QuotedComesBack
    <2>1. words \in Seq(Seq(Byte) \union {lost})
      BY DEF SplitInv, SplitBasic, SplitTypeOK
    <2>2. DOMAIN words = 1..Len(words)
      BY <2>1
    <2>3. PICK q, at : q \in Ways /\ Reading(q, at)
      BY DEF SplitInv, Coming
    <2> QED
      BY <2>2, <2>3 DEF Reading
  <1> QED
    BY <1>1, SplitInvariant, PTL

\* Whatever the recipient, the words and the command are: execv gets the command
\* as it was written, its name without the directory, and every argument as it
\* was written, the recipient as one of them (simvacation.c:408-420,
\* vutil.c:62-65).
THEOREM RecipientStaysWhole == SplitSpec => []RecipientIsOneWord
  <1>1. SplitInv => RecipientIsOneWord
    <2> SUFFICES ASSUME SplitInv, mode = "sent", asked # none PROVE RecipientIsOneWord
      BY DEF RecipientIsOneWord
    <2>1. words \in Seq(Seq(Byte) \union {lost}) /\ asked \in Seq(Seq(Byte))
      BY SplitAssumption DEF SplitInv, SplitBasic, SplitTypeOK
    <2>2. PICK m \in Nat \ {0} :
              /\ m <= Len(words) /\ \A i \in 1..m : words[i] \in Seq(Byte)
              /\ argv = [i \in 1..m |-> Argument(words, i)]
              /\ binary \in {ToRecipient(words[1]), lost}
      BY DEF SplitInv, Sending, Sends
    <2>3. PICK q, at : q \in Ways /\ Reading(q, at)
      BY DEF SplitInv, Coming
    <2>4. ASSUME NEW i \in 1..m
          PROVE  words[i] = asked[i] /\ asked[i] \in Seq(Byte)
      <3>1. i \in 1..Len(words) /\ Len(words) <= Len(asked) /\ words[i] \in {asked[i], lost}
        BY <2>1, <2>2, <2>3, <2>4 DEF Reading
      <3>2. words[i] # lost
        BY <2>2, <2>4, LostIsNoWord
      <3> QED
        BY <2>2, <2>4, <3>1, <3>2
    <2>5. ASSUME NEW i \in 1..m PROVE AsWritten(ToRecipient(asked[i]), i)
      <3>1. CASE asked[i] = Placeholder
        BY <3>1 DEF ToRecipient, AsWritten
      <3>2. CASE asked[i] # Placeholder
        BY <2>4, <3>2, CutAtNul DEF AsWritten
      <3> QED
        BY <3>1, <3>2
    <2>6. ASSUME NEW i \in 1..m PROVE Stripped(BaseName(ToRecipient(asked[i])), i)
      <3> DEFINE a == ToRecipient(asked[i])
                 w == IF asked[i] = Placeholder THEN rcpt ELSE asked[i]
      <3>1. asked[i] \in Seq(Byte) /\ a \in Seq(Byte \ {NUL})
        BY <2>4, Arguments
      <3>2. PICK n \in 0..Len(a) : (n > 0 => a[n] = Slash) /\ SubSeq(a, 1, n) \o BaseName(a) = a
        BY <3>1, Directory
      <3>3. PICK k \in 0..Len(w) : a = SubSeq(w, 1, k)
        <4>1. CASE asked[i] = Placeholder
          <5>1. a = rcpt /\ w = rcpt /\ rcpt \in Seq(Byte) /\ Len(rcpt) \in Nat
            BY <4>1, SplitAssumption DEF ToRecipient
          <5>2. \E k \in 0..Len(rcpt) : rcpt = SubSeq(rcpt, 1, k)
            BY <5>1, WholeIsPart
          <5> QED
            BY <5>1, <5>2
        <4>2. CASE asked[i] # Placeholder
          BY <3>1, <4>2, CutAtNul
        <4> QED
          BY <4>1, <4>2
      <3>4. w \in Seq(Byte)
        BY <3>1, SplitAssumption
      <3>5. n \in 0..Len(w) /\ SubSeq(w, 1, n) = SubSeq(a, 1, n) /\ (n > 0 => w[n] = Slash)
        <4> HIDE DEF w, a
        <4>1. Len(w) \in Nat /\ Len(a) = k /\ n <= k
          BY <3>2, <3>3, <3>4
        <4>2. \A j \in 1..n : a[j] = w[j]
          BY <3>2, <3>3, <3>4, <4>1
        <4>3. SubSeq(w, 1, n) = [j \in 1..n |-> w[j]] /\ SubSeq(a, 1, n) = [j \in 1..n |-> a[j]]
          BY <3>1, <3>2, <3>3, <3>4, <4>1
        <4> QED
          BY <3>2, <4>1, <4>2, <4>3
      <3>6. \A j \in DOMAIN BaseName(a) : BaseName(a)[j] # Slash
        BY <3>1, Directory
      <3> QED
        BY <2>5, <3>2, <3>5, <3>6 DEF Stripped
    <2>7. binary # lost => AsWritten(binary, 1)
      BY <2>2, <2>4, <2>5
    <2>8. ASSUME NEW i \in DOMAIN argv
          PROVE  IF i = 1 \/ (asked[1] = Placeholder /\ asked[i] = Placeholder)
                 THEN Stripped(argv[i], i) ELSE AsWritten(argv[i], i)
      <3>1. i \in 1..m /\ 1 \in 1..m /\ argv[i] = Argument(words, i)
        BY <2>2, <2>8
      <3>2. words[i] = asked[i] /\ words[1] = asked[1]
        BY <2>4, <3>1
      <3> QED
        BY <2>5, <2>6, <3>1, <3>2 DEF Argument
    <2> QED
      BY <2>7, <2>8 DEF RecipientIsOneWord
  <1> QED
    BY <1>1, SplitInvariant, PTL

\* Splitting lines changes no string: what holds of a string goes on holding
\* while its line is taken apart (yasl.c:325-443).
THEOREM StringsWhileSplitting == SplitSpec => [](TypeOK /\ HeaderTellsBlock /\ HoldsItsText)
  <1>1. SplitInv => TypeOK /\ HeaderTellsBlock /\ HoldsItsText
    BY DEF SplitInv, SplitBasic, StringInv, Holds, Sound, HeaderTellsBlock, HoldsItsText
  <1> QED
    BY <1>1, SplitInvariant, PTL

----------------------------------------------------------------------------
(* Lines without quotes.                                                   *)

\* Lines without quotes: the stretches read so far, and the one being read.
Before(n) == {j \in Starts : j <= n}
Named(n, v) ==
    \A i \in Before(n) : v[Cardinality(Before(i))] \in {lost, SubSeq(line, i, Until(i))}

\* Read to place n, the vector is v and the current word t.
Counted(n, v) ==
    /\ Len(v) = Cardinality(Before(n)) /\ Named(n, v)
    /\ \A j \in 1..n : line[j] \in isspace \/ n = Len(line) \/ \E k \in j..n : Blank(k)
Within(b, n, v, t) ==
    /\ b <= n + 1 /\ t = SubSeq(line, b, n) /\ \A k \in b..n : ~Blank(k)
    /\ Len(v) = Cardinality(Before(b - 1)) /\ Named(b - 1, v)
Stretched(n, m, v, t) ==
    /\ m \notin {"quoted", "single", "refused"}
    /\ m \in {"blanks", "done"} => Counted(n, v)
    /\ m = "done" => n = Len(line)
    /\ m = "word" => \E b \in Starts : Within(b, n, v, t)

NoQuotes == \A i \in DOMAIN line : line[i] \notin {Quote, Apostrophe}
Stretches == NoQuotes => Stretched(p, mode, words, text)

LEMMA StartPlaces ==
    ASSUME SplitTypeOK
    PROVE  /\ Starts \subseteq 1..Len(line) /\ Len(line) \in Nat /\ DOMAIN line = 1..Len(line)
           /\ \A i \in Starts : line[i] \notin isspace
           /\ \A n \in Nat : IsFiniteSet(Before(n)) /\ Cardinality(Before(n)) \in Nat
  <1>1. Len(line) \in Nat /\ DOMAIN line = 1..Len(line)
    BY DEF SplitTypeOK
  <1>2. Starts \subseteq 1..Len(line) /\ \A i \in Starts : line[i] \notin isspace
    BY <1>1 DEF Starts
  <1>3. IsFiniteSet(1..Len(line))
    BY <1>1, FS_Interval
  <1>4. \A n \in Nat : Before(n) \subseteq 1..Len(line)
    BY <1>2 DEF Before
  <1>5. \A n \in Nat : IsFiniteSet(Before(n)) /\ Cardinality(Before(n)) \in Nat
    BY <1>3, <1>4, FS_Subset, FS_CardinalityType
  <1> QED
    BY <1>1, <1>2, <1>5

\* A stretch counts from its first character on.
LEMMA CountStretches ==
    ASSUME SplitTypeOK, NEW b \in Starts
    PROVE  /\ Cardinality(Before(b)) = Cardinality(Before(b - 1)) + 1
           /\ \A i \in Before(b - 1) : Cardinality(Before(i)) \in 1..Cardinality(Before(b - 1))
  <1>0. Starts \subseteq 1..Len(line) /\ Len(line) \in Nat
    BY StartPlaces
  <1>1. b \in Nat /\ b - 1 \in Nat /\ Starts \subseteq Nat
        /\ \A n \in Nat : IsFiniteSet(Before(n)) /\ Cardinality(Before(n)) \in Nat
    <2>1. b \in Nat /\ b - 1 \in Nat /\ Starts \subseteq Nat
      BY <1>0
    <2> QED
      BY <2>1, StartPlaces
  <1>2. Before(b) = Before(b - 1) \union {b} /\ b \notin Before(b - 1)
    <2>1. \A j \in Starts : (j <= b <=> j <= b - 1 \/ j = b) /\ ~(b <= b - 1)
      BY <1>1
    <2> QED
      BY <2>1 DEF Before
  <1>3. Cardinality(Before(b)) = Cardinality(Before(b - 1)) + 1
    BY <1>1, <1>2, FS_AddElement
  <1>4. ASSUME NEW i \in Before(b - 1)
        PROVE  Cardinality(Before(i)) \in 1..Cardinality(Before(b - 1))
    <2>1. i \in Nat /\ i <= b - 1 /\ i \in Before(i) /\ Before(i) \subseteq Before(b - 1)
      <3>0. i \in Starts /\ i <= b - 1
        BY DEF Before
      <3>1. i \in Nat /\ i <= i
        BY <1>1, <3>0
      <3>2. \A j \in Starts : j <= i => j <= b - 1
        BY <1>1, <3>0, <3>1
      <3> QED
        BY <3>0, <3>1, <3>2 DEF Before
    <2>2. Cardinality(Before(i)) <= Cardinality(Before(b - 1))
      BY <1>1, <2>1, FS_Subset
    <2>3. Cardinality(Before(i)) # 0
      BY <1>1, <2>1, FS_EmptySet
    <2> QED
      BY <1>1, <2>1, <2>2, <2>3
  <1> QED
    BY <1>3, <1>4

\* The end of a stretch.
LEMMA StretchEnds ==
    ASSUME SplitTypeOK, NEW b \in Starts, NEW e \in b..Len(line), \A k \in b..e : ~Blank(k),
           e < Len(line) => Blank(e + 1)
    PROVE  Until(b) = e
  <1>1. b \in Nat /\ Len(line) \in Nat
    BY StartPlaces
  <1> DEFINE LastsTo(j) == (\A k \in b..j : ~Blank(k)) /\ (j < Len(line) => Blank(j + 1))
  <1>2. Until(b) = CHOOSE j \in b..Len(line) : LastsTo(j)
    BY DEF Until
  <1>3. LastsTo(e)
    OBVIOUS
  <1>4. ASSUME NEW j \in b..Len(line), LastsTo(j) PROVE j = e
    <2>1. CASE j < e
      <3>1. j < Len(line) /\ j + 1 \in b..e
        BY <1>1, <2>1
      <3> QED
        BY <1>4, <3>1
    <2>2. CASE j > e
      <3>1. e < Len(line) /\ e + 1 \in b..j
        BY <1>1, <2>2
      <3> QED
        BY <1>4, <3>1
    <2> QED
      BY <1>1, <2>1, <2>2
  <1> HIDE DEF LastsTo
  <1> QED
    BY <1>2, <1>3, <1>4

LEMMA StretchedStep ==
    ASSUME SplitBasic, NoQuotes, Stretched(p, mode, words, text), SplitStep
    PROVE  Stretched(p', mode', words', text')
  <1>a. /\ SplitTypeOK /\ p \in Nat /\ Len(line) \in Nat /\ p <= Len(line)
        /\ words \in Seq(Seq(Byte) \union {lost}) /\ line \in Seq(Byte \ {NUL})
    BY DEF SplitBasic, SplitTypeOK
  <1>b. /\ C(0) = NUL <=> p = Len(line)
        /\ p < Len(line) => C(0) = line[p + 1] /\ C(0) # NUL
    BY <1>a, Ahead
  <1>d. /\ Starts \subseteq 1..Len(line)
        /\ \A i \in Starts : line[i] \notin isspace
    BY <1>a, StartPlaces
  <1>e. NUL \notin isspace
    BY SplitAssumption DEF isspace
  <1>1. CASE SkipBlank
    <2>1. mode = "blanks" /\ C(0) \in isspace /\ p' = p + 1 /\ UNCHANGED <<mode, words>>
      BY <1>1 DEF SkipBlank, In
    <2>2. p < Len(line) /\ line[p + 1] \in isspace
      BY <1>a, <1>b, <1>e, <2>1
    <2>3. Before(p + 1) = Before(p)
      <3>1. \A j \in Starts : j <= p + 1 <=> j <= p
        BY <1>a, <1>d, <2>2
      <3> QED
        BY <3>1 DEF Before
    <2>4. Counted(p, words)
      BY <2>1 DEF Stretched
    <2>5. \A j \in 1..(p + 1) : line[j] \in isspace \/ \E k \in j..(p + 1) : Blank(k)
      BY <1>a, <2>2, <2>4 DEF Counted
    <2>6. Counted(p', words')
      BY <2>1, <2>3, <2>4, <2>5 DEF Counted, Named
    <2> QED
      BY <2>1, <2>6 DEF Stretched
  <1>2. CASE StartWord
    <2>1. mode = "blanks" /\ C(0) \notin isspace \union {NUL} /\ UNCHANGED <<p, words>>
          /\ mode' = "word" /\ text' = <<>>
      BY <1>2 DEF StartWord, In
    <2>2. p < Len(line) /\ line[p + 1] \notin isspace
      BY <1>a, <1>b, <2>1
    <2>3. Counted(p, words)
      BY <2>1 DEF Stretched
    <2>4. p + 1 \in Starts
      <3>1. ASSUME NEW j \in 1..((p + 1) - 1)
            PROVE  line[j] \in isspace \/ \E k \in j..(p + 1) : Blank(k)
        BY <1>a, <2>2, <2>3 DEF Counted
      <3> QED
        BY <1>a, <2>2, <3>1 DEF Starts
    <2>5. (p + 1) - 1 = p /\ p + 1 <= p + 1 /\ SubSeq(line, p + 1, p) = <<>> /\ ~(p + 1 <= p)
      BY <1>a
    <2>6. Within(p + 1, p', words', text')
      BY <1>a, <2>1, <2>3, <2>5 DEF Counted, Within
    <2> QED
      BY <2>1, <2>4, <2>6 DEF Stretched
  <1>3. CASE LineEnds
    <2>1. mode = "blanks" /\ C(0) = NUL /\ UNCHANGED <<p, words>> /\ mode' = "done"
      BY <1>3 DEF LineEnds, In
    <2> QED
      BY <1>b, <2>1 DEF Stretched
  <1>4. CASE Word
    <2>1. mode = "word"
      BY <1>4 DEF Word, In
    <2>2. PICK b \in Starts : Within(b, p, words, text)
      BY <2>1 DEF Stretched
    <2>3. b \in Nat /\ b >= 1 /\ b <= Len(line) /\ line[b] \notin isspace /\ b <= p + 1
      BY <1>a, <1>d, <2>2 DEF Within
    <2>4. C(0) \notin {Quote, Apostrophe}
      BY <1>a, <1>b, SplitAssumption DEF NoQuotes, Quote, Apostrophe
    <2>5. CASE C(0) \notin {32, 10, 13, 9, NUL} /\ Take(C(0), 1)
      <3>1. p < Len(line) /\ p' = p + 1 /\ text' = Append(text, line[p + 1]) /\ ~Blank(p + 1)
            /\ UNCHANGED <<mode, words>>
        BY <1>a, <1>b, <2>5 DEF Take, Blank
      <3>2. text' = SubSeq(line, b, p + 1)
        BY <1>a, <2>2, <2>3, <3>1 DEF Within
      <3>3. Within(b, p', words', text')
        <4>1. ASSUME NEW k \in b..(p + 1) PROVE ~Blank(k)
          <5>1. k \in b..p \/ k = p + 1
            BY <1>a, <2>3
          <5> QED
            BY <2>2, <3>1, <5>1 DEF Within
        <4>2. b <= p' + 1
          BY <1>a, <2>3, <3>1
        <4> QED
          BY <2>2, <3>1, <3>2, <4>1, <4>2 DEF Within
      <3> QED
        BY <2>1, <3>1, <3>3 DEF Stretched
    <2>6. CASE Gives("noMemory")
      BY <2>6 DEF Gives, Stretched
    <2>7. CASE /\ C(0) \in {32, 10, 13, 9, NUL}
               /\ words' = Append(words, IF Held(str) THEN TextOf(str) ELSE lost)
               /\ mode' = "blanks" /\ p' = IF C(0) = NUL THEN p ELSE p + 1
      <3> DEFINE w == IF Held(str) THEN TextOf(str) ELSE lost
                 n == Cardinality(Before(b - 1))
      <3>1. w \in {text, lost} /\ words' = Append(words, w)
        BY <2>7, WordJoins
      <3>2. /\ C(0) = NUL => p = Len(line) /\ p' = p
            /\ C(0) # NUL => p < Len(line) /\ p' = p + 1 /\ Blank(p + 1) /\ line[p + 1] \in isspace
        BY <1>a, <1>b, <2>7 DEF Blank, isspace
      <3>3. b <= p
        BY <1>a, <2>3, <3>2
      <3>4. Until(b) = p
        <4>1. p \in b..Len(line) /\ (p < Len(line) => Blank(p + 1))
          BY <1>a, <2>3, <3>2, <3>3
        <4> QED
          BY <1>a, <2>2, <4>1, StretchEnds DEF Within
      <3> HIDE DEF w
      <3>5. Before(p') = Before(b)
        <4>1. ASSUME NEW i \in Starts, i > b, i <= p' PROVE FALSE
          <5>1. i <= p /\ i \in Nat
            BY <1>a, <1>d, <3>2, <4>1
          <5>2. b \in 1..(i - 1) /\ \A k \in b..i : ~Blank(k)
            BY <1>a, <2>2, <2>3, <4>1, <5>1 DEF Within
          <5>3. line[b] \in isspace \/ \E k \in b..i : Blank(k)
            BY <5>2 DEF Starts
          <5> QED
            BY <2>3, <5>2, <5>3
        <4>2. b <= p' /\ p' \in Nat
          BY <1>a, <2>3, <3>2, <3>3
        <4>3. \A i \in Starts : i <= p' <=> i <= b
          BY <1>a, <1>d, <2>3, <4>1, <4>2
        <4> QED
          BY <4>3 DEF Before
      <3>6. /\ Cardinality(Before(b)) = n + 1 /\ n \in Nat
            /\ \A i \in Before(b - 1) : Cardinality(Before(i)) \in 1..n
        <4>1. b - 1 \in Nat
          BY <2>3
        <4> QED
          BY <1>a, <4>1, CountStretches, StartPlaces
      <3> HIDE DEF n
      <3>7. Len(words) = n /\ Named(b - 1, words)
        BY <2>2 DEF Within, n
      <3>8. Len(words') = n + 1 /\ words'[n + 1] = w /\ \A i \in 1..n : words'[i] = words[i]
        BY <1>a, <3>1, <3>6, <3>7
      <3>9. text = SubSeq(line, b, Until(b))
        BY <2>2, <3>4 DEF Within
      <3>10. Named(p', words')
        <4>1. ASSUME NEW i \in Before(b)
              PROVE  words'[Cardinality(Before(i))] \in {lost, SubSeq(line, i, Until(i))}
          <5>1. CASE i = b
            BY <3>1, <3>6, <3>8, <3>9, <5>1
          <5>2. CASE i # b
            <6>1. i \in Before(b - 1)
              BY <1>d, <2>3, <5>2 DEF Before
            <6> QED
              BY <3>6, <3>7, <3>8, <6>1 DEF Named
          <5> QED
            BY <5>1, <5>2
        <4> QED
          BY <3>5, <4>1 DEF Named
      <3>11. \A j \in 1..p' : line[j] \in isspace \/ p' = Len(line) \/ \E k \in j..p' : Blank(k)
        BY <1>a, <3>2
      <3>12. Counted(p', words')
        BY <3>5, <3>6, <3>8, <3>10, <3>11 DEF Counted
      <3> QED
        BY <2>7, <3>12 DEF Stretched
    <2> QED
      BY <1>4, <2>4, <2>5, <2>6, <2>7 DEF Word, WordEnds
  <1>5. CASE Quoted \/ SingleQuoted
    BY <1>5 DEF Quoted, SingleQuoted, In, Stretched
  <1> QED
    BY <1>1, <1>2, <1>3, <1>4, <1>5 DEF SplitStep

LEMMA StretchesStep == SplitBasic /\ Stretches /\ [SplitNext]_<<vars, splitVars>> => Stretches'
  <1> SUFFICES ASSUME SplitBasic, Stretches, [SplitNext]_<<vars, splitVars>>, NoQuotes'
               PROVE  Stretched(p, mode, words, text)'
    BY DEF Stretches
  <1>0. line' = line
    BY DEF SplitNext, SplitStep, SkipBlank, StartWord, LineEnds, Word, Quoted, SingleQuoted, In,
           send_message, splitVars
  <1>1. NoQuotes /\ Stretched(p, mode, words, text)
    BY <1>0 DEF Stretches, NoQuotes
  <1>2. \A n, m, v, t : Stretched(n, m, v, t)' <=> Stretched(n, m, v, t)
    <2>1. Starts' = Starts /\ \A i : Until(i)' = Until(i) /\ Blank(i)' = Blank(i)
      BY <1>0 DEF Starts, Until, Blank
    <2>2. \A n : Before(n)' = Before(n)
      BY <2>1 DEF Before
    <2>3. \A n, v : Named(n, v)' <=> Named(n, v)
      BY <1>0, <2>1, <2>2 DEF Named
    <2> QED
      BY <1>0, <2>1, <2>2, <2>3 DEF Stretched, Counted, Within
  <1>3. Stretched(p', mode', words', text')
    <2>1. CASE SplitStep
      BY <1>1, <2>1, StretchedStep
    <2>2. CASE UNCHANGED <<p, mode, words, text>>
      BY <1>1, <2>2
    <2>3. CASE send_message
      BY <2>3 DEF send_message, Stretched
    <2>4. CASE mode = "idle" /\ Next /\ UNCHANGED splitVars
      BY <2>4 DEF splitVars, Stretched
    <2> QED
      BY <2>1, <2>2, <2>3, <2>4 DEF SplitNext, vars, splitVars
  <1> QED
    BY <1>2, <1>3

\* In a line without quotes the words are the stretches between blanks, for lines
\* of any length and characters (yasl.c:336, 395-415).
THEOREM BlanksSeparateWords == SplitSpec => []BlanksSeparate
  <1>1. SplitInit => SplitBasic /\ Stretches
    <2> SUFFICES ASSUME SplitInit PROVE Stretches
      BY SplitStarts
    <2>1. p = 0 /\ words = <<>> /\ mode \in {"idle", "blanks"}
      BY DEF SplitInit
    <2>2. SplitTypeOK
      BY SplitStarts DEF SplitBasic
    <2>3. Before(0) = {}
      <3>1. Starts \subseteq 1..Len(line) /\ Len(line) \in Nat
        BY <2>2, StartPlaces
      <3>2. \A j \in Starts : ~(j <= 0)
        BY <3>1
      <3> QED
        BY <3>2 DEF Before
    <2>4. Counted(0, <<>>)
      BY <2>3, FS_EmptySet DEF Counted, Named
    <2> QED
      BY <2>1, <2>4 DEF Stretches, Stretched
  <1>2. SplitBasic /\ Stretches /\ [SplitNext]_<<vars, splitVars>> => (SplitBasic /\ Stretches)'
    BY SplitNextBasic, StretchesStep
  <1>3. SplitBasic /\ Stretches => BlanksSeparate
    <2> SUFFICES ASSUME SplitBasic, Stretches, mode = "done", NoQuotes PROVE
                   /\ Len(words) = Cardinality(Starts)
                   /\ \A i \in Starts :
                        words[Cardinality({j \in Starts : j <= i})] \in {lost, SubSeq(line, i, Until(i))}
      BY DEF BlanksSeparate, NoQuotes
    <2>1. p = Len(line) /\ Counted(p, words)
      BY DEF Stretches, Stretched
    <2>2. Starts \subseteq 1..Len(line) /\ Len(line) \in Nat
      BY StartPlaces DEF SplitBasic
    <2>3. Before(p) = Starts
      <3>1. \A j \in Starts : j <= p
        BY <2>1, <2>2
      <3> QED
        BY <3>1 DEF Before
    <2> QED
      BY <2>1, <2>3 DEF Counted, Named, Before
  <1> QED
    BY <1>1, <1>2, <1>3, PTL DEF SplitSpec

----------------------------------------------------------------------------
(* Where a name stands in the recipient lines.                             *)

LEMMA NewlineApart ==
    \A d \in {"A", "B", "T", "a", "b", "t", ".", "_"} : d # Newline /\ d # BlankChar
  BY Zenon DEF Newline, BlankChar

LEMMA NewlineNoBlank == Newline # BlankChar
  BY Zenon DEF Newline, BlankChar

Lower(c) == IF c \in DOMAIN LowerCase THEN LowerCase[c] ELSE c
Mapped(c) == IF Lower(c) \in {".", "_"} THEN BlankChar ELSE Lower(c)

LEMMA LowerCases ==
    /\ DOMAIN LowerCase = {"A", "B", "T"}
    /\ LowerCase["A"] = "a" /\ LowerCase["B"] = "b" /\ LowerCase["T"] = "t"
  BY DEF LowerCase

LEMMA CharacterStands ==
    ASSUME NEW c, NEW d
    PROVE  Mapped(c) = Lower(d) <=> StandsFor(c, d)
  <1>1. ToLower(<<c>>) = ToLower(<<d>>) <=> Lower(c) = Lower(d)
    <2>1. \A x : ToLower(<<x>>) = [i \in 1..1 |-> Lower(x)]
      BY DEF ToLower, Lower
    <2>2. ASSUME Lower(c) # Lower(d) PROVE ToLower(<<c>>) # ToLower(<<d>>)
      <3>1. \A x : ToLower(<<x>>)[1] = Lower(x)
        <4> TAKE x
        <4>1. [i \in 1..1 |-> Lower(x)][1] = Lower(x)
          OBVIOUS
        <4> QED
          BY <2>1, <4>1
      <3> QED
        BY <2>2, <3>1
    <2> QED
      BY <2>1, <2>2
  <1>2. \A x : /\ x \in {".", "_"} <=> Lower(x) \in {".", "_"}
               /\ x \in {".", "_"} => Lower(x) = x
               /\ x = BlankChar <=> Lower(x) = BlankChar
    BY LowerCases, NewlineApart DEF Lower
  <1> QED
    BY <1>1, <1>2, NewlineApart DEF Mapped, StandsFor

LEMMA Substring ==
    ASSUME NEW R, NEW n \in Seq(R), NEW h \in Seq(R)
    PROVE  is_substring(n, h) <=> StandsIn(n, h)
  <1> DEFINE u == Spaced(ToLower(h))
             v == ToLower(n)
  <1>1. /\ Len(u) = Len(h) /\ DOMAIN u = 1..Len(h) /\ Len(h) \in Nat
        /\ \A i \in 1..Len(h) : u[i] = Mapped(h[i])
        /\ u = [i \in 1..Len(h) |-> Mapped(h[i])]
    <2>1. ToLower(h) = [i \in 1..Len(h) |-> Lower(h[i])]
      BY DEF ToLower, Lower
    <2>2. u = [i \in 1..Len(h) |-> Mapped(h[i])]
      BY <2>1 DEF Spaced, Mapped
    <2> HIDE DEF u
    <2> QED
      BY <2>2
  <1>2. /\ Len(v) = Len(n) /\ Len(n) \in Nat /\ v = [k \in 1..Len(n) |-> Lower(n[k])]
        /\ DOMAIN n = 1..Len(n)
    BY DEF ToLower, Lower
  <1> HIDE DEF u, v
  <1>3. ASSUME NEW i \in 0..(Len(h) - Len(n))
        PROVE  SubSeq(u, i + 1, i + Len(n)) = v <=> \A k \in DOMAIN n : StandsFor(h[i + k], n[k])
    <2>1. \A k \in 1..Len(n) : i + k \in 1..Len(h)
      BY <1>1, <1>2
    <2>2. SubSeq(u, i + 1, i + Len(n)) = [k \in 1..Len(n) |-> u[i + k]]
      <3>1. SubSeq(u, i + 1, i + Len(n)) = [k \in 1..((i + Len(n)) - (i + 1) + 1) |-> u[k + (i + 1) - 1]]
        BY <1>1, <1>2
      <3>2. (i + Len(n)) - (i + 1) + 1 = Len(n) /\ \A k \in 1..Len(n) : k + (i + 1) - 1 = i + k
        BY <1>2
      <3> QED
        BY <3>1, <3>2
    <2> DEFINE w == [k \in 1..Len(n) |-> u[i + k]]
    <2>3. w = v <=> \A k \in 1..Len(n) : w[k] = v[k]
      BY <1>2
    <2>4. \A k \in 1..Len(n) : w[k] = Mapped(h[i + k]) /\ v[k] = Lower(n[k])
      BY <1>1, <1>2, <2>1
    <2>5. w = v <=> \A k \in DOMAIN n : Mapped(h[i + k]) = Lower(n[k])
      BY <1>2, <2>3, <2>4
    <2> HIDE DEF w
    <2> QED
      BY <2>2, <2>5, CharacterStands DEF w
  <1>4. is_substring(n, h) <=> \E i \in 0..(Len(h) - Len(n)) : SubSeq(u, i + 1, i + Len(n)) = v
    BY <1>1, <1>2 DEF is_substring, strstr, u, v
  <1> QED
    BY <1>3, <1>4 DEF StandsIn

\* A text stands in lines put one behind the other only where it stands in one of
\* them: the newline and the blank between them are nowhere in it, or not in front.
Characters == STRING \union {Newline, BlankChar}

LEMMA CollectedLine ==
    ASSUME NEW x \in Seq(STRING)
    PROVE  /\ Len(x) \in Nat /\ Collected(x) \in Seq(Characters) /\ Len(Collected(x)) = Len(x) + 2
           /\ \A j \in 1..Len(x) : Collected(x)[j] = x[j]
           /\ Collected(x)[Len(x) + 1] = Newline /\ Collected(x)[Len(x) + 2] = BlankChar
  <1> DEFINE e == <<Newline, BlankChar>>
  <1>1. e \in Seq(Characters) /\ Len(e) = 2 /\ e[1] = Newline /\ e[2] = BlankChar /\ x \in Seq(Characters)
    BY DEF Characters
  <1>2. Collected(x) = x \o e
    BY DEF Collected
  <1> HIDE DEF e
  <1>3. /\ x \o e \in Seq(Characters) /\ Len(x \o e) = Len(x) + Len(e)
        /\ \A j \in 1..Len(x) : (x \o e)[j] = x[j]
        /\ \A j \in 1..Len(e) : (x \o e)[Len(x) + j] = e[j]
    <2>1. x \in Seq(Characters) /\ e \in Seq(Characters)
      BY <1>1
    <2> DEFINE f == x
    <2>2. f \in Seq(Characters)
      BY <2>1
    <2> HIDE DEF f
    <2>3. /\ f \o e \in Seq(Characters) /\ Len(f \o e) = Len(f) + Len(e)
          /\ \A j \in 1..Len(f) : (f \o e)[j] = f[j]
          /\ \A j \in 1..Len(e) : (f \o e)[Len(f) + j] = e[j]
      BY <2>1, <2>2, Joined
    <2> QED
      BY <2>3 DEF f
  <1>4. Len(x) \in Nat
    OBVIOUS
  <1>5. 1 \in 1..Len(e) /\ 2 \in 1..Len(e)
    BY <1>1
  <1> QED
    BY <1>1, <1>2, <1>3, <1>4, <1>5

LEMMA CollectedLines ==
    ASSUME NEW lines, Len(lines) \in Nat, \A l \in 1..Len(lines) : lines[l] \in Seq(STRING), NEW S,
           S = [l \in 1..Len(lines) |-> Collected(lines[l])]
    PROVE  FlattenSeq(S) \in Seq(Characters) /\ Len(S) = Len(lines) /\ \E at : Laid(S, FlattenSeq(S), at)
  <1>1. \A l \in 1..Len(lines) : Collected(lines[l]) \in Seq(Characters)
    BY CollectedLine
  <1> DEFINE C_(l) == Collected(lines[l])
             n == Len(lines)
  <1>2. n \in Nat /\ \A l \in 1..n : C_(l) \in Seq(Characters)
    BY <1>1
  <1>3. S = [l \in 1..n |-> C_(l)]
    OBVIOUS
  <1> HIDE DEF C_, n
  <1>4. S \in Seq(Seq(Characters)) /\ Len(S) = n
    BY <1>2, <1>3
  <1> QED
    BY <1>4, FlattenLays DEF n

LEMMA LinesApart ==
    ASSUME NEW n, IsName(n), NEW lines, Len(lines) \in Nat, DOMAIN lines = 1..Len(lines),
           \A l \in 1..Len(lines) : lines[l] \in Seq(STRING), NEW h,
           h = FlattenSeq([l \in 1..Len(lines) |-> Collected(lines[l])])
    PROVE  /\ h \in Seq(Characters)
           /\ StandsIn(n, h) <=> \E l \in DOMAIN lines : StandsIn(n, lines[l])
  <1> DEFINE S == [l \in 1..Len(lines) |-> Collected(lines[l])]
             N == Len(n)
  <1>a. N \in Nat /\ N > 0
    <2>1. n \in Seq(STRING) /\ n # <<>>
      BY DEF IsName, IsLine
    <2> QED
      BY <2>1
  <1>0. DOMAIN n = 1..N /\ n[1] # BlankChar /\ \A k \in 1..N : n[k] # Newline
    <2>1. n \in Seq(STRING)
      BY DEF IsName, IsLine
    <2>2. DOMAIN n = 1..Len(n)
      BY <2>1
    <2>3. n[1] # BlankChar /\ \A k \in DOMAIN n : n[k] # Newline
      BY DEF IsName, IsLine
    <2> QED
      BY <2>2, <2>3
  <1>1. \A l \in 1..Len(lines) :
            /\ Len(lines[l]) \in Nat /\ Len(Collected(lines[l])) = Len(lines[l]) + 2
            /\ \A j \in 1..Len(lines[l]) : Collected(lines[l])[j] = lines[l][j]
            /\ Collected(lines[l])[Len(lines[l]) + 1] = Newline
            /\ Collected(lines[l])[Len(lines[l]) + 2] = BlankChar
    BY CollectedLine
  <1>2. \A l \in 1..Len(lines) : S[l] = Collected(lines[l])
    OBVIOUS
  <1> HIDE DEF S
  <1>3. h \in Seq(Characters) /\ Len(S) = Len(lines) /\ \E at : Laid(S, h, at)
    BY CollectedLines DEF S
  <1>4. PICK at : Laid(S, h, at)
    BY <1>3
  <1>5. /\ at \in [0..Len(lines) -> Nat] /\ at[0] = 0 /\ Len(h) = at[Len(lines)]
        /\ \A l \in 1..Len(lines) : /\ at[l] = at[l - 1] + Len(S[l]) /\ at[l] <= Len(h)
                                    /\ \A j \in 1..Len(S[l]) : h[at[l - 1] + j] = S[l][j]
    BY <1>3, <1>4 DEF Laid
  <1> HIDE DEF N
  <1>6. ASSUME NEW l \in 1..Len(lines)
        PROVE  /\ at[l - 1] \in Nat /\ at[l] = at[l - 1] + Len(lines[l]) + 2 /\ at[l] <= Len(h)
               /\ \A j \in 1..Len(lines[l]) : h[at[l - 1] + j] = lines[l][j]
               /\ h[at[l - 1] + Len(lines[l]) + 1] = Newline
               /\ h[at[l - 1] + Len(lines[l]) + 2] = BlankChar
               /\ Len(lines[l]) \in Nat /\ Len(h) \in Nat
    <2> DEFINE x == lines[l]
               y == Collected(x)
               a == at[l - 1]
    <2>1. a \in Nat /\ Len(h) \in Nat
      <3>1. l - 1 \in 0..Len(lines)
        OBVIOUS
      <3>2. Len(h) \in Nat
        BY <1>3
      <3> QED
        BY <1>5, <3>1, <3>2
    <2>2. /\ Len(x) \in Nat /\ Len(y) = Len(x) + 2 /\ \A j \in 1..Len(x) : y[j] = x[j]
          /\ y[Len(x) + 1] = Newline /\ y[Len(x) + 2] = BlankChar
      BY <1>1
    <2>3. at[l] = a + Len(y) /\ at[l] <= Len(h) /\ \A j \in 1..Len(y) : h[a + j] = y[j]
      BY <1>2, <1>5
    <2> HIDE DEF x, y, a
    <2>4. /\ at[l] = a + Len(x) + 2 /\ \A j \in 1..Len(x) : h[a + j] = x[j]
          /\ h[a + Len(x) + 1] = Newline /\ h[a + Len(x) + 2] = BlankChar
      <3>1. /\ Len(x) + 1 \in 1..Len(y) /\ Len(x) + 2 \in 1..Len(y)
            /\ a + (Len(x) + 1) = a + Len(x) + 1 /\ a + (Len(x) + 2) = a + Len(x) + 2
            /\ a + Len(y) = a + Len(x) + 2 /\ \A j \in 1..Len(x) : j \in 1..Len(y)
        BY <2>1, <2>2
      <3> QED
        BY <2>2, <2>3, <3>1
    <2> QED
      BY <2>1, <2>2, <2>3, <2>4 DEF x, a
  <1>7. ASSUME NEW l \in 1..Len(lines), StandsIn(n, lines[l]) PROVE StandsIn(n, h)
    <2> DEFINE x == lines[l]
               a == at[l - 1]
    <2>1. PICK s \in 0..(Len(x) - N) : \A k \in 1..N : StandsFor(x[s + k], n[k])
      BY <1>a, <1>0, <1>7 DEF StandsIn, N
    <2>2. /\ a \in Nat /\ at[l] = a + Len(x) + 2 /\ at[l] <= Len(h) /\ Len(h) \in Nat /\ Len(x) \in Nat
          /\ \A j \in 1..Len(x) : h[a + j] = x[j]
      BY <1>6
    <2> HIDE DEF x, a
    <2>3. a + s \in 0..(Len(h) - N)
      BY <1>a, <1>0, <2>2
    <2>4. ASSUME NEW k \in 1..N PROVE StandsFor(h[(a + s) + k], n[k])
      <3>1. s + k \in 1..Len(x) /\ (a + s) + k = a + (s + k)
        BY <1>a, <1>0, <2>2
      <3> QED
        BY <2>1, <2>2, <3>1
    <2> QED
      BY <1>a, <1>0, <2>3, <2>4 DEF StandsIn, N
  <1>8. ASSUME StandsIn(n, h) PROVE \E l \in 1..Len(lines) : StandsIn(n, lines[l])
    <2>1. PICK s \in 0..(Len(h) - N) : \A k \in 1..N : StandsFor(h[s + k], n[k])
      BY <1>a, <1>0, <1>8 DEF StandsIn, N
    <2>2. s \in Nat /\ s + N <= Len(h) /\ Len(h) \in Nat
      BY <1>a, <1>0, <1>3
    <2> DEFINE B == {m \in 0..Len(lines) : s + 1 <= at[m]}
    <2>3. Len(lines) \in B
      BY <1>a, <1>0, <1>5, <2>2
    <2>4. PICK l \in B : \A m \in B : l <= m
      <3>1. B \subseteq Nat /\ B # {}
        BY <1>a, <1>0, <2>3
      <3> HIDE DEF B
      <3> QED
        BY <3>1, Smallest
    <2>5. l \in 1..Len(lines) /\ s + 1 <= at[l] /\ ~(s + 1 <= at[l - 1])
      <3>1. l \in 0..Len(lines) /\ s + 1 <= at[l] /\ l # 0
        BY <1>5, <2>2
      <3>2. l - 1 \in 0..Len(lines) /\ ~(l <= l - 1)
        BY <1>a, <1>0, <3>1
      <3>3. l - 1 \notin B
        BY <2>4, <3>2
      <3> QED
        BY <1>a, <1>0, <3>1, <3>2, <3>3
    <2> HIDE DEF B
    <2> DEFINE x == lines[l]
               a == at[l - 1]
    <2>6. /\ a \in Nat /\ at[l] = a + Len(x) + 2 /\ at[l] <= Len(h) /\ Len(x) \in Nat
          /\ \A j \in 1..Len(x) : h[a + j] = x[j]
          /\ h[a + Len(x) + 1] = Newline /\ h[a + Len(x) + 2] = BlankChar
          /\ a <= s /\ s + 1 <= a + Len(x) + 2
      <3>1. /\ a \in Nat /\ at[l] = a + Len(x) + 2 /\ at[l] <= Len(h) /\ Len(x) \in Nat
            /\ \A j \in 1..Len(x) : h[a + j] = x[j]
            /\ h[a + Len(x) + 1] = Newline /\ h[a + Len(x) + 2] = BlankChar
        BY <1>6, <2>5
      <3>2. s + 1 <= at[l] /\ ~(s + 1 <= a)
        BY <2>5
      <3> HIDE DEF a, x
      <3> QED
        BY <2>2, <3>1, <3>2
    <2>7. \A d : (StandsFor(Newline, d) => d = Newline) /\ (StandsFor(BlankChar, d) => d = BlankChar)
      <3> TAKE d
      <3>1. Mapped(Newline) = Newline /\ Mapped(BlankChar) = BlankChar
        BY LowerCases, NewlineApart, NewlineNoBlank DEF Mapped, Lower
      <3>2. (Lower(d) = Newline => d = Newline) /\ (Lower(d) = BlankChar => d = BlankChar)
        BY LowerCases, NewlineApart DEF Lower
      <3> QED
        BY <3>1, <3>2, CharacterStands
    <2> HIDE DEF x, a
    <2>8. s + N <= a + Len(x)
      <3> SUFFICES ASSUME s + N > a + Len(x) PROVE FALSE
        BY <1>a, <1>0, <2>2, <2>6
      <3>1. CASE s <= a + Len(x)
        <4> DEFINE k == (a + Len(x) + 1) - s
        <4>1. k \in 1..N /\ s + k = a + Len(x) + 1
          BY <1>a, <1>0, <2>2, <2>6, <3>1
        <4> HIDE DEF k
        <4>2. StandsFor(Newline, n[k])
          BY <2>1, <2>6, <4>1
        <4> QED
          BY <1>a, <1>0, <2>7, <4>1, <4>2
      <3>2. CASE s = a + Len(x) + 1
        <4>1. 1 \in 1..N /\ s + 1 = a + Len(x) + 2
          BY <1>a, <1>0, <2>6, <3>2
        <4>2. StandsFor(BlankChar, n[1])
          BY <2>1, <2>6, <4>1
        <4> QED
          BY <1>a, <1>0, <2>7, <4>2
      <3> QED
        BY <2>2, <2>6, <3>1, <3>2
    <2>9. s - a \in 0..(Len(x) - N)
      BY <1>a, <1>0, <2>2, <2>6, <2>8
    <2>10. ASSUME NEW k \in 1..N PROVE StandsFor(x[(s - a) + k], n[k])
      <3>1. (s - a) + k \in 1..Len(x) /\ a + ((s - a) + k) = s + k
        BY <1>a, <1>0, <2>2, <2>6, <2>8
      <3> QED
        BY <2>1, <2>6, <3>1
    <2>11. StandsIn(n, x)
      BY <1>a, <1>0, <2>9, <2>10 DEF StandsIn, N
    <2> QED
      BY <2>5, <2>11 DEF x
  <1> QED
    BY <1>a, <1>0, <1>3, <1>7, <1>8

----------------------------------------------------------------------------
(* Looking for the recipient's names.                                      *)

Names(v) == Len(v) \in Nat /\ DOMAIN v = 1..Len(v) /\ \A n \in 1..Len(v) : IsName(v[n])
TextLines(v) == Len(v) \in Nat /\ DOMAIN v = 1..Len(v) /\ \A l \in 1..Len(v) : v[l] \in Seq(STRING)

\* How far the names are looked for.
Looking ==
    /\ obj \in 1..(Len(names) + 1)
    /\ rcpt_match \in BOOLEAN
    /\ rcpt_match => obj > 1 /\ is_substring(names[obj - 1], rcpt_hdrs)
    /\ ~rcpt_match => \A n \in 1..(obj - 1) : ~is_substring(names[n], rcpt_hdrs)

MatchInv ==
    /\ step \in {"aliases", "collect", "match", "matched"}
    /\ step # "aliases" => Names(names)
    /\ step \in {"aliases", "collect"} => obj = 1 /\ rcpt_match = FALSE
    /\ step \in {"match", "matched"} =>
           /\ TextLines(rcpt_lines)
           /\ rcpt_hdrs = FlattenSeq([l \in DOMAIN rcpt_lines |-> Collected(rcpt_lines[l])])
           /\ Looking
    /\ step = "matched" => rcpt_match \/ obj > Len(names)

LEMMA AliasNames ==
    ASSUME NEW r \in Recipients, NEW c \in CommonNames
    PROVE  Names(NullAliases(r, c)) /\ Names(LdapAliases(r, c))
  <1>1. IsName(r) /\ Len(c) \in Nat /\ DOMAIN c = 1..Len(c) /\ \A n \in 1..Len(c) : IsName(c[n])
    <2>1. c \in Seq(Seq(STRING)) /\ \A n \in DOMAIN c : IsName(c[n])
      BY MatchAssumption
    <2>2. IsName(r)
      BY MatchAssumption
    <2> QED
      BY <2>1, <2>2
  <1>2. Names(NullAliases(r, c))
    <2> DEFINE v == <<r>>
    <2>1. Len(v) = 1 /\ DOMAIN v = 1..1 /\ v[1] = r
      OBVIOUS
    <2> HIDE DEF v
    <2>2. Names(v)
      BY <1>1, <2>1 DEF Names
    <2> QED
      BY <2>2 DEF NullAliases, v
  <1>3. Names(LdapAliases(r, c))
    <2> DEFINE R == {x \in Seq(STRING) : IsName(x)}
    <2>1. \A x : IsName(x) => x \in R
      BY DEF IsName, IsLine
    <2>2. c \in Seq(Seq(STRING))
      BY MatchAssumption
    <2>3. c = [n \in 1..Len(c) |-> c[n]] /\ \A n \in 1..Len(c) : c[n] \in R
      BY <1>1, <2>1, <2>2
    <2> HIDE DEF R
    <2>4. c \in Seq(R) /\ r \in R
      BY <1>1, <2>1, <2>3
    <2> DEFINE v == <<r>>
               w == v \o c
    <2>5. v \in Seq(R)
      BY <2>4
    <2> HIDE DEF v
    <2>6. w \in Seq(R)
      BY <2>4, <2>5
    <2> HIDE DEF w
    <2>7. Len(w) \in Nat /\ DOMAIN w = 1..Len(w) /\ \A n \in 1..Len(w) : w[n] \in R
      BY <2>6
    <2>8. Names(w)
      BY <2>7 DEF Names, R
    <2> QED
      BY <2>8 DEF LdapAliases, w, v
  <1> QED
    BY <1>2, <1>3

LEMMA MatchStepInv ==
    ASSUME MatchInv, [MatchNext]_<<pathVars, matchVars>>
    PROVE  MatchInv'
  <1>1. CASE Aliases
    <2>1. step = "aliases" /\ step' = "collect" /\ UNCHANGED <<rcpt_lines, obj, rcpt_hdrs, rcpt_match>>
      BY <1>1 DEF Aliases
    <2>2. Names(names')
      <3>1. PICK r \in Recipients, c \in CommonNames : names' \in {NullAliases(r, c), LdapAliases(r, c)}
        BY <1>1 DEF Aliases
      <3> QED
        BY <3>1, AliasNames
    <2> QED
      BY <2>1, <2>2 DEF MatchInv, Names
  <1>2. CASE Collect
    <2>1. step = "collect" /\ step' = "match" /\ UNCHANGED <<names, obj, rcpt_match>>
          /\ rcpt_hdrs' = FlattenSeq([n \in DOMAIN rcpt_lines' |-> Collected(rcpt_lines'[n])])
      BY <1>2 DEF Collect
    <2>2. TextLines(rcpt_lines')
      <3>1. rcpt_lines' \in Seq(Seq(STRING))
        BY <1>2, MatchAssumption DEF Collect
      <3> QED
        BY <3>1 DEF TextLines
    <2>3. Looking'
      <3>1. Len(names') \in Nat /\ obj' = 1 /\ rcpt_match' = FALSE
        BY <2>1, <2>2 DEF MatchInv, Names
      <3>2. obj' \in 1..(Len(names') + 1) /\ \A n \in 1..(obj' - 1) : FALSE
        BY <3>1
      <3> QED
        BY <3>1, <3>2 DEF Looking
    <2> QED
      BY <2>1, <2>2, <2>3 DEF MatchInv, TextLines, Names
  <1>3. CASE MatchName
    <2>1. /\ step = "match" /\ ~rcpt_match /\ obj <= Len(names) /\ obj' = obj + 1
          /\ UNCHANGED <<step, rcpt_lines, names, rcpt_hdrs>>
          /\ rcpt_match' = is_substring(names[obj], rcpt_hdrs)
      BY <1>3 DEF MatchName
    <2>2. Looking /\ Len(names) \in Nat
      BY <2>1 DEF MatchInv, Names
    <2>3. (obj + 1) - 1 = obj /\ obj + 1 \in 1..(Len(names) + 1) /\ obj + 1 > 1
          /\ \A n \in 1..obj : n \in 1..(obj - 1) \/ n = obj
      BY <2>1, <2>2 DEF Looking
    <2> DEFINE b == is_substring(names[obj], rcpt_hdrs)
    <2>4. b \in BOOLEAN
      BY DEF is_substring, strstr
    <2>5. b => is_substring(names[obj], rcpt_hdrs)
      OBVIOUS
    <2>6. ~b => \A n \in 1..obj : ~is_substring(names[n], rcpt_hdrs)
      BY <2>1, <2>2, <2>3 DEF Looking
    <2>7. rcpt_match' = b
      BY <2>1
    <2> HIDE DEF b
    <2>8. Looking'
      BY <2>1, <2>3, <2>4, <2>5, <2>6, <2>7 DEF Looking
    <2> QED
      BY <2>1, <2>8 DEF MatchInv, TextLines, Names
  <1>4. CASE Matched
    <2>1. step = "match" /\ step' = "matched" /\ UNCHANGED <<rcpt_lines, names, obj, rcpt_hdrs, rcpt_match>>
          /\ (rcpt_match \/ obj > Len(names))
      BY <1>4 DEF Matched
    <2> QED
      BY <2>1 DEF MatchInv, TextLines, Names, Looking
  <1>5. CASE UNCHANGED matchVars
    BY <1>5 DEF MatchInv, TextLines, Names, Looking, matchVars
  <1> QED
    BY <1>1, <1>2, <1>3, <1>4, <1>5 DEF MatchNext, MatchStep, matchVars

\* Whatever names the directory gives and whatever lines a message has, a name is
\* found where it stands, and nowhere else (simvacation.c:341-358, vutil.c:102-124).
THEOREM RecipientFound == MatchSpec => []FoundWhereNamed
  <1>1. MatchInit => MatchInv
    BY DEF MatchInit, MatchInv
  <1>2. MatchInv => FoundWhereNamed
    <2> SUFFICES ASSUME MatchInv, step = "matched"
                 PROVE  rcpt_match <=> \E n \in DOMAIN names : \E l \in DOMAIN rcpt_lines :
                                           StandsIn(names[n], rcpt_lines[l])
      BY DEF FoundWhereNamed
    <2>1. /\ Names(names) /\ TextLines(rcpt_lines) /\ Looking /\ (rcpt_match \/ obj > Len(names))
          /\ rcpt_hdrs = FlattenSeq([l \in DOMAIN rcpt_lines |-> Collected(rcpt_lines[l])])
      BY DEF MatchInv
    <2>2. rcpt_match <=> \E n \in 1..Len(names) : is_substring(names[n], rcpt_hdrs)
      <3>1. obj \in 1..(Len(names) + 1) /\ Len(names) \in Nat
        BY <2>1 DEF Looking, Names
      <3>2. CASE rcpt_match
        <4>1. obj - 1 \in 1..Len(names) /\ is_substring(names[obj - 1], rcpt_hdrs)
          BY <2>1, <3>1, <3>2 DEF Looking
        <4> QED
          BY <3>2, <4>1
      <3>3. CASE ~rcpt_match
        <4>1. \A n \in 1..Len(names) : n \in 1..(obj - 1)
          BY <2>1, <3>1, <3>3
        <4> QED
          BY <2>1, <3>3, <4>1 DEF Looking
      <3> QED
        BY <3>2, <3>3
    <2>3. ASSUME NEW n \in 1..Len(names)
          PROVE  is_substring(names[n], rcpt_hdrs)
                 <=> \E l \in DOMAIN rcpt_lines : StandsIn(names[n], rcpt_lines[l])
      <3> DEFINE x == names[n]
                 lines == rcpt_lines
                 h == rcpt_hdrs
      <3>1. IsName(x) /\ x \in Seq(STRING)
        BY <2>1 DEF Names, IsName, IsLine
      <3>2. /\ Len(lines) \in Nat /\ DOMAIN lines = 1..Len(lines)
            /\ \A l \in 1..Len(lines) : lines[l] \in Seq(STRING)
            /\ h = FlattenSeq([l \in 1..Len(lines) |-> Collected(lines[l])])
        BY <2>1 DEF TextLines
      <3> HIDE DEF x, lines, h
      <3>3. h \in Seq(Characters) /\ (StandsIn(x, h) <=> \E l \in DOMAIN lines : StandsIn(x, lines[l]))
        BY <3>1, <3>2, LinesApart
      <3>4. x \in Seq(Characters)
        BY <3>1 DEF Characters
      <3>5. is_substring(x, h) <=> StandsIn(x, h)
        BY <3>3, <3>4, Substring
      <3> QED
        BY <3>3, <3>5 DEF x, lines, h
    <2> QED
      BY <2>1, <2>2, <2>3 DEF Names
  <1>3. MatchInv /\ [MatchNext]_<<pathVars, matchVars>> => MatchInv'
    BY MatchStepInv
  <1> QED
    BY <1>1, <1>2, <1>3, PTL DEF MatchSpec

----------------------------------------------------------------------------
(* Addresses: tokens joined, parted and looked for.                        *)

\* Induction over sets of numbers.
LEMMA MarksApart ==
    \A d \in {"SRS0", "SRS1", "prvs", "btv1", "=", "-", "+", "@", "home", "hash", "time", "tag",
              "mailer-daemon", "x-errors", "<>"} : d # DoubleQuote
  BY Zenon DEF DoubleQuote

Marks == {"SRS0", "SRS1", "prvs", "btv1", "=", "-", "+", "@", "home", "hash", "time", "tag", "<>"}
Tokens == STRING \union Marks \union {DoubleQuote}

LEMMA MarksAreTokens ==
    /\ \A d \in Marks : d \in Tokens
    /\ DoubleQuote \in Tokens
    /\ \A a \in Seq(STRING) : a \in Seq(Tokens)
  <1>1. STRING \subseteq Tokens
    BY DEF Tokens
  <1>2. ASSUME NEW a \in Seq(STRING) PROVE a \in Seq(Tokens)
    <2>1. Len(a) \in Nat /\ a = [k \in 1..Len(a) |-> a[k]] /\ \A k \in 1..Len(a) : a[k] \in STRING
      OBVIOUS
    <2>2. \A k \in 1..Len(a) : a[k] \in Tokens
      BY <1>1, <2>1
    <2> QED
      BY <2>1, <2>2
  <1> QED
    BY <1>1, <1>2 DEF Tokens

\* Sequences of tokens joined, and parts of what was joined.
LEMMA Joining ==
    ASSUME NEW a \in Seq(Tokens), NEW b \in Seq(Tokens)
    PROVE  /\ a \o b \in Seq(Tokens) /\ Len(a) \in Nat /\ Len(b) \in Nat
           /\ Len(a \o b) = Len(a) + Len(b)
           /\ \A k \in 1..Len(a) : (a \o b)[k] = a[k]
           /\ \A k \in 1..Len(b) : (a \o b)[Len(a) + k] = b[k]
  OBVIOUS

LEMMA SameTokens ==
    ASSUME NEW a \in Seq(Tokens), NEW b \in Seq(Tokens), Len(a) = Len(b),
           \A k \in 1..Len(a) : a[k] = b[k]
    PROVE  a = b
  OBVIOUS

LEMMA Parting ==
    ASSUME NEW a \in Seq(Tokens), NEW b \in Seq(Tokens)
    PROVE  /\ From(a \o b, Len(a) + 1) = b
           /\ SubSeq(a \o b, 1, Len(a)) = a
  <1> DEFINE c == a \o b
  <1>1. c \in Seq(Tokens) /\ Len(a) \in Nat /\ Len(b) \in Nat /\ Len(c) = Len(a) + Len(b)
        /\ (\A k \in 1..Len(a) : c[k] = a[k]) /\ (\A k \in 1..Len(b) : c[Len(a) + k] = b[k])
    BY Joining
  <1> HIDE DEF c
  <1>2. From(c, Len(a) + 1) = b
    <2> DEFINE d == SubSeq(c, Len(a) + 1, Len(c))
    <2>1. d \in Seq(Tokens) /\ Len(d) = Len(b) /\ \A k \in 1..Len(b) : d[k] = c[Len(a) + k]
      BY <1>1
    <2> HIDE DEF d
    <2>2. d = b
      BY <1>1, <2>1, SameTokens
    <2> QED
      BY <2>2 DEF From, d
  <1>3. SubSeq(c, 1, Len(a)) = a
    <2> DEFINE d == SubSeq(c, 1, Len(a))
    <2>1. d \in Seq(Tokens) /\ Len(d) = Len(a) /\ \A k \in 1..Len(a) : d[k] = c[k]
      BY <1>1
    <2> HIDE DEF d
    <2>2. d = a
      BY <1>1, <2>1, SameTokens
    <2> QED
      BY <2>2 DEF d
  <1> QED
    BY <1>2, <1>3 DEF c

LEMMA Regrouped ==
    ASSUME NEW a \in Seq(Tokens), NEW b \in Seq(Tokens), NEW c \in Seq(Tokens)
    PROVE  (a \o b) \o c = a \o (b \o c)
  <1> DEFINE l == (a \o b) \o c
             r == a \o (b \o c)
             ab == a \o b
             bc == b \o c
  <1>1. ab \in Seq(Tokens) /\ Len(a) \in Nat /\ Len(b) \in Nat /\ Len(ab) = Len(a) + Len(b)
        /\ (\A k \in 1..Len(a) : ab[k] = a[k]) /\ (\A k \in 1..Len(b) : ab[Len(a) + k] = b[k])
    BY Joining
  <1>2. bc \in Seq(Tokens) /\ Len(c) \in Nat /\ Len(bc) = Len(b) + Len(c)
        /\ (\A k \in 1..Len(b) : bc[k] = b[k]) /\ (\A k \in 1..Len(c) : bc[Len(b) + k] = c[k])
    BY Joining
  <1> HIDE DEF ab, bc
  <1>3. ab \o c \in Seq(Tokens) /\ Len(ab \o c) = Len(ab) + Len(c)
        /\ (\A k \in 1..Len(ab) : (ab \o c)[k] = ab[k])
        /\ (\A k \in 1..Len(c) : (ab \o c)[Len(ab) + k] = c[k])
    BY <1>1, Joining
  <1>4. a \o bc \in Seq(Tokens) /\ Len(a \o bc) = Len(a) + Len(bc)
        /\ (\A k \in 1..Len(a) : (a \o bc)[k] = a[k])
        /\ (\A k \in 1..Len(bc) : (a \o bc)[Len(a) + k] = bc[k])
    BY <1>2, Joining
  <1> DEFINE x == ab \o c
             y == a \o bc
             la == Len(a)
             lb == Len(b)
             lc == Len(c)
  <1>5. /\ x \in Seq(Tokens) /\ y \in Seq(Tokens) /\ la \in Nat /\ lb \in Nat /\ lc \in Nat
        /\ Len(x) = la + lb + lc /\ Len(y) = la + lb + lc
    BY <1>1, <1>2, <1>3, <1>4
  <1>6. ASSUME NEW k \in 1..Len(x) PROVE x[k] = y[k]
    <2>1. CASE k <= la
      BY <1>1, <1>3, <1>4, <1>5, <2>1
    <2>2. CASE la < k /\ k <= la + lb
      <3> DEFINE j == k - la
      <3>1. j \in 1..lb /\ k = la + j /\ la + j \in 1..Len(ab) /\ j \in 1..Len(bc)
        BY <1>1, <1>2, <1>5, <2>2
      <3> HIDE DEF j
      <3>2. x[la + j] = b[j] /\ y[la + j] = b[j]
        BY <1>1, <1>2, <1>3, <1>4, <3>1
      <3> QED
        BY <3>1, <3>2
    <2>3. CASE la + lb < k
      <3> DEFINE j == k - la - lb
      <3>1. j \in 1..lc /\ k = (la + lb) + j /\ k = la + (lb + j) /\ lb + j \in 1..Len(bc)
        BY <1>1, <1>2, <1>5, <2>3
      <3> HIDE DEF j
      <3>2. x[(la + lb) + j] = c[j] /\ y[la + (lb + j)] = c[j]
        BY <1>1, <1>2, <1>3, <1>4, <3>1
      <3> QED
        BY <3>1, <3>2
    <2> QED
      BY <1>5, <2>1, <2>2, <2>3
  <1> HIDE DEF x, y
  <1>7. x = y
    BY <1>5, <1>6, SameTokens
  <1> QED
    BY <1>7 DEF x, y, ab, bc

Regroups(a, b, c) == (a \o b) \o c = a \o (b \o c)

LEMMA Regrouping ==
    ASSUME NEW a \in Seq(Tokens), NEW b \in Seq(Tokens), NEW c \in Seq(Tokens)
    PROVE  Regroups(a, b, c)
  BY Regrouped DEF Regroups

LEMMA FirstIs ==
    ASSUME NEW a \in Seq(Tokens), NEW t, NEW i \in Nat \ {0}, NEW k \in i..Len(a), a[k] = t,
           \A j \in i..(k - 1) : a[j] # t
    PROVE  FirstFrom(a, i, t) = k /\ (i = 1 => First(a, t) = k)
  <1> DEFINE I == {j \in i..Len(a) : a[j] = t}
  <1>1. k \in I /\ \A j \in I : k <= j
    OBVIOUS
  <1>2. Min(I) = k
    <2>1. \A j \in I : j \in Nat
      OBVIOUS
    <2> HIDE DEF I
    <2> QED
      <3>1. \A j \in I : (\A m \in I : j <= m) => j = k
        BY <1>1, <2>1
      <3>2. Min(I) = CHOOSE j \in I : \A m \in I : j <= m
        BY Zenon DEF Min
      <3> QED
        BY <1>1, <3>1, <3>2
  <1>3. FirstFrom(a, i, t) = Min(I)
    BY <1>1 DEF FirstFrom, SelectInSubSeq
  <1>4. i = 1 => First(a, t) = Min(I)
    BY <1>1 DEF First, SelectInSeq
  <1> QED
    BY <1>2, <1>3, <1>4

LEMMA NoneFrom ==
    ASSUME NEW a \in Seq(Tokens), NEW t, NEW i \in Nat, \A j \in i..Len(a) : a[j] # t
    PROVE  FirstFrom(a, i, t) = 0
  BY DEF FirstFrom, SelectInSubSeq

LEMMA LastIs ==
    ASSUME NEW a \in Seq(Tokens), NEW t, NEW k \in 1..Len(a), a[k] = t,
           \A j \in (k + 1)..Len(a) : a[j] # t
    PROVE  LastOf(a, t) = k
  <1> DEFINE I == {j \in 1..Len(a) : a[j] = t}
  <1>1. k \in I /\ \A j \in I : k >= j
    OBVIOUS
  <1>2. Max(I) = k
    <2>1. \A j \in I : j \in Nat
      OBVIOUS
    <2> HIDE DEF I
    <2> QED
      <3>1. \A j \in I : (\A m \in I : j >= m) => j = k
        BY <1>1, <2>1
      <3>2. Max(I) = CHOOSE j \in I : \A m \in I : j >= m
        BY Zenon DEF Max
      <3> QED
        BY <1>1, <3>1, <3>2
  <1>3. LastOf(a, t) = Max(I)
    BY <1>1 DEF LastOf, SelectLastInSeq
  <1> QED
    BY <1>2, <1>3

LEMMA PairIs ==
    ASSUME NEW a \in Seq(Tokens), NEW t, NEW u, NEW i \in Nat \ {0}, NEW k \in i..(Len(a) - 1),
           a[k] = t, a[k + 1] = u, \A j \in i..(k - 1) : ~(a[j] = t /\ a[j + 1] = u)
    PROVE  FirstPairFrom(a, i, t, u) = k
  <1> DEFINE I == {j \in i..(Len(a) - 1) : a[j] = t /\ a[j + 1] = u}
  <1>1. k \in I /\ \A j \in I : k <= j
    OBVIOUS
  <1>2. \A j \in I : j \in Nat
    OBVIOUS
  <1>3. FirstPairFrom(a, i, t, u) = CHOOSE j \in I : \A m \in I : j <= m
    BY <1>1 DEF FirstPairFrom
  <1> HIDE DEF I
  <1>4. \A j \in I : (\A m \in I : j <= m) => j = k
    BY <1>1, <1>2
  <1> QED
    BY <1>1, <1>3, <1>4

LEMMA NoPair ==
    ASSUME NEW a \in Seq(Tokens), NEW t, NEW u, NEW i \in Nat \ {0}
    PROVE  FirstPairFrom(a, i, t, u) = 0
           <=> \A k \in i..(Len(a) - 1) : ~(a[k] = t /\ a[k + 1] = u)
  <1> DEFINE I == {j \in i..(Len(a) - 1) : a[j] = t /\ a[j + 1] = u}
             f == CHOOSE k \in I : \A m \in I : k <= m
  <1>1. FirstPairFrom(a, i, t, u) = IF I = {} THEN 0 ELSE f
    BY DEF FirstPairFrom
  <1>2. I \subseteq Nat \ {0} /\ (I = {} <=> \A k \in i..(Len(a) - 1) : ~(a[k] = t /\ a[k + 1] = u))
    <2>1. \A k \in i..(Len(a) - 1) : k \in Nat \ {0}
      OBVIOUS
    <2> QED
      BY <2>1
  <1> HIDE DEF I
  <1>3. I # {} => f \in I
    <2>1. ASSUME I # {} PROVE \E k \in I : \A m \in I : k <= m
      BY <1>2, <2>1, Smallest
    <2> QED
      BY <2>1
  <1> HIDE DEF f
  <1> QED
    BY <1>1, <1>2, <1>3

----------------------------------------------------------------------------
(* What forwarders put around a local part, and how canon_from takes it away.*)

\* What forwarders put before a local part, and after it.
Head0(s) == <<"SRS0", s, "hash", "=", "time", "=", "home", "=">>
Head1(s, f, t) == <<"SRS1", s, "hash", "=", f, "=", t, "hash", "=", "time", "=", "home", "=">>
Behind(f) == <<"@", f>>
Rest == <<"hash", "=", "time", "=", "home", "=">>

Domains == {f \in Tokens : f \notin Separators \union {"@"}}

LEMMA Heads ==
    ASSUME NEW s \in Separators, NEW f \in Domains, NEW t \in Separators
    PROVE  /\ Head0(s) \in Seq(Tokens) /\ Head1(s, f, t) \in Seq(Tokens) /\ Rest \in Seq(Tokens)
           /\ Len(Head0(s)) = 8 /\ Len(Head1(s, f, t)) = 13 /\ Len(Rest) = 6
           /\ <<"SRS0", s>> \in Seq(Tokens) /\ Len(<<"SRS0", s>>) = 2
           /\ Head0(s) = <<"SRS0", s>> \o Rest
           /\ <<"SRS1", s>> \in Seq(Tokens) /\ Len(<<"SRS1", s>>) = 2
           /\ <<"hash", "=", f, "=", t>> \in Seq(Tokens) /\ Len(<<"hash", "=", f, "=", t>>) = 5
           /\ Head1(s, f, t) = <<"SRS1", s>> \o (<<"hash", "=", f, "=", t>> \o Rest)
           /\ <<f, "=", t>> \in Seq(Tokens)
           /\ Head1(s, f, t) = <<"SRS1", s, "hash", "=">> \o (<<f, "=", t>> \o Rest)
           /\ Behind(f) \in Seq(Tokens) /\ Len(Behind(f)) = 2
        /\ <<"home", "=">> \in Seq(Tokens) /\ <<"hash", "=", "time", "=">> \in Seq(Tokens)
           /\ Rest = <<"hash", "=", "time", "=">> \o <<"home", "=">>
           /\ Behind(f) \in Seq(Tokens) /\ Len(Behind(f)) = 2
  <1>1. s \in Tokens /\ f \in Tokens /\ t \in Tokens
    BY MarksAreTokens DEF Separators, Domains, Marks
  <1>a. /\ "SRS0" \in Tokens /\ "SRS1" \in Tokens /\ "=" \in Tokens /\ "hash" \in Tokens
        /\ "time" \in Tokens /\ "home" \in Tokens /\ "@" \in Tokens
    BY MarksAreTokens DEF Marks
  <1>2. /\ Head0(s) \in Seq(Tokens) /\ Head1(s, f, t) \in Seq(Tokens) /\ Rest \in Seq(Tokens)
        /\ Len(Head0(s)) = 8 /\ Len(Head1(s, f, t)) = 13 /\ Len(Rest) = 6
        /\ Behind(f) \in Seq(Tokens) /\ Len(Behind(f)) = 2
    BY <1>1, <1>a DEF Head0, Head1, Rest, Behind
  <1>3. Head0(s) = <<"SRS0", s>> \o Rest
    BY DEF Head0, Rest
  <1>4. Head1(s, f, t) = <<"SRS1", s>> \o (<<"hash", "=", f, "=", t>> \o Rest)
    BY DEF Head1, Rest
  <1>5. Head1(s, f, t) = <<"SRS1", s, "hash", "=">> \o (<<f, "=", t>> \o Rest)
    BY DEF Head1, Rest
  <1>6. Rest = <<"hash", "=", "time", "=">> \o <<"home", "=">>
    BY DEF Rest
  <1> QED
    BY <1>1, <1>a, <1>2, <1>3, <1>4, <1>5, <1>6

LEMMA Middle ==
    ASSUME NEW a \in Seq(Tokens), NEW m \in Seq(Tokens), NEW c \in Seq(Tokens)
    PROVE  SubSeq(a \o (m \o c), Len(a) + 1, Len(a) + Len(m)) = m
  <1> DEFINE b == m \o c
             z == a \o b
             d == SubSeq(z, Len(a) + 1, Len(a) + Len(m))
  <1>1. b \in Seq(Tokens) /\ Len(m) \in Nat /\ Len(c) \in Nat /\ Len(b) = Len(m) + Len(c)
        /\ \A k \in 1..Len(m) : b[k] = m[k]
    BY Joining
  <1> HIDE DEF b
  <1>2. z \in Seq(Tokens) /\ Len(a) \in Nat /\ Len(z) = Len(a) + Len(b)
        /\ \A k \in 1..Len(b) : z[Len(a) + k] = b[k]
    BY <1>1, Joining
  <1> HIDE DEF z
  <1>3. d \in Seq(Tokens) /\ Len(d) = Len(m) /\ \A k \in 1..Len(m) : d[k] = z[Len(a) + k]
    BY <1>1, <1>2
  <1> HIDE DEF d
  <1>4. d = m
    BY <1>1, <1>2, <1>3, SameTokens
  <1> QED
    BY <1>4 DEF d, z, b

\* A local part x between what is before it and what is behind it.
Encloses(z, a, b, x, f) ==
    /\ z \in Seq(Tokens) /\ Len(z) = Len(a) + Len(b) + Len(x) + 2
    /\ LastOf(z, "@") = Len(a) + Len(b) + Len(x) + 1
    /\ From(z, LastOf(z, "@") + 1) = <<f>>
    /\ From(z, Len(a) + 1) = b \o (x \o Behind(f))
    /\ SubSeq(z, Len(a) + 1, LastOf(z, "@") - 1) = b \o x
    /\ SubSeq(z, 1, Len(a)) = a

LEMMA Enclosed ==
    ASSUME NEW a \in Seq(Tokens), NEW b \in Seq(Tokens), NEW x \in Seq(Tokens), NEW f \in Tokens, f # "@"
    PROVE  Encloses((a \o b) \o (x \o Behind(f)), a, b, x, f)
  <1> DEFINE y == x \o Behind(f)
             z == (a \o b) \o y
             h == a \o b
             m == b \o x
             n == h \o x
  <1>0. Behind(f) \in Seq(Tokens) /\ <<"@">> \in Seq(Tokens) /\ <<f>> \in Seq(Tokens)
        /\ Behind(f) = <<"@">> \o <<f>> /\ Len(Behind(f)) = 2 /\ Len(<<"@">>) = 1
        /\ Behind(f)[1] = "@" /\ Behind(f)[2] = f
    BY MarksAreTokens DEF Behind, Marks
  <1>1. /\ h \in Seq(Tokens) /\ m \in Seq(Tokens) /\ n \in Seq(Tokens) /\ y \in Seq(Tokens)
        /\ Len(a) \in Nat /\ Len(b) \in Nat /\ Len(x) \in Nat
        /\ Len(h) = Len(a) + Len(b) /\ Len(m) = Len(b) + Len(x) /\ Len(y) = Len(x) + 2
    BY <1>0, Joining
  <1>2. Len(n) = Len(a) + Len(b) + Len(x)
    <2>1. y \in Seq(Tokens) /\ Len(x) \in Nat /\ Len(y) = Len(x) + Len(Behind(f))
      BY <1>1, Joining
    <2> QED
      BY <1>1, <2>1
  <1>a. z = n \o Behind(f)
    <2>1. (h \o x) \o Behind(f) = h \o (x \o Behind(f))
      <3>1. Behind(f) \in Seq(Tokens) /\ h \in Seq(Tokens)
        BY <1>0, <1>1
      <3> HIDE DEF h
      <3> QED
        BY <3>1, Regrouped
    <2> QED
      BY <2>1
  <1>b. z = a \o (b \o y)
    <2> HIDE DEF y
    <2> QED
      BY <1>1, Regrouped
  <1>c. b \o y = m \o Behind(f)
    BY <1>0, Regrouped
  <1> HIDE DEF h, m, n, z, y
  <1>3. z = n \o Behind(f) /\ z = a \o (b \o y) /\ b \o y = m \o Behind(f)
    BY <1>a, <1>b, <1>c
  <1>4. z \in Seq(Tokens) /\ Len(z) = Len(n) + 2 /\ z[Len(n) + 1] = "@" /\ z[Len(n) + 2] = f
    <2>1. n \o Behind(f) \in Seq(Tokens) /\ Len(n \o Behind(f)) = Len(n) + Len(Behind(f))
          /\ \A k \in 1..Len(Behind(f)) : (n \o Behind(f))[Len(n) + k] = Behind(f)[k]
      BY <1>0, <1>1, Joining
    <2> QED
      BY <1>0, <1>3, <2>1
  <1>5. LastOf(z, "@") = Len(n) + 1
    <2>1. Len(n) \in Nat /\ Len(n) + 1 \in 1..Len(z)
          /\ \A j \in (Len(n) + 1 + 1)..Len(z) : z[j] # "@"
      BY <1>1, <1>4
    <2> QED
      BY <1>4, <2>1, LastIs
  <1>6. From(z, Len(n) + 2) = <<f>>
    <2> DEFINE o == n \o <<"@">>
    <2>1. o \in Seq(Tokens) /\ Len(o) = Len(n) + 1 /\ Len(n) \in Nat
      BY <1>0, <1>1, Joining
    <2>2. z = o \o <<f>>
      <3>1. (n \o <<"@">>) \o <<f>> = n \o (<<"@">> \o <<f>>)
        BY SMTT(60), <1>0, <1>1, Regrouped
      <3> QED
        BY <1>0, <1>3, <3>1
    <2> HIDE DEF o
    <2>3. From(o \o <<f>>, Len(o) + 1) = <<f>>
      BY <1>0, <2>1, Parting
    <2>4. Len(o) + 1 = Len(n) + 2
      BY <2>1
    <2> QED
      BY <2>2, <2>3, <2>4
  <1>7. From(z, Len(a) + 1) = b \o y /\ SubSeq(z, 1, Len(a)) = a
    <2>1. b \o y \in Seq(Tokens)
      BY <1>1, Joining
    <2>2. From(a \o (b \o y), Len(a) + 1) = b \o y /\ SubSeq(a \o (b \o y), 1, Len(a)) = a
      BY <2>1, Parting
    <2> QED
      BY <1>3, <2>2
  <1>8. SubSeq(z, Len(a) + 1, Len(a) + Len(m)) = m
    <2>1. SubSeq(a \o (m \o Behind(f)), Len(a) + 1, Len(a) + Len(m)) = m
      BY <1>0, <1>1, Middle
    <2> QED
      BY <1>3, <2>1
  <1>9. Len(a) + Len(m) = (Len(n) + 1) - 1 /\ (Len(n) + 1) + 1 = Len(n) + 2
    BY <1>1, <1>2
  <1>10. /\ z \in Seq(Tokens) /\ Len(z) = Len(a) + Len(b) + Len(x) + 2
         /\ LastOf(z, "@") = Len(a) + Len(b) + Len(x) + 1
         /\ From(z, LastOf(z, "@") + 1) = <<f>>
         /\ From(z, Len(a) + 1) = b \o y
         /\ SubSeq(z, Len(a) + 1, LastOf(z, "@") - 1) = m
         /\ SubSeq(z, 1, Len(a)) = a
    BY <1>1, <1>2, <1>4, <1>5, <1>6, <1>7, <1>8, <1>9
  <1> QED
    BY <1>10 DEF z, m, y, h, Encloses

LEMMA RestParts ==
    LET e == <<"home", "=">>
        o == <<"hash", "=", "time", "=">>
    IN  /\ e \in Seq(Tokens) /\ o \in Seq(Tokens) /\ Rest \in Seq(Tokens) /\ <<"home">> \in Seq(Tokens)
        /\ <<"=">> \in Seq(Tokens) /\ <<>> \in Seq(Tokens) /\ <<"@">> \in Seq(Tokens)
        /\ Len(e) = 2 /\ Len(o) = 4 /\ Len(Rest) = 6 /\ Len(<<"home">>) = 1 /\ Len(<<"=">>) = 1
        /\ Rest = o \o e /\ e = e \o <<>> /\ e = <<"home">> \o <<"=">> /\ Len(<<>>) = 0
        /\ Rest[1] = "hash" /\ Rest[2] = "=" /\ Rest[3] = "time" /\ Rest[4] = "="
        /\ e[1] = "home" /\ e[2] = "="
        /\ Behind("home") \in Seq(Tokens) /\ Behind("home") = <<"@">> \o <<"home">>
        /\ "home" \in Tokens
  BY MarksAreTokens DEF Marks, Rest, Behind

LEMMA RestUndone ==
    ASSUME NEW q \in Seq(Tokens), NEW x \in Seq(Tokens), NEW f \in Domains
    PROVE  Swapped(q, HashAndTimeGone(Rest \o (x \o Behind(f)))) = q \o (x \o Behind("home"))
  <1> DEFINE y == x \o Behind(f)
             r == Rest \o y
             e == <<"home", "=">>
             o == <<"hash", "=", "time", "=">>
             b == e \o y
  <1>0. f \in Tokens /\ f # "@"
    BY DEF Domains
  <1>1. /\ Behind(f) \in Seq(Tokens) /\ Len(Behind(f)) = 2
    BY <1>0, MarksAreTokens DEF Behind, Marks
  <1>2. y \in Seq(Tokens) /\ Len(y) = Len(x) + 2 /\ Len(x) \in Nat
    <2>1. y \in Seq(Tokens) /\ Len(x) \in Nat /\ Len(y) = Len(x) + Len(Behind(f))
      BY <1>1, Joining
    <2> QED
      BY <1>1, <2>1
  <1>a. e \in Seq(Tokens) /\ o \in Seq(Tokens) /\ Rest = o \o e /\ Len(o) = 4 /\ Len(e) = 2
    BY RestParts
  <1>3. Encloses((o \o e) \o y, o, e, x, f)
    <2> HIDE DEF o, e
    <2> QED
      BY <1>0, <1>a, Enclosed
  <1>4. Encloses((e \o <<>>) \o y, e, <<>>, x, f)
    <2> HIDE DEF e
    <2> QED
      BY <1>0, <1>a, RestParts, Enclosed
  <1>5. Encloses((<<"home">> \o <<"=">>) \o y, <<"home">>, <<"=">>, x, f)
    BY <1>0, RestParts, Enclosed
  <1> HIDE DEF y
  <1>6. r[1] = "hash" /\ r[2] = "=" /\ r[3] = "time" /\ r[4] = "="
    <2>1. \A k \in 1..6 : r[k] = Rest[k]
      BY <1>2, RestParts, Joining
    <2> QED
      BY <2>1, RestParts
  <1>7. b[1] = "home" /\ b[2] = "="
    <2>1. \A k \in 1..2 : b[k] = e[k]
      <3> HIDE DEF e
      <3>1. \A k \in 1..Len(e) : b[k] = e[k]
        BY <1>2, <1>a, Joining
      <3> QED
        BY <1>a, <3>1
    <2> HIDE DEF b
    <2> QED
      BY <2>1
  <1>8. b = (e \o <<>>) \o y /\ b = (<<"home">> \o <<"=">>) \o y /\ r = (o \o e) \o y
    BY RestParts
  <1> HIDE DEF b, r, o, e
  <1>9. r \in Seq(Tokens) /\ Len(r) = 6 + Len(x) + 2 /\ From(r, 5) = b
    <2>1. /\ r \in Seq(Tokens) /\ Len(r) = 4 + 2 + Len(x) + 2 /\ From(r, 4 + 1) = e \o (x \o Behind(f))
      BY <1>3, <1>8, <1>a DEF Encloses
    <2>2. b = e \o (x \o Behind(f))
      BY DEF b, y
    <2> QED
      BY <1>2, <2>1, <2>2
  <1>10. b \in Seq(Tokens) /\ Len(b) = Len(x) + 4 /\ LastOf(b, "@") = Len(x) + 3
         /\ SubSeq(b, 3, LastOf(b, "@") - 1) = x /\ SubSeq(b, 1, 1) = <<"home">>
    <2>1. /\ b \in Seq(Tokens) /\ Len(b) = 2 + 0 + Len(x) + 2 /\ LastOf(b, "@") = 2 + 0 + Len(x) + 1
          /\ SubSeq(b, 2 + 1, LastOf(b, "@") - 1) = <<>> \o x
      BY <1>4, <1>8, <1>a, RestParts DEF Encloses
    <2>2. SubSeq(b, 1, 1) = <<"home">>
      BY <1>5, <1>8, RestParts DEF Encloses
    <2>3. <<>> \o x = x
      OBVIOUS
    <2> QED
      BY <1>2, <2>1, <2>2, <2>3
  <1>11. First(r, "=") = 2 /\ FirstFrom(r, 3, "=") = 4
    <2>1. 2 \in 1..Len(r) /\ (\A j \in 1..(2 - 1) : r[j] # "=")
          /\ 4 \in 3..Len(r) /\ \A j \in 3..(4 - 1) : r[j] # "="
      BY <1>2, <1>6, <1>9
    <2>2. FirstFrom(r, 1, "=") = 2 /\ First(r, "=") = 2
      <3>1. r \in Seq(Tokens) /\ 1 \in Nat \ {0} /\ 2 \in 1..Len(r) /\ r[2] = "="
        BY <1>6, <1>9, <2>1
      <3>2. \A j \in 1..(2 - 1) : r[j] # "="
        BY <2>1
      <3> QED
        BY <3>1, <3>2, FirstIs
    <2>3. FirstFrom(r, 3, "=") = 4
      <3>1. r \in Seq(Tokens) /\ 3 \in Nat \ {0} /\ 4 \in 3..Len(r) /\ r[4] = "="
        BY <1>6, <1>9, <2>1
      <3>2. \A j \in 3..(4 - 1) : r[j] # "="
        BY <2>1
      <3> QED
        BY <3>1, <3>2, FirstIs
    <2> QED
      BY <2>2, <2>3
  <1>12. HashAndTimeGone(r) = b
    BY <1>9, <1>11 DEF HashAndTimeGone
  <1>13. First(b, "=") = 2
    <2>1. 2 \in 1..Len(b) /\ \A j \in 1..(2 - 1) : b[j] # "="
      BY <1>2, <1>7, <1>10
    <2>2. FirstFrom(b, 1, "=") = 2 /\ First(b, "=") = 2
      BY <1>7, <1>10, <2>1, FirstIs
    <2> QED
      BY <2>2
  <1>14. Swapped(q, b) = ((q \o x) \o <<"@">>) \o <<"home">>
    <2>1. ~(2 = 0 \/ LastOf(b, "@") < 2) /\ 2 + 1 = 3 /\ 2 - 1 = 1
      BY <1>2, <1>10
    <2> QED
      BY <1>10, <1>13, <2>1 DEF Swapped
  <1>15. ((q \o x) \o <<"@">>) \o <<"home">> = q \o (x \o Behind("home"))
    <2> DEFINE at == <<"@">>
               home == <<"home">>
               tail == Behind("home")
               qx == q \o x
    <2>1. at \in Seq(Tokens) /\ home \in Seq(Tokens) /\ tail \in Seq(Tokens) /\ tail = at \o home
      BY RestParts
    <2>2. qx \in Seq(Tokens)
      BY Joining
    <2> HIDE DEF at, home, tail
    <2>3. qx \o tail = q \o (x \o tail)
      BY <2>1, Regrouped
    <2> HIDE DEF qx
    <2>4. (qx \o at) \o home = qx \o (at \o home)
      BY <2>1, <2>2, Regrouped
    <2> QED
      BY <2>1, <2>3, <2>4 DEF at, home, tail, qx
  <1> QED
    BY <1>12, <1>14, <1>15 DEF r, y

Quotes == {<<>>, <<DoubleQuote>>}

\* A sender's own address, and what the first forwarder and the ones after it make of it.
WrittenOwn(q, x) == q \o (x \o Behind("home"))
Written0(q, x, s, f) == q \o (Head0(s) \o (x \o Behind(f)))
Written1(q, x, s, g, t, f) == q \o (Head1(s, g, t) \o (x \o Behind(f)))

\* What canon_from looks for before a forwarder's separator t.
LookedForBefore(t) == IF t = "=" THEN {} ELSE IF t = "-" THEN {"="} ELSE {"=", "-"}

LEMMA QuotesAre ==
    ASSUME NEW q \in Quotes
    PROVE  q \in Seq(Tokens) /\ (q = <<>> \/ q = <<DoubleQuote>>) /\ Len(q) \in {0, 1}
           /\ (Len(q) = 0 <=> q = <<>>)
  <1>1. DoubleQuote \in Tokens
    BY MarksAreTokens
  <1>2. CASE q = <<>>
    BY <1>2
  <1>3. CASE q = <<DoubleQuote>>
    BY <1>1, <1>3
  <1> QED
    BY <1>2, <1>3 DEF Quotes

LEMMA QuoteBack ==
    ASSUME NEW q \in Quotes, NEW z \in Seq(Tokens)
    PROVE  (IF z = q \o z THEN <<>> ELSE <<DoubleQuote>>) = q
  <1>1. CASE q = <<>>
    <2>1. <<>> \o z = z
      OBVIOUS
    <2> QED
      BY <1>1, <2>1
  <1>2. CASE q = <<DoubleQuote>>
    <2>1. q \in Seq(Tokens) /\ Len(q) = 1
      BY <1>2, MarksAreTokens
    <2>2. Len(q \o z) = Len(q) + Len(z) /\ Len(z) \in Nat
      BY <2>1, Joining
    <2>3. Len(z) # Len(q \o z)
      BY <2>1, <2>2
    <2>4. z # q \o z
      BY <2>3
    <2> QED
      BY <1>2, <2>4
  <1> QED
    BY <1>1, <1>2, QuotesAre

LEMMA UnquotedOf ==
    ASSUME NEW q \in Quotes, NEW z \in Seq(Tokens), Len(z) > 0,
           q = <<>> => z[1] # DoubleQuote
    PROVE  Unquoted(q \o z) = z
  <1>1. CASE q = <<>>
    <2>1. <<>> \o z = z
      OBVIOUS
    <2> QED
      BY <1>1, <2>1 DEF Unquoted, At
  <1>2. CASE q = <<DoubleQuote>>
    <2> DEFINE a == q \o z
    <2>1. q \in Seq(Tokens) /\ Len(q) = 1 /\ q[1] = DoubleQuote
      BY <1>2, MarksAreTokens
    <2>2. a \in Seq(Tokens) /\ Len(a) = 1 + Len(z) /\ Len(z) \in Nat /\ a[1] = DoubleQuote
          /\ \A k \in 1..Len(z) : a[1 + k] = z[k]
      <3>1. a \in Seq(Tokens) /\ Len(a) = Len(q) + Len(z) /\ Len(z) \in Nat
            /\ (\A k \in 1..Len(q) : a[k] = q[k]) /\ \A k \in 1..Len(z) : a[Len(q) + k] = z[k]
        BY <2>1, Joining
      <3> HIDE DEF a
      <3> QED
        BY <2>1, <3>1
    <2> HIDE DEF a
    <2>3. Unquoted(a) = Tail(a)
      BY <2>2 DEF Unquoted, At
    <2>4. Tail(a) \in Seq(Tokens) /\ Len(Tail(a)) = Len(z) /\ \A k \in 1..Len(z) : Tail(a)[k] = a[1 + k]
      BY <2>2
    <2> DEFINE b == Tail(a)
    <2>5. b \in Seq(Tokens) /\ Len(b) = Len(z) /\ \A k \in 1..Len(b) : b[k] = z[k]
      BY <2>2, <2>4
    <2> HIDE DEF b
    <2>6. b = z
      BY <2>5, SameTokens
    <2> QED
      BY <2>3, <2>6 DEF a, b
  <1> QED
    BY <1>1, <1>2, QuotesAre

LEMMA Behinds ==
    ASSUME NEW f \in Domains
    PROVE  Behind(f) \in Seq(Tokens) /\ Len(Behind(f)) = 2 /\ f \in Tokens /\ f # "@" /\ f \notin Separators
  BY MarksAreTokens DEF Behind, Domains, Marks

LEMMA HomeIsDomain == "home" \in Domains
  BY MarksAreTokens DEF Domains, Separators, Marks

LEMMA OwnShape ==
    ASSUME NEW q \in Quotes, NEW x \in Seq(Tokens)
    PROVE  /\ WrittenOwn(q, x) \in Seq(Tokens) /\ Len(WrittenOwn(q, x)) > 1
           /\ x \o Behind("home") \in Seq(Tokens) /\ Len(x \o Behind("home")) = Len(x) + 2
           /\ Len(x) \in Nat
  <1>1. Behind("home") \in Seq(Tokens) /\ Len(Behind("home")) = 2
    BY HomeIsDomain, Behinds
  <1> DEFINE w == x \o Behind("home")
  <1>2. w \in Seq(Tokens) /\ Len(w) = Len(x) + 2 /\ Len(x) \in Nat
    <2>1. w \in Seq(Tokens) /\ Len(w) = Len(x) + Len(Behind("home")) /\ Len(x) \in Nat
      BY <1>1, Joining
    <2> HIDE DEF w
    <2> QED
      BY <1>1, <2>1
  <1> HIDE DEF w
  <1>3. q \in Seq(Tokens) /\ Len(q) \in Nat
    BY QuotesAre
  <1>4. q \o w \in Seq(Tokens) /\ Len(q \o w) = Len(q) + Len(w)
    BY <1>2, <1>3, Joining
  <1>5. Len(q \o w) > 1
    BY <1>2, <1>3, <1>4
  <1> QED
    BY <1>2, <1>4, <1>5 DEF w, WrittenOwn

Undoes(a, q, x, s, f) ==
    /\ Unquoted(a) = Head0(s) \o (x \o Behind(f)) /\ Unquoted(a)[1] = "SRS0"
    /\ IsSrs(a) /\ SrsUndone(a) = WrittenOwn(q, x)

LEMMA Undone0 ==
    ASSUME NEW q \in Quotes, NEW x \in Seq(Tokens), NEW s \in Separators, NEW f \in Domains
    PROVE  Undoes(Written0(q, x, s, f), q, x, s, f)
  <1> DEFINE y == x \o Behind(f)
             z == Head0(s) \o y
             a == q \o z
             h == <<"SRS0", s>>
             r == Rest \o y
             own == WrittenOwn(q, x)
  <1>1. h \in Seq(Tokens) /\ Len(h) = 2 /\ Head0(s) = h \o Rest /\ Rest \in Seq(Tokens) /\ Len(Rest) = 6
    BY Heads
  <1>2. h[1] = "SRS0" /\ h[2] = s
    OBVIOUS
  <1> HIDE DEF h
  <1>3. Encloses((h \o Rest) \o y, h, Rest, x, f)
    BY <1>1, Behinds, Enclosed
  <1>4. z \in Seq(Tokens) /\ Len(z) = 2 + 6 + Len(x) + 2 /\ From(z, 2 + 1) = r /\ SubSeq(z, 1, 2) = h
    BY <1>1, <1>3 DEF Encloses
  <1>5. Len(x) \in Nat
    OBVIOUS
  <1> HIDE DEF z, r, y
  <1>6. z[1] = "SRS0" /\ z[2] = s
    <2>1. SubSeq(z, 1, 2)[1] = z[1] /\ SubSeq(z, 1, 2)[2] = z[2]
      BY <1>4, <1>5
    <2> QED
      BY <1>2, <1>4, <2>1
  <1>7. Unquoted(a) = z
    <2>1. Len(z) > 0 /\ z[1] # DoubleQuote
      BY <1>4, <1>5, <1>6, MarksApart
    <2> QED
      BY <1>4, <2>1, UnquotedOf
  <1>8. (IF z = a THEN <<>> ELSE <<DoubleQuote>>) = q
    BY <1>4, QuoteBack
  <1> HIDE DEF a
  <1>9. IsSrs(a)
    BY <1>4, <1>5, <1>6, <1>7 DEF IsSrs
  <1>10. Swapped(q, HashAndTimeGone(r)) = own
    BY QuotesAre, RestUndone DEF r, y, WrittenOwn
  <1>11. Len(own) > 1
    BY OwnShape
  <1> HIDE DEF own
  <1>12. SrsUndone(a) = own
    <2>1. From(z, 3) = r /\ z[1] # "SRS1"
      BY <1>4, <1>6
    <2> QED
      BY <1>7, <1>8, <1>10, <1>11, <2>1 DEF SrsUndone
  <1> QED
    BY <1>6, <1>7, <1>9, <1>12 DEF a, z, y, own, Written0, Undoes

LEMMA FirstGone ==
    ASSUME NEW b \in Seq(Tokens), Len(b) >= 6, NEW g \in Domains, NEW t \in Separators,
           b[1] = "hash", b[2] = "=", b[3] = g, b[4] = "=", b[5] = t,
           \A u \in LookedForBefore(t) : \A k \in 6..(Len(b) - 1) : ~(b[k] = "=" /\ b[k + 1] = u)
    PROVE  FirstForwarderGone(b) = From(b, 6)
  <1> DEFINE found == {u \in Separators : FirstPairFrom(b, 1, "=", u) # 0}
             v == IF "=" \in found THEN "=" ELSE IF "-" \in found THEN "-" ELSE "+"
  <1>0. Len(b) \in Nat /\ g # "=" /\ g # t
    BY DEF Domains, Separators
  <1>1. FirstPairFrom(b, 1, "=", t) = 4
    <2>1. 4 \in 1..(Len(b) - 1) /\ 4 + 1 = 5
      BY <1>0
    <2>2. \A j \in 1..(4 - 1) : ~(b[j] = "=" /\ b[j + 1] = t)
      <3>1. \A j \in 1..(4 - 1) : j = 1 \/ j = 2 \/ j = 3
        OBVIOUS
      <3>2. ~(b[1] = "=" /\ b[1 + 1] = t) /\ ~(b[2] = "=" /\ b[2 + 1] = t) /\ ~(b[3] = "=" /\ b[3 + 1] = t)
        BY <1>0
      <3> QED
        BY <3>1, <3>2
    <2> QED
      BY <2>1, <2>2, PairIs
  <1>2. ASSUME NEW u \in LookedForBefore(t) PROVE u \notin found
    <2>0. u \in Separators /\ t # "=" /\ t # u
      BY DEF LookedForBefore, Separators
    <2>1. ASSUME NEW k \in 1..(Len(b) - 1) PROVE ~(b[k] = "=" /\ b[k + 1] = u)
      <3>1. CASE k <= 5
        <4>1. k = 1 \/ k = 2 \/ k = 3 \/ k = 4 \/ k = 5
          BY <3>1
        <4>2. ~(b[1] = "=" /\ b[1 + 1] = u) /\ ~(b[2] = "=" /\ b[2 + 1] = u)
              /\ ~(b[3] = "=" /\ b[3 + 1] = u) /\ ~(b[4] = "=" /\ b[4 + 1] = u)
              /\ ~(b[5] = "=" /\ b[5 + 1] = u)
          <5>1. g # u
            BY <2>0 DEF Domains
          <5> QED
            BY <1>0, <2>0, <5>1
        <4> QED
          BY <4>1, <4>2
      <3>2. CASE k > 5
        BY <1>0, <3>2
      <3> QED
        BY <3>1, <3>2
    <2>2. FirstPairFrom(b, 1, "=", u) = 0
      BY <2>1, NoPair
    <2> QED
      BY <2>2
  <1>3. t \in found
    BY <1>1
  <1> HIDE DEF found
  <1>4. v = t
    BY <1>2, <1>3 DEF LookedForBefore, Separators
  <1>5. FirstForwarderGone(b) = IF found = {} THEN b ELSE From(b, FirstPairFrom(b, 1, "=", v) + 2)
    BY DEF FirstForwarderGone, found
  <1> QED
    BY <1>1, <1>3, <1>4, <1>5

Rewritten(a, q, x, s, g, t, f) ==
    /\ Unquoted(a) = Head1(s, g, t) \o (x \o Behind(f))
    /\ Unquoted(a)[1] = "SRS1" /\ At(Unquoted(a), 1, "SRS1") /\ Unquoted(a)[7] = t /\ IsSrs(a)
    /\ (\A u \in LookedForBefore(t) : FirstPairFrom(Unquoted(a), 8, "=", u) = 0)
           => SrsUndone(a) = WrittenOwn(q, x)

LEMMA Undone1 ==
    ASSUME NEW q \in Quotes, NEW x \in Seq(Tokens), NEW s \in Separators, NEW g \in Domains,
           NEW t \in Separators, NEW f \in Domains
    PROVE  Rewritten(Written1(q, x, s, g, t, f), q, x, s, g, t, f)
  <1> DEFINE y == x \o Behind(f)
             z == Head1(s, g, t) \o y
             a == q \o z
             h == <<"SRS1", s>>
             m == <<"hash", "=", g, "=", t>>
             mr == m \o Rest
             r == Rest \o y
             b == mr \o y
             own == WrittenOwn(q, x)
  <1>1. /\ h \in Seq(Tokens) /\ Len(h) = 2 /\ Head1(s, g, t) = h \o mr
        /\ m \in Seq(Tokens) /\ Len(m) = 5 /\ Rest \in Seq(Tokens) /\ Len(Rest) = 6
    BY Heads
  <1>2. h[1] = "SRS1" /\ h[2] = s /\ m[1] = "hash" /\ m[2] = "=" /\ m[3] = g /\ m[4] = "=" /\ m[5] = t
    OBVIOUS
  <1> HIDE DEF h, m
  <1>3. mr \in Seq(Tokens) /\ Len(mr) = 11
    <2>1. mr \in Seq(Tokens) /\ Len(mr) = Len(m) + Len(Rest)
      BY <1>1, Joining
    <2> HIDE DEF mr
    <2> QED
      BY <1>1, <2>1
  <1>4. Encloses((h \o mr) \o y, h, mr, x, f)
    <2> HIDE DEF mr
    <2> QED
      BY <1>1, <1>3, Behinds, Enclosed
  <1>5. z \in Seq(Tokens) /\ Len(z) = 2 + 11 + Len(x) + 2 /\ From(z, 2 + 1) = b /\ SubSeq(z, 1, 2) = h
    BY <1>1, <1>3, <1>4 DEF Encloses
  <1>6. b = m \o r /\ r \in Seq(Tokens) /\ Len(x) \in Nat
    <2>1. y \in Seq(Tokens)
      BY Behinds, Joining
    <2> HIDE DEF y
    <2> QED
      <3>1. (m \o Rest) \o y = m \o (Rest \o y)
        BY <1>1, <2>1, Regrouped
      <3>2. Rest \o y \in Seq(Tokens)
        BY <1>1, <2>1, Joining
      <3> QED
        BY <3>1, <3>2
  <1> HIDE DEF z, r, y, mr, b
  <1>7. z[1] = "SRS1" /\ z[2] = s
    <2>1. SubSeq(z, 1, 2)[1] = z[1] /\ SubSeq(z, 1, 2)[2] = z[2]
      BY <1>5, <1>6
    <2> QED
      BY <1>2, <1>5, <2>1
  <1>8. b \in Seq(Tokens) /\ Len(b) = Len(z) - 2 /\ \A k \in 1..Len(b) : b[k] = z[k + 2]
    <2> DEFINE c == SubSeq(z, 3, Len(z))
    <2>1. c \in Seq(Tokens) /\ Len(c) = Len(z) - 2 /\ \A k \in 1..Len(c) : c[k] = z[k + 2]
      BY <1>5, <1>6
    <2> HIDE DEF c
    <2>2. b = c
      BY <1>5 DEF From, c
    <2> QED
      BY <2>1, <2>2
  <1>9. b[1] = "hash" /\ b[2] = "=" /\ b[3] = g /\ b[4] = "=" /\ b[5] = t /\ From(b, 6) = r
    <2>1. (\A k \in 1..Len(m) : (m \o r)[k] = m[k]) /\ From(m \o r, Len(m) + 1) = r
      BY <1>1, <1>6, Joining, Parting
    <2>2. (\A k \in 1..5 : b[k] = m[k]) /\ From(b, 5 + 1) = r
      BY <1>1, <1>6, <2>1
    <2> QED
      BY <1>2, <2>2
  <1>10. z[7] = t
    BY <1>5, <1>6, <1>8, <1>9
  <1>11. Unquoted(a) = z
    <2>1. Len(z) > 0 /\ z[1] # DoubleQuote
      BY <1>5, <1>6, <1>7, MarksApart
    <2> QED
      BY <1>5, <2>1, UnquotedOf
  <1>12. (IF z = a THEN <<>> ELSE <<DoubleQuote>>) = q
    BY <1>5, QuoteBack
  <1> HIDE DEF a
  <1>13. IsSrs(a) /\ At(z, 1, "SRS1")
    BY <1>5, <1>6, <1>7, <1>11 DEF IsSrs, At
  <1>14. Swapped(q, HashAndTimeGone(r)) = own
    BY QuotesAre, RestUndone DEF r, y, WrittenOwn
  <1>15. Len(own) > 1
    BY OwnShape
  <1> HIDE DEF own
  <1>16. ASSUME \A u \in LookedForBefore(t) : FirstPairFrom(z, 8, "=", u) = 0 PROVE SrsUndone(a) = own
    <2>1. ASSUME NEW u \in LookedForBefore(t), NEW k \in 6..(Len(b) - 1) PROVE ~(b[k] = "=" /\ b[k + 1] = u)
      <3>1. \A j \in 8..(Len(z) - 1) : ~(z[j] = "=" /\ z[j + 1] = u)
        BY <1>5, <1>16, NoPair
      <3>2. k + 2 \in 8..(Len(z) - 1) /\ k \in 1..Len(b) /\ k + 1 \in 1..Len(b) /\ (k + 1) + 2 = (k + 2) + 1
        BY <1>5, <1>6, <1>8
      <3>3. b[k] = z[k + 2] /\ b[k + 1] = z[(k + 2) + 1]
        <4>1. b[k] = z[k + 2] /\ b[k + 1] = z[(k + 1) + 2]
          BY <1>8, <3>2
        <4> QED
          BY <3>2, <4>1
      <3> QED
        BY <3>1, <3>2, <3>3
    <2>2. Len(b) >= 6
      BY <1>5, <1>6, <1>8
    <2>3. FirstForwarderGone(b) = r
      BY <1>8, <1>9, <2>1, <2>2, FirstGone
    <2>4. From(z, 3) = b /\ z[1] = "SRS1"
      BY <1>5, <1>7
    <2> QED
      BY <1>11, <1>12, <1>14, <1>15, <2>3, <2>4 DEF SrsUndone
  <1> QED
    BY <1>7, <1>10, <1>11, <1>13, <1>16 DEF a, z, y, own, Written1, Rewritten

\* What forwarders write.
LEMMA Forwarded0 ==
    ASSUME NEW q \in Quotes, NEW x \in Seq(Tokens), NEW s \in Separators, NEW f \in Domains,
           Unquoted(WrittenOwn(q, x)) = x \o Behind("home")
    PROVE  Srs0(WrittenOwn(q, x), s, f) = Written0(q, x, s, f)
  <1> DEFINE w == x \o Behind("home")
             a == WrittenOwn(q, x)
             h == <<"SRS0", s, "hash", "=", "time", "=">>
             home == <<"home">>
             eq == <<"=">>
             bf == Behind(f)
  <1>1. /\ h \in Seq(Tokens) /\ home \in Seq(Tokens) /\ eq \in Seq(Tokens) /\ bf \in Seq(Tokens)
        /\ q \in Seq(Tokens) /\ bf = <<"@", f>> /\ Head0(s) = (h \o home) \o eq
    <2>1. s \in Tokens
      BY MarksAreTokens DEF Separators, Marks
    <2>2. h \in Seq(Tokens) /\ home \in Seq(Tokens) /\ eq \in Seq(Tokens)
      BY <2>1, MarksAreTokens DEF Marks
    <2>3. Head0(s) = (h \o home) \o eq
      BY DEF Head0
    <2> QED
      BY <2>2, <2>3, Behinds, QuotesAre DEF Behind
  <1>2. Encloses((<<>> \o <<>>) \o w, <<>>, <<>>, x, "home")
    BY HomeIsDomain, Behinds, Enclosed, RestParts
  <1>3. w \in Seq(Tokens) /\ (<<>> \o <<>>) \o w = w /\ <<>> \o x = x /\ Len(<<>>) = 0 /\ Len(x) \in Nat
    BY OwnShape
  <1> HIDE DEF h, eq, bf, w, home
  <1>4. /\ LastOf(w, "@") = Len(x) + 1 /\ From(w, LastOf(w, "@") + 1) = home
        /\ SubSeq(w, 1, LastOf(w, "@") - 1) = x
    <2>1. /\ LastOf(w, "@") = 0 + 0 + Len(x) + 1 /\ From(w, LastOf(w, "@") + 1) = home
          /\ SubSeq(w, 0 + 1, LastOf(w, "@") - 1) = x
      BY <1>2, <1>3 DEF Encloses, home
    <2> QED
      BY <1>3, <2>1
  <1>5. Unquoted(a) = w /\ a = q \o w
    BY DEF w, WrittenOwn
  <1>6. (IF w = a THEN <<>> ELSE <<DoubleQuote>>) = q
    BY <1>3, <1>5, QuoteBack
  <1> HIDE DEF a
  <1>7. Srs0(a, s, f) = ((((q \o h) \o home) \o eq) \o x) \o bf
    BY <1>1, <1>4, <1>5, <1>6 DEF Srs0, h, eq
  <1>8. ((((q \o h) \o home) \o eq) \o x) \o bf = q \o (((h \o home) \o eq) \o (x \o bf))
    <2> DEFINE qh == q \o h
               hh == h \o home
               he == hh \o eq
               xb == x \o bf
    <2>1. qh \in Seq(Tokens) /\ hh \in Seq(Tokens) /\ xb \in Seq(Tokens)
      BY <1>1, Joining
    <2>2. qh \o home = q \o hh
      BY <1>1, Regrouped
    <2> HIDE DEF hh
    <2>3. (q \o hh) \o eq = q \o he
      <3>1. (q \o hh) \o eq = q \o (hh \o eq)
        <4> HIDE DEF qh, xb
        <4>1. q \in Seq(Tokens) /\ hh \in Seq(Tokens) /\ eq \in Seq(Tokens)
          BY <1>1, <2>1
        <4> QED
          BY <4>1, Regrouped
      <3> QED
        BY <3>1
    <2>4. he \in Seq(Tokens)
      BY <1>1, <2>1, Joining
    <2> HIDE DEF he
    <2>5. (q \o he) \o xb = q \o (he \o xb)
      <3> HIDE DEF xb, qh
      <3>1. q \in Seq(Tokens) /\ he \in Seq(Tokens) /\ xb \in Seq(Tokens)
        BY <1>1, <2>1, <2>4
      <3> QED
        BY <3>1, Regrouped
    <2> DEFINE qhe == q \o he
    <2>6. qhe \in Seq(Tokens)
      BY <1>1, <2>4, Joining
    <2> HIDE DEF qhe
    <2>7. (qhe \o x) \o bf = qhe \o xb
      <3>1. qhe \in Seq(Tokens) /\ x \in Seq(Tokens) /\ bf \in Seq(Tokens)
        BY <1>1, <2>6
      <3> HIDE DEF bf, qh, he, hh
      <3>2. (qhe \o x) \o bf = qhe \o (x \o bf)
        BY <3>1, Regrouped
      <3> QED
        BY <3>2 DEF xb
    <2> QED
      BY <2>2, <2>3, <2>5, <2>7 DEF qhe, he, hh, qh, xb
  <1> QED
    BY <1>1, <1>7, <1>8 DEF a, bf, Written0

\* What a further forwarder writes: its own mark and hash, then rest.
Further(q, k, h, x, b) == ((q \o k) \o (h \o x)) \o b = q \o ((k \o h) \o (x \o b))

LEMMA FurtherParts ==
    ASSUME NEW q \in Seq(Tokens), NEW k \in Seq(Tokens), NEW h \in Seq(Tokens), NEW x \in Seq(Tokens),
           NEW b \in Seq(Tokens)
    PROVE  Further(q, k, h, x, b)
  <1> DEFINE hx == h \o x
             xb == x \o b
             kh == k \o h
             qk == q \o k
             hxb == h \o xb
  <1>2. hx \in Seq(Tokens) /\ xb \in Seq(Tokens) /\ kh \in Seq(Tokens) /\ qk \in Seq(Tokens)
    BY Joining
  <1>3. hx \o b = hxb
    BY SMTT(60), Regrouped
  <1>4. hxb \in Seq(Tokens)
    <2> HIDE DEF xb
    <2> QED
      BY <1>2, Joining
  <1> HIDE DEF hx, hxb, qk
  <1>5. (qk \o hx) \o b = qk \o (hx \o b)
    <2> HIDE DEF xb, kh
    <2>r. Regroups(qk, hx, b)
      BY <1>2, Regrouping
    <2> QED
      BY <2>r DEF Regroups
  <1>6. qk \o hxb = q \o (k \o hxb)
    <2> HIDE DEF xb, kh
    <2>r. Regroups(q, k, hxb)
      BY <1>4, Regrouping
    <2> QED
      BY <2>r DEF Regroups, qk
  <1>7. k \o hxb = kh \o xb
    <2> HIDE DEF xb
    <2>r. Regroups(k, h, xb)
      BY <1>2, Regrouping
    <2> QED
      BY <2>r DEF Regroups, hxb
  <1> QED
    BY <1>3, <1>5, <1>6, <1>7 DEF hx, qk, Further

LEMMA NamedSeparator ==
    ASSUME NEW f, NEW s
    PROVE  <<f, "=", s>> = <<f, "=">> \o <<s>> /\ <<f, "=">> = <<f>> \o <<"=">>
  <1>1. <<f, "=", s>> = <<f, "=">> \o <<s>>
    OBVIOUS
  <1>2. <<f, "=">> = <<f>> \o <<"=">>
    OBVIOUS
  <1> QED
    BY <1>1, <1>2

LEMMA Forwarded1 ==
    ASSUME NEW q \in Quotes, NEW x \in Seq(Tokens), NEW s \in Separators, NEW f \in Domains,
           NEW t \in Separators, NEW g \in Domains
    PROVE  Srs1(Written0(q, x, s, f), t, g) = Written1(q, x, t, f, s, g)
  <1> DEFINE y == x \o Behind(f)
             z == Head0(s) \o y
             a == Written0(q, x, s, f)
             k == <<"SRS1", t, "hash", "=">>
             l == <<s>>
             m == <<"SRS0">>
             lr == l \o Rest
             c == <<f, "=">>
             h == <<f, "=", s>> \o Rest
  <1>0. s \in Tokens /\ f \in Tokens /\ t \in Tokens
    BY MarksAreTokens, Behinds DEF Separators, Marks
  <1>1. /\ l \in Seq(Tokens) /\ m \in Seq(Tokens) /\ Rest \in Seq(Tokens) /\ Len(m) = 1 /\ c \in Seq(Tokens)
        /\ <<f, "=", s>> \in Seq(Tokens) /\ <<f, "=", s>> = c \o l /\ c = <<f>> \o <<"=">>
        /\ Len(Rest) = 6 /\ Len(l) = 1 /\ Head0(s) = m \o lr
        /\ Head1(t, f, s) = k \o h /\ k \in Seq(Tokens)
    <2>1. "=" \in Tokens /\ "SRS0" \in Tokens /\ "SRS1" \in Tokens /\ "hash" \in Tokens
      BY MarksAreTokens DEF Marks
    <2>2. Head0(s) = m \o (l \o Rest)
      BY DEF Head0, Rest
    <2>3. Head1(t, f, s) = k \o h
      BY Heads
    <2>4. l \in Seq(Tokens) /\ m \in Seq(Tokens) /\ Len(m) = 1 /\ c \in Seq(Tokens) /\ Len(l) = 1
          /\ k \in Seq(Tokens)
      BY <1>0, <2>1
    <2>5. <<f, "=", s>> \in Seq(Tokens) /\ Rest \in Seq(Tokens) /\ Len(Rest) = 6
      BY Heads
    <2>6. <<f, "=", s>> = c \o l /\ c = <<f>> \o <<"=">>
      BY NamedSeparator
    <2> QED
      BY <2>2, <2>3, <2>4, <2>5, <2>6
  <1>2. lr \in Seq(Tokens)
    BY <1>1, Joining
  <1> HIDE DEF l, m, c, lr, k
  <1>3. Encloses((m \o lr) \o y, m, lr, x, f)
    BY <1>1, <1>2, Behinds, Enclosed
  <1>4. From(z, LastOf(z, "@") + 1) = <<f>> /\ SubSeq(z, 2, LastOf(z, "@") - 1) = lr \o x
    <2>1. z = (m \o lr) \o y
      BY <1>1
    <2> HIDE DEF z
    <2>2. SubSeq(z, 1 + 1, LastOf(z, "@") - 1) = lr \o x /\ From(z, LastOf(z, "@") + 1) = <<f>>
      BY <1>1, <1>3, <2>1 DEF Encloses
    <2>3. 1 + 1 = 2 /\ 4 + 1 = 5
      OBVIOUS
    <2> QED
      BY <2>2, <2>3
  <1>5. Unquoted(a) = z /\ z[1] = "SRS0" /\ a = q \o z
    <2>1. Unquoted(a) = z /\ Unquoted(a)[1] = "SRS0"
      <3>1. Undoes(a, q, x, s, f)
        BY Undone0
      <3> HIDE DEF a
      <3> QED
        BY <3>1 DEF Undoes
    <2>2. a = q \o z
      BY DEF Written0
    <2> HIDE DEF a, z
    <2> QED
      BY <2>1, <2>2
  <1>6. (IF z = a THEN <<>> ELSE <<DoubleQuote>>) = q
    <2>1. z \in Seq(Tokens)
      BY <1>1, <1>3 DEF Encloses
    <2> HIDE DEF z
    <2> QED
      BY <1>5, <2>1, QuoteBack
  <1> HIDE DEF z, a, y, h
  <1>7. Srs1(a, t, g) = ((q \o k) \o ((<<f>> \o <<"=">>) \o (lr \o x))) \o Behind(g)
    BY <1>4, <1>5, <1>6 DEF Srs1, k, Behind
  <1>8. c \o (lr \o x) = h \o x /\ h \in Seq(Tokens)
    <2>1. (c \o lr) \o x = c \o (lr \o x)
      BY SMTT(60), <1>1, <1>2, Regrouped
    <2>2. (c \o l) \o Rest = c \o (l \o Rest)
      BY <1>1, Regrouped
    <2>3. c \o lr = h
      BY <1>1, <2>2 DEF h, lr
    <2>4. h \in Seq(Tokens)
      BY <1>1, Joining DEF h
    <2> QED
      BY <2>1, <2>3, <2>4
  <1>9. ((q \o k) \o (h \o x)) \o Behind(g) = q \o ((k \o h) \o (x \o Behind(g)))
    <2>1. Further(q, k, h, x, Behind(g))
      BY <1>1, <1>8, Behinds, QuotesAre, FurtherParts
    <2> QED
      BY <2>1 DEF Further
  <1> QED
    BY <1>1, <1>7, <1>8, <1>9 DEF a, Written1

LEMMA Forwarded2 ==
    ASSUME NEW q \in Quotes, NEW x \in Seq(Tokens), NEW s \in Separators, NEW f \in Domains,
           NEW t \in Separators, NEW g \in Domains, NEW u \in Separators, NEW e \in Domains
    PROVE  Srs1(Written1(q, x, s, g, t, f), u, e) = Written1(q, x, u, g, t, e)
  <1> DEFINE y == x \o Behind(f)
             z == Head1(s, g, t) \o y
             a == Written1(q, x, s, g, t, f)
             k == <<"SRS1", u, "hash", "=">>
             m == <<"SRS1", s, "hash", "=">>
             h == <<g, "=", t>> \o Rest
  <1>0. s \in Tokens /\ u \in Tokens /\ "SRS1" \in Tokens /\ "hash" \in Tokens /\ "=" \in Tokens
    BY MarksAreTokens DEF Separators, Marks
  <1>1. /\ m \in Seq(Tokens) /\ Len(m) = 4 /\ Head1(s, g, t) = m \o h /\ Head1(u, g, t) = k \o h
        /\ <<g, "=", t>> \in Seq(Tokens) /\ Rest \in Seq(Tokens) /\ k \in Seq(Tokens)
    <2>1. Head1(s, g, t) = m \o h /\ Head1(u, g, t) = k \o h
          /\ <<g, "=", t>> \in Seq(Tokens) /\ Rest \in Seq(Tokens)
      BY Heads
    <2>2. m \in Seq(Tokens) /\ Len(m) = 4 /\ k \in Seq(Tokens)
      BY <1>0
    <2> QED
      BY <2>1, <2>2
  <1>2. h \in Seq(Tokens)
    BY <1>1, Joining
  <1> HIDE DEF m, h, k
  <1>3. Encloses((m \o h) \o y, m, h, x, f)
    BY <1>1, <1>2, Behinds, Enclosed
  <1>4. SubSeq(z, 5, LastOf(z, "@") - 1) = h \o x
    <2>1. z = (m \o h) \o y
      BY <1>1
    <2> HIDE DEF z
    <2>2. SubSeq(z, 4 + 1, LastOf(z, "@") - 1) = h \o x
      BY <1>1, <1>3, <2>1 DEF Encloses
    <2>3. 1 + 1 = 2 /\ 4 + 1 = 5
      OBVIOUS
    <2> QED
      BY <2>2, <2>3
  <1>5. Unquoted(a) = z /\ z[1] = "SRS1" /\ a = q \o z
    <2>1. Unquoted(a) = z /\ Unquoted(a)[1] = "SRS1"
      <3>1. Rewritten(a, q, x, s, g, t, f)
        BY Undone1
      <3> HIDE DEF a
      <3> QED
        BY <3>1 DEF Rewritten
    <2>2. a = q \o z
      BY DEF Written1
    <2> HIDE DEF a, z
    <2> QED
      BY <2>1, <2>2
  <1>6. (IF z = a THEN <<>> ELSE <<DoubleQuote>>) = q
    <2>1. z \in Seq(Tokens)
      BY <1>1, <1>3 DEF Encloses
    <2> HIDE DEF z
    <2> QED
      BY <1>5, <2>1, QuoteBack
  <1> HIDE DEF z, a, y
  <1>7. Srs1(a, u, e) = ((q \o k) \o (h \o x)) \o Behind(e)
    BY <1>4, <1>5, <1>6 DEF Srs1, k, Behind
  <1>8. ((q \o k) \o (h \o x)) \o Behind(e) = q \o ((k \o h) \o (x \o Behind(e)))
    <2>1. Further(q, k, h, x, Behind(e))
      BY <1>1, <1>2, Behinds, QuotesAre, FurtherParts
    <2> QED
      BY <2>1 DEF Further
  <1> QED
    BY <1>1, <1>7, <1>8 DEF a, Written1

----------------------------------------------------------------------------
(* The path of an address.                                                 *)

\* The own address a message left home with, tagged or not: nothing before the quote q
\* is a mark, and canon_from's last two steps lead back to the origin.
Carries(q, x) ==
    /\ q \in Quotes /\ x \in Seq(Tokens)
    /\ Unquoted(WrittenOwn(q, x)) = x \o Behind("home")
    /\ ~IsSrs(WrittenOwn(q, x))
    /\ BarracudaUndone(BatvUndone(WrittenOwn(q, x))) = origin

Travelled(q, x) ==
    \/ addr = WrittenOwn(q, x)
    \/ \E s \in Separators, f \in Domains : addr = Written0(q, x, s, f)
    \/ \E s \in Separators, g \in Domains, t \in Separators, f \in Domains :
          addr = Written1(q, x, s, g, t, f)

PathInv ==
    /\ origin \in Own \union Null /\ hops \in Nat
    /\ origin \in Own => \E q, x : Carries(q, x) /\ Travelled(q, x)
    /\ origin \notin Own => addr = origin

LEMMA HomeBehind == Behind("home") \in Seq(Tokens) /\ Len(Behind("home")) = 2
                    /\ Behind("home")[1] = "@" /\ Behind("home")[2] = "home" /\ Behind("home") = <<"@", "home">>
  BY HomeIsDomain, Behinds DEF Behind

LEMMA Unmarked ==
    ASSUME NEW a, ~Marked(a)
    PROVE  ~IsSrs(a) /\ BatvUndone(a) = a /\ BarracudaUndone(a) = a
  BY DEF Marked, BatvUndone, BarracudaUndone

LEMMA OwnCarried ==
    ASSUME NEW local \in Locals
    PROVE  \E q \in Quotes, x \in Seq(Tokens) :
              /\ local \o Behind("home") = WrittenOwn(q, x)
              /\ Unquoted(WrittenOwn(q, x)) = x \o Behind("home")
  <1>1. local \in Seq(Tokens)
    BY PathAssumption, MarksAreTokens
  <1>2. CASE local = <<>> \/ local[1] # DoubleQuote
    <2> DEFINE w == local \o Behind("home")
    <2>1. w \in Seq(Tokens) /\ Len(w) > 0 /\ w[1] # DoubleQuote
      <3>1. w \in Seq(Tokens) /\ Len(w) = Len(local) + Len(Behind("home")) /\ Len(local) \in Nat
            /\ (\A k \in 1..Len(local) : w[k] = local[k])
            /\ \A k \in 1..Len(Behind("home")) : w[Len(local) + k] = Behind("home")[k]
        BY <1>1, HomeBehind, Joining
      <3> HIDE DEF w
      <3>2. CASE local = <<>>
        <4>1. w[0 + 1] = "@"
          BY <3>1, <3>2, HomeBehind
        <4> QED
          BY <3>1, <4>1, HomeBehind, MarksApart
      <3>3. CASE local # <<>> /\ local[1] # DoubleQuote
        <4>1. Len(local) > 0
          BY <1>1, <3>3
        <4> QED
          BY <3>1, <3>3, <4>1, HomeBehind
      <3> QED
        BY <1>2, <3>2, <3>3
    <2> HIDE DEF w
    <2>2. <<>> \in Quotes /\ <<>> \o w = w
      BY <2>1 DEF Quotes
    <2>3. Unquoted(<<>> \o w) = w
      BY <2>1, <2>2, UnquotedOf
    <2> QED
      BY <1>1, <2>2, <2>3 DEF WrittenOwn, w
  <1>3. CASE local # <<>> /\ local[1] = DoubleQuote
    <2> DEFINE x == Tail(local)
               q == <<DoubleQuote>>
               w == x \o Behind("home")
    <2>1. x \in Seq(Tokens) /\ Len(local) \in Nat \ {0} /\ Len(x) = Len(local) - 1
          /\ \A k \in 1..Len(x) : x[k] = local[k + 1]
      BY <1>1, <1>3
    <2>2. q \in Seq(Tokens) /\ Len(q) = 1 /\ q[1] = DoubleQuote /\ q \in Quotes /\ q # <<>>
      BY MarksAreTokens DEF Quotes
    <2> HIDE DEF x, q
    <2>3. local = q \o x
      <3> DEFINE l == q \o x
      <3>1. l \in Seq(Tokens) /\ Len(l) = Len(q) + Len(x)
            /\ (\A k \in 1..Len(q) : l[k] = q[k]) /\ \A k \in 1..Len(x) : l[Len(q) + k] = x[k]
        BY <2>1, <2>2, Joining
      <3> HIDE DEF l
      <3>2. Len(local) = Len(l)
        BY <2>1, <2>2, <3>1
      <3>3. ASSUME NEW k \in 1..Len(local) PROVE local[k] = l[k]
        <4>1. CASE k = 1
          BY <1>3, <2>2, <3>1, <4>1
        <4>2. CASE k > 1
          <5> DEFINE j == k - 1
          <5>1. j \in 1..Len(x) /\ k = 1 + j /\ k = j + 1
            BY <2>1, <4>2
          <5> HIDE DEF j
          <5>2. l[1 + j] = x[j] /\ x[j] = local[j + 1]
            BY <2>1, <2>2, <3>1, <5>1
          <5> QED
            BY <5>1, <5>2
        <4> QED
          BY <2>1, <4>1, <4>2
      <3>4. local = l
        BY <1>1, <3>1, <3>2, <3>3, SameTokens
      <3> QED
        BY <3>4 DEF l
    <2>4. Regroups(q, x, Behind("home"))
      BY <2>1, <2>2, HomeBehind, Regrouping
    <2>5. w \in Seq(Tokens) /\ Len(w) > 0
      BY <2>2, <2>1, OwnShape
    <2> HIDE DEF w
    <2>6. Unquoted(q \o w) = w
      BY <2>2, <2>5, UnquotedOf
    <2>7. local \o Behind("home") = q \o w
      BY <2>3, <2>4 DEF Regroups, w
    <2> QED
      BY <2>1, <2>2, <2>6, <2>7 DEF WrittenOwn, w
  <1> QED
    BY <1>2, <1>3

LEMMA TaggedParts ==
    ASSUME NEW o \in Seq(Tokens), NEW m \in Seq(Tokens),
           m = <<"prvs", "=", "tag", "=">> \/ m = <<"btv1", "=", "=", "tag", "=", "=">>,
           BarracudaUndone(o) = o, Len(o) > 0
    PROVE  /\ Unquoted(m \o o) = m \o o /\ ~IsSrs(m \o o)
           /\ BarracudaUndone(BatvUndone(m \o o)) = o
  <1> DEFINE a == m \o o
  <1>1. a \in Seq(Tokens) /\ Len(a) = Len(m) + Len(o) /\ Len(m) \in Nat /\ Len(o) \in Nat
        /\ (\A k \in 1..Len(m) : a[k] = m[k]) /\ From(a, Len(m) + 1) = o
    BY Joining, Parting
  <1> HIDE DEF a
  <1>2. ASSUME a[1] \in {"prvs", "btv1"}, Len(a) > 0 PROVE Unquoted(a) = a /\ ~IsSrs(a)
    <2>1. Unquoted(a) = a
      BY <1>2, MarksApart DEF Unquoted, At
    <2> QED
      BY <1>2, <2>1 DEF IsSrs
  <1>3. CASE m = <<"prvs", "=", "tag", "=">>
    <2>1. Len(m) = 4 /\ m[1] = "prvs" /\ m[2] = "=" /\ m[3] = "tag" /\ m[4] = "="
      BY <1>3
    <2>2. a[1] = "prvs" /\ a[2] = "=" /\ a[3] = "tag" /\ a[4] = "=" /\ From(a, 5) = o /\ Len(a) > 4
      BY <1>1, <2>1
    <2>3. FirstFrom(a, 3, "=") = 4
      <3>1. 4 \in 3..Len(a) /\ \A j \in 3..(4 - 1) : a[j] # "="
        BY <1>1, <2>2
      <3> QED
        BY <1>1, <2>2, <3>1, FirstIs
    <2>4. BatvUndone(a) = o
      BY <1>1, <2>2, <2>3 DEF BatvUndone, At
    <2> QED
      BY <1>1, <1>2, <2>2, <2>4 DEF a
  <1>4. CASE m = <<"btv1", "=", "=", "tag", "=", "=">>
    <2>1. Len(m) = 6 /\ m[1] = "btv1" /\ m[2] = "=" /\ m[3] = "=" /\ m[4] = "tag" /\ m[5] = "=" /\ m[6] = "="
      BY <1>4
    <2>2. a[1] = "btv1" /\ a[2] = "=" /\ a[3] = "=" /\ a[4] = "tag" /\ a[5] = "=" /\ a[6] = "="
          /\ From(a, 7) = o /\ Len(a) > 6
      BY <1>1, <2>1
    <2>3. FirstPairFrom(a, 4, "=", "=") = 5
      <3>1. 5 \in 4..(Len(a) - 1) /\ a[5 + 1] = "=" /\ \A j \in 4..(5 - 1) : ~(a[j] = "=" /\ a[j + 1] = "=")
        BY <1>1, <2>2
      <3> QED
        <4>1. ASSUME NEW k \in 4..(Len(a) - 1), a[k] = "=", a[k + 1] = "=",
                     \A j \in 4..(k - 1) : ~(a[j] = "=" /\ a[j + 1] = "=")
              PROVE  FirstPairFrom(a, 4, "=", "=") = k
          <5>1. a \in Seq(Tokens) /\ 4 \in Nat \ {0}
            BY <1>1
          <5> QED
            BY <4>1, <5>1, PairIs
        <4> QED
          BY <2>2, <3>1, <4>1
    <2>4. BatvUndone(a) = a
      BY <2>2 DEF BatvUndone, At
    <2>5. BarracudaUndone(a) = o
      BY <1>1, <2>2, <2>3 DEF BarracudaUndone, At
    <2>6. Unquoted(a) = a /\ ~IsSrs(a)
      BY <1>2, <2>2
    <2> QED
      BY <2>4, <2>5, <2>6 DEF a
  <1> QED
    BY <1>3, <1>4

LEMMA Tagging ==
    ASSUME NEW local \in Locals, NEW m \in Seq(Tokens), NEW o, o = local \o Behind("home"), o = origin,
           m = <<"prvs", "=", "tag", "=">> \/ m = <<"btv1", "=", "=", "tag", "=", "=">>
    PROVE  Carries(<<>>, m \o local) /\ m \o o = WrittenOwn(<<>>, m \o local)
  <1>1. local \in Seq(Tokens) /\ o \in Own /\ ~Marked(o)
    BY PathAssumption, MarksAreTokens, HomeBehind DEF Own
  <1>2. o \in Seq(Tokens) /\ Len(o) > 0
    <2>1. <<>> \in Quotes
      BY DEF Quotes
    <2>2. local \o Behind("home") \in Seq(Tokens) /\ Len(local \o Behind("home")) = Len(local) + 2
          /\ Len(local) \in Nat
      BY <1>1, <2>1, OwnShape
    <2> QED
      BY <2>2
  <1>3. Unquoted(m \o o) = m \o o /\ ~IsSrs(m \o o) /\ BarracudaUndone(BatvUndone(m \o o)) = o
    BY <1>1, <1>2, Unmarked, TaggedParts
  <1>4. Regroups(m, local, Behind("home"))
    BY <1>1, HomeBehind, Regrouping
  <1> DEFINE x == m \o local
             a == m \o o
  <1>5. x \in Seq(Tokens) /\ a \in Seq(Tokens)
    BY <1>1, <1>2, Joining
  <1>6. x \o Behind("home") = a
    BY <1>4 DEF Regroups
  <1> HIDE DEF x, a
  <1>7. WrittenOwn(<<>>, x) = a
    <2>1. <<>> \o a = a
      BY <1>5
    <2> QED
      BY <1>6, <2>1 DEF WrittenOwn
  <1>8. <<>> \in Quotes
    BY DEF Quotes
  <1>9. Unquoted(a) = a /\ ~IsSrs(a) /\ BarracudaUndone(BatvUndone(a)) = origin
    BY <1>3 DEF a
  <1>10. Carries(<<>>, x) /\ a = WrittenOwn(<<>>, x)
    BY <1>5, <1>6, <1>7, <1>8, <1>9 DEF Carries
  <1> QED
    BY <1>10 DEF x, a

LEMMA PathStarts == PathInit => PathInv
  <1> SUFFICES ASSUME PathInit PROVE PathInv
    OBVIOUS
  <1>1. ASSUME origin \in Own PROVE \E q, x : Carries(q, x) /\ Travelled(q, x)
    <2>1. PICK local \in Locals : origin = local \o Behind("home")
      BY <1>1, HomeBehind DEF Own
    <2>2. PICK q \in Quotes, x \in Seq(Tokens) :
              origin = WrittenOwn(q, x) /\ Unquoted(WrittenOwn(q, x)) = x \o Behind("home")
      BY <2>1, OwnCarried
    <2>3. ~IsSrs(origin) /\ BarracudaUndone(BatvUndone(origin)) = origin
      BY <1>1, PathAssumption, Unmarked
    <2> QED
      BY <2>2, <2>3 DEF PathInit, Carries, Travelled
  <1> QED
    BY <1>1 DEF PathInit, PathInv

LEMMA PathStep == PathInv /\ [PathNext]_pathVars => PathInv'
  <1> SUFFICES ASSUME PathInv, [PathNext]_pathVars PROVE PathInv'
    OBVIOUS
  <1>1. CASE Tag
    <2>1. origin \in Own /\ origin' = origin /\ hops' = hops /\ addr = origin
      BY <1>1 DEF Tag
    <2>2. PICK local \in Locals : origin = local \o Behind("home")
      BY <2>1, HomeBehind DEF Own
    <2>3. PICK m : addr' = m \o origin
                   /\ (m = <<"prvs", "=", "tag", "=">> \/ m = <<"btv1", "=", "=", "tag", "=", "=">>)
      BY <1>1 DEF Tag
    <2>4. m \in Seq(Tokens)
      <3>1. "prvs" \in Tokens /\ "btv1" \in Tokens /\ "=" \in Tokens /\ "tag" \in Tokens
        BY MarksAreTokens DEF Marks
      <3>2. <<"prvs", "=", "tag", "=">> \in Seq(Tokens) /\ <<"btv1", "=", "=", "tag", "=", "=">> \in Seq(Tokens)
        BY <3>1
      <3> QED
        BY <2>3, <3>2
    <2>5. Carries(<<>>, m \o local) /\ addr' = WrittenOwn(<<>>, m \o local)
      BY <2>2, <2>3, <2>4, Tagging
    <2>6. Carries(<<>>, m \o local)' /\ Travelled(<<>>, m \o local)'
      BY <2>1, <2>5 DEF Carries, Travelled
    <2> QED
      BY <2>1, <2>6 DEF PathInv
  <1>2. CASE Forward
    <2>1. PICK sep \in Separators :
              addr' = IF IsSrs(addr) THEN Srs1(addr, sep, Forwarders[hops + 1])
                                     ELSE Srs0(addr, sep, Forwarders[hops + 1])
      BY <1>2 DEF Forward
    <2>2. origin \in Own /\ origin' = origin /\ hops' = hops + 1 /\ hops < Len(Forwarders)
      BY <1>2 DEF Forward
    <2> DEFINE e == Forwarders[hops + 1]
    <2>3. e \in Domains
      <3>1. hops + 1 \in DOMAIN Forwarders /\ e \in STRING
        BY <2>2, PathAssumption DEF PathInv
      <3>2. e \notin Separators \union {"@"}
        BY <3>1, PathAssumption
      <3> QED
        BY <3>1, <3>2 DEF Domains, Tokens
    <2> HIDE DEF e
    <2>4. PICK q, x : Carries(q, x) /\ Travelled(q, x)
      BY <2>2 DEF PathInv
    <2>5. q \in Quotes /\ x \in Seq(Tokens)
      BY <2>4 DEF Carries
    <2>6. Travelled(q, x)'
      <3>1. CASE addr = WrittenOwn(q, x)
        <4>1. addr' = Srs0(WrittenOwn(q, x), sep, e) /\ Unquoted(WrittenOwn(q, x)) = x \o Behind("home")
          BY <2>1, <2>4, <3>1 DEF Carries, e
        <4>2. addr' = Written0(q, x, sep, e)
          BY <2>3, <2>5, <4>1, Forwarded0
        <4> QED
          BY <2>3, <4>2 DEF Travelled
      <3>2. ASSUME NEW s \in Separators, NEW f \in Domains, addr = Written0(q, x, s, f)
            PROVE  Travelled(q, x)'
        <4>1. IsSrs(addr)
          BY <2>5, <3>2, Undone0 DEF Undoes
        <4>2. addr' = Srs1(Written0(q, x, s, f), sep, e)
          BY <2>1, <3>2, <4>1 DEF e
        <4>3. addr' = Written1(q, x, sep, f, s, e)
          BY <2>3, <2>5, <4>2, Forwarded1
        <4> QED
          BY <2>3, <4>3 DEF Travelled
      <3>3. ASSUME NEW s \in Separators, NEW g \in Domains, NEW t \in Separators, NEW f \in Domains,
                   addr = Written1(q, x, s, g, t, f)
            PROVE  Travelled(q, x)'
        <4>1. Rewritten(addr, q, x, s, g, t, f)
          BY <2>5, <3>3, Undone1
        <4>2. addr' = Srs1(Written1(q, x, s, g, t, f), sep, e)
          BY <2>1, <3>3, <4>1 DEF e, Rewritten
        <4>3. addr' = Written1(q, x, sep, g, t, e)
          BY <2>3, <2>5, <4>2, Forwarded2
        <4> QED
          BY <2>3, <4>3 DEF Travelled
      <3> QED
        BY <2>4, <3>1, <3>2, <3>3 DEF Travelled
    <2>7. Carries(q, x)'
      BY <2>2, <2>4 DEF Carries
    <2> QED
      BY <2>2, <2>6, <2>7 DEF PathInv
  <1>3. CASE UNCHANGED pathVars
    BY <1>3 DEF PathInv, Carries, Travelled, pathVars
  <1> QED
    BY <1>1, <1>2, <1>3 DEF PathNext

----------------------------------------------------------------------------
(* Where canon_from leads back to.                                         *)

LEMMA NullShapes ==
    ASSUME NEW a \in Null
    PROVE  canon_from(a) = a /\ (a = <<>> \/ a = <<"<>">>)
  <1>1. CASE a = <<>>
    BY <1>1 DEF canon_from, IsSrs, Unquoted, At, BatvUndone, BarracudaUndone
  <1>2. CASE a = <<"<>">>
    <2>1. Len(a) = 1 /\ a[1] = "<>" /\ "<>" # DoubleQuote
      BY <1>2, MarksApart
    <2> QED
      BY <1>2, <2>1 DEF canon_from, IsSrs, Unquoted, At, BatvUndone, BarracudaUndone
  <1> QED
    BY <1>1, <1>2 DEF Null

LEMMA CanonLeadsBack == PathInv => SameCorrespondent
  <1> SUFFICES ASSUME PathInv, ~Ambiguous PROVE canon_from(addr) = origin
    BY DEF SameCorrespondent
  <1>1. CASE origin \notin Own
    BY <1>1, NullShapes DEF PathInv
  <1>2. CASE origin \in Own
    <2>1. PICK q, x : Carries(q, x) /\ Travelled(q, x)
      BY <1>2 DEF PathInv
    <2>2. /\ q \in Quotes /\ x \in Seq(Tokens) /\ ~IsSrs(WrittenOwn(q, x))
          /\ BarracudaUndone(BatvUndone(WrittenOwn(q, x))) = origin
      BY <2>1 DEF Carries
    <2>3. CASE addr = WrittenOwn(q, x)
      BY <2>2, <2>3 DEF canon_from
    <2>4. ASSUME NEW s \in Separators, NEW f \in Domains, addr = Written0(q, x, s, f)
          PROVE  canon_from(addr) = origin
      <3>1. IsSrs(addr) /\ SrsUndone(addr) = WrittenOwn(q, x)
        BY <2>2, <2>4, Undone0 DEF Undoes
      <3> QED
        BY <2>2, <3>1 DEF canon_from
    <2>5. ASSUME NEW s \in Separators, NEW g \in Domains, NEW t \in Separators, NEW f \in Domains,
                 addr = Written1(q, x, s, g, t, f)
          PROVE  canon_from(addr) = origin
      <3>1. Rewritten(addr, q, x, s, g, t, f)
        BY <2>2, <2>5, Undone1
      <3> DEFINE z == Unquoted(addr)
      <3>2. Len(z) >= 7
        <4> DEFINE y == x \o Behind(f)
                   h == Head1(s, g, t)
        <4>1. y \in Seq(Tokens) /\ h \in Seq(Tokens) /\ Len(h) = 13
          <5>1. Behind(f) \in Seq(Tokens) /\ h \in Seq(Tokens) /\ Len(h) = 13
            BY <2>2, Behinds, Heads
          <5> HIDE DEF h
          <5>2. x \o Behind(f) \in Seq(Tokens)
            BY <2>2, <5>1, Joining
          <5> QED
            BY <5>1, <5>2
        <4>2. z = h \o y
          BY <3>1 DEF Rewritten
        <4> HIDE DEF z, h, y
        <4>3. Len(h \o y) = Len(h) + Len(y) /\ Len(y) \in Nat
          BY <4>1, Joining
        <4> QED
          BY <4>1, <4>2, <4>3
      <3>3. At(z, 1, "SRS1") /\ z[7] = t
        BY <3>1 DEF Rewritten
      <3> HIDE DEF z
      <3>4. (IF At(z, 7, "=") THEN {} ELSE IF At(z, 7, "-") THEN {"="} ELSE {"=", "-"}) = LookedForBefore(t)
        BY <3>2, <3>3 DEF At, LookedForBefore
      <3>5. \A u \in LookedForBefore(t) : FirstPairFrom(z, 8, "=", u) = 0
        BY <3>3, <3>4 DEF Ambiguous, z
      <3>6. IsSrs(addr) /\ SrsUndone(addr) = WrittenOwn(q, x)
        BY <3>1, <3>5 DEF Rewritten, z
      <3> QED
        BY <2>2, <3>6 DEF canon_from
    <2> QED
      BY <2>1, <2>3, <2>4, <2>5 DEF Travelled
  <1> QED
    BY <1>1, <1>2

\* Trimming leaves the last token that is not a quote at the end.
LEMMA TrimEnds ==
    ASSUME NEW l \in Seq(Tokens),
           \A i, k \in DOMAIN l : l[i] \in Refused /\ i < k => l[k] = DoubleQuote
    PROVE  LET name == Trim(l, DoubleQuote)
           IN  (name # <<>> /\ name[Len(name)] \in Refused) <=> \E i \in DOMAIN l : l[i] \in Refused
  <1> DEFINE kept == {i \in DOMAIN l : l[i] # DoubleQuote}
             lo == CHOOSE i \in kept : \A k \in kept : i <= k
             hi == CHOOSE i \in kept : \A k \in kept : k <= i
             name == Trim(l, DoubleQuote)
  <1>0. Len(l) \in Nat /\ DOMAIN l = 1..Len(l)
    OBVIOUS
  <1>1. \A d \in Refused : d # DoubleQuote
    BY MarksApart DEF Refused
  <1>2. name = IF kept = {} THEN <<>> ELSE SubSeq(l, lo, hi)
    BY DEF Trim
  <1>3. kept \subseteq 1..Len(l)
    BY <1>0
  <1>4. CASE kept = {}
    BY <1>1, <1>2, <1>4
  <1>5. CASE kept # {}
    <2> HIDE DEF kept
    <2>1. lo \in kept /\ \A k \in kept : lo <= k
      <3>1. \E i \in kept : \A k \in kept : i <= k
        <4>1. kept \subseteq Nat
          BY <1>0, <1>3
        <4> QED
          BY <1>5, <4>1, Smallest
      <3> QED
        BY <3>1
    <2>2. hi \in kept /\ \A k \in kept : k <= hi
      <3>1. \E i \in kept : \A k \in kept : k <= i
        <4> DEFINE B == {Len(l) - k : k \in kept}
        <4>1. B \subseteq Nat /\ B # {}
          BY <1>0, <1>3, <1>5
        <4>2. PICK b \in B : \A c \in B : b <= c
          <5> HIDE DEF B
          <5> QED
            BY <4>1, Smallest
        <4>3. PICK i \in kept : b = Len(l) - i
          BY <4>2
        <4>4. \A k \in kept : Len(l) - i <= Len(l) - k
          BY <4>2, <4>3
        <4> QED
          BY <1>0, <1>3, <4>4
      <3> QED
        BY <3>1
    <2> HIDE DEF lo, hi
    <2>3. lo \in 1..Len(l) /\ hi \in 1..Len(l) /\ lo <= hi
      BY <1>3, <2>1, <2>2
    <2> DEFINE n == SubSeq(l, lo, hi)
    <2>4. Len(n) = hi - lo + 1 /\ n[hi - lo + 1] = l[hi] /\ n # <<>>
      BY <1>0, <2>3
    <2>5. name = n
      BY <1>2, <1>5
    <2> HIDE DEF n, name
    <2>6. (name # <<>> /\ name[Len(name)] \in Refused) <=> l[hi] \in Refused
      BY <2>4, <2>5
    <2>7. ASSUME NEW i \in DOMAIN l, l[i] \in Refused PROVE l[hi] \in Refused
      <3>1. i \in kept
        BY <1>1, <2>7 DEF kept
      <3>2. i <= hi /\ (i < hi => l[hi] = DoubleQuote)
        BY <1>0, <2>2, <2>3, <2>7, <3>1
      <3>3. l[hi] # DoubleQuote
        BY <2>2 DEF kept
      <3>4. i = hi
        BY <1>0, <2>3, <3>2, <3>3
      <3> QED
        BY <2>7, <3>4
    <2> QED
      BY <1>0, <2>3, <2>6, <2>7 DEF name
  <1> QED
    BY <1>4, <1>5

LEMMA RefusedOwn ==
    ASSUME NEW local \in Locals
    PROVE  LET o == local \o Behind("home")
               name == Trim(DomainChopped(o), DoubleQuote)
           IN  (name # <<>> /\ name[Len(name)] \in Refused) <=> \E i \in DOMAIN o : o[i] \in Refused
  <1> DEFINE o == local \o Behind("home")
             name == Trim(DomainChopped(o), DoubleQuote)
  <1>1. local \in Seq(Tokens) /\ Len(local) \in Nat /\ DOMAIN local = 1..Len(local)
    <2>1. local \in Seq(Tokens)
      BY PathAssumption, MarksAreTokens
    <2> QED
      BY <2>1
  <1>2. /\ o \in Seq(Tokens) /\ Len(o) = Len(local) + 2
        /\ (\A k \in 1..Len(local) : o[k] = local[k])
        /\ o[Len(local) + 1] = "@" /\ o[Len(local) + 2] = "home"
        /\ SubSeq(o, 1, Len(local)) = local
    <2>1. /\ o \in Seq(Tokens) /\ Len(o) = Len(local) + Len(Behind("home"))
          /\ (\A k \in 1..Len(local) : o[k] = local[k])
          /\ (\A k \in 1..Len(Behind("home")) : o[Len(local) + k] = Behind("home")[k])
          /\ SubSeq(o, 1, Len(local)) = local
      BY <1>1, HomeBehind, Joining, Parting
    <2> HIDE DEF o
    <2>2. \A k \in 1..2 : o[Len(local) + k] = Behind("home")[k]
      BY <2>1, HomeBehind
    <2>3. o[Len(local) + 1] = "@" /\ o[Len(local) + 2] = "home"
      BY <2>2, HomeBehind
    <2> QED
      BY <2>1, <2>3, HomeBehind
  <1> HIDE DEF o
  <1>3. LastOf(o, "@") = Len(local) + 1
    <2>1. Len(local) + 1 \in 1..Len(o) /\ \A j \in (Len(local) + 1 + 1)..Len(o) : o[j] # "@"
      BY <1>1, <1>2
    <2> QED
      BY <1>2, <2>1, LastIs
  <1>4. (\E i \in DOMAIN o : o[i] \in Refused) <=> \E i \in DOMAIN local : local[i] \in Refused
    <2>1. DOMAIN o = 1..(Len(local) + 2)
      BY <1>2
    <2>2. "@" \notin Refused /\ "home" \notin Refused
      BY DEF Refused
    <2>3. \A i \in DOMAIN o : i \in DOMAIN local \/ i = Len(local) + 1 \/ i = Len(local) + 2
      BY <1>1, <2>1
    <2>4. \A i \in DOMAIN local : i \in DOMAIN o
      BY <1>1, <2>1
    <2> QED
      BY <1>1, <1>2, <2>2, <2>3, <2>4
  <1>5. DomainChopped(o) = IF Len(local) = 0 THEN o ELSE local
    <2>1. (Len(local) + 1 < 2 <=> Len(local) = 0) /\ (Len(local) + 1) - 1 = Len(local)
      BY <1>1
    <2> QED
      BY <1>2, <1>3, <2>1 DEF DomainChopped
  <1>6. CASE Len(local) = 0
    <2>1. \A i \in DOMAIN o : o[i] \notin Refused
      BY <1>1, <1>4, <1>6
    <2>2. DomainChopped(o) = o
      BY <1>5, <1>6
    <2>3. (name # <<>> /\ name[Len(name)] \in Refused) <=> \E i \in DOMAIN o : o[i] \in Refused
      BY <1>2, <2>1, <2>2, TrimEnds
    <2> QED
      BY <2>3 DEF o
  <1>7. CASE Len(local) # 0
    <2>1. DomainChopped(o) = local
      BY <1>5, <1>7
    <2>2. \A i, k \in DOMAIN local : local[i] \in Refused /\ i < k => local[k] = DoubleQuote
      BY PathAssumption
    <2>3. (name # <<>> /\ name[Len(name)] \in Refused) <=> \E i \in DOMAIN local : local[i] \in Refused
      BY <1>1, <2>1, <2>2, TrimEnds
    <2> QED
      BY <1>4, <2>3 DEF o
  <1> QED
    BY <1>6, <1>7

LEMMA RefusedNull ==
    ASSUME NEW a \in Null
    PROVE  LET name == Trim(DomainChopped(a), DoubleQuote)
           IN  (name # <<>> /\ name[Len(name)] \in Refused) <=> \E i \in DOMAIN a : a[i] \in Refused
  <1>1. a \in Seq(Tokens) /\ Len(a) \in Nat /\ Len(a) < 2 /\ DOMAIN a = 1..Len(a)
    <2>1. "<>" \in Tokens
      BY MarksAreTokens DEF Marks
    <2>2. CASE a = <<>>
      BY <2>2
    <2>3. CASE a = <<"<>">>
      BY <2>1, <2>3
    <2> QED
      BY <2>2, <2>3 DEF Null
  <1>2. LastOf(a, "@") < 2
    <2> DEFINE I == {i \in 1..Len(a) : a[i] = "@"}
    <2>1. I = {}
      <3>1. CASE a = <<>>
        BY <3>1
      <3>2. CASE a = <<"<>">>
        BY <3>2
      <3> QED
        BY <3>1, <3>2 DEF Null
    <2> QED
      BY <2>1 DEF LastOf, SelectLastInSeq
  <1>3. DomainChopped(a) = a
    BY <1>2 DEF DomainChopped
  <1>4. \A i, k \in DOMAIN a : ~(i < k)
    BY <1>1
  <1> QED
    BY <1>1, <1>3, <1>4, TrimEnds

LEMMA RefusalsLeadBack == PathInv => RefusedWhereverFrom
  <1> SUFFICES ASSUME PathInv, ~Ambiguous, origin # <<>>
               PROVE  RefusedSender(addr) <=> \E i \in DOMAIN origin : origin[i] \in Refused
    BY DEF RefusedWhereverFrom
  <1>1. canon_from(addr) = origin
    BY CanonLeadsBack DEF SameCorrespondent
  <1>2. CASE origin \in Own
    <2>1. PICK local \in Locals : origin = local \o Behind("home")
      BY <1>2, HomeBehind DEF Own
    <2> QED
      BY <1>1, <2>1, RefusedOwn DEF RefusedSender
  <1>3. CASE origin \in Null
    BY <1>1, <1>3, RefusedNull DEF RefusedSender
  <1> QED
    BY <1>2, <1>3 DEF PathInv

LEMMA PathInvariant == PathSpec => []PathInv
  BY PathStarts, PathStep, PTL DEF PathSpec

\* Any sender with an address of any length, tagged or not, past any number of
\* forwarders with any separators, is the same correspondent (vutil.c:126-204).
THEOREM SameCorrespondentHolds == PathSpec => []SameCorrespondent
  BY PathInvariant, CanonLeadsBack, PTL

\* Whatever way it came, check_from refuses an address of the list, and no other
\* that is not empty (vutil.c:218-259).
THEOREM RefusedWhereverFromHolds == PathSpec => []RefusedWhereverFrom
  BY PathInvariant, RefusalsLeadBack, PTL

LEMMA MatchIsPath == MatchSpec => PathSpec
  <1>1. MatchInit => PathInit
    BY DEF MatchInit
  <1>2. [MatchNext]_<<pathVars, matchVars>> => [PathNext]_pathVars
    BY DEF MatchNext, pathVars
  <1> QED
    BY <1>1, <1>2, PTL DEF MatchSpec, PathSpec

\* Nothing of that changes while the recipient is looked for in the message.
THEOREM BothQuestions == MatchSpec => [](SameCorrespondent /\ RefusedWhereverFrom /\ FoundWhereNamed)
  BY MatchIsPath, SameCorrespondentHolds, RefusedWhereverFromHolds, RecipientFound, PTL
=============================================================================
