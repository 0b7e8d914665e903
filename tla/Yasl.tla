-------------------------------- MODULE Yasl --------------------------------
(***************************************************************************)
(* The strings both programs keep their text in (yasl.c): a block of       *)
(* memory with a header in front that tells the length and the free bytes, *)
(* the text, and a terminating NUL.  Callers hand a string to an operation *)
(* and keep what it returns, NULL when memory ran out.                     *)
(*                                                                         *)
(* One caller's string is modelled with its block, byte by byte, stale and *)
(* uninitialised bytes included; "text" is what the caller's operations    *)
(* should have left in it.                                                 *)
(***************************************************************************)
EXTENDS Integers, Sequences

CONSTANTS
    Byte, NUL,
    junk,                   \* a byte malloc or realloc left uninitialised
    YASL_MAX_PREALLOC,
    FirstBuflen,            \* yaslcatvprintf's first buffer: 16 in the code
    Text,                   \* what callers pass: sequences of bytes
    Remaps,                 \* the character maps callers ask for
    MaxLen                  \* bound: no string grows longer

ASSUME YaslAssumption ==
    /\ NUL \in Byte /\ junk \notin Byte
    /\ YASL_MAX_PREALLOC \in Nat /\ FirstBuflen \in Nat /\ FirstBuflen > 1
    /\ \A x \in Text : x \in Seq(Byte)
    /\ \A f \in Remaps : f \in [Byte -> Byte]
    /\ MaxLen \in Nat

VARIABLES
    str,        \* the string: its header and the bytes behind it
    text,       \* what it should hold
    fmt,        \* a text yaslcatvprintf is formatting
    buflen      \* the size of the buffer it tries, 0 when it is not running

vars == <<str, text, fmt, buflen>>

Bytes(n) == [0..(n - 1) -> Byte \cup {junk}]

\* NULL has length 0 and no room (yasllen, yaslavail), and no block.
NULL == [size |-> 0, len |-> 0, free |-> 0, buf |-> [i \in 0..-1 |-> junk]]

Held(s) == s.size > 0

TypeOK ==
    /\ str.size \in Nat /\ str.len \in Nat /\ str.free \in Nat
    /\ str = [size |-> str.size, len |-> str.len, free |-> str.free, buf |-> str.buf]
    /\ str.buf \in Bytes(str.size)
    /\ text \in Seq(Byte)
    /\ fmt \in Text \cup {<<>>}
    /\ buflen \in Nat
    /\ buflen > 0 => Held(str) /\ buflen >= FirstBuflen

\* The text a string holds.
TextOf(s) == [i \in 1..s.len |-> s.buf[i - 1]]

\* strlen(x) = n for a C string whose bytes are x and then a NUL.
IsStrlen(x, n) ==
    /\ \A i \in 1..n : x[i] # NUL
    /\ n < Len(x) => x[n + 1] = NUL

Init ==
    /\ str = NULL
    /\ text = <<>>
    /\ fmt = <<>>
    /\ buflen = 0

----------------------------------------------------------------------------
(* Blocks.                                                                 *)

\* The block with x written at place at.
Write(buf, at, x) ==
    [i \in DOMAIN buf |-> IF i - at + 1 \in 1..Len(x) THEN x[i - at + 1] ELSE buf[i]]

\* The first n bytes are the text now: the header and the NUL say so.
Ends(s, n) ==
    [size |-> s.size, len |-> n, free |-> s.free + s.len - n, buf |-> Write(s.buf, n, <<NUL>>)]

\* x written at place at, and the text ends behind it.
Put(s, at, x) == Ends([s EXCEPT !.buf = Write(s.buf, at, x)], at + Len(x))

Realloc(buf, n) == [i \in 0..(n - 1) |-> IF i \in DOMAIN buf THEN buf[i] ELSE junk]

\* Mutant: one byte short, the NUL has no place.
GrownTight(s, addlen) ==
    LET wanted == s.len + addlen
        newlen == IF wanted < YASL_MAX_PREALLOC THEN 2 * wanted ELSE wanted + YASL_MAX_PREALLOC
    IN  [size |-> newlen, len |-> s.len, free |-> newlen - s.len, buf |-> Realloc(s.buf, newlen)]

Grown(s, addlen) ==
    LET wanted == s.len + addlen
        newlen == IF wanted < YASL_MAX_PREALLOC THEN 2 * wanted ELSE wanted + YASL_MAX_PREALLOC
    IN  [size |-> newlen + 1, len |-> s.len, free |-> newlen - s.len,
         buf |-> Realloc(s.buf, newlen + 1)]

\* Mutant: the length is counted as room.
MakeRoomForSized(s, addlen) == IF s.len + s.free >= addlen THEN {s} ELSE {NULL, Grown(s, addlen)}

\* The outcomes of yaslMakeRoomFor: realloc may fail, and the string is lost.
MakeRoomFor(s, addlen) == IF s.free >= addlen THEN {s} ELSE {NULL, Grown(s, addlen)}

New(x) ==
    [size |-> Len(x) + 1, len |-> Len(x), free |-> 0,
     buf |-> [i \in 0..Len(x) |-> IF i = Len(x) THEN NUL ELSE x[i + 1]]]

Cat(s, x) ==
    {IF Held(d) THEN Put(d, d.len, x) ELSE d : d \in MakeRoomFor(s, Len(x))}

----------------------------------------------------------------------------
(* The operations, each on a string the caller has; on NULL they do        *)
(* nothing and return NULL.                                                *)

Calls == Held(str) /\ buflen = 0 /\ UNCHANGED <<fmt, buflen>>

\* yaslnew, yaslauto, yaslempty.
yaslnew(x) ==
    /\ ~Held(str) /\ buflen = 0
    /\ Len(x) <= MaxLen
    /\ str' \in {NULL, New(x)}
    /\ text' = x
    /\ UNCHANGED <<fmt, buflen>>

yaslfree ==
    /\ Calls
    /\ str' = NULL
    /\ text' = <<>>

\* The caller goes on with the copy.
yasldup ==
    /\ Calls
    /\ str' \in {NULL, New(TextOf(str))}
    /\ UNCHANGED text

yaslclear ==
    /\ Calls
    /\ str' = Ends(str, 0)
    /\ text' = <<>>

yaslgrowzero(n) ==
    /\ Calls
    /\ str' \in IF n <= str.len THEN {str} ELSE Cat(str, [i \in 1..(n - str.len) |-> NUL])
    /\ text' = IF n <= Len(text) THEN text ELSE text \o [i \in 1..(n - Len(text)) |-> NUL]

\* What is to be copied or appended is NULL itself, and so is what the caller
\* gets back.
NoSource == str' = NULL /\ UNCHANGED text

yaslcpylen(x) ==
    /\ Calls
    /\ \/ /\ \E d \in IF str.free + str.len < Len(x) THEN MakeRoomFor(str, Len(x) - str.len) ELSE {str} :
                  str' = IF Held(d) THEN Put(d, 0, x) ELSE d
          /\ text' = x
       \/ NoSource

\* yaslcatlen, yaslcatyasl; yaslcat of a C string is yaslcatlen of its strlen.
yaslcatlen(x) ==
    /\ Calls
    /\ \/ /\ Len(text) + Len(x) <= MaxLen
          /\ str' \in Cat(str, x)
          /\ text' = text \o x
       \/ NoSource

FromStart(x, len) == IF x >= 0 THEN x ELSE IF len + x < 0 THEN 0 ELSE len + x

\* The bytes first..last move to the front.
Kept(s, first, last) == Put(s, 0, [i \in 1..(last - first + 1) |-> s.buf[first + i - 1]])

yaslrange(start, end) ==
    LET first == FromStart(start, str.len)
        upto == FromStart(end, str.len)
        last == IF upto >= str.len THEN str.len - 1 ELSE upto
    IN  /\ Calls
        /\ str' = IF str.len = 0 THEN str
                  ELSE IF first > last THEN Ends(str, 0) ELSE Kept(str, first, last)
        /\ text' = SubSeq(text, first + 1, last + 1)

\* strchr finds its argument's NUL as well.
yasltrim(cset) ==
    LET stay == {i \in 0..(str.len - 1) :
                     str.buf[i] # NUL /\ \A n \in DOMAIN cset : cset[n] # str.buf[i]}
    IN  /\ Calls
        /\ \/ /\ stay = {}
              /\ str' = Ends(str, 0)
              /\ text' = <<>>
           \/ \E first, last \in stay :
                  /\ \A i \in stay : first <= i /\ i <= last
                  /\ str' = Kept(str, first, last)
                  /\ text' = SubSeq(text, first + 1, last + 1)

\* yaslmapchars, yasltolower, yasltoupper.
yaslmapchars(f) ==
    /\ Calls
    /\ str' = [str EXCEPT !.buf = [i \in DOMAIN str.buf |->
                                       IF i < str.len THEN f[str.buf[i]] ELSE str.buf[i]]]
    /\ text' = [i \in 1..Len(text) |-> f[text[i]]]

\* The length is taken anew from the first NUL.
yaslupdatelen ==
    /\ Calls
    /\ \E n \in 0..str.len :
           /\ str.buf[n] = NUL /\ \A i \in 0..(n - 1) : str.buf[i] # NUL
           /\ str' = Ends(str, n)
    /\ \E n \in 0..Len(text) : IsStrlen(text, n) /\ text' = SubSeq(text, 1, n)

\* The caller has written x behind the text, into room it had made.
yaslIncrLen(x) ==
    /\ Calls
    /\ Len(text) + Len(x) <= MaxLen
    /\ str.free >= Len(x)
    /\ str' = Put(str, str.len, x)
    /\ text' = text \o x

yaslMakeRoomFor(n) ==
    /\ Calls
    /\ str' \in MakeRoomFor(str, n)
    /\ UNCHANGED text

\* When realloc fails the string stays as it is.
yaslRemoveFreeSpace ==
    /\ Calls
    /\ str' \in {str, [size |-> str.len + 1, len |-> str.len, free |-> 0,
                       buf |-> Realloc(str.buf, str.len + 1)]}
    /\ UNCHANGED text

----------------------------------------------------------------------------
(* yaslcatvprintf formats into a buffer it doubles until the text fits,    *)
(* which it tells from the last byte but one; then yaslcat appends it.     *)

yaslcatvprintf(x) ==
    /\ Held(str) /\ buflen = 0
    /\ Len(text) + Len(x) <= MaxLen
    /\ \/ buflen' = FirstBuflen /\ fmt' = x /\ UNCHANGED str
       \/ str' = NULL /\ UNCHANGED <<fmt, buflen>>
    /\ UNCHANGED text

\* What vsnprintf leaves in the buffer before its NUL.
Written == SubSeq(fmt, 1, IF Len(fmt) < buflen THEN Len(fmt) ELSE buflen - 1)

\* Mutant: the last byte is looked at, which is always NUL.
WholeAtLast == Len(Written) < buflen

\* buf[buflen - 2] is still the NUL put there before.
Whole == Len(Written) = buflen - 1 => Written[buflen - 1] = NUL

TryLarger ==
    /\ buflen > 0 /\ ~Whole
    /\ \/ buflen' = 2 * buflen /\ UNCHANGED <<str, fmt>>
       \/ buflen' = 0 /\ fmt' = <<>> /\ str' = NULL
    /\ UNCHANGED text

Formatted ==
    /\ buflen > 0 /\ Whole
    /\ \E n \in 0..Len(Written) : IsStrlen(Written, n) /\ str' \in Cat(str, SubSeq(Written, 1, n))
    /\ \E n \in 0..Len(fmt) : IsStrlen(fmt, n) /\ text' = text \o SubSeq(fmt, 1, n)
    /\ buflen' = 0
    /\ fmt' = <<>>

Next ==
    \/ yaslfree \/ yasldup \/ yaslclear \/ yaslupdatelen \/ yaslRemoveFreeSpace
    \/ \E x \in Text :
           \/ yaslnew(x) \/ yaslcpylen(x) \/ yaslcatlen(x) \/ yasltrim(x)
           \/ yaslIncrLen(x) \/ yaslcatvprintf(x)
    \/ \E n \in 0..MaxLen : yaslgrowzero(n) \/ yaslMakeRoomFor(n)
    \/ \E start, end \in (-MaxLen - 1)..(MaxLen + 1) : yaslrange(start, end)
    \/ \E f \in Remaps : yaslmapchars(f)
    \/ TryLarger
    \/ Formatted

Spec == Init /\ [][Next]_vars

----------------------------------------------------------------------------
\* The header tells the block: the text, the free bytes and one byte for the
\* NUL are the whole of it, and the NUL is there; a later operation trusts it to
\* write without asking for room (yasl.c:533-534, 679, 691, 707).
HeaderTellsBlock == Held(str) => str.len + str.free + 1 = str.size /\ str.buf[str.len] = NUL

\* After any sequence of operations a string holds what they should have left in
\* it: nothing stale, nothing uninitialised, no text cut at the end of a buffer
\* or of a block; or the string was lost as a whole (yasl.c:520-595, 672-693).
HoldsItsText == Held(str) => TextOf(str) = text
=============================================================================
