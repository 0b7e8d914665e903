------------------------- MODULE ReadHeaders_proofs -------------------------
(***************************************************************************)
(* The one pass over the header does what the fields of the message ask,   *)
(* for headers of any lines and any length.  The code remembers one field; *)
(* the invariant says that this is the field the last line is part of      *)
(* (Remembers), as long as no line was cut, and that every line read so    *)
(* far forbade nothing, was mistaken, or had something hide it (Passed).   *)
(* What send_message refers to then follows.                               *)
(***************************************************************************)
EXTENDS SendMessage, FiniteSetTheorems, WellFoundedInduction, TLAPS

Uncut(n) == \A i \in 1..n : ~message[i].cut

\* Line i is part of a field with one of the names.
InField(i, names) == \E j \in FieldsNamed(names) : i \in FieldAt(j)

\* The state tells the field of the line read last.
Remembers ==
    Uncut(at - 1) =>
        IF at = 1 THEN state = "unknown"
        ELSE /\ \A f \in Kept : InField(at - 1, {f}) <=> state = "append" /\ current_hdr = f
             /\ InField(at - 1, Recipient) <=> state = "recipient"

ForbidsAtOnce(j) ==
    j \in FieldsNamed(NoReply) /\ Forbidding(message[j].name, message[j].word)

\* What was read forbade nothing, was hidden or mistaken; what was not read is hidden.
Passed ==
    ~suppressed =>
        /\ \A j \in 1..(at - 1) : ForbidsAtOnce(j) =>
               Mistaken(message[j]) \/ \E i \in 1..(j - 1) : Hides(message[i])
        /\ pc # "loop" => at > Len(message) \/ \E i \in 1..(at - 1) : Hides(message[i])

Appending == state = "append" => current_hdr \in Kept

HeaderInv == TypeOK /\ Appending /\ Remembers /\ Passed /\ LinesStayInTheirField /\ SuppressedForCause

----------------------------------------------------------------------------
(* Messages and fields.                                                    *)

LEMMA MessageFacts ==
    ASSUME TypeOK
    PROVE  /\ Len(message) \in Nat /\ DOMAIN message = 1..Len(message)
           /\ \A i \in 1..Len(message) : message[i] \in Line
           /\ \A i \in 1..Len(message) :
                  message[i].name = "newline" => i > 1 /\ message[i-1].cut
           /\ at \in Nat /\ at >= 1 /\ at <= Len(message) + 1
  <1>1. PICK n \in 0..MaxLines : message \in [1..n -> Lines]
    BY DEF TypeOK, Messages
  <1>2. n \in Nat /\ DOMAIN message = 1..n /\ message \in Seq(Lines) /\ Len(message) = n
    BY <1>1, LinesAssumption
  <1>3. \A i \in 1..n : message[i] \in Line
    BY <1>1, LinesAssumption
  <1>4. \A i \in DOMAIN message : message[i].name = "newline" => i > 1 /\ message[i-1].cut
    BY DEF TypeOK, Messages
  <1>5. at \in Nat /\ at >= 1 /\ at <= Len(message) + 1
    BY <1>2 DEF TypeOK
  <1>6. DOMAIN message = 1..Len(message) /\ Len(message) \in Nat
    BY <1>2
  <1>7. \A i \in 1..Len(message) : message[i] \in Line
    BY <1>2, <1>3
  <1>8. \A i \in 1..Len(message) : message[i].name = "newline" => i > 1 /\ message[i-1].cut
    BY <1>4, <1>6
  <1> QED
    BY <1>5, <1>6, <1>7, <1>8

LEMMA FieldFacts ==
    ASSUME TypeOK, NEW names, NEW j
    PROVE  j \in FieldsNamed(names) <=> j \in 1..Len(message) /\ Begins(j) /\ message[j].name \in names
  BY MessageFacts DEF FieldsNamed

\* A line that begins a field is part of that field only.
LEMMA BeginsOwn ==
    ASSUME TypeOK, NEW names, NEW i \in 1..Len(message), Begins(i)
    PROVE  InField(i, names) <=> message[i].name \in names
  <1>1. Len(message) \in Nat
    BY MessageFacts
  <1>2. ASSUME message[i].name \in names PROVE InField(i, names)
    <2>1. i \in FieldsNamed(names)
      BY <1>2, FieldFacts
    <2>2. i \in FieldAt(i)
      BY <1>1 DEF FieldAt
    <2> QED
      BY <2>1, <2>2 DEF InField
  <1>3. ASSUME InField(i, names) PROVE message[i].name \in names
    <2>1. PICK j \in FieldsNamed(names) : i \in FieldAt(j)
      BY <1>3 DEF InField
    <2>2. j \in 1..Len(message) /\ message[j].name \in names
      BY FieldFacts
    <2>3. i \in j..Len(message) /\ \A k \in (j+1)..i : ~Begins(k)
      BY <2>1 DEF FieldAt
    <2>4. j = i
      <3>1. CASE j < i
        <4>1. i \in (j+1)..i
          BY <1>1, <2>2, <2>3, <3>1
        <4> QED
          BY <2>3, <4>1
      <3> QED
        BY <1>1, <2>2, <2>3, <3>1
    <2> QED
      BY <2>2, <2>4
  <1> QED
    BY <1>2, <1>3

\* A line that begins none is part of what the line before it is part of.
LEMMA Continues ==
    ASSUME TypeOK, NEW names, NEW i \in 1..Len(message), ~Begins(i)
    PROVE  InField(i, names) <=> i > 1 /\ InField(i - 1, names)
  <1>1. Len(message) \in Nat
    BY MessageFacts
  <1>2. ASSUME InField(i, names) PROVE i > 1 /\ InField(i - 1, names)
    <2>1. PICK j \in FieldsNamed(names) : i \in FieldAt(j)
      BY <1>2 DEF InField
    <2>2. j \in 1..Len(message) /\ Begins(j)
      BY FieldFacts
    <2>3. i \in j..Len(message) /\ \A k \in (j+1)..i : ~Begins(k)
      BY <2>1 DEF FieldAt
    <2>4. j < i
      BY <1>1, <2>2, <2>3
    <2>5. i - 1 \in j..Len(message) /\ \A k \in (j+1)..(i-1) : k \in (j+1)..i
      BY <1>1, <2>2, <2>3, <2>4
    <2>6. i - 1 \in FieldAt(j)
      BY <2>3, <2>5 DEF FieldAt
    <2> QED
      BY <1>1, <2>1, <2>2, <2>4, <2>6 DEF InField
  <1>3. ASSUME i > 1, InField(i - 1, names) PROVE InField(i, names)
    <2>1. PICK j \in FieldsNamed(names) : i - 1 \in FieldAt(j)
      BY <1>3 DEF InField
    <2>2. j \in 1..Len(message)
      BY FieldFacts
    <2>3. i - 1 \in j..Len(message) /\ \A k \in (j+1)..(i-1) : ~Begins(k)
      BY <2>1 DEF FieldAt
    <2>4. i \in j..Len(message) /\ \A k \in (j+1)..i : k \in (j+1)..(i-1) \/ k = i
      BY <1>1, <2>2, <2>3
    <2>5. i \in FieldAt(j)
      BY <2>3, <2>4 DEF FieldAt
    <2> QED
      BY <2>1, <2>5 DEF InField
  <1> QED
    BY <1>2, <1>3

\* The lines of fields, one line more.
LEMMA LinesGrow ==
    ASSUME TypeOK, NEW names, NEW n \in 1..Len(message)
    PROVE  LinesOf(names, n + 1) = LinesOf(names, n) \union (IF InField(n, names) THEN {n} ELSE {})
  <1>1. Len(message) \in Nat
    BY MessageFacts
  <1>2. \A k, i : i \in LinesOf(names, k) <=> i \in 1..(k-1) /\ InField(i, names)
    BY DEF LinesOf, InField
  <1>3. \A i : i \in 1..((n+1)-1) <=> i \in 1..(n-1) \/ i = n
    BY <1>1
  <1> QED
    BY <1>2, <1>3

LEMMA NoLines == ASSUME NEW names PROVE LinesOf(names, 1) = {}
  BY DEF LinesOf

----------------------------------------------------------------------------
(* Collecting lines.                                                       *)

\* s holds the lines before line n of the fields named, in order, and only
\* those that begin a field without their names.
Collected(s, names, n) ==
    /\ {s[k].line : k \in DOMAIN s} = LinesOf(names, n)
    /\ \A k \in 1..(Len(s) - 1) : s[k].line < s[k+1].line
    /\ \A k \in DOMAIN s : s[k].strip = Begins(s[k].line)

CollectedPlain(s, names, n) ==
    /\ {s[k] : k \in DOMAIN s} = LinesOf(names, n)
    /\ \A k \in 1..(Len(s) - 1) : s[k] < s[k+1]

LEMMA StayIsCollected ==
    LinesStayInTheirField <=>
        (Uncut(at - 1) =>
            /\ \A f \in Kept : Collected(h[f], {f}, at)
            /\ CollectedPlain(rcpt_hdrs, Recipient, at))
  BY DEF LinesStayInTheirField, Uncut, Collected, CollectedPlain

LEMMA CollectedSame ==
    ASSUME TypeOK, NEW s, NEW names, NEW n \in 1..Len(message), ~InField(n, names)
    PROVE  /\ Collected(s, names, n) => Collected(s, names, n + 1)
           /\ CollectedPlain(s, names, n) => CollectedPlain(s, names, n + 1)
  <1>1. LinesOf(names, n + 1) = LinesOf(names, n)
    <2>1. LinesOf(names, n + 1) = LinesOf(names, n) \union (IF InField(n, names) THEN {n} ELSE {})
      BY LinesGrow
    <2> QED
      BY ONLY <2>1, ~InField(n, names)
  <1> QED
    BY <1>1 DEF Collected, CollectedPlain

LEMMA CollectedMore ==
    ASSUME TypeOK, NEW names, NEW n \in 1..Len(message), InField(n, names),
           NEW s \in Seq([line : DOMAIN message, strip : BOOLEAN]), Collected(s, names, n),
           NEW b \in BOOLEAN, b = Begins(n)
    PROVE  Collected(Append(s, [line |-> n, strip |-> b]), names, n + 1)
  <1> DEFINE r == [line |-> n, strip |-> b]
             t == Append(s, r)
  <1>1. /\ Len(s) \in Nat /\ DOMAIN s = 1..Len(s) /\ Len(t) = Len(s) + 1
        /\ DOMAIN t = 1..(Len(s) + 1)
        /\ t[Len(s) + 1] = r /\ \A k \in 1..Len(s) : t[k] = s[k]
    OBVIOUS
  <1>2. r.line = n /\ r.strip = b /\ n \in Nat
    BY MessageFacts
  <1> HIDE DEF r, t
  <1>3. ASSUME NEW k \in 1..Len(s) PROVE s[k].line \in 1..(n - 1)
    <2>1. s[k].line \in LinesOf(names, n)
      BY <1>1 DEF Collected
    <2> QED
      BY <2>1 DEF LinesOf
  <1>4. LinesOf(names, n + 1) = LinesOf(names, n) \union {n}
    BY LinesGrow
  <1>5. {t[k].line : k \in DOMAIN t} = {s[k].line : k \in DOMAIN s} \union {n}
    <2>1. \A k \in DOMAIN t : t[k].line = n \/ (k \in DOMAIN s /\ t[k].line = s[k].line)
      BY <1>1, <1>2
    <2>2. \A k \in DOMAIN s : k \in DOMAIN t /\ t[k].line = s[k].line
      BY <1>1
    <2>3. Len(s) + 1 \in DOMAIN t /\ t[Len(s) + 1].line = n
      BY <1>1, <1>2
    <2> QED
      BY <2>1, <2>2, <2>3
  <1>6. ASSUME NEW k \in 1..(Len(t) - 1) PROVE t[k].line < t[k+1].line
    <2>1. CASE k = Len(s)
      BY <1>1, <1>2, <1>3, <2>1
    <2>2. CASE k # Len(s)
      <3>0. Len(t) - 1 = Len(s)
        BY <1>1
      <3>1. k \in 1..(Len(s) - 1) /\ k \in 1..Len(s) /\ k + 1 \in 1..Len(s)
        BY ONLY <3>0, <2>2, Len(s) \in Nat, k \in 1..(Len(t) - 1)
      <3>2. s[k].line < s[k+1].line
        BY <3>1 DEF Collected
      <3> QED
        BY <1>1, <3>1, <3>2
    <2> QED
      BY <2>1, <2>2
  <1>7. ASSUME NEW k \in DOMAIN t PROVE t[k].strip = Begins(t[k].line)
    <2>1. CASE k = Len(s) + 1
      BY <1>1, <1>2, <2>1
    <2>2. CASE k # Len(s) + 1
      <3>1. k \in DOMAIN s
        BY <1>1, <2>2
      <3>2. s[k].strip = Begins(s[k].line)
        BY <3>1 DEF Collected
      <3> QED
        BY <1>1, <3>1, <3>2
    <2> QED
      BY <2>1, <2>2
  <1>8. Collected(t, names, n + 1)
    BY <1>4, <1>5, <1>6, <1>7 DEF Collected
  <1> QED
    BY <1>8 DEF t, r

LEMMA CollectedPlainMore ==
    ASSUME TypeOK, NEW names, NEW n \in 1..Len(message), InField(n, names),
           NEW s \in Seq(DOMAIN message), CollectedPlain(s, names, n)
    PROVE  CollectedPlain(Append(s, n), names, n + 1)
  <1> DEFINE t == Append(s, n)
  <1>1. /\ Len(s) \in Nat /\ DOMAIN s = 1..Len(s) /\ Len(t) = Len(s) + 1
        /\ DOMAIN t = 1..(Len(s) + 1)
        /\ t[Len(s) + 1] = n /\ \A k \in 1..Len(s) : t[k] = s[k]
    OBVIOUS
  <1>2. n \in Nat
    BY MessageFacts
  <1> HIDE DEF t
  <1>3. ASSUME NEW k \in 1..Len(s) PROVE s[k] \in 1..(n - 1)
    <2>1. s[k] \in LinesOf(names, n)
      BY <1>1 DEF CollectedPlain
    <2> QED
      BY <2>1 DEF LinesOf
  <1>4. LinesOf(names, n + 1) = LinesOf(names, n) \union {n}
    BY LinesGrow
  <1>5. {t[k] : k \in DOMAIN t} = {s[k] : k \in DOMAIN s} \union {n}
    <2>1. \A k \in DOMAIN t : t[k] = n \/ (k \in DOMAIN s /\ t[k] = s[k])
      BY <1>1
    <2>2. \A k \in DOMAIN s : k \in DOMAIN t /\ t[k] = s[k]
      BY <1>1
    <2>3. Len(s) + 1 \in DOMAIN t /\ t[Len(s) + 1] = n
      BY <1>1
    <2> QED
      BY <2>1, <2>2, <2>3
  <1>6. ASSUME NEW k \in 1..(Len(t) - 1) PROVE t[k] < t[k+1]
    <2>1. CASE k = Len(s)
      BY <1>1, <1>2, <1>3, <2>1
    <2>2. CASE k # Len(s)
      <3>0. Len(t) - 1 = Len(s)
        BY <1>1
      <3>1. k \in 1..(Len(s) - 1) /\ k \in 1..Len(s) /\ k + 1 \in 1..Len(s)
        BY ONLY <3>0, <2>2, Len(s) \in Nat, k \in 1..(Len(t) - 1)
      <3>2. s[k] < s[k+1]
        BY <3>1 DEF CollectedPlain
      <3> QED
        BY <1>1, <3>1, <3>2
    <2> QED
      BY <2>1, <2>2
  <1>7. CollectedPlain(t, names, n + 1)
    BY <1>4, <1>5, <1>6 DEF CollectedPlain
  <1> QED
    BY <1>7 DEF t

----------------------------------------------------------------------------
(* The steps of the loop.                                                  *)

LEMMA ReadFacts ==
    ASSUME TypeOK, NEW name, Reads(name)
    PROVE  /\ at \in 1..Len(message) /\ at \in Nat /\ message[at].name = name
           /\ at' = at + 1 /\ at' - 1 = at /\ message' = message
           /\ at' \in 1..(Len(message) + 1)
           /\ (Uncut(at) => Uncut(at - 1))
           /\ (Uncut(at - 1) /\ name \notin {"fold", "newline"} => Begins(at))
           /\ (name = "fold" => ~Begins(at))
           /\ (Uncut(at - 1)' => Uncut(at))
  <1>1. at \in 1..Len(message) /\ at' = at + 1 /\ message' = message /\ message[at].name = name
        /\ Len(message) \in Nat /\ at \in Nat
    BY MessageFacts DEF Reads
  <1>2. at' - 1 = at /\ at' \in 1..(Len(message) + 1)
    BY <1>1
  <1>3. Uncut(at) => Uncut(at - 1)
    BY <1>1 DEF Uncut
  <1>4. ASSUME Uncut(at - 1), name \notin {"fold", "newline"} PROVE Begins(at)
    <2>1. at = 1 \/ at - 1 \in 1..(at - 1)
      BY <1>1
    <2> QED
      BY <1>1, <1>4, <2>1 DEF Begins, Uncut
  <1>5. name = "fold" => ~Begins(at)
    BY <1>1 DEF Begins
  <1>6. Uncut(at - 1)' => Uncut(at)
    BY <1>1, <1>2 DEF Uncut
  <1> QED
    BY <1>1, <1>2, <1>3, <1>4, <1>5, <1>6

LEMMA AppendTypes ==
    ASSUME TypeOK, NEW f \in Kept, NEW b \in BOOLEAN, at \in DOMAIN message, AppendHeader(f, b)
    PROVE  /\ DOMAIN h' = Kept
           /\ \A g \in Kept : h'[g] \in Seq([line : DOMAIN message, strip : BOOLEAN])
           /\ h'[f] = Append(h[f], [line |-> at, strip |-> b])
           /\ \A g \in Kept \ {f} : h'[g] = h[g]
  <1>1. DOMAIN h = Kept /\ \A g \in Kept : h[g] \in Seq([line : DOMAIN message, strip : BOOLEAN])
    BY DEF TypeOK
  <1>2. h' = [h EXCEPT ![f] = Append(h[f], [line |-> at, strip |-> b])]
    BY DEF AppendHeader
  <1>3. DOMAIN h' = Kept /\ h'[f] = Append(h[f], [line |-> at, strip |-> b])
        /\ \A g \in Kept \ {f} : h'[g] = h[g]
    BY <1>1, <1>2
  <1>4. [line |-> at, strip |-> b] \in [line : DOMAIN message, strip : BOOLEAN]
    OBVIOUS
  <1>5. h'[f] \in Seq([line : DOMAIN message, strip : BOOLEAN])
    <2> DEFINE S == [line : DOMAIN message, strip : BOOLEAN]
               r == [line |-> at, strip |-> b]
    <2>1. h[f] \in Seq(S) /\ r \in S /\ h'[f] = Append(h[f], r)
      BY <1>1, <1>3, <1>4
    <2> HIDE DEF S, r
    <2>2. h'[f] \in Seq(S)
      BY <2>1
    <2> QED
      BY <2>2 DEF S
  <1> QED
    BY <1>1, <1>3, <1>5

LEMMA TypeStep == ASSUME TypeOK, Appending, Next PROVE TypeOK' /\ Appending'
  <1> USE DEF TypeOK, Appending
  <1>1. CASE RecipientLine
    <2>1. PICK f \in Recipient : Reads(f)
      BY <1>1 DEF RecipientLine
    <2>2. at \in DOMAIN message /\ at' \in 1..(Len(message) + 1) /\ message' = message
      BY <2>1, ReadFacts, MessageFacts
    <2>3. rcpt_hdrs' \in Seq(DOMAIN message)
      BY <1>1, <2>2 DEF RecipientLine
    <2> QED
      BY <1>1, <2>2, <2>3 DEF RecipientLine
  <1>2. CASE KeptLine
    <2>1. PICK f \in Kept : /\ Reads(f) /\ state' = "append" /\ current_hdr' = f
                            /\ AppendHeader(f, TRUE)
                            /\ UNCHANGED <<pc, rcpt_hdrs, rcpt_match, suppressed>>
      BY <1>2 DEF KeptLine
    <2>2. at \in DOMAIN message /\ at' \in 1..(Len(message) + 1) /\ message' = message
      BY <2>1, ReadFacts, MessageFacts
    <2>3. DOMAIN h' = Kept
          /\ \A g \in Kept : h'[g] \in Seq([line : DOMAIN message, strip : BOOLEAN])
      BY <2>1, <2>2, AppendTypes
    <2> QED
      BY <2>1, <2>2, <2>3
  <1>3. CASE NoReplyLine
    <2>1. PICK f \in NoReply : Reads(f)
      BY <1>3 DEF NoReplyLine
    <2>2. at' \in 1..(Len(message) + 1) /\ message' = message
      BY <2>1, ReadFacts
    <2> QED
      BY <1>3, <2>2 DEF NoReplyLine
  <1>4. CASE OtherLine
    <2>1. at' \in 1..(Len(message) + 1) /\ message' = message
      BY <1>4, ReadFacts DEF OtherLine
    <2> QED
      BY <1>4, <2>1 DEF OtherLine
  <1>5. CASE FoldLine
    <2>1. at \in DOMAIN message /\ at' \in 1..(Len(message) + 1) /\ message' = message
      BY <1>5, ReadFacts, MessageFacts DEF FoldLine
    <2>2. rcpt_hdrs' \in Seq(DOMAIN message)
      BY <1>5, <2>1 DEF FoldLine
    <2>3. DOMAIN h' = Kept
          /\ \A g \in Kept : h'[g] \in Seq([line : DOMAIN message, strip : BOOLEAN])
      <3>1. CASE state = "append"
        BY <1>5, <2>1, <3>1, AppendTypes DEF FoldLine
      <3>2. CASE state # "append"
        BY <1>5, <3>2 DEF FoldLine
      <3> QED
        BY <3>1, <3>2
    <2> QED
      BY <1>5, <2>1, <2>2, <2>3 DEF FoldLine
  <1>6. CASE EndOfHeader
    BY <1>6 DEF EndOfHeader
  <1>7. CASE MatchNames
    BY <1>7 DEF MatchNames
  <1> QED
    BY <1>1, <1>2, <1>3, <1>4, <1>5, <1>6, <1>7 DEF Next

Fields == {{f} : f \in Kept} \union {Recipient}

\* What the next line is part of: by its name if it begins a field, else with
\* the line before it.
LEMMA NextField ==
    ASSUME TypeOK, Remembers, NEW name, Reads(name), Uncut(at), NEW names
    PROVE  /\ name \notin {"fold", "newline"} => (InField(at, names) <=> name \in names)
           /\ name = "fold" /\ names \in Fields =>
                  (InField(at, names) <=> \/ state = "append" /\ names = {current_hdr} /\ current_hdr \in Kept
                                          \/ state = "recipient" /\ names = Recipient)
  <1>1. at \in 1..Len(message) /\ at \in Nat /\ Uncut(at - 1)
        /\ (name \notin {"fold", "newline"} => Begins(at)) /\ (name = "fold" => ~Begins(at))
        /\ message[at].name = name
    BY ReadFacts
  <1>2. name \notin {"fold", "newline"} => (InField(at, names) <=> name \in names)
    BY <1>1, BeginsOwn
  <1>3. ASSUME name = "fold", names \in Fields
        PROVE  InField(at, names) <=> \/ state = "append" /\ names = {current_hdr} /\ current_hdr \in Kept
                                      \/ state = "recipient" /\ names = Recipient
    <2>1. InField(at, names) <=> at > 1 /\ InField(at - 1, names)
      BY <1>1, <1>3, Continues
    <2>2. CASE at = 1
      BY <1>1, <2>1, <2>2 DEF Remembers
    <2>3. CASE at > 1
      <3>1. /\ \A f \in Kept : InField(at - 1, {f}) <=> state = "append" /\ current_hdr = f
            /\ InField(at - 1, Recipient) <=> state = "recipient"
        BY <1>1, <2>3 DEF Remembers
      <3>2. CASE names = Recipient
        <4>1. \A f : names # {f}
          BY <3>2 DEF Recipient
        <4> QED
          BY <2>1, <2>3, <3>1, <3>2, <4>1
      <3>3. ASSUME NEW f \in Kept, names = {f}
            PROVE  InField(at, names) <=> \/ state = "append" /\ names = {current_hdr} /\ current_hdr \in Kept
                                          \/ state = "recipient" /\ names = Recipient
        <4>1. names # Recipient
          BY <3>3 DEF Recipient
        <4>2. names = {current_hdr} <=> current_hdr = f
          BY <3>3
        <4> QED
          BY <2>1, <2>3, <3>1, <3>3, <4>1, <4>2
      <3> QED
        BY <1>3, <3>2, <3>3 DEF Fields
    <2> QED
      BY <1>1, <2>2, <2>3
  <1> QED
    BY <1>2, <1>3

\* A step that reads a line remembers the field it is part of.
LEMMA ReadRemembers ==
    ASSUME TypeOK, Remembers, NEW name, Reads(name),
           Uncut(at) =>
               /\ \A f \in Kept : InField(at, {f}) <=> state' = "append" /\ current_hdr' = f
               /\ InField(at, Recipient) <=> state' = "recipient"
    PROVE  Remembers'
  <1>1. at' = at + 1 /\ at' - 1 = at /\ message' = message /\ at \in Nat /\ at' # 1
        /\ (Uncut(at - 1)' => Uncut(at))
    BY ReadFacts
  <1>2. \A i, names : InField(i, names)' <=> InField(i, names)
    BY <1>1 DEF InField, FieldsNamed, FieldAt, Begins
  <1>3. ASSUME Uncut(at - 1)'
        PROVE  /\ \A f \in Kept : InField(at - 1, {f})' <=> state' = "append" /\ current_hdr' = f
               /\ InField(at - 1, Recipient)' <=> state' = "recipient"
    <2>1. \A names : InField(at - 1, names)' <=> InField(at, names)
      BY <1>1 DEF InField, FieldsNamed, FieldAt, Begins
    <2> QED
      BY <1>1, <1>3, <2>1
  <1> QED
    BY <1>1, <1>3 DEF Remembers

LEMMA NotReading == ASSUME TypeOK, EndOfHeader \/ MatchNames
                    PROVE  /\ UNCHANGED <<message, at, state, current_hdr, h, rcpt_hdrs, suppressed>>
                           /\ pc' # "loop"
  BY DEF EndOfHeader, MatchNames

LEMMA RemembersStep == ASSUME TypeOK, Appending, Remembers, Next PROVE Remembers'
  <1>1. CASE RecipientLine
    <2>1. PICK f \in Recipient : Reads(f)
      BY <1>1 DEF RecipientLine
    <2>2. state' = "recipient" /\ f \notin {"fold", "newline"} /\ f \in Recipient
          /\ \A g \in Kept : f \notin {g}
      BY <1>1 DEF RecipientLine, Recipient, Kept
    <2>3. Uncut(at) => \A names : InField(at, names) <=> f \in names
      BY <2>1, <2>2, NextField
    <2> QED
      BY <2>1, <2>2, <2>3, ReadRemembers
  <1>2. CASE KeptLine
    <2>1. PICK f \in Kept : Reads(f) /\ state' = "append" /\ current_hdr' = f
      BY <1>2 DEF KeptLine
    <2>2. f \notin {"fold", "newline"} /\ f \notin Recipient
      BY DEF Recipient, Kept
    <2>3. Uncut(at) => \A names : InField(at, names) <=> f \in names
      BY <2>1, <2>2, NextField
    <2>4. \A g \in Kept : f \in {g} <=> f = g
      OBVIOUS
    <2> QED
      BY <2>1, <2>2, <2>3, <2>4, ReadRemembers
  <1>3. CASE NoReplyLine
    <2>1. PICK f \in NoReply : Reads(f)
      BY <1>3 DEF NoReplyLine
    <2>2. state' = "noreply" /\ f \notin {"fold", "newline"} /\ f \notin Recipient
          /\ \A g \in Kept : f \notin {g}
      BY <1>3 DEF NoReplyLine, NoReply, Recipient, Kept
    <2>3. Uncut(at) => \A names : InField(at, names) <=> f \in names
      BY <2>1, <2>2, NextField
    <2> QED
      BY <2>1, <2>2, <2>3, ReadRemembers
  <1>4. CASE OtherLine
    <2>1. Reads("other") /\ state' = "unknown"
      BY <1>4 DEF OtherLine
    <2>2. "other" \notin {"fold", "newline"} /\ "other" \notin Recipient
          /\ \A g \in Kept : "other" \notin {g}
      BY DEF Recipient, Kept
    <2>3. Uncut(at) => \A names : InField(at, names) <=> "other" \in names
      BY <2>1, <2>2, NextField
    <2> QED
      BY <2>1, <2>2, <2>3, ReadRemembers
  <1>5. CASE FoldLine
    <2>1. Reads("fold") /\ state' = state /\ current_hdr' = current_hdr
      BY <1>5 DEF FoldLine
    <2>2. Uncut(at) => \A names \in Fields :
              InField(at, names) <=> \/ state = "append" /\ names = {current_hdr} /\ current_hdr \in Kept
                                     \/ state = "recipient" /\ names = Recipient
      BY <2>1, NextField
    <2>3. Recipient \in Fields /\ \A g \in Kept : {g} \in Fields /\ {g} # Recipient /\ Recipient # {g}
      BY DEF Fields, Recipient
    <2>4. \A g \in Kept : {g} = {current_hdr} <=> current_hdr = g
      OBVIOUS
    <2>5. Uncut(at) =>
              /\ \A g \in Kept : InField(at, {g}) <=> state = "append" /\ current_hdr = g
              /\ InField(at, Recipient) <=> state = "recipient"
      BY <2>2, <2>3, <2>4
    <2> QED
      BY <2>1, <2>5, ReadRemembers
  <1>6. CASE EndOfHeader \/ MatchNames
    BY <1>6, NotReading DEF Remembers, Uncut, InField, FieldsNamed, FieldAt, Begins
  <1> QED
    BY <1>1, <1>2, <1>3, <1>4, <1>5, <1>6 DEF Next

\* What was collected before the line that is read.
LEMMA WasCollected ==
    ASSUME TypeOK, LinesStayInTheirField, NEW name, Reads(name), Uncut(at)
    PROVE  /\ \A f \in Kept : Collected(h[f], {f}, at)
           /\ CollectedPlain(rcpt_hdrs, Recipient, at)
  BY ReadFacts, StayIsCollected

\* A step that reads a line puts it where it belongs.
LEMMA ReadStays ==
    ASSUME TypeOK, NEW name, Reads(name),
           Uncut(at) =>
               /\ \A f \in Kept : Collected(h'[f], {f}, at + 1)
               /\ CollectedPlain(rcpt_hdrs', Recipient, at + 1)
    PROVE  LinesStayInTheirField'
  <1>1. at' = at + 1 /\ message' = message /\ at \in Nat /\ (Uncut(at - 1)' => Uncut(at))
    BY ReadFacts
  <1>4. ASSUME \A i \in 1..(at' - 1) : ~message'[i].cut
        PROVE  Uncut(at)
    BY <1>1, <1>4 DEF Uncut
  <1>5. ASSUME Uncut(at), NEW f \in Kept
        PROVE  /\ {h'[f][n].line : n \in DOMAIN h'[f]} = LinesOf({f}, at)'
               /\ \A n \in 1..(Len(h'[f]) - 1) : h'[f][n].line < h'[f][n+1].line
               /\ \A n \in DOMAIN h'[f] : h'[f][n].strip = Begins(h[f][n].line)'
    <2>1. Collected(h'[f], {f}, at + 1)
      BY <1>5
    <2>2. LinesOf({f}, at)' = LinesOf({f}, at + 1)
      BY <1>1 DEF LinesOf, FieldsNamed, FieldAt, Begins
    <2>3. ASSUME NEW n \in DOMAIN h'[f]
          PROVE  Begins(h[f][n].line)' = Begins(h'[f][n].line)
      BY <1>1 DEF Begins
    <2> QED
      BY <2>1, <2>2, <2>3 DEF Collected
  <1>6. ASSUME Uncut(at)
        PROVE  /\ {rcpt_hdrs'[n] : n \in DOMAIN rcpt_hdrs'} = LinesOf(Recipient, at)'
               /\ \A n \in 1..(Len(rcpt_hdrs') - 1) : rcpt_hdrs'[n] < rcpt_hdrs'[n+1]
    <2>1. CollectedPlain(rcpt_hdrs', Recipient, at + 1)
      BY <1>6
    <2>2. LinesOf(Recipient, at)' = LinesOf(Recipient, at + 1)
      BY <1>1 DEF LinesOf, FieldsNamed, FieldAt, Begins
    <2> QED
      BY <2>1, <2>2 DEF CollectedPlain
  <1> QED
    BY <1>4, <1>5, <1>6 DEF LinesStayInTheirField

LEMMA StaySame ==
    ASSUME LinesStayInTheirField, UNCHANGED <<message, at, h, rcpt_hdrs>>
    PROVE  LinesStayInTheirField'
  <1>0. message' = message /\ at' = at /\ h' = h /\ rcpt_hdrs' = rcpt_hdrs
    OBVIOUS
  <1>1. /\ LinesOf(Recipient, at)' = LinesOf(Recipient, at)
        /\ \A f \in Kept : LinesOf({f}, at)' = LinesOf({f}, at)
    BY DEF LinesOf, FieldsNamed, FieldAt, Begins
  <1>2. \A f \in Kept : \A n \in DOMAIN h[f] : Begins(h[f][n].line)' = Begins(h[f][n].line)
    BY DEF Begins
  <1>3. (\A i \in 1..(at' - 1) : ~message'[i].cut) => Uncut(at - 1)
    BY DEF Uncut
  <1>4. Uncut(at - 1) => /\ \A f \in Kept : Collected(h[f], {f}, at)
                        /\ CollectedPlain(rcpt_hdrs, Recipient, at)
    BY StayIsCollected
  <1>5. ASSUME \A i \in 1..(at' - 1) : ~message'[i].cut, NEW f \in Kept
        PROVE  /\ {h'[f][n].line : n \in DOMAIN h'[f]} = LinesOf({f}, at)'
               /\ \A n \in 1..(Len(h'[f]) - 1) : h'[f][n].line < h'[f][n+1].line
               /\ \A n \in DOMAIN h'[f] : h'[f][n].strip = Begins(h[f][n].line)'
    <2>1. Collected(h[f], {f}, at)
      BY <1>3, <1>4, <1>5
    <2> QED
      BY ONLY <1>0, <1>1, <1>2, <1>5, <2>1 DEF Collected
  <1>6. ASSUME \A i \in 1..(at' - 1) : ~message'[i].cut
        PROVE  /\ {rcpt_hdrs'[n] : n \in DOMAIN rcpt_hdrs'} = LinesOf(Recipient, at)'
               /\ \A n \in 1..(Len(rcpt_hdrs') - 1) : rcpt_hdrs'[n] < rcpt_hdrs'[n+1]
    BY <1>1, <1>3, <1>4, <1>6 DEF CollectedPlain
  <1> QED
    BY <1>5, <1>6 DEF LinesStayInTheirField

LEMMA StayStep ==
    ASSUME TypeOK, Appending, Remembers, LinesStayInTheirField, Next
    PROVE  LinesStayInTheirField'
  <1>0. /\ \A f \in Kept : h[f] \in Seq([line : DOMAIN message, strip : BOOLEAN])
        /\ rcpt_hdrs \in Seq(DOMAIN message)
    BY DEF TypeOK
  <1>1. CASE RecipientLine
    <2>1. PICK f \in Recipient : Reads(f)
      BY <1>1 DEF RecipientLine
    <2>2. f \notin {"fold", "newline"} /\ \A g \in Kept : f \notin {g}
      BY DEF Recipient, Kept
    <2>3. h' = h /\ rcpt_hdrs' = Append(rcpt_hdrs, at)
      BY <1>1 DEF RecipientLine
    <2>4. at \in 1..Len(message)
      BY <2>1, ReadFacts
    <2>5. ASSUME Uncut(at)
          PROVE  /\ \A g \in Kept : Collected(h'[g], {g}, at + 1)
                 /\ CollectedPlain(rcpt_hdrs', Recipient, at + 1)
      <3>1. \A names : InField(at, names) <=> f \in names
        BY <2>1, <2>2, <2>5, NextField
      <3>2. /\ \A g \in Kept : Collected(h[g], {g}, at)
            /\ CollectedPlain(rcpt_hdrs, Recipient, at)
        BY <2>1, <2>5, WasCollected
      <3>3. ASSUME NEW g \in Kept PROVE Collected(h[g], {g}, at + 1)
        <4>1. ~InField(at, {g}) /\ Collected(h[g], {g}, at)
          BY <2>2, <3>1, <3>2
        <4> QED
          BY <2>4, <4>1, CollectedSame
      <3>4. CollectedPlain(Append(rcpt_hdrs, at), Recipient, at + 1)
        <4>1. InField(at, Recipient)
          BY <3>1
        <4> QED
          BY <1>0, <2>4, <3>2, <4>1, CollectedPlainMore
      <3> QED
        BY <2>3, <3>3, <3>4
    <2> QED
      BY <2>1, <2>5, ReadStays
  <1>2. CASE KeptLine
    <2>1. PICK f \in Kept : Reads(f) /\ AppendHeader(f, TRUE) /\ UNCHANGED rcpt_hdrs
      BY <1>2 DEF KeptLine
    <2>2. f \notin {"fold", "newline"} /\ f \notin Recipient
      BY DEF Recipient, Kept
    <2>3. at \in 1..Len(message) /\ at \in DOMAIN message
      BY <2>1, ReadFacts, MessageFacts
    <2>4. /\ h'[f] = Append(h[f], [line |-> at, strip |-> TRUE])
          /\ \A g \in Kept \ {f} : h'[g] = h[g]
      BY <2>1, <2>3, AppendTypes
    <2>5. ASSUME Uncut(at)
          PROVE  /\ \A g \in Kept : Collected(h'[g], {g}, at + 1)
                 /\ CollectedPlain(rcpt_hdrs', Recipient, at + 1)
      <3>1. \A names : InField(at, names) <=> f \in names
        BY <2>1, <2>2, <2>5, NextField
      <3>2. /\ \A g \in Kept : Collected(h[g], {g}, at)
            /\ CollectedPlain(rcpt_hdrs, Recipient, at)
        BY <2>1, <2>5, WasCollected
      <3>3. ASSUME NEW g \in Kept \ {f} PROVE Collected(h'[g], {g}, at + 1)
        <4>1. ~InField(at, {g}) /\ Collected(h[g], {g}, at)
          BY <3>1, <3>2
        <4>2. Collected(h[g], {g}, at + 1)
          BY <2>3, <4>1, CollectedSame
        <4> QED
          BY <2>4, <4>2
      <3>4. Collected(h'[f], {f}, at + 1)
        <4>1. InField(at, {f}) /\ Collected(h[f], {f}, at)
          BY <3>1, <3>2
        <4>2. TRUE = Begins(at)
          <5>1. Uncut(at - 1) /\ Begins(at)
            BY <2>1, <2>2, <2>5, ReadFacts
          <5>2. Begins(at) \in BOOLEAN
            BY DEF Begins
          <5> QED
            BY <5>1, <5>2
        <4>3. Collected(Append(h[f], [line |-> at, strip |-> TRUE]), {f}, at + 1)
          BY <1>0, <2>3, <4>1, <4>2, CollectedMore
        <4> QED
          BY <2>4, <4>3
      <3>5. CollectedPlain(rcpt_hdrs, Recipient, at + 1)
        <4>1. ~InField(at, Recipient)
          BY <2>2, <3>1
        <4> QED
          BY <2>3, <3>2, <4>1, CollectedSame
      <3> QED
        BY <2>1, <3>3, <3>4, <3>5
    <2> QED
      BY <2>1, <2>5, ReadStays
  <1>3. ASSUME NEW f \in NoReply \union {"other"}, Reads(f), UNCHANGED <<h, rcpt_hdrs>>
        PROVE  LinesStayInTheirField'
    <2>2. f \notin {"fold", "newline"} /\ f \notin Recipient /\ \A g \in Kept : f \notin {g}
      BY DEF NoReply, Recipient, Kept
    <2>4. at \in 1..Len(message)
      BY <1>3, ReadFacts
    <2>5. ASSUME Uncut(at)
          PROVE  /\ \A g \in Kept : Collected(h'[g], {g}, at + 1)
                 /\ CollectedPlain(rcpt_hdrs', Recipient, at + 1)
      <3>1. \A names : InField(at, names) <=> f \in names
        BY <1>3, <2>2, <2>5, NextField
      <3>2. /\ \A g \in Kept : Collected(h[g], {g}, at)
            /\ CollectedPlain(rcpt_hdrs, Recipient, at)
        BY <1>3, <2>5, WasCollected
      <3>3. ASSUME NEW g \in Kept PROVE Collected(h[g], {g}, at + 1)
        <4>1. ~InField(at, {g}) /\ Collected(h[g], {g}, at)
          BY <2>2, <3>1, <3>2
        <4> QED
          BY <2>4, <4>1, CollectedSame
      <3>4. CollectedPlain(rcpt_hdrs, Recipient, at + 1)
        <4>1. ~InField(at, Recipient)
          BY <2>2, <3>1
        <4> QED
          BY <2>4, <3>2, <4>1, CollectedSame
      <3> QED
        BY <1>3, <3>3, <3>4
    <2> QED
      BY <1>3, <2>5, ReadStays
  <1>4. CASE FoldLine
    <2>1. /\ Reads("fold")
          /\ IF state = "recipient" THEN rcpt_hdrs' = Append(rcpt_hdrs, at) ELSE UNCHANGED rcpt_hdrs
          /\ IF state = "append" THEN AppendHeader(current_hdr, FALSE) ELSE UNCHANGED h
      BY <1>4 DEF FoldLine
    <2>2. at \in 1..Len(message) /\ at \in DOMAIN message /\ ~Begins(at)
      BY <2>1, ReadFacts, MessageFacts
    <2>3. ASSUME Uncut(at)
          PROVE  /\ \A g \in Kept : Collected(h'[g], {g}, at + 1)
                 /\ CollectedPlain(rcpt_hdrs', Recipient, at + 1)
      <3>1. \A names \in Fields :
                InField(at, names) <=> \/ state = "append" /\ names = {current_hdr} /\ current_hdr \in Kept
                                       \/ state = "recipient" /\ names = Recipient
        BY <2>1, <2>3, NextField
      <3>2. Recipient \in Fields /\ \A g \in Kept : {g} \in Fields /\ {g} # Recipient
                                                    /\ ({g} = {current_hdr} <=> current_hdr = g)
        BY DEF Fields, Recipient
      <3>3. /\ \A g \in Kept : InField(at, {g}) <=> state = "append" /\ current_hdr = g
            /\ InField(at, Recipient) <=> state = "recipient"
        BY <3>1, <3>2
      <3>4. /\ \A g \in Kept : Collected(h[g], {g}, at)
            /\ CollectedPlain(rcpt_hdrs, Recipient, at)
        BY <2>1, <2>3, WasCollected
      <3>5. ASSUME NEW g \in Kept PROVE Collected(h'[g], {g}, at + 1)
        <4>1. CASE state = "append" /\ current_hdr = g
          <5>1. FALSE = Begins(at)
            <6>1. Begins(at) \in BOOLEAN
              BY DEF Begins
            <6> QED
              BY <2>2, <6>1
          <5>2. h'[g] = Append(h[g], [line |-> at, strip |-> FALSE])
            BY <2>1, <2>2, <4>1, AppendTypes
          <5>3. InField(at, {g}) /\ Collected(h[g], {g}, at)
            BY <3>3, <3>4, <4>1
          <5>4. Collected(Append(h[g], [line |-> at, strip |-> FALSE]), {g}, at + 1)
            BY <1>0, <2>2, <5>1, <5>3, CollectedMore
          <5> QED
            BY <5>2, <5>4
        <4>2. CASE ~(state = "append" /\ current_hdr = g)
          <5>1. h'[g] = h[g]
            <6>1. CASE state = "append"
              <7>1. current_hdr \in Kept /\ AppendHeader(current_hdr, FALSE) /\ g \in Kept \ {current_hdr}
                BY <2>1, <4>2, <6>1 DEF Appending
              <7> QED
                BY <2>2, <7>1, AppendTypes
            <6>2. CASE state # "append"
              BY <2>1, <6>2
            <6> QED
              BY <6>1, <6>2
          <5>2. ~InField(at, {g}) /\ Collected(h[g], {g}, at)
            BY <3>3, <3>4, <4>2
          <5>3. Collected(h[g], {g}, at + 1)
            BY <2>2, <5>2, CollectedSame
          <5> QED
            BY <5>1, <5>3
        <4> QED
          BY <4>1, <4>2
      <3>6. CollectedPlain(rcpt_hdrs', Recipient, at + 1)
        <4>1. CASE state = "recipient"
          <5>1. InField(at, Recipient)
            BY <3>3, <4>1
          <5>2. CollectedPlain(Append(rcpt_hdrs, at), Recipient, at + 1)
            BY <1>0, <2>2, <3>4, <5>1, CollectedPlainMore
          <5> QED
            BY <2>1, <4>1, <5>2
        <4>2. CASE state # "recipient"
          <5>1. ~InField(at, Recipient)
            BY <3>3, <4>2
          <5>2. CollectedPlain(rcpt_hdrs, Recipient, at + 1)
            BY <2>2, <3>4, <5>1, CollectedSame
          <5> QED
            BY <2>1, <4>2, <5>2
        <4> QED
          BY <4>1, <4>2
      <3> QED
        BY <3>5, <3>6
    <2> QED
      BY <2>1, <2>3, ReadStays
  <1>5. CASE EndOfHeader \/ MatchNames
    BY <1>5, NotReading, StaySame
  <1>6. CASE NoReplyLine
    BY <1>3, <1>6 DEF NoReplyLine
  <1>7. CASE OtherLine
    BY <1>3, <1>7 DEF OtherLine
  <1> QED
    BY <1>1, <1>2, <1>4, <1>5, <1>6, <1>7 DEF Next

----------------------------------------------------------------------------
(* Fields that forbid an answer.                                           *)

\* Reading a line other than one of a field that may forbid an answer.
LEMMA ReadPasses ==
    ASSUME TypeOK, Passed, NEW name, Reads(name), UNCHANGED <<pc, suppressed>>,
           ~suppressed /\ ForbidsAtOnce(at) => Mistaken(message[at])
    PROVE  Passed'
  <1>1. at \in 1..Len(message) /\ at' = at + 1 /\ message' = message /\ at \in Nat /\ pc = "loop"
    BY ReadFacts DEF Reads
  <1>2. \A j : ForbidsAtOnce(j)' <=> ForbidsAtOnce(j)
    BY <1>1 DEF ForbidsAtOnce, FieldsNamed, Begins
  <1>3. \A j \in 1..(at' - 1) : j \in 1..(at - 1) \/ j = at
    BY <1>1
  <1> QED
    BY <1>1, <1>2, <1>3 DEF Passed

LEMMA PassedStep == ASSUME TypeOK, Passed, Next PROVE Passed'
  <1>0. ASSUME NEW f \in Names \ NoReply, Reads(f), UNCHANGED <<pc, suppressed>> PROVE Passed'
    <2>1. ~ForbidsAtOnce(at)
      BY <1>0, ReadFacts DEF ForbidsAtOnce, FieldsNamed
    <2> QED
      BY <1>0, <2>1, ReadPasses
  <1>1. CASE RecipientLine
    <2>1. \A f \in Recipient : f \in Names \ NoReply
      BY DEF Recipient, Names, NoReply
    <2> QED
      BY <1>0, <1>1, <2>1 DEF RecipientLine
  <1>2. CASE KeptLine
    <2>1. \A f \in Kept : f \in Names \ NoReply
      BY DEF Kept, Names, NoReply
    <2> QED
      BY <1>0, <1>2, <2>1 DEF KeptLine
  <1>3. CASE NoReplyLine
    <2>1. PICK f \in NoReply : Reads(f)
      BY <1>3 DEF NoReplyLine
    <2>2. /\ at \in 1..Len(message) /\ at' = at + 1 /\ message' = message /\ at \in Nat
          /\ message[at].name \in NoReply
      BY <2>1, ReadFacts
    <2>3. CASE Breaks(message[at])
      <3>1. UNCHANGED suppressed /\ pc = "loop"
        BY <1>3, <2>1, <2>3 DEF NoReplyLine, Reads
      <3>6. ForbidsAtOnce(at) => Mistaken(message[at])
        BY <2>3 DEF Breaks, ForbidsAtOnce, Forbidding, Mistaken, Swallowed
      <3>2. \A j : ForbidsAtOnce(j)' <=> ForbidsAtOnce(j)
        BY <2>2 DEF ForbidsAtOnce, FieldsNamed, Begins
      <3>4. \A j \in 1..(at' - 1) : j \in 1..(at - 1) \/ j = at
        BY <2>2
      <3>3. Hides(message[at])
        BY ONLY <2>3 DEF Hides, Breaks, Swallowed
      <3>5. at \in 1..(at' - 1)
        BY <2>2
      <3> QED
        BY <2>2, <3>1, <3>2, <3>3, <3>4, <3>5, <3>6 DEF Passed
    <2>4. CASE ~Breaks(message[at]) /\ Refuses(message[at])
      BY <1>3, <2>4 DEF NoReplyLine, Passed
    <2>5. CASE ~Breaks(message[at]) /\ ~Refuses(message[at])
      <3>1. UNCHANGED <<pc, suppressed>>
        BY <1>3, <2>5 DEF NoReplyLine
      <3>2. ForbidsAtOnce(at) => Mistaken(message[at])
        BY <2>2, <2>5 DEF Refuses, StartsWithNo, NoReply, ForbidsAtOnce, Forbidding, Mistaken, Swallowed
      <3> QED
        BY <2>1, <3>1, <3>2, ReadPasses
    <2> QED
      BY <2>3, <2>4, <2>5
  <1>4. CASE OtherLine
    <2>1. "other" \in Names \ NoReply
      BY DEF Names, NoReply
    <2> QED
      BY <1>0, <1>4, <2>1 DEF OtherLine
  <1>5. CASE FoldLine
    <2>1. "fold" \in Names \ NoReply
      BY DEF Names, NoReply
    <2> QED
      BY <1>0, <1>5, <2>1 DEF FoldLine
  <1>6. CASE EndOfHeader \/ MatchNames
    <2>1. UNCHANGED <<message, at, suppressed>>
      BY <1>6, NotReading
    <2>2. \A j : ForbidsAtOnce(j)' <=> ForbidsAtOnce(j)
      BY <2>1 DEF ForbidsAtOnce, FieldsNamed, Begins
    <2>4. at \in Nat /\ at >= 1 /\ Len(message) \in Nat
      BY MessageFacts
    <2>5. ~suppressed => at > Len(message) \/ \E i \in 1..(at - 1) : Hides(message[i])
      <3>1. CASE EndOfHeader /\ at <= Len(message)
        <4>1. at > 1 /\ message[at - 1].cut
          BY <2>4, <3>1, MessageFacts DEF EndOfHeader
        <4>2. at - 1 \in 1..(at - 1) /\ Hides(message[at - 1])
          BY <2>4, <4>1 DEF Hides
        <4> QED
          BY <4>2
      <3>2. CASE EndOfHeader /\ ~(at <= Len(message))
        BY <2>4, <3>2
      <3>3. CASE MatchNames
        BY <3>3 DEF MatchNames, Passed
      <3> QED
        BY <1>6, <3>1, <3>2, <3>3
    <2> QED
      BY <2>1, <2>2, <2>5 DEF Passed
  <1> QED
    BY <1>1, <1>2, <1>3, <1>4, <1>5, <1>6 DEF Next

\* The value of a field that has one on its first line.
LEMMA ValueAtOnce ==
    ASSUME TypeOK, NEW j \in 1..Len(message), message[j].word # ""
    PROVE  j \in FieldAt(j) /\ ValueOf(j) = message[j].word
  <1>1. Len(message) \in Nat
    BY MessageFacts
  <1>2. j \in FieldAt(j) /\ \A k \in FieldAt(j) : k \in Nat /\ j <= k
    <2>1. j \in Nat /\ j <= Len(message)
      BY ONLY <1>1, j \in 1..Len(message)
    <2>2. j \in j..Len(message) /\ (j+1)..j = {}
      BY ONLY <1>1, <2>1
    <2>3. \A k \in j..Len(message) : k \in Nat /\ j <= k
      BY ONLY <1>1, <2>1
    <2> QED
      BY <2>2, <2>3 DEF FieldAt
  <1> DEFINE told == {i \in FieldAt(j) : message[i].word # ""}
             first == CHOOSE i \in told : \A k \in told : i <= k
  <1>3. j \in told /\ \A k \in told : k \in Nat /\ j <= k
    BY <1>2
  <1>4. told # {}
    BY <1>3
  <1>5. ValueOf(j) = message[first].word
    BY <1>4 DEF ValueOf
  <1> HIDE DEF told
  <1>6. first \in told /\ \A k \in told : first <= k
    BY <1>3
  <1> HIDE DEF first
  <1>7. first <= j /\ j <= first /\ first \in Nat /\ j \in Nat
    BY <1>3, <1>6
  <1>8. first = j
    BY ONLY <1>7
  <1> QED
    BY <1>2, <1>5, <1>8

GluedNo(j) ==
    message[j].name = "Auto-Submitted" /\ message[j].glued /\ message[j].word = "no"

LEMMA CauseStep == ASSUME TypeOK, SuppressedForCause, [Next]_vars PROVE SuppressedForCause'
  <1> USE DEF GluedNo
  <1>0. at \in Nat /\ at >= 1 /\ Len(message) \in Nat /\ (at' = at \/ at' = at + 1) /\ message' = message
    <2>1. (at' = at \/ at' = at + 1) /\ message' = message
      BY DEF Next, RecipientLine, KeptLine, NoReplyLine, OtherLine, FoldLine, EndOfHeader,
             MatchNames, Reads, vars
    <2> QED
      BY <2>1, MessageFacts
  <1>1. \A j : (j \in FieldsNamed(NoReply))' <=> j \in FieldsNamed(NoReply)
    BY <1>0 DEF FieldsNamed, Begins
  <1>2. \A j : Forbids(j)' <=> Forbids(j)
    BY <1>0 DEF Forbids, Forbidding, ValueOf, FieldAt, Begins
  <1>3. CASE suppressed
    <2>1. CASE \E j \in FieldsNamed(NoReply) : Forbids(j) \/ GluedNo(j)
      BY <1>0, <1>1, <1>2, <2>1 DEF SuppressedForCause
    <2>2. CASE \E i \in 1..(at-2) : message[i].cut
      <3>1. \A i \in 1..(at - 2) : i \in 1..(at' - 2)
        BY <1>0
      <3> QED
        BY <1>0, <2>2, <3>1 DEF SuppressedForCause
    <2> QED
      BY <1>3, <2>1, <2>2 DEF SuppressedForCause
  <1>4. CASE ~suppressed /\ suppressed'
    <2>1. PICK f \in NoReply : Reads(f) /\ ~Breaks(message[at]) /\ Refuses(message[at])
      BY <1>4 DEF Next, RecipientLine, KeptLine, NoReplyLine, OtherLine, FoldLine, EndOfHeader,
                  MatchNames, vars
    <2>2. /\ at \in 1..Len(message) /\ at' = at + 1 /\ message[at].name = f
          /\ (Uncut(at - 1) => Begins(at))
      <3>1. f \notin {"fold", "newline"}
        BY DEF NoReply
      <3> QED
        BY <2>1, <3>1, ReadFacts
    <2>3. CASE Uncut(at - 1)
      <3>1. at \in FieldsNamed(NoReply)
        BY <2>1, <2>2, <2>3, FieldFacts
      <3>2. Forbids(at) \/ GluedNo(at)
        <4>1. CASE f = "List-"
          BY <2>2, <4>1 DEF Forbids, Forbidding
        <4>2. CASE f = "Auto-Submitted"
          <5>1. message[at].word # "" /\ (message[at].word # "no" \/ message[at].glued)
            BY <2>1, <2>2, <4>2 DEF Breaks, Refuses, StartsWithNo
          <5>2. ValueOf(at) = message[at].word
            BY <2>2, <5>1, ValueAtOnce
          <5> QED
            BY <2>2, <4>2, <5>1, <5>2 DEF Forbids, Forbidding
        <4>3. CASE f \in {"Precedence", "X-Auto-Response-Suppress"}
          <5>1. message[at].word = "forbid"
            BY <2>1, <2>2, <4>3 DEF Refuses
          <5>2. at \in FieldAt(at) /\ ValueOf(at) = "forbid"
            BY <2>2, <5>1, ValueAtOnce
          <5> QED
            BY <2>2, <4>3, <5>1, <5>2 DEF Forbids, Forbidding
        <4> QED
          BY <4>1, <4>2, <4>3 DEF NoReply
      <3> QED
        BY <1>0, <1>1, <1>2, <3>1, <3>2 DEF SuppressedForCause
    <2>4. CASE ~Uncut(at - 1)
      <3>1. PICK i \in 1..(at - 1) : message[i].cut
        BY <2>4 DEF Uncut
      <3>2. i \in 1..(at' - 2)
        BY <1>0, <2>2
      <3> QED
        BY <1>0, <3>1, <3>2 DEF SuppressedForCause
    <2> QED
      BY <2>3, <2>4
  <1>5. CASE ~suppressed'
    BY <1>5 DEF SuppressedForCause
  <1> QED
    BY <1>3, <1>4, <1>5

----------------------------------------------------------------------------
(* The invariant.                                                          *)

LEMMA InitHolds == Init => HeaderInv
  <1> SUFFICES ASSUME Init PROVE HeaderInv
    OBVIOUS
  <1>1. at = 1 /\ pc = "loop" /\ state = "unknown" /\ ~suppressed /\ rcpt_hdrs = <<>>
        /\ h = [f \in Kept |-> NULL] /\ message \in Messages
    BY DEF Init
  <1>2. TypeOK
    <2>1. PICK n \in 0..MaxLines : message \in [1..n -> Lines]
      BY <1>1 DEF Messages
    <2>2. Len(message) \in Nat
      BY <2>1, LinesAssumption
    <2>3. at \in 1..(Len(message) + 1)
      BY <1>1, <2>2
    <2>4. DOMAIN h = Kept /\ \A f \in Kept : h[f] = <<>>
      BY <1>1 DEF NULL
    <2>5. \A S : <<>> \in Seq(S)
      OBVIOUS
    <2>6. /\ \A f \in Kept : h[f] \in Seq([line : DOMAIN message, strip : BOOLEAN])
          /\ rcpt_hdrs \in Seq(DOMAIN message)
      BY <1>1, <2>4, <2>5
    <2> QED
      BY <2>3, <2>4, <2>6 DEF Init, TypeOK
  <1>3. Appending /\ Remembers /\ Passed /\ SuppressedForCause
    BY <1>1 DEF Appending, Remembers, Passed, SuppressedForCause
  <1>4. LinesStayInTheirField
    <2>1. LinesOf(Recipient, at) = {} /\ \A f \in Kept : LinesOf({f}, at) = {} /\ h[f] = <<>>
      BY <1>1, NoLines DEF NULL
    <2>2. DOMAIN <<>> = {} /\ Len(<<>>) = 0 /\ 1..(0 - 1) = {}
      OBVIOUS
    <2> QED
      BY <1>1, <2>1, <2>2 DEF LinesStayInTheirField
  <1> QED
    BY <1>2, <1>3, <1>4 DEF HeaderInv

LEMMA HeaderInvStep == HeaderInv /\ [Next]_vars => HeaderInv'
  <1> SUFFICES ASSUME HeaderInv, [Next]_vars PROVE HeaderInv'
    OBVIOUS
  <1> USE DEF HeaderInv
  <1>1. CASE Next
    BY <1>1, TypeStep, RemembersStep, PassedStep, StayStep, CauseStep
  <1>2. CASE UNCHANGED vars
    <2>1. TypeOK' /\ Appending'
      BY <1>2 DEF vars, TypeOK, Appending, Messages
    <2>2. Remembers'
      BY <1>2 DEF vars, Remembers, Uncut, InField, FieldsNamed, FieldAt, Begins
    <2>3. Passed'
      BY <1>2 DEF vars, Passed, ForbidsAtOnce, FieldsNamed, Begins
    <2>4. LinesStayInTheirField'
      BY <1>2, StaySame DEF vars
    <2>5. SuppressedForCause'
      BY <1>2, CauseStep
    <2> QED
      BY <2>1, <2>2, <2>3, <2>4, <2>5
  <1> QED
    BY <1>1, <1>2

\* The state of the pass is one readheaders can be in, what it remembers is the
\* field of the line it read last, and what it let pass was hidden.
THEOREM HeaderInvariant == Spec => []HeaderInv
  BY InitHolds, HeaderInvStep, PTL DEF Spec

\* Every variable keeps its type, for headers of any lines.
THEOREM HeaderTypeCorrect == Spec => []TypeOK
  <1>1. HeaderInv => TypeOK
    BY DEF HeaderInv
  <1> QED
    BY <1>1, HeaderInvariant, PTL

\* No line of an uncut header is quoted or searched outside its field, left out
\* or taken twice, by append_header and the collection of recipients.
THEOREM LinesStay == Spec => []LinesStayInTheirField
  <1>1. HeaderInv => LinesStayInTheirField
    BY DEF HeaderInv
  <1> QED
    BY <1>1, HeaderInvariant, PTL

\* readheaders keeps an answer back only for a field that forbids it, the word "no"
\* next to its colon, or a cut line.
THEOREM CauseForSilence == Spec => []SuppressedForCause
  <1>1. HeaderInv => SuppressedForCause
    BY DEF HeaderInv
  <1> QED
    BY <1>1, HeaderInvariant, PTL

\* An answer is sent in spite of a field that forbids it on its first line only
\* if a line before it was cut or ended the reading, or the field is Auto-Submitted
\* with one of the values that are mistaken.
THEOREM ForbiddenIsHonoured == Spec => []ForbiddenUnlessHidden
  <1>1. HeaderInv => ForbiddenUnlessHidden
    <2> SUFFICES ASSUME HeaderInv, Answers, NEW j \in FieldsNamed(NoReply),
                        Forbidding(message[j].name, message[j].word)
                 PROVE  Mistaken(message[j]) \/ \E i \in 1..(j-1) : Hides(message[i])
      BY DEF ForbiddenUnlessHidden
    <2>1. ForbidsAtOnce(j) /\ j \in 1..Len(message) /\ Len(message) \in Nat /\ at \in Nat
      BY MessageFacts, FieldFacts DEF ForbidsAtOnce, HeaderInv
    <2>2. ~suppressed /\ pc # "loop" /\ Passed
      BY DEF Answers, HeaderInv
    <2>3. CASE j \in 1..(at - 1)
      BY <2>1, <2>2, <2>3 DEF Passed
    <2>4. CASE j >= at
      <3>1. PICK i \in 1..(at - 1) : Hides(message[i])
        BY <2>1, <2>2, <2>4 DEF Passed
      <3>2. i \in 1..(j - 1)
        BY <2>1, <2>4
      <3> QED
        BY <3>1, <3>2
    <2> QED
      BY <2>1, <2>3, <2>4
  <1> QED
    BY <1>1, HeaderInvariant, PTL

\* Sending the reply leaves the header reader where it is: all of the above
\* holds until the reply is out (simvacation.c, main and send_message).
THEOREM SendReadsHeaders ==
    SendSpec => Spec /\ [](TypeOK /\ LinesStayInTheirField /\ SuppressedForCause /\ ForbiddenUnlessHidden)
  <1>1. SendInit => Init
    BY DEF SendInit
  <1>2. [SendNext]_sendVars => [Next]_vars
    BY DEF SendNext, PrintHeader, sendVars
  <1>3. SendSpec => Spec
    BY <1>1, <1>2, PTL DEF SendSpec, Spec
  <1> QED
    BY <1>3, HeaderTypeCorrect, LinesStay, CauseForSilence, ForbiddenIsHonoured, PTL

----------------------------------------------------------------------------
(* The reply.  What Field picks out of the message by counting is what the *)
(* reader kept: its lines grow, and what grows is determined by its range. *)

NthOf(S, n) == CHOOSE i \in S : Cardinality({k \in S : k <= i}) = n
InOrder(S) == [n \in 1..Cardinality(S) |-> NthOf(S, n)]

\* What grows from each element to the next grows from any to any later one:
\* the smallest place that did not would follow one that did.
LEMMA Grows ==
    ASSUME NEW N \in Nat, NEW s \in [1..N -> Nat], \A n \in 1..(N - 1) : s[n] < s[n + 1]
    PROVE  \A i, j \in 1..N : i < j => s[i] < s[j]
  <1> SUFFICES ASSUME NEW a \in 1..N, NEW b \in 1..N, a < b, ~(s[a] < s[b]) PROVE FALSE
    OBVIOUS
  <1> DEFINE Bad == {j \in Nat : j \in 1..N /\ \E i \in 1..N : i < j /\ ~(s[i] < s[j])}
  <1>1. b \in Bad
    OBVIOUS
  <1>2. PICK j \in Bad : \A k \in Bad : ~(<<k, j>> \in OpToRel(<, Nat))
    <2> DEFINE R == OpToRel(<, Nat)
    <2>1. IsWellFoundedOn(R, Nat)
      BY NatLessThanWellFounded
    <2>2. Bad \subseteq Nat
      OBVIOUS
    <2> HIDE DEF Bad, R
    <2>3. \E x \in Bad : \A y \in Bad : ~(<<y, x>> \in R)
      BY <1>1, <2>1, <2>2, WFMin
    <2> QED
      BY <2>3 DEF R
  <1>3. \A k \in Bad : ~(k < j)
    BY <1>2 DEF OpToRel
  <1> HIDE DEF Bad
  <1>4. j \in 1..N /\ \E i \in 1..N : i < j /\ ~(s[i] < s[j])
    BY DEF Bad
  <1>5. PICK i \in 1..N : i < j /\ ~(s[i] < s[j])
    BY <1>4
  <1>6. s[j - 1] < s[j] /\ j - 1 \in 1..N
    BY <1>4, <1>5
  <1>7. i < j - 1
    <2>1. i # j - 1
      BY <1>5, <1>6
    <2> QED
      BY <1>4, <1>5, <1>6, <2>1
  <1>8. j - 1 \in Bad
    <2>1. s[i] \in Nat /\ s[j] \in Nat /\ s[j - 1] \in Nat
      BY <1>4, <1>6
    <2>2. ~(s[i] < s[j - 1])
      BY <1>5, <1>6, <2>1
    <2> QED
      BY <1>4, <1>6, <1>7, <2>2 DEF Bad
  <1> QED
    BY <1>3, <1>4, <1>8

\* A sequence that grows is the elements of its range in order.
LEMMA GrowsInOrder ==
    ASSUME NEW N \in Nat, NEW s \in [1..N -> Nat], \A n \in 1..(N - 1) : s[n] < s[n + 1]
    PROVE  s = InOrder({s[n] : n \in 1..N})
  <1> DEFINE S == {s[n] : n \in 1..N}
             UpTo(i) == {k \in S : k <= i}
  <1>1. \A i, j \in 1..N : i < j => s[i] < s[j]
    BY Grows
  <1>2. ASSUME NEW m \in 0..N PROVE Cardinality({s[n] : n \in 1..m}) = m
    <2> DEFINE f == [n \in 1..m |-> s[n]]
    <2>1. f \in Bijection(1..m, {s[n] : n \in 1..m})
      <3>1. f \in Surjection(1..m, {s[n] : n \in 1..m})
        BY DEF Surjection
      <3>2. \A a, b \in 1..m : a # b => f[a] # f[b]
        <4> TAKE a, b \in 1..m
        <4>1. s[a] \in Nat /\ s[b] \in Nat /\ (a < b \/ b < a \/ a = b)
          OBVIOUS
        <4> QED
          BY <4>1, <1>1
      <3>3. f \in Injection(1..m, {s[n] : n \in 1..m})
        BY <3>2 DEF Injection, IsInjective
      <3> QED
        BY <3>1, <3>3 DEF Bijection
    <2>2. ExistsBijection(1..m, {s[n] : n \in 1..m})
      BY <2>1 DEF ExistsBijection
    <2> QED
      BY <2>2, FS_CountingElements
  <1>3. ASSUME NEW m \in 1..N PROVE Cardinality(UpTo(s[m])) = m
    <2>1. UpTo(s[m]) = {s[n] : n \in 1..m}
      <3>1. \A n \in 1..N : s[n] <= s[m] <=> n <= m
        <4> TAKE n \in 1..N
        <4>1. s[m] \in Nat /\ s[n] \in Nat /\ (m < n \/ n < m \/ m = n)
          OBVIOUS
        <4> QED
          BY <4>1, <1>1
      <3> QED
        BY <3>1
    <2>2. Cardinality({s[n] : n \in 1..m}) = m
      <3>1. m \in 0..N
        OBVIOUS
      <3> QED
        BY <3>1, <1>2
    <2> HIDE DEF UpTo
    <2> QED
      BY <2>1, <2>2
  <1>4. ASSUME NEW n \in 1..N PROVE NthOf(S, n) = s[n]
    <2>1. s[n] \in S /\ Cardinality(UpTo(s[n])) = n
      BY <1>3
    <2>2. ASSUME NEW i \in S, Cardinality(UpTo(i)) = n PROVE i = s[n]
      BY <2>2, <1>3
    <2> HIDE DEF S
    <2> QED
      BY <2>1, <2>2 DEF NthOf
  <1>5. Cardinality(S) = N
    BY <1>2
  <1>6. InOrder(S) = [n \in 1..N |-> NthOf(S, n)]
    BY <1>5 DEF InOrder
  <1> QED
    BY <1>4, <1>6

LEMMA FieldInOrder == \A f : Field(f) = InOrder(LinesOf({f}, at))
  BY DEF Field, InOrder, NthOf

LEMMA SameField ==
    ASSUME message' = message, at' = at
    PROVE  /\ \A f : Field(f)' = Field(f) /\ (Says(f)' <=> Says(f))
           /\ SingleIdentifier' <=> SingleIdentifier
  <1>1. \A f : LinesOf({f}, at)' = LinesOf({f}, at)
    BY DEF LinesOf, FieldsNamed, FieldAt, Begins
  <1>2. \A f : Field(f)' = InOrder(LinesOf({f}, at)')
    BY DEF Field, InOrder, NthOf
  <1>3. SingleIdentifier' <=> SingleIdentifier
    BY <1>1 DEF SingleIdentifier
  <1> QED
    BY <1>1, <1>2, <1>3, FieldInOrder DEF Says

LEMMA Elements ==
    ASSUME NEW R, NEW s \in Seq(R)
    PROVE  Len(s) \in Nat /\ DOMAIN s = 1..Len(s) /\ \A n \in 1..Len(s) : s[n] \in R
  OBVIOUS

KeptLines(f) == [n \in 1..Len(h[f]) |-> h[f][n].line]

\* In a message without cut lines the reader kept each field as it stands.
LEMMA KeptIsField ==
    ASSUME HeaderInv, \A i \in DOMAIN message : ~message[i].cut, NEW f \in Kept
    PROVE  /\ KeptLines(f) = Field(f)
           /\ HasText(f) <=> Says(f)
           /\ HasText(f) => h[f] # NULL
  <1>1. /\ Len(message) \in Nat /\ DOMAIN message = 1..Len(message)
        /\ at \in Nat /\ at - 1 <= Len(message)
    BY MessageFacts DEF HeaderInv
  <1>2. \A i \in 1..(at - 1) : ~message[i].cut
    BY <1>1
  <1>3. /\ {h[f][n].line : n \in DOMAIN h[f]} = LinesOf({f}, at)
        /\ \A n \in 1..(Len(h[f]) - 1) : h[f][n].line < h[f][n+1].line
    BY <1>2 DEF HeaderInv, LinesStayInTheirField
  <1>4. /\ h[f] \in Seq([line : DOMAIN message, strip : BOOLEAN])
        /\ Len(h[f]) \in Nat /\ DOMAIN h[f] = 1..Len(h[f])
        /\ \A n \in 1..Len(h[f]) : h[f][n].line \in DOMAIN message
    <2>1. h[f] \in Seq([line : DOMAIN message, strip : BOOLEAN])
      BY DEF HeaderInv, TypeOK
    <2>2. /\ Len(h[f]) \in Nat /\ DOMAIN h[f] = 1..Len(h[f])
          /\ \A n \in 1..Len(h[f]) : h[f][n] \in [line : DOMAIN message, strip : BOOLEAN]
      BY <2>1, Elements
    <2> QED
      BY <2>1, <2>2
  <1>5. KeptLines(f) \in [1..Len(h[f]) -> Nat]
    BY <1>1, <1>4 DEF KeptLines
  <1>6. \A n \in 1..(Len(h[f]) - 1) : KeptLines(f)[n] < KeptLines(f)[n + 1]
    BY <1>3, <1>4 DEF KeptLines
  <1>7. {KeptLines(f)[n] : n \in 1..Len(h[f])} = LinesOf({f}, at)
    BY <1>3, <1>4 DEF KeptLines
  <1>8. KeptLines(f) = InOrder({KeptLines(f)[n] : n \in 1..Len(h[f])})
    BY <1>4, <1>5, <1>6, GrowsInOrder
  <1>9. KeptLines(f) = Field(f)
    BY <1>7, <1>8, FieldInOrder
  <1>10. HasText(f) <=> Says(f)
    BY <1>3 DEF HasText, Says
  <1>11. HasText(f) => h[f] # NULL
    <2>1. DOMAIN <<>> = {}
      OBVIOUS
    <2> QED
      BY <2>1 DEF HasText, NULL
  <1> QED
    BY <1>9, <1>10, <1>11

LEMMA FieldIsSeq ==
    ASSUME HeaderInv, \A i \in DOMAIN message : ~message[i].cut, NEW f \in Kept
    PROVE  /\ Field(f) \in Seq(Nat)
           /\ HasText(f) => Text(f) = Field(f)
  <1>1. KeptLines(f) = Field(f) /\ (HasText(f) => h[f] # NULL)
    BY KeptIsField
  <1>2. h[f] \in Seq([line : DOMAIN message, strip : BOOLEAN])
    BY DEF HeaderInv, TypeOK
  <1>3. /\ Len(h[f]) \in Nat /\ DOMAIN h[f] = 1..Len(h[f])
        /\ \A n \in 1..Len(h[f]) : h[f][n] \in [line : DOMAIN message, strip : BOOLEAN]
    BY <1>2, Elements
  <1>4. DOMAIN message \subseteq Nat
    BY MessageFacts DEF HeaderInv
  <1>5. KeptLines(f) \in Seq(Nat)
    BY <1>3, <1>4 DEF KeptLines
  <1> QED
    BY <1>1, <1>3, <1>5 DEF Text, KeptLines

\* The reply names the message and what the message referred to, in a header of
\* any length (simvacation.c:478-504).
THEOREM ReplyThreaded == SendSpec => []ReplyIsThreaded
  <1> DEFINE ThreadInv == ReplyIsThreaded /\ (reply # <<>> => pc = "return")
  <1>1. SendInit => ThreadInv
    BY DEF SendInit, ReplyIsThreaded, RepliesToNamed
  <1>2. HeaderInv /\ ThreadInv /\ [SendNext]_sendVars => ThreadInv'
    <2> SUFFICES ASSUME HeaderInv, ThreadInv, [SendNext]_sendVars
                 PROVE  ThreadInv'
      OBVIOUS
    <2>1. CASE Next /\ UNCHANGED reply
      <3>1. pc # "return"
        BY <2>1 DEF Next, RecipientLine, KeptLine, NoReplyLine, OtherLine, FoldLine,
                    EndOfHeader, MatchNames, Reads
      <3> QED
        BY <2>1, <3>1 DEF ReplyIsThreaded, RepliesToNamed
    <2>2. CASE PrintHeader
      <3>1. UNCHANGED vars /\ pc = "return"
        BY <2>2 DEF PrintHeader
      <3>2. message' = message /\ at' = at /\ pc' = pc
        BY <3>1 DEF vars
      <3>3. \A f : Field(f)' = Field(f) /\ (Says(f)' <=> Says(f))
        BY <3>2, SameField
      <3>4. ASSUME \A i \in DOMAIN message : ~message[i].cut, Says("Message-ID")
            PROVE  /\ reply'["In-Reply-To"] = Field("Message-ID")
                   /\ Says("References") \/ ~Says("In-Reply-To") \/ SingleIdentifier
                      => reply'["References"] = Parent \o Field("Message-ID")
        <4>1. \A f \in Kept : /\ HasText(f) <=> Says(f)
                              /\ HasText(f) => Text(f) = Field(f)
                              /\ Field(f) \in Seq(Nat)
          BY <3>4, KeptIsField, FieldIsSeq
        <4>2. {"Message-ID", "References", "In-Reply-To"} \subseteq Kept
          BY DEF Kept
        <4>3. PrintIf("Message-ID") = Field("Message-ID")
          BY <3>4, <4>1, <4>2 DEF PrintIf
        <4>4. Says("References") \/ ~Says("In-Reply-To") \/ SingleIdentifier
              => References = Parent \o Field("Message-ID")
          <5>1. <<>> \o Field("Message-ID") = Field("Message-ID")
            BY <4>1, <4>2
          <5>2. Text("Message-ID") = Field("Message-ID")
            BY <3>4, <4>1, <4>2
          <5> QED
            BY <4>1, <4>2, <4>3, <5>1, <5>2 DEF References, Parent
        <4>5. /\ reply'["In-Reply-To"] = PrintIf("Message-ID")
              /\ reply'["References"] = References
          BY <2>2 DEF PrintHeader
        <4> QED
          BY <4>3, <4>4, <4>5
      <3>5. Parent' = Parent /\ (SingleIdentifier' <=> SingleIdentifier)
        BY <3>2, <3>3, SameField DEF Parent
      <3> QED
        BY <3>1, <3>2, <3>3, <3>4, <3>5 DEF ReplyIsThreaded, RepliesToNamed
    <2>3. CASE UNCHANGED sendVars
      <3>1. message' = message /\ at' = at /\ pc' = pc /\ reply' = reply
        BY <2>3 DEF sendVars, vars
      <3>2. /\ \A f : Field(f)' = Field(f) /\ (Says(f)' <=> Says(f))
            /\ SingleIdentifier' <=> SingleIdentifier
        BY <3>1, SameField
      <3> QED
        BY <3>1, <3>2 DEF ReplyIsThreaded, RepliesToNamed, Parent
    <2> QED
      BY <2>1, <2>2, <2>3 DEF SendNext
  <1>3. SendSpec => []HeaderInv
    BY SendReadsHeaders, HeaderInvariant, PTL
  <1>4. SendSpec => []ThreadInv
    BY <1>1, <1>2, <1>3, PTL DEF SendSpec
  <1>5. ThreadInv => ReplyIsThreaded
    OBVIOUS
  <1> QED
    BY <1>4, <1>5, PTL
=============================================================================
