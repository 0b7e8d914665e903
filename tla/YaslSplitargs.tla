--------------------------- MODULE YaslSplitargs ---------------------------
(***************************************************************************)
(* From the configured command line to the mailer's arguments:             *)
(* yaslsplitargs makes words of core.sendmail, send_message puts the       *)
(* recipient in the place of "$R", and pexecv cuts the directory off the   *)
(* mailer's own name.  A character at a time is appended to the current    *)
(* word, a string of module Yasl, and any allocation may fail.  Bytes are  *)
(* character codes.                                                        *)
(***************************************************************************)
EXTENDS Yasl, SequencesExt

CONSTANTS
    Commands,   \* lists of words a command line may be written for
    Gaps,       \* what may stand between two words written in quotes
    Lines,      \* command lines written otherwise
    rcpt        \* the recipient

lost == <<junk>>        \* a word whose memory could not be had: NULL
none == <<lost>>

VARIABLES
    line,       \* the command line
    asked,      \* what it was written for
    p,          \* how far it is read
    mode,       \* where yaslsplitargs, then send_message, is
    words,      \* the vector
    argv,       \* the arguments execv is given
    binary      \* the program it is given

splitVars == <<line, asked, p, mode, words, argv, binary>>

Quote == 34
Apostrophe == 39
Backslash == 92
Slash == 47
Placeholder == <<36, 82>>
isspace == 9..13 \union {32}
isxdigit == 48..57 \union 65..70 \union 97..102
isprint == 32..126

ASSUME SplitAssumption ==
    /\ Byte = 0..255 /\ NUL = 0
    /\ \A c \in Commands : c \in Seq(Seq(Byte))
    /\ \A b \in Gaps : b \in Seq(isspace) /\ b # <<>>
    /\ \A l \in Lines : l \in Seq(Byte \ {NUL})
    /\ rcpt \in Seq(Byte \ {NUL})

Over == {"refused", "noMemory", "crashed", "sent"}

SplitTypeOK ==
    /\ line \in Seq(Byte \ {NUL})
    /\ asked = none \/ asked \in Commands
    /\ p \in 0..Len(line)
    /\ mode \in {"idle", "blanks", "word", "quoted", "single", "done"} \union Over
    /\ mode \in {"idle", "quoted", "single", "word"} \/ ~Held(str)
    /\ words \in Seq(Seq(Byte) \union {lost})
    /\ mode # "sent" => argv = <<>> /\ binary = lost
    /\ argv \in Seq(Seq(Byte \ {NUL}))
    /\ binary \in Seq(Byte \ {NUL}) \union {lost}

\* Mutant: "A" and "a" are taken for 0.
hex_digit_to_intFromA(c) ==
    CASE c \in 48..57  -> c - 48
      [] c \in 65..70  -> c - 65
      [] c \in 97..102 -> c - 97

hex_digit_to_int(c) ==
    CASE c \in 48..57  -> c - 48
      [] c \in 65..70  -> c - 55
      [] c \in 97..102 -> c - 87

\* The letters of \n, \r, \t, \b, \a and what they stand for.
Escapes == [c \in {110, 114, 116, 98, 97} |->
    CASE c = 110 -> 10 [] c = 114 -> 13 [] c = 116 -> 9 [] c = 98 -> 8 [] c = 97 -> 7]

----------------------------------------------------------------------------
(* Writing a command line: yaslcatrepr and yasljoin.                       *)

HexDigit(d) == IF d < 10 THEN 48 + d ELSE 87 + d

Shown(c) ==
    IF c \in {Backslash, Quote} THEN <<Backslash, c>>
    ELSE IF \E e \in DOMAIN Escapes : Escapes[e] = c
         THEN <<Backslash, CHOOSE e \in DOMAIN Escapes : Escapes[e] = c>>
    ELSE IF c \in isprint THEN <<c>>
    ELSE <<Backslash, 120, HexDigit(c \div 16), HexDigit(c % 16)>>

yaslcatrepr(x) == <<Quote>> \o FlattenSeq([i \in DOMAIN x |-> Shown(x[i])]) \o <<Quote>>

\* In single quotes only they themselves are escaped; so a word with a NUL or a
\* backslash cannot be written in them.
Spared(c) == IF c = Apostrophe THEN <<Backslash, c>> ELSE <<c>>

Single(x) ==
    <<Apostrophe>> \o FlattenSeq([i \in DOMAIN x |-> Spared(x[i])]) \o <<Apostrophe>>

Plain(c) == \A i \in DOMAIN c : \A k \in DOMAIN c[i] : c[i][k] \notin {NUL, Backslash}

yasljoin(args, sep) ==
    FlattenSeq([i \in DOMAIN args |-> IF i = Len(args) THEN args[i] ELSE args[i] \o sep])

\* Command lines, each with the words it was written for, or none.
Inputs ==
    {<<yasljoin([i \in DOMAIN c |-> yaslcatrepr(c[i])], b), c>> : c \in Commands, b \in Gaps}
    \union {<<yasljoin([i \in DOMAIN c |-> Single(c[i])], b), c>> :
                c \in {d \in Commands : Plain(d)}, b \in Gaps}
    \union {<<l, none>> : l \in Lines}

----------------------------------------------------------------------------
\* The character n places on; a place behind the NUL is never looked at.
C(n) == (line \o <<NUL>>)[p + n + 1]

SplitInit ==
    /\ Init
    /\ \/ mode = "idle" /\ line = <<>> /\ asked = none
       \/ mode = "blanks" /\ \E x \in Inputs : line = x[1] /\ asked = x[2]
    /\ p = 0
    /\ words = <<>>
    /\ argv = <<>>
    /\ binary = lost

In(m) == mode = m /\ UNCHANGED <<line, asked, argv, binary, fmt, buflen>>

\* The current word takes a character, n places of the line having been read;
\* a word that is lost stays lost.
Take(c, n) ==
    /\ str' \in IF Held(str) THEN Cat(str, <<c>>) ELSE {str}
    /\ text' = Append(text, c)
    /\ p' = p + n
    /\ UNCHANGED <<mode, words>>

\* An opening quote.
Opens(m) ==
    /\ mode' = m
    /\ p' = p + 1
    /\ UNCHANGED <<str, text, words>>

\* err: the words so far and the current one are freed.
Gives(m) ==
    /\ mode' = m
    /\ str' = NULL
    /\ text' = <<>>
    /\ words' = <<>>
    /\ UNCHANGED p

\* Mutant: current is not reset.
WordEndsKept ==
    \/ /\ words' = Append(words, IF Held(str) THEN TextOf(str) ELSE lost)
       /\ UNCHANGED <<str, text>>
       /\ mode' = "blanks"
       /\ p' = IF C(0) = NUL THEN p ELSE p + 1
    \/ Gives("noMemory")

\* Mutant: a lost word is left out.
WordEndsDropped ==
    \/ /\ words' = IF Held(str) THEN Append(words, TextOf(str)) ELSE words
       /\ str' = NULL
       /\ text' = <<>>
       /\ mode' = "blanks"
       /\ p' = IF C(0) = NUL THEN p ELSE p + 1
    \/ Gives("noMemory")

\* The current word joins the vector, unless that cannot grow; the character
\* that ended it is skipped, the NUL is not.
WordEnds ==
    \/ /\ words' = Append(words, IF Held(str) THEN TextOf(str) ELSE lost)
       /\ str' = NULL
       /\ text' = <<>>
       /\ mode' = "blanks"
       /\ p' = IF C(0) = NUL THEN p ELSE p + 1
    \/ Gives("noMemory")

SkipBlank ==
    /\ In("blanks")
    /\ C(0) \in isspace
    /\ p' = p + 1
    /\ UNCHANGED <<mode, words, str, text>>

StartWord ==
    /\ In("blanks")
    /\ C(0) \notin isspace \union {NUL}
    /\ str' \in {NULL, New(<<>>)}
    /\ text' = <<>>
    /\ mode' = "word"
    /\ UNCHANGED <<p, words>>

LineEnds ==
    /\ In("blanks")
    /\ C(0) = NUL
    /\ mode' = "done"
    /\ UNCHANGED <<p, words, str, text>>

Word ==
    /\ In("word")
    /\ \/ C(0) \in {32, 10, 13, 9, NUL} /\ WordEnds
       \/ C(0) = Quote /\ Opens("quoted")
       \/ C(0) = Apostrophe /\ Opens("single")
       \/ C(0) \notin {32, 10, 13, 9, NUL, Quote, Apostrophe} /\ Take(C(0), 1)

\* A closing quote must be followed by a space or nothing at all.
Closes == IF C(1) = NUL \/ C(1) \in isspace THEN WordEnds ELSE Gives("refused")

IsHex == C(0) = Backslash /\ C(1) = 120 /\ C(2) \in isxdigit /\ C(3) \in isxdigit

Quoted ==
    /\ In("quoted")
    /\ \/ IsHex /\ Take(16 * hex_digit_to_int(C(2)) + hex_digit_to_int(C(3)), 4)
       \/ /\ ~IsHex /\ C(0) = Backslash /\ C(1) # NUL
          /\ Take(IF C(1) \in DOMAIN Escapes THEN Escapes[C(1)] ELSE C(1), 2)
       \/ C(0) = Quote /\ Closes
       \/ C(0) = NUL /\ Gives("refused")
       \/ /\ C(0) \notin {Quote, NUL} /\ (C(0) = Backslash => C(1) = NUL)
          /\ Take(C(0), 1)

SingleQuoted ==
    /\ In("single")
    /\ \/ C(0) = Backslash /\ C(1) = Apostrophe /\ Take(Apostrophe, 2)
       \/ C(0) = Apostrophe /\ Closes
       \/ C(0) = NUL /\ Gives("refused")
       \/ /\ C(0) \notin {Apostrophe, NUL} /\ (C(0) = Backslash => C(1) # Apostrophe)
          /\ Take(C(0), 1)

SplitStep == SkipBlank \/ StartWord \/ LineEnds \/ Word \/ Quoted \/ SingleQuoted

----------------------------------------------------------------------------
(* send_message: a NULL behind the words, the recipient in place of "$R";  *)
(* execv takes the words before the first NULL, of which pexecv needs one. *)

\* An argument ends at its first NUL.
ToRecipient(w) ==
    IF w = Placeholder THEN rcpt ELSE SubSeq(w, 1, CHOOSE n \in 0..Len(w) : IsStrlen(w, n))

\* What follows the last slash of a name, all of a name without one.
IsLastSlash(a, n) == (n > 0 => a[n] = Slash) /\ \A k \in (n + 1)..Len(a) : a[k] # Slash
BaseName(a) == SubSeq(a, 1 + CHOOSE n \in 0..Len(a) : IsLastSlash(a, n), Len(a))

\* Mutant: words that were lost are passed over.
send_messageClosed ==
    /\ mode \in {"done", "refused", "noMemory"}
    /\ UNCHANGED <<vars, line, asked, p, words>>
    /\ LET given == SelectSeq(words, LAMBDA w : w # lost)
       IN  \/ mode' = "crashed" /\ UNCHANGED <<argv, binary>>
           \/ /\ given # <<>>
              /\ mode' = "sent"
              /\ argv' = [i \in DOMAIN given |-> IF i = 1 THEN BaseName(ToRecipient(given[i]))
                                                 ELSE ToRecipient(given[i])]
              /\ binary' \in {ToRecipient(given[1]), lost}

\* The vector may fail to grow: the NULL is written all the same.  pexecv copies
\* the command before it cuts it in place: where that is the recipient, every
\* "$R" is the same string and is cut with it.
send_message ==
    /\ mode \in {"done", "refused", "noMemory"}
    /\ UNCHANGED <<vars, line, asked, p, words>>
    /\ LET given == {i \in DOMAIN words : \A j \in 1..i : words[j] # lost}
           cut(i) == i = 1 \/ (words[1] = Placeholder /\ words[i] = Placeholder)
       IN  \/ mode' = "crashed" /\ UNCHANGED <<argv, binary>>
           \/ /\ given # {}
              /\ mode' = "sent"
              /\ argv' = [i \in given |-> IF cut(i) THEN BaseName(ToRecipient(words[i]))
                                          ELSE ToRecipient(words[i])]
              /\ binary' \in {ToRecipient(words[1]), lost}

SplitNext ==
    \/ mode = "idle" /\ Next /\ UNCHANGED splitVars
    \/ SplitStep
    \/ send_message

SplitSpec == SplitInit /\ [][SplitNext]_<<vars, splitVars>>

----------------------------------------------------------------------------
\* A word written in quotes comes back as it was, and a line of them is never
\* refused: whatever bytes it holds, and whichever allocations fail, a word is
\* whole or missing, never cut (yasl.c:325-443, 539-566).
QuotedComesBack ==
    asked # none =>
        /\ mode # "refused"
        /\ mode = "done" => Len(words) = Len(asked)
        /\ \A i \in DOMAIN words : words[i] \in {asked[i], lost}

\* In a line without quotes the words are the longest stretches without blanks,
\* in their order.  Vertical tabs and form feeds are blanks before a word and
\* characters of it within (yasl.c:336, 395-415).
Blank(i) == line[i] \in {9, 10, 13, 32}
Starts ==
    {i \in DOMAIN line : /\ line[i] \notin isspace
                         /\ \A j \in 1..(i - 1) : line[j] \in isspace \/ \E k \in j..i : Blank(k)}
Until(i) == CHOOSE j \in i..Len(line) :
                (\A k \in i..j : ~Blank(k)) /\ (j < Len(line) => Blank(j + 1))

BlanksSeparate ==
    (mode = "done" /\ \A i \in DOMAIN line : line[i] \notin {Quote, Apostrophe})
        => /\ Len(words) = Cardinality(Starts)
           /\ \A i \in Starts :
                  words[Cardinality({j \in Starts : j <= i})] \in {lost, SubSeq(line, i, Until(i))}

\* The program execv is given is the command the configuration was written for,
\* or missing; the mailer's name is that command without its directory; and its
\* arguments are the words written, the recipient one of them, blanks and quotes
\* in it or not.  They may end early when memory runs out, but none is cut,
\* except a recipient that is also the command (simvacation.c:408-420,
\* vutil.c:62-65).
AsWritten(a, i) ==
    IF asked[i] = Placeholder THEN a = rcpt
    ELSE IsPrefix(a, asked[i]) /\ (Len(a) < Len(asked[i]) => asked[i][Len(a) + 1] = NUL)
Stripped(a, i) ==
    LET w == IF asked[i] = Placeholder THEN rcpt ELSE asked[i]
    IN  /\ \A k \in DOMAIN a : a[k] # Slash
        /\ \E n \in 0..Len(w) : (n > 0 => w[n] = Slash) /\ AsWritten(SubSeq(w, 1, n) \o a, i)

RecipientIsOneWord ==
    mode = "sent" /\ asked # none =>
        /\ binary # lost => AsWritten(binary, 1)
        /\ \A i \in DOMAIN argv :
               IF i = 1 \/ (asked[1] = Placeholder /\ asked[i] = Placeholder)
               THEN Stripped(argv[i], i)
               ELSE AsWritten(argv[i], i)
=============================================================================
