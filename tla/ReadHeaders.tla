---------------------------- MODULE ReadHeaders ----------------------------
(***************************************************************************)
(* simvacation.c, readheaders: one pass over the header of the message,    *)
(* with the header field the pass is in as its only memory.  It keeps four *)
(* fields for the reply, collects the recipient fields, and gives up when  *)
(* a field says that nobody wants an automatic answer.                     *)
(*                                                                         *)
(* A line is what one fgets returns: a line of the message, or 999         *)
(* characters of it ("cut"), the rest being the next line read.  Of its    *)
(* text only the field name and what the code looks for in the value are   *)
(* kept; the text a field is made of is the positions of its lines.        *)
(***************************************************************************)
EXTENDS Naturals, Sequences

CONSTANTS
    Lines,       \* the lines a message may consist of
    MaxLines     \* bound on the number of lines

Kept == {"Message-ID", "References", "In-Reply-To", "Subject"}
Recipient == {"To", "Cc"}
NoReply == {"Auto-Submitted", "List-", "Precedence", "X-Auto-Response-Suppress"}

\* "other": any other field, or text without a field name; "fold": begins with
\* white space; "newline": nothing but a newline, the rest of a cut line.
Names == Kept \union Recipient \union NoReply \union {"other", "fold", "newline"}

\* What the value holds as far as this line goes:
\*    ""        nothing but white space
\*    "no"      the word no; in other fields anything of no interest, and in
\*              In-Reply-To one message identifier
\*    "no.."    more that begins with these two characters: "none", "notify"
\*    ".no"     a character, then "no" or more: "xno", "x none"
\*    "."       one character
\*    "forbid"  a value that forbids an answer: "auto-replied", "junk", "OOF"
\*    "rcpt"    a name of the recipient
\*    "ids"     more than one message identifier, or text that is none
Words == {"", "no", "no..", ".no", ".", "forbid", "rcpt", "ids"}

\* glued: no space between the colon and the value.
Line == [name : Names, word : Words, glued : BOOLEAN, cut : BOOLEAN]

ASSUME LinesAssumption == Lines \subseteq Line /\ MaxLines \in Nat

\* A line that is empty ends the header, unless it is the rest of another.
Messages ==
    {m \in UNION {[1..n -> Lines] : n \in 0..MaxLines} :
        \A i \in DOMAIN m : m[i].name = "newline" => i > 1 /\ m[i-1].cut}

NULL == <<>>       \* no line appended yet

VARIABLES
    message,       \* stdin
    at,            \* the line fgets returns next
    pc,            \* "loop", "match" after it, "return"
    state,         \* HEADER_...
    current_hdr,   \* the kept field the pass is in, or was in last
    h,             \* h[f]: the lines appended to kept field f
    rcpt_hdrs,     \* the lines appended to rcpt_hdrs
    rcpt_match,    \* h->rcpt_match
    suppressed     \* readheaders returned NULL

vars == <<message, at, pc, state, current_hdr, h, rcpt_hdrs, rcpt_match, suppressed>>

TypeOK ==
    /\ message \in Messages
    /\ at \in 1..(Len(message) + 1)
    /\ pc \in {"loop", "match", "return"}
    /\ state \in {"unknown", "recipient", "append", "noreply"}
    /\ current_hdr \in Kept \union {"none"}
    /\ DOMAIN h = Kept
    /\ \A f \in Kept : h[f] \in Seq([line : DOMAIN message, strip : BOOLEAN])
    /\ rcpt_hdrs \in Seq(DOMAIN message)
    /\ rcpt_match \in BOOLEAN
    /\ suppressed \in BOOLEAN

Init ==
    /\ message \in Messages
    /\ at = 1
    /\ pc = "loop"
    /\ state = "unknown"
    /\ current_hdr = "none"
    /\ h = [f \in Kept |-> NULL]
    /\ rcpt_hdrs = <<>>
    /\ rcpt_match = FALSE
    /\ suppressed = FALSE

----------------------------------------------------------------------------
(* The loop.                                                               *)

\* fgets returns the next line, and it does not begin with a newline.
Reads(name) ==
    /\ pc = "loop"
    /\ at <= Len(message)
    /\ message[at].name = name
    /\ at' = at + 1
    /\ UNCHANGED message

\* append_header: strips the name off the first line of a field.
AppendHeader(f, strip) ==
    h' = [h EXCEPT ![f] = Append(@, [line |-> at, strip |-> strip])]

\* Cc: and To:.  The newline stays, a space follows.
RecipientLine ==
    /\ \E f \in Recipient : Reads(f)
    /\ state' = "recipient"
    /\ rcpt_hdrs' = Append(rcpt_hdrs, at)
    /\ UNCHANGED <<pc, current_hdr, h, rcpt_match, suppressed>>

\* Message-ID:, References:, In-Reply-To: and Subject:.
KeptLine ==
    \E f \in Kept :
        /\ Reads(f)
        /\ state' = "append"
        /\ current_hdr' = f
        /\ AppendHeader(f, TRUE)
        /\ UNCHANGED <<pc, rcpt_hdrs, rcpt_match, suppressed>>

\* Nothing but white space after the colon: `break' leaves the whole loop.  For
\* Auto-Submitted the character next to the colon is passed over, whatever it is.
Breaks(l) ==
    \/ l.name = "Precedence" /\ l.word = ""
    \/ l.name = "Auto-Submitted" /\ (l.word = "" \/ (l.glued /\ l.word = "."))

\* Auto-Submitted is compared in two characters, from the second one on if the
\* value is glued to the colon.
StartsWithNo(l) == IF l.glued THEN l.word = ".no" ELSE l.word \in {"no", "no.."}

\* Mutant: X-Auto-Response-Suppress is not looked at.
RefusesWithoutX(l) ==
    \/ l.name = "List-"
    \/ l.name = "Auto-Submitted" /\ ~StartsWithNo(l)
    \/ l.name = "Precedence" /\ l.word = "forbid"

\* Mutant: the value of Precedence is not looked at.
RefusesAnyPrecedence(l) ==
    \/ l.name \in {"List-", "Precedence"}
    \/ l.name = "Auto-Submitted" /\ ~StartsWithNo(l)
    \/ l.name = "X-Auto-Response-Suppress" /\ l.word = "forbid"

Refuses(l) ==
    \/ l.name = "List-"
    \/ l.name = "Auto-Submitted" /\ ~StartsWithNo(l)
    \/ l.name \in {"Precedence", "X-Auto-Response-Suppress"} /\ l.word = "forbid"

NoReplyLine ==
    \E f \in NoReply :
        /\ Reads(f)
        /\ state' = "noreply"
        /\ IF Breaks(message[at])
              THEN pc' = "match" /\ UNCHANGED suppressed
              ELSE IF Refuses(message[at])
                      THEN pc' = "return" /\ suppressed' = TRUE
                      ELSE UNCHANGED <<pc, suppressed>>
        /\ UNCHANGED <<current_hdr, h, rcpt_hdrs, rcpt_match>>

\* Mutant: the state is not reset.
OtherLineKeeps ==
    /\ Reads("other")
    /\ UNCHANGED <<pc, state, current_hdr, h, rcpt_hdrs, rcpt_match, suppressed>>

\* Mutant: the state becomes that of a recipient field.
OtherLineFalls ==
    /\ Reads("other")
    /\ state' = "HEADER_RECIPIENT"
    /\ UNCHANGED <<pc, current_hdr, h, rcpt_hdrs, rcpt_match, suppressed>>

OtherLine ==
    /\ Reads("other")
    /\ state' = "unknown"
    /\ UNCHANGED <<pc, current_hdr, h, rcpt_hdrs, rcpt_match, suppressed>>

\* A continuation goes where the line before it went.
FoldLine ==
    /\ Reads("fold")
    /\ IF state = "recipient"
          THEN rcpt_hdrs' = Append(rcpt_hdrs, at)
          ELSE UNCHANGED rcpt_hdrs
    /\ IF state = "append"
          THEN AppendHeader(current_hdr, FALSE)
          ELSE UNCHANGED h
    /\ UNCHANGED <<pc, state, current_hdr, rcpt_match, suppressed>>

\* An empty line, or the end of the input.
EndOfHeader ==
    /\ pc = "loop"
    /\ IF at <= Len(message) THEN message[at].name = "newline" ELSE TRUE
    /\ pc' = "match"
    /\ UNCHANGED <<message, at, state, current_hdr, h, rcpt_hdrs, rcpt_match, suppressed>>

\* is_substring of each name in the collected text.
MatchNames ==
    /\ pc = "match"
    /\ pc' = "return"
    /\ rcpt_match' = \E i \in DOMAIN rcpt_hdrs : message[rcpt_hdrs[i]].word = "rcpt"
    /\ UNCHANGED <<message, at, state, current_hdr, h, rcpt_hdrs, suppressed>>

Next ==
    \/ RecipientLine
    \/ KeptLine
    \/ NoReplyLine
    \/ OtherLine
    \/ FoldLine
    \/ EndOfHeader
    \/ MatchNames

Spec == Init /\ [][Next]_vars

----------------------------------------------------------------------------
(* What the message says, by the fields RFC 2822 makes of its lines.       *)

\* Line i begins a field: it is neither a continuation nor the rest of a line.
Begins(i) ==
    /\ message[i].name \notin {"fold", "newline"}
    /\ i = 1 \/ ~message[i-1].cut

\* The lines of the field that begins at line j.
FieldAt(j) == {i \in j..Len(message) : \A k \in (j+1)..i : ~Begins(k)}

FieldsNamed(names) == {j \in DOMAIN message : Begins(j) /\ message[j].name \in names}

\* The lines before line n that belong to a field with one of the names.
LinesOf(names, n) == (1..(n-1)) \intersect UNION {FieldAt(j) : j \in FieldsNamed(names)}

\* The value of the field at j begins on its first line that is not blank.
ValueOf(j) ==
    LET told == {i \in FieldAt(j) : message[i].word # ""}
    IN  IF told = {} THEN "" ELSE message[CHOOSE i \in told : \A k \in told : i <= k].word

\* What a field of this name and value asks for, by the comments of the code.
Forbidding(name, word) ==
    \/ name = "List-"
    \/ name = "Auto-Submitted" /\ word \notin {"", "no"}
    \/ name \in {"Precedence", "X-Auto-Response-Suppress"} /\ word = "forbid"

Forbids(j) == Forbidding(message[j].name, ValueOf(j))

Answers == pc = "return" /\ ~suppressed /\ rcpt_match

\* Auto-Submitted with a single character next to its colon.
Swallowed(l) == l.name = "Auto-Submitted" /\ l.glued /\ l.word = "."

\* Lines after which nothing is read, or not as it was written.
Hides(l) ==
    \/ l.cut
    \/ l.name \in {"Auto-Submitted", "Precedence"} /\ l.word = ""
    \/ Swallowed(l)

\* Values of Auto-Submitted that are taken for "no", or for nothing.
Mistaken(l) ==
    \/ Swallowed(l)
    \/ l.name = "Auto-Submitted" /\ ~l.glued /\ l.word = "no.."
    \/ l.name = "Auto-Submitted" /\ l.glued /\ l.word = ".no"

\* A field that forbids an answer on its first line is honoured wherever it
\* stands, unless a line before it was cut or ended the reading, or it is one of
\* the values of Auto-Submitted that are mistaken: no other order of fields, and no
\* continuation, lets it through (simvacation.c:219-311).
ForbiddenUnlessHidden ==
    Answers =>
        \A j \in FieldsNamed(NoReply) :
            Forbidding(message[j].name, message[j].word)
            => Mistaken(message[j]) \/ \E i \in 1..(j-1) : Hides(message[i])

\* The other way round: nothing but a field that forbids an answer, the very word
\* "no" next to its colon, or the rest of a cut line keeps the answer back
\* (simvacation.c:219-311).
SuppressedForCause ==
    suppressed =>
        \/ \E j \in FieldsNamed(NoReply) :
              \/ Forbids(j)
              \/ message[j].name = "Auto-Submitted" /\ message[j].glued /\ message[j].word = "no"
        \/ \E i \in 1..(at-2) : message[i].cut

\* No line goes to a field it is not part of, none is left out, twice in, or out
\* of order, and only the first of a field loses its name, as long as no line was
\* cut: what the reply quotes as subject and references, and what is searched for
\* the recipient (simvacation.c:200-351).
LinesStayInTheirField ==
    (\A i \in 1..(at-1) : ~message[i].cut) =>
        /\ \A f \in Kept :
              /\ {h[f][n].line : n \in DOMAIN h[f]} = LinesOf({f}, at)
              /\ \A n \in 1..(Len(h[f]) - 1) : h[f][n].line < h[f][n+1].line
              /\ \A n \in DOMAIN h[f] : h[f][n].strip = Begins(h[f][n].line)
        /\ {rcpt_hdrs[n] : n \in DOMAIN rcpt_hdrs} = LinesOf(Recipient, at)
        /\ \A n \in 1..(Len(rcpt_hdrs) - 1) : rcpt_hdrs[n] < rcpt_hdrs[n+1]

\* "Automatic responses SHOULD NOT be issued in response to any message which
\* contains an Auto-Submitted header field [...], where that field has any value
\* other than "no"" (simvacation.c:215-217).
AutoSubmittedHonoured ==
    Answers => \A j \in FieldsNamed({"Auto-Submitted"}) : ~Forbids(j)
=============================================================================
