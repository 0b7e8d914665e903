---------------------------- MODULE SendMessage ----------------------------
(***************************************************************************)
(* simvacation.c, send_message, for the fields that tie the reply to the   *)
(* message: what readheaders kept goes out as Subject, In-Reply-To and     *)
(* References.  (The hand-off itself, with its failures, is in             *)
(* Simvacation.)                                                           *)
(***************************************************************************)
EXTENDS ReadHeaders, FiniteSets

VARIABLE reply     \* the header of the reply, by field; <<>> before it is sent

sendVars == <<vars, reply>>

\* What printf makes of a null pointer, among the numbers of lines.
NullText == 0

SendInit == Init /\ reply = <<>>

\* yasllen > 0: a continuation line adds at least its white space.
HasText(f) ==
    \E n \in DOMAIN h[f] : LET l == message[h[f][n].line]
                           IN  l.name = "fold" \/ l.word # ""

\* printf with %s.
Text(f) == IF h[f] = NULL THEN <<NullText>> ELSE [n \in DOMAIN h[f] |-> h[f][n].line]

PrintIf(f) == IF HasText(f) THEN Text(f) ELSE <<>>

\* Mutant: the parent's In-Reply-To always goes first.
ReferencesFromInReplyTo ==
    IF HasText("In-Reply-To")
       THEN Text("In-Reply-To") \o Text("Message-ID")
       ELSE PrintIf("Message-ID")

References ==
    IF HasText("References")
       THEN Text("References") \o Text("Message-ID")
       ELSE IF HasText("In-Reply-To")
               THEN Text("In-Reply-To") \o Text("Message-ID")
               ELSE PrintIf("Message-ID")

\* main calls send_message only if readheaders returned h, with rcpt_match.
PrintHeader ==
    /\ pc = "return" /\ ~suppressed /\ rcpt_match
    /\ reply = <<>>
    /\ reply' = [f \in {"Subject", "In-Reply-To", "References"} |->
                    CASE f = "Subject" -> PrintIf("Subject")
                      [] f = "In-Reply-To" -> PrintIf("Message-ID")
                      [] f = "References" -> References]
    /\ UNCHANGED vars

SendNext == (Next /\ UNCHANGED reply) \/ PrintHeader

SendSpec == SendInit /\ [][SendNext]_sendVars

----------------------------------------------------------------------------
(* RFC 2822 3.6.4 as send_message quotes it, read off the message.         *)

\* The lines of the message's fields f that readheaders came to, in order.
Field(f) ==
    LET lines == LinesOf({f}, at)
        Nth(n) == CHOOSE i \in lines : Cardinality({k \in lines : k <= i}) = n
    IN  [n \in 1..Cardinality(lines) |-> Nth(n)]

Says(f) == \E i \in LinesOf({f}, at) : message[i].name = "fold" \/ message[i].word # ""

\* "an "In-Reply-To:" field containing a single message identifier".
SingleIdentifier ==
    LET said == {i \in LinesOf({"In-Reply-To"}, at) : message[i].word # ""}
    IN  Cardinality(said) = 1 /\ \A i \in said : message[i].word # "ids"

Parent == IF Says("References") THEN Field("References")
          ELSE IF Says("In-Reply-To") /\ SingleIdentifier THEN Field("In-Reply-To")
          ELSE <<>>

\* The reply to a message with a Message-ID, no line of which was cut.
RepliesToNamed ==
    reply # <<>> /\ (\A i \in DOMAIN message : ~message[i].cut) /\ Says("Message-ID")

\* A reply to a message with a Message-ID names it, and refers to what the
\* message referred to and to the message, from lines that are each in the right
\* field of the message, if none was cut.  Excepted is the message without
\* References whose In-Reply-To is not a single identifier (simvacation.c:478-504).
ReplyIsThreaded ==
    RepliesToNamed =>
        /\ reply["In-Reply-To"] = Field("Message-ID")
        /\ Says("References") \/ ~Says("In-Reply-To") \/ SingleIdentifier
           => reply["References"] = Parent \o Field("Message-ID")

\* "If the parent message does not contain a "References:" field but does have an
\* "In-Reply-To:" field containing a single message identifier, then ..."
\* (simvacation.c:490-495): with several, only the Message-ID is referred to.
ThreadedBySingleIdentifier ==
    RepliesToNamed => reply["References"] = Parent \o Field("Message-ID")
=============================================================================
