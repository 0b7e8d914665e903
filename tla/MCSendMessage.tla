--------------------------- MODULE MCSendMessage ---------------------------
(***************************************************************************)
(* All headers of up to four lines: a recipient, fields the reply quotes,  *)
(* lines that hide and lines that forbid, values of Auto-Submitted that    *)
(* are mistaken, continuations of any of them, and a cut line before them. *)
(***************************************************************************)
EXTENDS SendMessage

L(names, words) == [name : names, word : words, glued : {FALSE}, cut : {FALSE}]

\* With a blank behind each colon.
MCSpacedLines ==
    L(Kept \union {"other"}, {"no"})
    \union L({"References", "Message-ID"}, {""})
    \union L({"In-Reply-To"}, {"ids"})
    \union L({"List-"}, {"forbid"})
    \union L({"To"}, {"no", "rcpt"})
    \union L({"Cc"}, {"rcpt"})
    \union L({"Auto-Submitted", "Precedence"}, {"", "no", "forbid"})
    \union L({"X-Auto-Response-Suppress"}, {"no", "forbid"})
    \union L({"fold"}, {"forbid", "rcpt"})
    \union L({"newline"}, {""})
    \union [name : {"other"}, word : {"no"}, glued : {FALSE}, cut : {TRUE}]
    \union L({"Auto-Submitted"}, {"no.."})

MCLines ==
    MCSpacedLines
    \union [name : {"Auto-Submitted"}, word : {"no", ".no", "."}, glued : {TRUE}, cut : {FALSE}]
=============================================================================
