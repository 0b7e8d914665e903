----------------------------- MODULE RcptMatch -----------------------------
(***************************************************************************)
(* The other question main asks of a message before it answers: whether    *)
(* one of the recipient's names stands in To: or Cc:.  The directory gives *)
(* the names (vlu_aliases, ldap_vlu_aliases), the end of readheaders looks *)
(* for them one by one in the recipient lines it collected, and vutil.c,   *)
(* is_substring, compares.  ReadHeaders takes the answer for a given word  *)
(* of a line; here it is made of characters.                               *)
(*                                                                         *)
(* EXTENDS CheckFrom because one message is asked both questions; neither  *)
(* reads what the other does.                                              *)
(***************************************************************************)
EXTENDS CheckFrom

CONSTANTS
    Recipients,    \* what the MTA calls the program with
    CommonNames,   \* lists of values a directory entry may have for cn
    RcptLines      \* lists of recipient lines a message may have

Newline == "\n"
BlankChar == " "

\* Texts are sequences of characters.  A line ends at its newline, a name has none;
\* and a name starts with something that is not a blank.
IsLine(x) == x \in Seq(STRING) /\ \A k \in DOMAIN x : x[k] # Newline
IsName(x) == IsLine(x) /\ x # <<>> /\ x[1] # BlankChar

ASSUME MatchAssumption ==
    /\ \A rcpt \in Recipients : IsName(rcpt)
    /\ \A cnames \in CommonNames :
           cnames \in Seq(Seq(STRING)) /\ \A n \in DOMAIN cnames : IsName(cnames[n])
    /\ \A lines \in RcptLines :
           lines \in Seq(Seq(STRING)) /\ \A l \in DOMAIN lines : IsLine(lines[l])

VARIABLES
    step,          \* "aliases", "collect", "match", "matched"
    rcpt_lines,    \* the lines of To: and Cc:, without their newlines
    names,         \* what vlu->aliases returned
    obj,           \* the name the iterator returns next
    rcpt_hdrs,     \* the text collected from the message
    rcpt_match     \* h->rcpt_match

matchVars == <<step, rcpt_lines, names, obj, rcpt_hdrs, rcpt_match>>

MatchInit ==
    /\ PathInit
    /\ step = "aliases"
    /\ rcpt_lines = <<>>
    /\ names = <<>>
    /\ obj = 1
    /\ rcpt_hdrs = <<>>
    /\ rcpt_match = FALSE

\* Bound: names are looked for only in messages as their sender wrote them.
Untouched == addr = origin

\* vlu_aliases: the recipient.
NullAliases(rcpt, cnames) == <<rcpt>>

\* ldap_vlu_aliases: the recipient, then the common names of the entry.
LdapAliases(rcpt, cnames) == <<rcpt>> \o cnames

Aliases ==
    /\ step = "aliases" /\ Untouched
    /\ \E rcpt \in Recipients, cnames \in CommonNames :
          names' \in {NullAliases(rcpt, cnames), LdapAliases(rcpt, cnames)}
    /\ step' = "collect"
    /\ UNCHANGED <<rcpt_lines, obj, rcpt_hdrs, rcpt_match>>

\* The whole line goes in, with the name of its field and its newline.
Collected(line) == line \o <<Newline, BlankChar>>

Collect ==
    /\ step = "collect"
    /\ rcpt_lines' \in RcptLines
    /\ rcpt_hdrs' = FlattenSeq([n \in DOMAIN rcpt_lines' |-> Collected(rcpt_lines'[n])])
    /\ step' = "match"
    /\ UNCHANGED <<names, obj, rcpt_match>>

----------------------------------------------------------------------------
(* is_substring.                                                           *)

LowerCase == [A |-> "a", B |-> "b", T |-> "t"]

ToLower(s) ==
    [i \in DOMAIN s |-> IF s[i] \in DOMAIN LowerCase THEN LowerCase[s[i]] ELSE s[i]]

\* yaslmapchars(s, "._", "  ", 2).
Spaced(s) == [i \in DOMAIN s |-> IF s[i] \in {".", "_"} THEN BlankChar ELSE s[i]]

strstr(s, t) == \E i \in 0..(Len(s) - Len(t)) : SubSeq(s, i + 1, i + Len(t)) = t

\* Mutant: the characters of the name are mapped as well.
is_substring_spaced(n, h) == strstr(Spaced(ToLower(h)), Spaced(ToLower(n)))

\* With `name': only the text is mapped, not the name.
is_substring(n, h) == strstr(Spaced(ToLower(h)), ToLower(n))

MatchName ==
    /\ step = "match"
    /\ ~rcpt_match /\ obj <= Len(names)
    /\ rcpt_match' = is_substring(names[obj], rcpt_hdrs)
    /\ obj' = obj + 1
    /\ UNCHANGED <<step, rcpt_lines, names, rcpt_hdrs>>

Matched ==
    /\ step = "match"
    /\ rcpt_match \/ obj > Len(names)
    /\ step' = "matched"
    /\ UNCHANGED <<rcpt_lines, names, obj, rcpt_hdrs, rcpt_match>>

MatchStep == Aliases \/ Collect \/ MatchName \/ Matched

MatchNext ==
    \/ (step = "aliases" /\ PathNext /\ UNCHANGED matchVars)
    \/ (MatchStep /\ UNCHANGED pathVars)

MatchSpec == MatchInit /\ [][MatchNext]_<<pathVars, matchVars>>

----------------------------------------------------------------------------
\* A character of the message stands for one of a name.
StandsFor(c, d) ==
    \/ d \notin {".", "_"} /\ ToLower(<<c>>) = ToLower(<<d>>)
    \/ d = BlankChar /\ c \in {".", "_"}

StandsIn(name, line) ==
    \E s \in 0..(Len(line) - Len(name)) :
        \A k \in DOMAIN name : StandsFor(line[s + k], name[k])

\* The recipient is found if and only if one of the names, whichever, stands
\* within one line of To: or Cc:, in any case and with "." or "_" for blanks.  So
\* a name folded over two lines is not found, the name of the field itself is
\* searched too, and a name that has a "." or "_" of its own is found nowhere, not
\* even where it stands letter by letter (simvacation.c:341-358, vutil.c:102-124,
\* vlu_ldap.c:345-363).
FoundWhereNamed ==
    step = "matched" =>
        (rcpt_match <=> \E n \in DOMAIN names : \E l \in DOMAIN rcpt_lines :
                            StandsIn(names[n], rcpt_lines[l]))
=============================================================================
