----------------------------- MODULE CheckFrom -----------------------------
(***************************************************************************)
(* vutil.c, canon_from and check_from, with the path a sender's address    *)
(* takes before the program sees it.  The sender's server may tag it (BATV *)
(* or Barracuda's variant), every forwarder rewrites it (SRS); tags,       *)
(* hashes and time stamps differ from message to message, so the program   *)
(* has to undo them to know its correspondents again.                      *)
(*                                                                         *)
(* An address is a sequence of tokens: the punctuation canon_from looks    *)
(* for, the marks of the schemes, and names.  The guard on 13 characters   *)
(* (vutil.c:144) passes whatever a forwarder writes, and is left out.      *)
(***************************************************************************)
EXTENDS Naturals, SequencesExt

CONSTANTS
    Locals,        \* local parts senders have
    Forwarders     \* domains of the forwarders, in the order they are passed

DoubleQuote == "\""
Separators == {"=", "-", "+"}

\* Names that end with one of those in check_from's list.
Refused == {"mailer-daemon", "x-errors", "<>"}

VARIABLES
    origin,        \* the sender's own address
    addr,          \* the address -f is given
    hops           \* forwarders passed

pathVars == <<origin, addr, hops>>

----------------------------------------------------------------------------
(* Strings.                                                                *)

From(a, i) == SubSeq(a, i, Len(a))
At(a, i, t) == i <= Len(a) /\ a[i] = t

\* strchr, strrchr and strstr, as positions; 0 is a null pointer.
First(a, t) == SelectInSeq(a, LAMBDA x : x = t)
FirstFrom(a, i, t) == SelectInSubSeq(a, i, Len(a), LAMBDA x : x = t)
LastOf(a, t) == SelectLastInSeq(a, LAMBDA x : x = t)

FirstPairFrom(a, i, t, u) ==
    LET pairs == {k \in i..(Len(a) - 1) : a[k] = t /\ a[k+1] = u}
    IN  IF pairs = {} THEN 0 ELSE CHOOSE k \in pairs : \A m \in pairs : k <= m

Trim(a, t) ==
    LET kept == {i \in DOMAIN a : a[i] # t}
    IN  IF kept = {} THEN <<>>
        ELSE SubSeq(a, CHOOSE i \in kept : \A k \in kept : i <= k,
                       CHOOSE i \in kept : \A k \in kept : k <= i)

----------------------------------------------------------------------------
(* canon_from.                                                             *)

Unquoted(a) == IF At(a, 1, DoubleQuote) THEN Tail(a) ELSE a

IsSrs(a) ==
    LET p == Unquoted(a)
    IN  Len(p) > 1 /\ p[1] \in {"SRS0", "SRS1"} /\ p[2] \in Separators

\* Mutant: only "==" is looked for.
FirstForwarderGoneStrict(b) ==
    IF FirstPairFrom(b, 1, "=", "=") = 0 THEN b
    ELSE From(b, FirstPairFrom(b, 1, "=", "=") + 2)

\* SRS1: past "==", or else the first "=-", or else the first "=+".
FirstForwarderGone(b) ==
    LET found == {t \in Separators : FirstPairFrom(b, 1, "=", t) # 0}
        t == IF "=" \in found THEN "=" ELSE IF "-" \in found THEN "-" ELSE "+"
    IN  IF found = {} THEN b ELSE From(b, FirstPairFrom(b, 1, "=", t) + 2)

\* "Skip the hash and timestamp".
HashAndTimeGone(b) ==
    LET one == First(b, "=")
        two == FirstFrom(b, one + 1, "=")
    IN  IF one = 0 \/ two = 0 THEN b ELSE From(b, two + 1)

\* domain=local@forwarder becomes local@domain.
Swapped(quote, b) ==
    LET sep == First(b, "=")
        end == LastOf(b, "@")
    IN  IF sep = 0 \/ end < sep THEN quote
        ELSE quote \o SubSeq(b, sep + 1, end - 1) \o <<"@">> \o SubSeq(b, 1, sep - 1)

SrsUndone(a) ==
    LET p == Unquoted(a)
        body == From(p, 3)
        srs0 == IF p[1] = "SRS1" THEN FirstForwarderGone(body) ELSE body
        buf == Swapped(IF p = a THEN <<>> ELSE <<DoubleQuote>>, HashAndTimeGone(srs0))
    IN  IF Len(buf) > 1 THEN buf ELSE a

BatvUndone(a) ==
    IF At(a, 1, "prvs") /\ At(a, 2, "=") /\ FirstFrom(a, 3, "=") # 0
    THEN From(a, FirstFrom(a, 3, "=") + 1) ELSE a

BarracudaUndone(a) ==
    IF At(a, 1, "btv1") /\ At(a, 2, "=") /\ At(a, 3, "=")
       /\ FirstPairFrom(a, 4, "=", "=") # 0
    THEN From(a, FirstPairFrom(a, 4, "=", "=") + 2) ELSE a

canon_from(a) ==
    BarracudaUndone(BatvUndone(IF IsSrs(a) THEN SrsUndone(a) ELSE a))

----------------------------------------------------------------------------
(* check_from: whether the sender gets no answer.                          *)

\* Mutant: the local part ends at the first "@".
DomainChoppedFirst(a) == IF First(a, "@") < 2 THEN a ELSE SubSeq(a, 1, First(a, "@") - 1)

\* yaslrange(a, 0, p - a - 1): if "@" is the first character, -1 is the last
\* position, and nothing is cut off.
DomainChopped(a) == IF LastOf(a, "@") < 2 THEN a ELSE SubSeq(a, 1, LastOf(a, "@") - 1)

RefusedSender(a) ==
    LET name == Trim(DomainChopped(canon_from(a)), DoubleQuote)
    IN  name # <<>> /\ name[Len(name)] \in Refused

----------------------------------------------------------------------------
(* The path of an address.                                                 *)

Own == {local \o <<"@", "home">> : local \in Locals}

\* The null reverse-path of a bounce, as different MTAs pass it on.
Null == {<<>>, <<"<>">>}

\* What another scheme would take for its own.
Marked(a) ==
    \/ IsSrs(a)
    \/ At(a, 1, "prvs") /\ At(a, 2, "=")
    \/ At(a, 1, "btv1") /\ At(a, 2, "=") /\ At(a, 3, "=")

\* Nobody's own address looks rewritten, a name on the list ends a local part, and
\* a domain has no "=" or "@" and starts with no "-" or "+".
ASSUME PathAssumption ==
    /\ \A local \in Locals : local \in Seq(STRING)
    /\ \A a \in Own : ~Marked(a)
    /\ \A local \in Locals : \A i, k \in DOMAIN local :
           local[i] \in Refused /\ i < k => local[k] = DoubleQuote
    /\ Forwarders \in Seq(STRING)
    /\ \A n \in DOMAIN Forwarders : Forwarders[n] \notin Separators \union {"@"}

PathInit ==
    /\ origin \in Own \union Null
    /\ addr = origin
    /\ hops = 0

\* prvs=tag=local@domain and btv1==tag==local@domain; a local part in quotes is
\* left as it is.
Tag ==
    /\ hops = 0 /\ addr = origin /\ origin \in Own
    /\ addr[1] # DoubleQuote
    /\ \/ addr' = <<"prvs", "=", "tag", "=">> \o addr
       \/ addr' = <<"btv1", "=", "=", "tag", "=", "=">> \o addr
    /\ UNCHANGED <<origin, hops>>

\* SRS0=hash=time=domain=local@forwarder; a quote stays in front.
Srs0(a, sep, forwarder) ==
    LET p == Unquoted(a)
        end == LastOf(p, "@")
    IN  (IF p = a THEN <<>> ELSE <<DoubleQuote>>)
        \o <<"SRS0", sep, "hash", "=", "time", "=">> \o From(p, end + 1)
        \o <<"=">> \o SubSeq(p, 1, end - 1) \o <<"@", forwarder>>

\* SRS1=hash=first=rest@forwarder, where rest is the SRS0 address from its own
\* separator on; a further forwarder only replaces the hash and itself.
Srs1(a, sep, forwarder) ==
    LET p == Unquoted(a)
        end == LastOf(p, "@")
        rest == IF p[1] = "SRS0"
                THEN From(p, end + 1) \o <<"=">> \o SubSeq(p, 2, end - 1)
                ELSE SubSeq(p, 5, end - 1)
    IN  (IF p = a THEN <<>> ELSE <<DoubleQuote>>)
        \o <<"SRS1", sep, "hash", "=">> \o rest \o <<"@", forwarder>>

Forward ==
    /\ hops < Len(Forwarders) /\ origin \in Own
    /\ hops' = hops + 1
    /\ \E sep \in Separators :
          addr' = IF IsSrs(addr) THEN Srs1(addr, sep, Forwarders[hops + 1])
                                 ELSE Srs0(addr, sep, Forwarders[hops + 1])
    /\ UNCHANGED origin

PathNext == Tag \/ Forward

PathSpec == PathInit /\ [][PathNext]_pathVars

----------------------------------------------------------------------------
\* An SRS1 address around an SRS0 address with another separator than "=", with
\* a pair further on that canon_from looks for before that separator, and takes
\* for the end of the first forwarder.
Ambiguous ==
    LET p == Unquoted(addr)
        before == IF At(p, 7, "=") THEN {} ELSE IF At(p, 7, "-") THEN {"="} ELSE {"=", "-"}
    IN  At(p, 1, "SRS1") /\ \E t \in before : FirstPairFrom(p, 8, "=", t) # 0

\* Whatever way a message took, its sender is the same correspondent, with one
\* key in the database: tags and forwarders leave no trace in what canon_from
\* returns, but for ambiguous addresses (vutil.c:126-204).
SameCorrespondent == ~Ambiguous => canon_from(addr) = origin

\* The system addresses of check_from's list, "<>" with them, get no answer
\* whatever way they came, and everybody else may get one, but for ambiguous
\* addresses (vutil.c:218-259).  Nothing is said here of an empty address.
RefusedWhereverFrom ==
    ~Ambiguous /\ origin # <<>> =>
        (RefusedSender(addr) <=> \E i \in DOMAIN origin : origin[i] \in Refused)

\* No response is made for a null address, however it is spelt: what the comment
\* above check_from asks.  An empty address ends with no name of the list
\* (vutil.c:207-212, 247-256).
NullAddressRefused == origin \in Null => RefusedSender(addr)
=============================================================================
