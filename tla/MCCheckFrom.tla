---------------------------- MODULE MCCheckFrom ----------------------------
(***************************************************************************)
(* Local parts plain, quoted, with the punctuation of the schemes, and on  *)
(* check_from's list; three forwarders, from which on SRS1 addresses only  *)
(* change their hash.  Recipients and common names of one and of two       *)
(* words, with and without punctuation, one like the name of the field     *)
(* ("T:" for "To:"); recipient lines of up to three characters and a       *)
(* continuation.                                                           *)
(***************************************************************************)
EXTENDS RcptMatch

MCLocals == {<<"user">>, <<DoubleQuote, "a user", DoubleQuote>>, <<"mailer-daemon">>,
             <<DoubleQuote, "a", "x-errors", DoubleQuote>>, <<"a", "=", "b">>, <<"a", "-", "b">>, <<"-", "b">>,
             <<DoubleQuote, "a", "@", "x-errors", DoubleQuote>>,
             <<DoubleQuote, "-", "=", "a", "=", "b", "@", "b", "=", "x-errors", DoubleQuote>>}
MCForwarders == <<"first", "second", "third">>

MCRecipients == {<<"a">>, <<"a", ".", "b">>, <<"t">>}
MCCommonNames == {<<>>, << <<"B", " ", "a">> >>, << <<"b", "_", "a">>, <<"b", "b">> >>}

Texts(n) == UNION {[1..k -> {"a", "B", ".", "_", " "}] : k \in 0..n}
MCRcptLines ==
    {<<>>} \union {<< <<"T", ":">> \o t >> : t \in Texts(3)}
    \union {<< <<"T", ":">> \o t, <<" ">> \o u >> : t \in Texts(1), u \in Texts(2)}
=============================================================================
