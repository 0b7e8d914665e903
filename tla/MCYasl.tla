------------------------------- MODULE MCYasl -------------------------------
EXTENDS YaslSplitargs

MCByte == 0..255

\* "", "A", "." and a NUL, "b.A"
MCText == {<<>>, <<65>>, <<46, 0>>, <<98, 46, 65>>}

\* tolower, and yaslmapchars with "._" and "  "
MCRemaps == {[c \in MCByte |-> IF c \in 65..90 THEN c + 32 ELSE c],
             [c \in MCByte |-> IF c \in {46, 95} THEN 32 ELSE c]}

\* "$R", words with a backslash, a quote, an apostrophe, a blank, a newline,
\* the letters of an escape, a byte that is not printed, and slashes before,
\* behind and after a NUL
MCWords == {<<>>, <<36, 82>>, <<92, 34>>, <<39, 32>>, <<10, 97, 47>>, <<92, 120, 52>>,
            <<47, 98>>, <<171, 97, 0, 47, 92>>}
MCCommands == {<<w>> : w \in MCWords} \union {<<v, w>> : v, w \in MCWords}

MCGaps == {<<32>>, <<32, 9>>}

\* "a", a blank, a form feed, the quotes and the backslash
MCLines == BoundedSeq({97, 32, 12, 34, 39, 92}, 4)

\* A recipient with a slash, a blank and a quote.
MCrcpt == <<97, 47, 32, 34>>
=============================================================================
