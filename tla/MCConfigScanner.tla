-------------------------- MODULE MCConfigScanner --------------------------
(***************************************************************************)
(* An instance of ConfigScanner for TLC.                                   *)
(***************************************************************************)
EXTENDS ScanPatterns

\* What numbers and names are made of.
NumberTexts == {<<"0">>, <<"1">>, <<"X">>, <<"L">>, <<"+">>, <<".">>, <<"e">>, <<"0", "X">>, <<"1", "e">>}

\* Comments of both kinds, strings and escapes.
CommentTexts == {<<"/">>, <<"*">>, <<"#">>, <<"\n">>, <<"\"">>, <<"\\">>, <<"X", "0">>, <<"0">>, <<"/", "*">>}

\* Words the scanner knows and what is close to them, and all punctuation.
WordTexts ==
    {<<"t", "r", "u">>, <<"e">>, <<"F", "A", "l", "S">>, <<" ">>, <<"@", "i", "n", "c", "l", "u", "d", "e">>, <<"\"">>,
     <<"=", "{", "[", "(", ",", ";", ")", "]", "}">>}

\* Texts read from a stream, a few characters at a time, and from a string.
Texts(alphabets, max) ==
    [alphabets |-> alphabets, maxTexts |-> max, maxStreams |-> 0,
     sources |-> {"stream", "string"}, includes |-> {"missing"}, readSizes |-> {1, 3}]

\* Include directives, whole and with a name that does not end, and what may
\* follow one or end a file.
IncludeOpening == <<"\n", "@", "i", "n", "c", "l", "u", "d", "e", " ", "\"">>
IncludeTexts == {IncludeOpening, IncludeOpening \o <<"L", "\"">>, <<"\"">>, <<"/", "*">>}
Includes ==
    [alphabets |-> {IncludeTexts}, maxTexts |-> 2, maxStreams |-> 3, sources |-> {"stream"},
     includes |-> {"missing", "directory", "file"}, readSizes |-> {16}]

MCInputs == {Texts({NumberTexts, WordTexts}, 3), Texts({CommentTexts}, 4), Includes}
============================================================================
