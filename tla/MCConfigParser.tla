--------------------------- MODULE MCConfigParser ---------------------------
(***************************************************************************)
(* An instance of ConfigParser for TLC.                                    *)
(***************************************************************************)
EXTENDS ConfigGrammar

\* The cast of x86-64.
Indefinite(f, max) == -max - 1

Plain(syms) == {Token(s, NoValue) : s \in syms}
Brackets == Plain(TOK_ARRAY_START..TOK_LIST_END) \cup Plain({TOK_GROUP_START, TOK_GROUP_END})
Name(n) == Token(TOK_NAME, n)
Text(t) == Token(TOK_STRING, <<t>>)

\* Two names, two kinds of value, and everything that gives structure.
Structure ==
    Brackets \cup {Name("a"), Name("b"), Token(TOK_INTEGER, 1), Text("x")}
    \cup Plain({TOK_EQUALS, TOK_COMMA, TOK_SEMICOLON})

\* One name and every kind of value, also one that is no token at all.
EveryValue ==
    {Name("a"), Token(TOK_BOOLEAN, 1), Token(TOK_INTEGER, 2), Token(TOK_HEX, 3), Token(TOK_INTEGER64, 2),
     Token(TOK_HEX64, 9), Token(TOK_FLOAT, 5), Text("x"), Text("y")}
    \cup Plain({TOK_EQUALS, TOK_COMMA, TOK_ARRAY_START, TOK_ARRAY_END, TOK_LIST_START, TOK_LIST_END,
                TOK_GARBAGE, TOK_ERROR})

\* Only what nests.
Deep == {Name("a"), Token(TOK_INTEGER, 1)} \cup Plain({TOK_EQUALS, TOK_LIST_START, TOK_LIST_END, TOK_GROUP_START, TOK_GROUP_END, TOK_COMMA})

\* Strings in lists, over several lines.
StringList == {Name("a"), Text("x"), Token(TOK_INTEGER, 1)} \cup Plain({TOK_EQUALS, TOK_LIST_START, TOK_LIST_END, TOK_COMMA})

Used == [config_t EXCEPT !.error_text = "syntax error", !.error_type = "PARSE", !.options = {"AUTOCONVERT"}]

Input(tokens, max, lines, given) ==
    [tokens |-> tokens, maxTokens |-> max, maxLine |-> lines, given |-> {given}]

MCInputs == {Input(Structure, 9, 1, config_t), Input(EveryValue, 8, 1, Used),
             Input(Deep, 12, 1, config_t), Input(StringList, 7, 2, config_t)}
=============================================================================
