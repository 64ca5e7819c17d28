--------------------------- MODULE ConfigGrammar ----------------------------
(***************************************************************************)
(* The grammar of a configuration, read from the rules of grammar.y rather *)
(* than from the tables of grammar.c, and what the parser has to do with   *)
(* it.                                                                     *)
(***************************************************************************)
EXTENDS ConfigParser

\* The grammar, read from its rules rather than from the tables.  Each operator
\* yields the place behind what it recognises at place i, or 0.
SymAt(ts, i) == IF i \in 1..Len(ts) THEN ts[i].sym ELSE TOK_EOF
Separators == {TOK_COMMA, TOK_SEMICOLON}
ScalarTokens == TOK_BOOLEAN..TOK_STRING

RECURSIVE EndOfStrings(_, _)
EndOfStrings(ts, i) == IF SymAt(ts, i) = TOK_STRING THEN EndOfStrings(ts, i + 1) ELSE i

\* A scalar, where strings that follow each other are one.
EndOfScalar(ts, i) ==
    IF SymAt(ts, i) = TOK_STRING THEN EndOfStrings(ts, i)
    ELSE IF SymAt(ts, i) \in ScalarTokens THEN i + 1 ELSE 0

RECURSIVE EndOfValue(_, _)
RECURSIVE EndOfElements(_, _, _)
RECURSIVE EndOfSettings(_, _)

\* One or more elements and the bracket that closes them.
EndOfElements(ts, i, close) ==
    LET j == IF close = TOK_ARRAY_END THEN EndOfScalar(ts, i) ELSE EndOfValue(ts, i)
    IN  IF j = 0 THEN 0
        ELSE IF SymAt(ts, j) = close THEN j + 1
        ELSE IF SymAt(ts, j) = TOK_COMMA THEN EndOfElements(ts, j + 1, close) ELSE 0

EndOfValue(ts, i) ==
    CASE SymAt(ts, i) \in {TOK_ARRAY_START, TOK_LIST_START} ->
           LET close == SymAt(ts, i) + 1
           IN  IF SymAt(ts, i + 1) = close THEN i + 2 ELSE EndOfElements(ts, i + 1, close)
      [] SymAt(ts, i) = TOK_GROUP_START ->
           LET j == EndOfSettings(ts, i + 1)
           IN  IF j # 0 /\ SymAt(ts, j) = TOK_GROUP_END THEN j + 1 ELSE 0
      [] OTHER -> EndOfScalar(ts, i)

\* Zero or more settings, each with or without a separator behind it.
EndOfSettings(ts, i) ==
    LET j == EndOfValue(ts, i + 2)
    IN  IF SymAt(ts, i) # TOK_NAME THEN i
        ELSE IF SymAt(ts, i + 1) # TOK_EQUALS \/ j = 0 THEN 0
        ELSE EndOfSettings(ts, IF SymAt(ts, j) \in Separators THEN j + 1 ELSE j)

IsConfiguration(ts) ==
    LET j == EndOfSettings(ts, 1) IN j = Len(ts) /\ SymAt(ts, j) = TOK_EOF

\* Tokens without what a writer may choose: strings joined, no separators.
Essence(ts) ==
    LET JoinStrings(acc, t) ==
            IF t.sym = TOK_STRING /\ acc # << >> /\ acc[Len(acc)].sym = TOK_STRING
            THEN [acc EXCEPT ![Len(acc)].val = @ \o t.val]
            ELSE Append(acc, Token(t.sym, t.val))
        Matters(t) == t.sym \notin Separators \cup {TOK_EOF}
    IN  SelectSeq(FoldLeft(JoinStrings, << >>, ts), Matters)
-----------------------------------------------------------------------------
\* What the parser accepts is what the grammar generates: the tables, the stack
\* and the lookahead they are used with are right, for every input.  A name is
\* refused as a duplicate only where the input has it twice: it is still in the
\* scanner's buffer when it is read from there, and none is left of before.
AcceptsTheGrammar ==
    /\ yyresult = 0 => IsConfiguration(toks)
    /\ rpc # "called" /\ c.error_text = "syntax error" => ~ IsConfiguration(toks)
    /\ c.error_text = "duplicate setting name" =>
           \E i, j \in 1..Len(toks) : i < j /\ toks[i].sym = TOK_NAME /\ toks[j].sym = TOK_NAME
                                            /\ toks[i].val = toks[j].val

\* Reading and writing loses nothing: what config_write writes of a
\* configuration that was read is what was read, in the same order and nesting,
\* with every name, value, type and format; and it can be read again.
WritesWhatWasRead ==
    written # << >> => /\ Essence(written[1]) = Essence(toks)
                       /\ IsConfiguration(Append(written[1], Token(TOK_EOF, NoValue)))
=============================================================================
