---------------------------- MODULE ParseTables -----------------------------
(***************************************************************************)
(* grammar.c: the tables of the parser, with the states, rules and symbols *)
(* numbered as there, what the parser looks up in them, and what is true   *)
(* of them.  The assumptions at the end have no constants: TLC evaluates   *)
(* them whole.                                                             *)
(***************************************************************************)
EXTENDS Integers, Sequences

\* A token's number as a number of a symbol; 2 stands for no symbol.
YYTRANSLATE(x) ==
    IF x = 0 THEN 0 ELSE IF x = 256 THEN 1 ELSE IF x \in 258..277 THEN x - 255 ELSE 2

\* The symbols of the tokens.  No token TOK_NEWLINE (267) is ever returned.
TOK_EOF == YYTRANSLATE(0)
TOK_BOOLEAN == YYTRANSLATE(258)
TOK_INTEGER == YYTRANSLATE(259)
TOK_HEX == YYTRANSLATE(260)
TOK_INTEGER64 == YYTRANSLATE(261)
TOK_HEX64 == YYTRANSLATE(262)
TOK_FLOAT == YYTRANSLATE(263)
TOK_STRING == YYTRANSLATE(264)
TOK_NAME == YYTRANSLATE(265)
TOK_EQUALS == YYTRANSLATE(266)
TOK_ARRAY_START == YYTRANSLATE(268)
TOK_ARRAY_END == YYTRANSLATE(269)
TOK_LIST_START == YYTRANSLATE(270)
TOK_LIST_END == YYTRANSLATE(271)
TOK_COMMA == YYTRANSLATE(272)
TOK_GROUP_START == YYTRANSLATE(273)
TOK_GROUP_END == YYTRANSLATE(274)
TOK_SEMICOLON == YYTRANSLATE(275)
TOK_GARBAGE == YYTRANSLATE(276)
TOK_ERROR == YYTRANSLATE(277)
-----------------------------------------------------------------------------
\* The tables, indexed from 0 in C.
YYFINAL == 6
YYLAST == 35
YYNTOKENS == 23
YYPACT_NINF == -26

yypact == <<
    -8,  -26, 12, -8, -26, 5,   -26, -26, 0,   -26, -26, -26, -26, -26, -26, -26, -26, -26, -26, -26,
    -26, -6, 10, -26, -26, 23,  0,   -8,  -26, -26, -26, -26, -26, 3,   7,   -26, 6,   8,   -8,  14,
    23,  -26, 0, -26, -26, -26, -26 >>

yydefact == <<
    2,  11, 0,  3,  4,  0,  1,  5,  0,  23, 24, 26, 25, 27, 28, 21, 13, 15, 38, 18,
    19, 8,  29, 17, 20, 36, 32, 6,  10, 9,  12, 22, 34, 37, 0,  30, 33, 0,  7,  0,
    0,  14, 0,  16, 39, 35, 31 >>

yypgoto == << -26, -26, -5, -26, -26, -3, -26, -26, -26, -26, -26, -25, -26, -15, -26, -26, -26, -26, -26, -26 >>

yydefgoto == << -1, 2, 3, 39, 30, 4, 5, 19, 25, 20, 26, 21, 22, 23, 36, 37, 33, 34, 24, 27 >>

yytable == <<
    7,  35, 1,  9,  10, 11, 12, 13, 14, 15, 32, 28, 6,  16, 29, 17, 8,  46, 18, 31,
    40, 41, 38, 42, 43, 45, 9,  10, 11, 12, 13, 14, 15, 44, 0,  7 >>

yycheck == <<
    3,  26, 10, 3,  4,  5,  6,  7,  8,  9,  25, 17, 0,  13, 20, 15, 11, 42, 18, 9,
    17, 14, 27, 17, 16, 40, 3,  4,  5,  6,  7,  8,  9,  19, -1, 38 >>

\* The symbol a rule derives, and the number of symbols on its right side.
yyr1 == << 0,  23, 24, 24, 25, 25, 26, 26, 27, 27, 27, 29, 28, 31, 30, 33, 32, 34, 34, 34,
           34, 35, 35, 36, 36, 36, 36, 36, 36, 36, 37, 37, 38, 38, 39, 39, 40, 40, 42, 41 >>

yyr2 == << 0, 2, 0, 1, 1, 2, 0, 1, 0, 1, 1, 0, 5, 0, 4, 0, 4, 1, 1, 1,
           1, 1, 2, 1, 1, 1, 1, 1, 1, 1, 1, 3, 0, 1, 1, 3, 0, 1, 0, 4 >>

\* t[i] of C.
At(t, i) == t[i + 1]
-----------------------------------------------------------------------------
\* The state decides without a lookahead.
DefaultState(state) == At(yypact, state) = YYPACT_NINF

\* yybackup: where the tables send the symbol, 0 when the default applies.
ShiftFrom(state, sym) ==
    LET i == At(yypact, state) + sym
    IN  IF DefaultState(state) \/ i \notin 0..YYLAST THEN 0
        ELSE IF At(yycheck, i) # sym THEN 0 ELSE At(yytable, i)

\* The state after a reduction, from the state below and the rule's symbol.
GotoFrom(below, rule) ==
    LET sym == At(yyr1, rule) - YYNTOKENS
        i   == At(yypgoto, sym) + below
    IN  IF i \in 0..YYLAST /\ At(yycheck, IF i \in 0..YYLAST THEN i ELSE 0) = below
        THEN At(yytable, i) ELSE At(yydefgoto, sym)
-----------------------------------------------------------------------------
\* The states and the symbols; what begins and what ends an aggregate, and the
\* states entered with it, with a string and with the end of the input.
States == 0..46
Symbols == TOK_EOF..TOK_ERROR
Opening == {TOK_ARRAY_START, TOK_LIST_START, TOK_GROUP_START}
Closing == {TOK_ARRAY_END, TOK_LIST_END, TOK_GROUP_END}
OpenStates == {16, 17, 18}
CloseStates == {41, 43, 44}
StringStates == {15, 31}

\* The states that may be below a state on the stack: those after =, ( and , of
\* a list for a value, also those after [ and , of an array for a scalar.
BeforeValue == {8, 26, 42}
BeforeScalar == BeforeValue \cup {25, 40}
Below == <<
    {}, {0, 3, 27, 38}, {0}, {0}, {0, 27}, {1}, {2}, {3, 38}, {5}, BeforeScalar, BeforeScalar,
    BeforeScalar, BeforeScalar, BeforeScalar, BeforeScalar, BeforeScalar, BeforeValue, BeforeValue,
    BeforeValue, BeforeValue, BeforeValue, {8}, BeforeScalar, BeforeValue, BeforeValue, {16}, {17},
    {18}, {21}, {21}, {21}, {22}, {25}, {25}, {25}, {26}, {26}, {26}, {27}, {27}, {33}, {34}, {36},
    {37}, {39}, {40}, {42} >>

Under(states) == UNION {At(Below, q) : q \in states}

\* Those k places below it; no rule has more than five symbols.
Beneath(q, k) ==
    CASE k = 0 -> {q}
      [] k = 1 -> Under({q})
      [] k = 2 -> Under(Under({q}))
      [] k = 3 -> Under(Under(Under({q})))
      [] k = 4 -> Under(Under(Under(Under({q}))))
      [] k = 5 -> Under(Under(Under(Under(Under({q})))))

\* How far up the stack a state may be, six places less for every aggregate that
\* is open below it.
Height == <<
    1, 3, 2, 2, 2, 4, 3, 3, 5, 6, 6, 6, 6, 6, 6, 6, 0, 0, 0, 6, 6, 6, 6, 6, 6, 1, 1, 1, 7, 7, 7, 7,
    2, 2, 2, 2, 2, 2, 2, 2, 3, 3, 3, 3, 3, 4, 4 >>

\* No state has anything to do with an error token (symbol 1): an error empties
\* the stack.
ASSUME NoErrorToken == \A i \in 1..(YYLAST + 1) : yycheck[i] # 1

\* What a state without a lookahead does is known: it reduces; the first state
\* has one, and those entered with a string or at the end of an aggregate have
\* none.
ASSUME StatesDecide ==
    /\ \A q \in States : DefaultState(q) => At(yydefact, q) # 0
    /\ \A q \in StringStates \cup CloseStates : DefaultState(q)
    /\ ~ DefaultState(0)

\* A shift leads to a state that may be on top, and tells the symbol; TOK_ERROR
\* is never shifted.
ASSUME ShiftsFit ==
    \A p \in States, sym \in Symbols :
        LET q == ShiftFrom(p, sym)
        IN  q # 0 => /\ q \in States /\ p \in At(Below, q)
                     /\ q = YYFINAL <=> sym = TOK_EOF
                     /\ q \in StringStates <=> sym = TOK_STRING
                     /\ q \in OpenStates <=> sym \in Opening
                     /\ q \in CloseStates <=> sym \in Closing
                     /\ sym # TOK_ERROR

\* A rule finds its symbols on the stack, the beginning of an aggregate when it
\* ends one and no other; only the rules for strings take one off the stack; and
\* the state for its left side may be on top of what is left.
ASSUME ReducesFit ==
    \A q \in States \ {YYFINAL} :
        LET rule == At(yydefact, q)
            size == At(yyr2, rule)
        IN  rule # 0 =>
              /\ size \in 0..5
              /\ \A k \in 0..(size - 1) :
                     /\ 0 \notin Beneath(q, k)
                     /\ IF q \in CloseStates /\ k = 3 THEN Beneath(q, k) \subseteq OpenStates
                        ELSE Beneath(q, k) \cap OpenStates = {}
              /\ q \in CloseStates => size = 4
              /\ rule \in {21, 22} <=> q \in StringStates
              /\ \A p \in Beneath(q, size) :
                     LET goto == GotoFrom(p, rule)
                     IN  /\ goto \in States \ ({YYFINAL} \cup StringStates \cup OpenStates \cup CloseStates)
                         /\ p \in At(Below, goto)

ASSUME HeightsFit ==
    /\ At(Height, 0) = 1
    /\ \A q \in States :
           /\ At(Height, q) \in 0..7
           /\ \A p \in At(Below, q) :
                  p \in States /\ At(Height, p) + 1 <= At(Height, q) + IF q \in OpenStates THEN 6 ELSE 0
=============================================================================
