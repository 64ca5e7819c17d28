---------------------------- MODULE ConfigParser ----------------------------
(***************************************************************************)
(* grammar.c: the parser of libconfig.  One step of the model is the       *)
(* reading of a token, a shift, a reduction with its action, or the        *)
(* handling of an error.  libconfig.c's __config_read starts the parser    *)
(* and config_write_file writes what it built.                             *)
(*                                                                         *)
(* A token is [sym, val, line]: the number of its symbol, what the scanner *)
(* left in yylval, and the line the scanner was on.  The text of a string  *)
(* is a sequence of parts, so that strings can be joined.                  *)
(***************************************************************************)
EXTENDS ConfigValue, ParseTables, SequencesExt

CONSTANTS
    Inputs,         \* kinds of input, each with its bounds
    YYINITDEPTH,    \* entries of the stacks before they grow
    YYMAXDEPTH      \* entries they may grow to

\* A kind of input: tokens, the [sym, val] the scanner may return; the bounds
\* maxTokens, tokens before the end of the input, and maxLine, its lines; and
\* given, the config_t a caller may have set up before it reads.  The stacks have
\* room for more than the first state.
ASSUME ParserAssumption ==
    /\ \A i \in Inputs :
           /\ i.maxTokens \in Nat /\ i.maxLine \in Nat \ {0}
           /\ \A t \in i.tokens : t.sym \in TOK_BOOLEAN..TOK_ERROR
           /\ \A conf \in i.given : DOMAIN conf = DOMAIN config_t
    /\ YYINITDEPTH \in Nat \ {0, 1} /\ YYMAXDEPTH \in Nat
    /\ YYINITDEPTH <= YYMAXDEPTH

VARIABLES
    input,          \* the kind of input, one of Inputs
    h, c,           \* the settings and the config_t
    rpc,            \* "called", "parsing", "read", "over"
    yystack,        \* yyss and yyvs: [state, yyval], the top last
    yystacksize,    \* entries allocated
    yychar,         \* the lookahead, if one was read
    yyresult,       \* 0 accept, 1 abort, 2 exhausted; -1 before
    ctx,            \* parse_context: parent, setting, string
    toks,           \* history: the tokens read
    strings,        \* copies of strings the scanner made and nobody freed
    written         \* history: the tokens config_write wrote

lrVars == <<yystack, yystacksize, yychar, yyresult>>
parserVars == <<input, h, c, rpc, lrVars, ctx, toks, strings, written>>

\* The val of a token that has none: its text is no name.
NoValue == "punctuation"
EndOfInput == [sym |-> TOK_EOF, val |-> NoValue]
-----------------------------------------------------------------------------
\* A configuration that has been read before, and is read again.
OldSettings ==
    [config_setting_add(InitialSettings, 1, <<"a">>, "INT").h EXCEPT ![2].value = 7]

ParserInit ==
    /\ input \in Inputs
    /\ h \in {InitialSettings, OldSettings}
    /\ c \in input.given
    /\ rpc = "called"
    /\ yystack = << >> /\ yystacksize = 0 /\ yychar = << >> /\ yyresult = -1
    /\ ctx = [parent |-> NULL, setting |-> NULL, string |-> << >>]
    /\ toks = << >>
    /\ strings = 0
    /\ written = << >>

\* config_destroy, config_init, and the four fields that are kept.
Reinitialised ==
    /\ h' = InitialSettings
    /\ c' = [config_t EXCEPT !.destructor = c.destructor, !.include_dir = c.include_dir,
                             !.tab_width = c.tab_width, !.options = c.options]

\* __config_read up to yyparse, and yyparse up to its first token.
config_read ==
    /\ Reinitialised
    /\ ctx' = [parent |-> config_t.root, setting |-> config_t.root, string |-> << >>]
    /\ yystack' = <<[state |-> 0, yyval |-> 0]>>
    /\ yystacksize' = YYINITDEPTH
    /\ rpc' = "parsing"
    /\ UNCHANGED <<yychar, yyresult, toks, strings, written>>

\* A file that cannot be opened, or is a directory, leaves the settings alone.
config_read_file ==
    /\ rpc = "called"
    /\ \/ config_read
       \/ /\ c' = [c EXCEPT !.error_text = "file I/O error", !.error_type = "FILE_IO"]
          /\ rpc' = "read"
          /\ yyresult' = 1
          /\ UNCHANGED <<h, yystack, yystacksize, yychar, ctx, toks, strings, written>>
-----------------------------------------------------------------------------
Parsing == rpc = "parsing"
State == yystack[Len(yystack)].state
Line == IF toks = << >> THEN 1 ELSE toks[Len(toks)].line

\* Fault: a later error replaces the first.
yyerror_last(conf, text) ==
    [conf EXCEPT !.error_line = Line, !.error_text = text]

\* Only the first error is kept.
yyerror(conf, text) ==
    IF conf.error_text # "none" THEN conf
    ELSE [conf EXCEPT !.error_line = Line, !.error_text = text]

\* yyparse returns: yyreturn empties the stack, without freeing what the
\* symbols point to, and __config_read notes the failure.
Returns(result, conf) ==
    /\ yyresult' = result
    /\ rpc' = "read"
    /\ c' = IF result = 0 THEN conf ELSE [conf EXCEPT !.error_type = "PARSE"]
    /\ yystack' = << >>

\* Fault: the stack is not looked at before it is pushed.
StackFull_unchecked(stack) == FALSE

\* yyss + yystacksize - 1 <= yyssp
StackFull(stack) == Len(stack) >= yystacksize

\* yynewstate: the stack with its new top.  A full one is doubled, up to
\* YYMAXDEPTH; at that the parser gives up.
Push(stack) ==
    LET doubled == IF 2 * yystacksize > YYMAXDEPTH THEN YYMAXDEPTH ELSE 2 * yystacksize
        size    == IF StackFull(stack) THEN doubled ELSE yystacksize
        tooFull == StackFull(stack) /\ Len(stack) >= size
        final   == stack[Len(stack)].state = YYFINAL
    IN  \/ /\ StackFull(stack) /\ YYMAXDEPTH <= yystacksize
           /\ Returns(2, yyerror(c, "memory exhausted"))
           /\ UNCHANGED yystacksize
        \/ /\ ~ (StackFull(stack) /\ YYMAXDEPTH <= yystacksize)
           /\ yystacksize' = size
           /\ IF tooFull THEN Returns(1, c)
              ELSE IF final THEN Returns(0, c)
              ELSE yystack' = stack /\ UNCHANGED <<c, rpc, yyresult>>

\* Fault: the parser wants to see what comes after a name.
IsDefault_peeking == DefaultState(State) /\ State # 1

IsDefault == DefaultState(State)

\* A token is read.  TOK_ERROR comes with an error text of its own, and the
\* scanner makes a copy of a string.
yylex ==
    /\ Parsing
    /\ ~ IsDefault
    /\ yychar = << >>
    /\ \E t \in IF Len(toks) < input.maxTokens THEN input.tokens \cup {EndOfInput} ELSE {EndOfInput} :
           \E line \in Line..input.maxLine :
               LET tok == [sym |-> t.sym, val |-> t.val, line |-> line]
               IN  /\ yychar' = <<tok>>
                   /\ toks' = Append(toks, tok)
                   /\ strings' = strings + IF t.sym = TOK_STRING THEN 1 ELSE 0
                   /\ c' = IF t.sym = TOK_ERROR
                           THEN [c EXCEPT !.error_text = "cannot open include file", !.error_line = line]
                           ELSE c
    /\ UNCHANGED <<h, rpc, yystack, yystacksize, yyresult, ctx, written>>

\* Where the lookahead leads, 0 when the default applies.
ShiftTo == IF IsDefault THEN 0 ELSE ShiftFrom(State, yychar[1].sym)

Decided == Parsing /\ (IsDefault \/ yychar # << >>)

Shift ==
    /\ Decided
    /\ ShiftTo # 0
    /\ Push(Append(yystack, [state |-> ShiftTo, yyval |-> yychar[1].val]))
    /\ yychar' = << >>
    /\ UNCHANGED <<h, ctx, toks, strings, written>>

\* yyerrlab: no state can shift the error token, so everything is popped.
SyntaxError ==
    /\ Decided
    /\ ShiftTo = 0
    /\ At(yydefact, State) = 0
    /\ Returns(1, yyerror(c, "syntax error"))
    /\ UNCHANGED <<h, yystacksize, yychar, ctx, toks, strings, written>>
-----------------------------------------------------------------------------
\* The actions of the rules.  Each yields the settings, the context and the
\* error that makes it abort, "none" for no error.
TopValue == yystack[Len(yystack)].yyval
IN_ARRAY == ctx.parent # NULL /\ h[ctx.parent].type = "ARRAY"
IN_LIST == ctx.parent # NULL /\ h[ctx.parent].type = "LIST"

\* The name of a setting is read from the scanner's buffer, where the text of
\* the last token is.
yytext == toks[Len(toks)].val

CAPTURE_PARSE_POS(heap, s) == [heap EXCEPT ![s].line = Line]

Outcome(heap, context, error) == [h |-> heap, ctx |-> context, error |-> error]

\* Rule 11: a name.
SettingNamed ==
    LET added == config_setting_add(h, ctx.parent, <<yytext>>, "NONE")
    IN  IF added.ret = NULL
        THEN Outcome(h, [ctx EXCEPT !.setting = NULL], "duplicate setting name")
        ELSE Outcome(CAPTURE_PARSE_POS(added.h, added.ret), [ctx EXCEPT !.setting = added.ret], "none")

\* Rules 13, 15 and 38: an aggregate begins.
Opened(type) ==
    LET added == config_setting_add(h, ctx.parent, << >>, type)
    IN  IF IN_LIST
        THEN Outcome(CAPTURE_PARSE_POS(added.h, added.ret), [ctx EXCEPT !.parent = added.ret], "none")
        ELSE Outcome([h EXCEPT ![ctx.setting].type = type],
                     [ctx EXCEPT !.parent = ctx.setting, !.setting = NULL], "none")

\* Rules 14, 16 and 39: it ends.
Closed == Outcome(h, [ctx EXCEPT !.parent = IF @ = NULL THEN @ ELSE h[@].parent], "none")

\* Fault: a string that follows another replaces it.
StringAppended_replaced == Outcome(h, [ctx EXCEPT !.string = TopValue], "none")

\* Rules 21 and 22: a string, or one more to be joined to it.
StringAppended == Outcome(h, [ctx EXCEPT !.string = @ \o TopValue], "none")

Formatted(heap, s, format) == [heap EXCEPT ![s] = config_setting_set_format(@, format).s]

\* A value has become, or could not become, an element of the array or list.
ElementStored(elem, format) ==
    IF elem.ret = NULL THEN Outcome(h, ctx, "mismatched element type in array")
    ELSE Outcome(CAPTURE_PARSE_POS(Formatted(elem.h, elem.ret, format), elem.ret), ctx, "none")

\* Rules 23 to 28: a value of an array or list, or of the last name.
ValueStored(type, v, format) ==
    IF IN_ARRAY \/ IN_LIST
    THEN ElementStored(SetElemOf(h, ctx.parent, -1, type, v, c), format)
    ELSE Outcome(Formatted([h EXCEPT ![ctx.setting] = SetValue(@, type, v, c).s], ctx.setting, format),
                 ctx, "none")

\* Rule 29: the joined string is taken out of the context.
StringStored ==
    LET stored == ValueStored("STRING", IF ctx.string = << >> THEN << >> ELSE <<ctx.string>>, "DEFAULT")
    IN  [stored EXCEPT !.ctx.string = << >>]

RuleAction(rule) ==
    CASE rule = 11 -> SettingNamed
      [] rule = 13 -> Opened("ARRAY")
      [] rule = 15 -> Opened("LIST")
      [] rule = 38 -> Opened("GROUP")
      [] rule \in {14, 16, 39} -> Closed
      [] rule \in {21, 22} -> StringAppended
      [] rule = 23 -> ValueStored("BOOL", TopValue, "DEFAULT")
      [] rule = 24 -> ValueStored("INT", TopValue, "DEFAULT")
      [] rule = 25 -> ValueStored("INT64", TopValue, "DEFAULT")
      [] rule = 26 -> ValueStored("INT", TopValue, "HEX")
      [] rule = 27 -> ValueStored("INT64", TopValue, "HEX")
      [] rule = 28 -> ValueStored("FLOAT", TopValue, "DEFAULT")
      [] rule = 29 -> StringStored
      [] OTHER -> Outcome(h, ctx, "none")

\* Fault: the string of the scanner is not freed once it has been joined.
Freed_continuation(rule) == IF rule = 21 THEN 1 ELSE 0

\* Copies of strings a rule frees.
Freed(rule) == IF rule \in {21, 22} THEN 1 ELSE 0

Popped(rule) == SubSeq(yystack, 1, Len(yystack) - At(yyr2, rule))

\* Fault: a simple value is taken for one again.
Reduced_again(rule) ==
    IF rule = 17 THEN yystack
    ELSE LET rest == Popped(rule)
         IN  Append(rest, [state |-> GotoFrom(rest[Len(rest)].state, rule), yyval |-> 0])

\* The rule's symbols give way to its left side.
Reduced(rule) ==
    LET rest == Popped(rule)
    IN  Append(rest, [state |-> GotoFrom(rest[Len(rest)].state, rule), yyval |-> 0])

Reduce ==
    /\ Decided
    /\ ShiftTo = 0
    /\ \E rule \in {At(yydefact, State)} : \E did \in {RuleAction(rule)} :
           /\ rule # 0
           /\ h' = did.h
           /\ ctx' = did.ctx
           /\ strings' = strings - Freed(rule)
           /\ IF did.error # "none"
              THEN Returns(1, yyerror(c, did.error)) /\ UNCHANGED yystacksize
              ELSE Push(Reduced(rule))
    /\ UNCHANGED <<yychar, toks, written>>
-----------------------------------------------------------------------------
\* Writing a configuration, as the tokens of the text that is written.
Token(sym, v) == [sym |-> sym, val |-> v]

\* How a scalar is written, by its type and format.
ScalarToken(s, conf) ==
    LET hex == config_setting_get_format(s, conf) = "HEX"
    IN  CASE s.type = "BOOL"   -> Token(TOK_BOOLEAN, s.value)
          [] s.type = "INT"    -> Token(IF hex THEN TOK_HEX ELSE TOK_INTEGER, s.value)
          [] s.type = "INT64"  -> Token(IF hex THEN TOK_HEX64 ELSE TOK_INTEGER64, s.value)
          [] s.type = "FLOAT"  -> Token(TOK_FLOAT, s.value)
          [] s.type = "STRING" -> Token(TOK_STRING, IF s.sval = << >> THEN << >> ELSE s.sval[1])
          [] s.type = "NONE"   -> Token(TOK_GARBAGE, NoValue)

\* A setting: its name, the tokens of its value, and what ends it.
config_write_setting(heap, conf, s, value) ==
    (IF heap[s].name = << >> THEN << >> ELSE <<Token(TOK_NAME, heap[s].name[1]), Token(TOK_EQUALS, NoValue)>>)
    \o value
    \o (IF s # conf.root /\ "SEMICOLON_SEPARATORS" \in conf.options THEN <<Token(TOK_SEMICOLON, NoValue)>> ELSE << >>)

\* A value: the elements of a list or an array, separated, or the settings of a
\* group, in brackets; the root has none.
config_write_value(heap, conf, s) ==
    LET Bracketed(open, tokens, close) == <<Token(open, NoValue)>> \o tokens \o <<Token(close, NoValue)>>
        value[x \in DOMAIN heap] ==
            LET list == heap[x].list
                Element(i) == IF i < Len(list) THEN Append(value[list[i]], Token(TOK_COMMA, NoValue)) ELSE value[list[i]]
                Member(i) == config_write_setting(heap, conf, list[i], value[list[i]])
                elements == FlattenSeq([i \in 1..Len(list) |-> Element(i)])
                members == FlattenSeq([i \in 1..Len(list) |-> Member(i)])
            IN  CASE heap[x].type = "LIST" -> Bracketed(TOK_LIST_START, elements, TOK_LIST_END)
                  [] heap[x].type = "ARRAY" -> Bracketed(TOK_ARRAY_START, elements, TOK_ARRAY_END)
                  [] heap[x].type = "GROUP" ->
                       IF x = conf.root THEN members ELSE Bracketed(TOK_GROUP_START, members, TOK_GROUP_END)
                  [] OTHER -> <<ScalarToken(heap[x], conf)>>
    IN  value[s]

config_write(heap, conf) == config_write_setting(heap, conf, conf.root, config_write_value(heap, conf, conf.root))

\* A file that cannot be opened is an error; otherwise the configuration that
\* was read is written.
config_write_file ==
    /\ rpc = "read"
    /\ yyresult = 0
    /\ \/ /\ c' = [c EXCEPT !.error_type = "NONE"]
          /\ written' = <<config_write(h, c)>>
       \/ /\ c' = [c EXCEPT !.error_text = "file I/O error", !.error_type = "FILE_IO"]
          /\ UNCHANGED written
    /\ rpc' = "over"
    /\ UNCHANGED <<h, lrVars, ctx, toks, strings>>

ParserNext ==
    /\ UNCHANGED input
    /\ \/ config_read_file
       \/ yylex
       \/ Shift
       \/ Reduce
       \/ SyntaxError
       \/ config_write_file

\* The parser is a loop in one thread.
ParserSpec == ParserInit /\ [][ParserNext]_parserVars /\ WF_parserVars(ParserNext)
-----------------------------------------------------------------------------
\* Every string the scanner copied has been freed when the input is accepted.
StringsFreed == strings >= 0 /\ (yyresult = 0 => strings = 0)

\* How deep the aggregates are nested behind the first k tokens.
Depth(ts, k) ==
    Cardinality({i \in 1..k : ts[i].sym \in Opening}) - Cardinality({i \in 1..k : ts[i].sym \in Closing})

\* The stack stays within what is allocated, and grows with the nesting of the
\* input only, never with the number of settings or elements: the parser gives
\* up only on input that is nested deeply.
StackGrowsWithNesting ==
    /\ Len(yystack) <= yystacksize
    /\ \E k \in 0..Len(toks) : Len(yystack) <= 7 + 6 * Depth(toks, k)
    /\ yyresult = 2 => \E k \in 0..Len(toks) : YYMAXDEPTH <= 7 + 6 * Depth(toks, k)

\* A read that fails says why, and the reason is the first one: what the
\* scanner found wrong with an include is not replaced by the syntax error that
\* its token leads to, nor its line by a later one.  A read that succeeds leaves
\* no error of an earlier one.
FirstErrorReported ==
    rpc = "read" =>
        /\ yyresult = 0 <=> c.error_text = "none"
        /\ yyresult # 0 => c.error_type \in {"PARSE", "FILE_IO"}
        /\ c.error_type = "PARSE" => c.error_line = toks[Len(toks)].line
        /\ (\E i \in 1..Len(toks) : toks[i].sym = TOK_ERROR) => c.error_text = "cannot open include file"

\* The parser comes to an end: no sequence of reductions goes on for ever.
ParseEnds == <>(rpc \in {"read", "over"})
=============================================================================
