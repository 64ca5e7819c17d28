---------------------------- MODULE ConfigScanner ----------------------------
(***************************************************************************)
(* scanner.c, scanctx.c and strbuf.c: libconfig's scanner, from            *)
(* __config_read's call of yylex_init to its clean-up.  One step is the    *)
(* matching of a rule with its action, the filling of the buffer, or the   *)
(* end of a file.  The parser may ask for a next token or give up after    *)
(* any token.                                                              *)
(***************************************************************************)
EXTENDS ScanTables, SequencesExt

CONSTANTS
    Inputs,             \* kinds of input, each with its bounds
    YY_BUF_SIZE,        \* characters of a new buffer
    YY_READ_BUF_SIZE,   \* characters asked for in one read
    MAX_INCLUDE_DEPTH,
    STRING_BLOCK_SIZE,  \* strbuf grows by blocks
    CHUNK_SIZE          \* and the list of file names by chunks

\* A kind of input: alphabets, sets of texts of which a file is put together;
\* sources, config_read's "stream" and config_read_string's "string"; includes,
\* what includes name: "missing", "directory", "file"; and the bounds maxTexts
\* (texts in a file), maxStreams (include files opened in one read) and
\* readSizes (characters a read may bring at most).
ASSUME ScannerAssumption ==
    /\ \A i \in Inputs :
           /\ \A a \in i.alphabets : a \subseteq Seq(Char)
           /\ {i.maxTexts, i.maxStreams} \subseteq Nat
           /\ i.readSizes \subseteq Nat \ {0}
    /\ MAX_INCLUDE_DEPTH \in Nat
    /\ {YY_BUF_SIZE, YY_READ_BUF_SIZE, STRING_BLOCK_SIZE, CHUNK_SIZE} \subseteq Nat \ {0}

VARIABLES
    input,      \* the kind of input, one of Inputs
    streams,    \* the files: what is in them, what is left to read, how often closed
    bufs,       \* the buffers created: yy_buffer_state, with how often it was deleted
    yyg,        \* the scanner: the current buffer, yy_c_buf_p, yyin, yy_start
    sctx,       \* scan_context: the include stack, the string, the file names
    spc,        \* "match", "last", "eof", "token", "over", "exit"
    matches,    \* history: the rules matched, with what they matched it in
    error       \* config's error_text, error_line and error_file

scannerVars == <<input, streams, bufs, yyg, sctx, spc, matches, error>>

NoBuffer == 0
NoStream == 0
TopName == <<"f">>
Newlines(text) == Cardinality({i \in 1..Len(text) : text[i] = "\n"})
-----------------------------------------------------------------------------
\* strbuf.c: a string that grows.
EmptyString == [string |-> << >>, capacity |-> 0]

strbuf_append(buf, text) ==
    LET newlen   == Len(buf.string) + Len(text) + 1
        rounded  == ((newlen + STRING_BLOCK_SIZE - 1) \div STRING_BLOCK_SIZE) * STRING_BLOCK_SIZE
    IN  [string |-> buf.string \o text, capacity |-> IF newlen > buf.capacity THEN rounded ELSE buf.capacity]

\* Fault: the string is handed over and kept.
strbuf_release_kept(buf) == buf

\* The string is handed over, and the next one begins empty.
strbuf_release(buf) == EmptyString
-----------------------------------------------------------------------------
\* flex's buffers.  ch is what is in yy_ch_buf, yy_buf_pos how much of it has
\* been scanned when the buffer is not the current one.
yy_flush_buffer(b) ==
    [b EXCEPT !.ch = << >>, !.yy_buf_pos = 0, !.yy_at_bol = TRUE, !.yy_buffer_status = "NEW"]

\* The line starts again, unless the buffer is the current one.
yy_init_buffer(b, stream, isCurrent) ==
    [yy_flush_buffer(b) EXCEPT !.yy_input_file = stream, !.yy_fill_buffer = TRUE,
                               !.yy_bs_lineno = IF isCurrent THEN @ ELSE 1]

\* Allocated with the size given, and what yyset_lineno sets in the first.
yy_buffer_state(size) ==
    [ch |-> << >>, yy_buf_pos |-> 0, yy_buf_size |-> size, yy_at_bol |-> TRUE, yy_bs_lineno |-> 1,
     yy_input_file |-> NoStream, yy_fill_buffer |-> FALSE, yy_buffer_status |-> "NEW",
     deleted |-> 0, text |-> << >>]

yy_create_buffer(stream) == yy_init_buffer(yy_buffer_state(YY_BUF_SIZE), stream, FALSE)

\* A buffer that holds all of a string, and is never filled.
yy_scan_buffer(base) == [yy_buffer_state(Len(base)) EXCEPT !.ch = base]

\* The string is copied first.
yy_scan_bytes(text) == yy_scan_buffer(text)

\* At the end of a file: the current buffer, emptied.  The line stays.
yyrestart(b, stream) == yy_init_buffer(b, stream, TRUE)

yy_delete_buffer(all, b) == [all EXCEPT ![b].deleted = @ + 1]

\* The scanner goes on where the buffer says, in the buffer's file.
yy_load_buffer_state(g, b, buffer) ==
    [g EXCEPT !.current = b, !.yy_c_buf_p = buffer.yy_buf_pos, !.yyin = buffer.yy_input_file]

\* The buffer scanned so far, if it is still there, keeps its place; the place
\* and the file of the new one are taken up.
yy_switch_to_buffer(all, g, b) ==
    LET kept == IF g.current = NoBuffer THEN all ELSE [all EXCEPT ![g.current].yy_buf_pos = g.yy_c_buf_p]
    IN  [bufs |-> kept, yyg |-> yy_load_buffer_state(g, b, kept[b])]

Current == bufs[yyg.current]
Unscanned == SubSeq(Current.ch, yyg.yy_c_buf_p + 1, Len(Current.ch))
-----------------------------------------------------------------------------
\* scanctx.c: the files that are being read, the outermost first.
depth == Len(sctx.stack)
scanctx_current_filename(s) == IF s.stack = << >> THEN s.top_filename ELSE Last(s.stack).file

\* A name that is in the list already is not added again.
scanctx_add_filename(s, file) ==
    IF file \in Range(s.filenames) THEN s
    ELSE [s EXCEPT !.filenames = Append(@, file),
                   !.room = IF Len(s.filenames) % CHUNK_SIZE = 0 THEN Len(s.filenames) + CHUNK_SIZE ELSE @]

scanctx_init(top) ==
    LET s == [stack |-> << >>, string |-> EmptyString, filenames |-> << >>, room |-> 0, top_filename |-> top]
    IN  IF top = << >> THEN s ELSE scanctx_add_filename(s, top)

\* The file is open: it is the one read from now on.
scanctx_push_include(s, buffer, stream) ==
    LET file  == s.string.string
        named == scanctx_add_filename(s, file)
    IN  [named EXCEPT !.string = strbuf_release(@),
                      !.stack = Append(@, [file |-> file, buffer |-> buffer, stream |-> stream])]

\* Fault: the first of the files is closed.
scanctx_pop_include_first(all, s) == [all EXCEPT ![Head(s.stack).stream].closed = @ + 1]

\* What the streams are once the last file has been left.
scanctx_pop_include(all, s) == [all EXCEPT ![Last(s.stack).stream].closed = @ + 1]

\* The files that are still on the stack are closed.
scanctx_cleanup(all, s) ==
    [f \in DOMAIN all |-> IF \E i \in 1..Len(s.stack) : s.stack[i].stream = f
                          THEN [all[f] EXCEPT !.closed = @ + 1] ELSE all[f]]
-----------------------------------------------------------------------------
\* Texts, one behind the other.
Joined(texts) ==
    LET upTo[k \in 0..Len(texts)] == IF k = 0 THEN << >> ELSE upTo[k - 1] \o texts[k]
    IN  upTo[Len(texts)]

Contents ==
    [i \in Inputs |-> {Joined(p) : p \in UNION {[1..n -> a] : n \in 0..i.maxTexts, a \in i.alphabets}}]
StreamOf(text, isDirectory) == [all |-> text, rest |-> text, directory |-> isDirectory, closed |-> 0]

NoError == [text |-> "none", line |-> 0, file |-> << >>]

\* A scanner without a buffer.
yy_init_globals == [current |-> NoBuffer, yy_c_buf_p |-> 0, yyin |-> NoStream, yy_start |-> "INITIAL"]

\* __config_read: the scanner is set on the stream or the string.
ScannerInit ==
    \E i \in Inputs : \E text \in Contents[i], source \in i.sources :
        LET file == source = "stream"
        IN  /\ input = i
            /\ streams = IF file THEN <<StreamOf(text, FALSE)>> ELSE << >>
            /\ bufs = <<[(IF file THEN yy_create_buffer(1) ELSE yy_scan_bytes(text)) EXCEPT !.text = text]>>
            /\ yyg = yy_load_buffer_state(yy_init_globals, 1, bufs[1])
            /\ sctx = scanctx_init(IF file THEN TopName ELSE << >>)
            /\ spc = "match"
            /\ matches = << >>
            /\ error = NoError
-----------------------------------------------------------------------------
\* Tokens and what they were made of.
RuleToken == [r \in {15} \cup (23..39) \cup {41} |->
    CASE r = 15 -> "STRING" [] r = 23 -> "EQUALS" [] r = 24 -> "COMMA" [] r = 25 -> "GROUP_START"
      [] r = 26 -> "GROUP_END" [] r \in {27, 28} -> "BOOLEAN" [] r = 29 -> "NAME" [] r = 30 -> "FLOAT"
      [] r = 31 -> "INTEGER" [] r = 32 -> "INTEGER64" [] r = 33 -> "HEX" [] r = 34 -> "HEX64"
      [] r = 35 -> "ARRAY_START" [] r = 36 -> "ARRAY_END" [] r = 37 -> "LIST_START" [] r = 38 -> "LIST_END"
      [] r = 39 -> "SEMICOLON" [] r = 41 -> "GARBAGE"]

\* The characters a rule adds to the string: an escape stands for one, and a
\* coded NUL for none, as the string ends there.
Appended(rule, text) ==
    CASE rule \in {6, 17} -> text
      [] rule = 7 -> <<"\n">> [] rule = 8 -> <<"\r">> [] rule = 9 -> <<" ">> [] rule = 10 -> <<"\f">>
      [] rule \in {11, 14, 18} -> <<"\\">> [] rule \in {12, 19} -> <<"\"">>
      [] rule = 13 -> IF SubSeq(text, 3, 4) = <<"0", "0">> THEN << >> ELSE <<"?">>
      [] OTHER -> << >>

\* BEGIN
StartAfter(rule) ==
    CASE rule = 1 -> "COMMENT" [] rule \in {2, 15} -> "INITIAL" [] rule = 5 -> "STRING"
      [] rule = 16 -> "INCLUDE" [] OTHER -> yyg.yy_start

Matched == yy_match(Unscanned, StartState(yyg.yy_start, Current.yy_at_bol))

\* Fault: the newline behind a comment is taken with it.
TextEnd_newline(m) == m.end

\* Rule 40 gives back the newline it has to see.
TextEnd(m) == IF m.rule = 40 THEN m.end - 1 ELSE m.end

\* Fault: newlines in strings and names are not counted.
LinesIn_string(rule, text) == IF rule \in yy_rule_can_match_eol \ {6, 17} THEN Newlines(text) ELSE 0

LinesIn(rule, text) == IF rule \in yy_rule_can_match_eol THEN Newlines(text) ELSE 0

\* What every rule does: the text is behind the scanner, its lines are counted.
RuleSetup(m) ==
    LET text == SubSeq(Unscanned, 1, TextEnd(m))
    IN  [Current EXCEPT !.yy_at_bol = Last(text) = "\n", !.yy_bs_lineno = @ + LinesIn(m.rule, text)]

Noted(m) ==
    Append(matches, [rule |-> m.rule, end |-> m.end, start |-> yyg.yy_start, bol |-> Current.yy_at_bol,
                     buffer |-> yyg.current])

\* The scanner can go on: the buffer ends behind a match, or there is no more
\* to come and the longest match so far counts.
MayMatch == spc = "last" \/ (spc \in {"match", "token"} /\ ~ Matched.eob)

\* Every rule but the end of an include directive.
MatchRule == \E m \in {Matched} :
    LET text == SubSeq(Unscanned, 1, TextEnd(m))
    IN  /\ MayMatch
        /\ m.rule # 20
        /\ bufs' = [bufs EXCEPT ![yyg.current] = RuleSetup(m)]
        /\ yyg' = [yyg EXCEPT !.yy_c_buf_p = @ + TextEnd(m), !.yy_start = StartAfter(m.rule)]
        /\ sctx' = [sctx EXCEPT !.string =
                        IF m.rule = 15 THEN strbuf_release(@)
                        ELSE IF m.rule \in (6..19) \ {16} THEN strbuf_append(@, Appended(m.rule, text)) ELSE @]
        /\ spc' = IF m.rule \in DOMAIN RuleToken THEN "token" ELSE "match"
        /\ matches' = Noted(m)
        /\ UNCHANGED <<streams, error>>

\* Rule 20, when there is no room for one more file, or no such file:
\* TOK_ERROR, with the error noted.
IncludeFails == \E m \in {Matched} :
    LET tooDeep == depth = MAX_INCLUDE_DEPTH
    IN  /\ MayMatch
        /\ m.rule = 20
        /\ tooDeep \/ "missing" \in input.includes
        /\ bufs' = [bufs EXCEPT ![yyg.current] = RuleSetup(m)]
        /\ yyg' = [yyg EXCEPT !.yy_c_buf_p = @ + TextEnd(m)]
        /\ sctx' = IF tooDeep THEN sctx ELSE [sctx EXCEPT !.string = strbuf_release(@)]
        /\ error' = [text |-> IF tooDeep THEN "include file nesting too deep" ELSE "cannot open include file",
                     line |-> Current.yy_bs_lineno, file |-> scanctx_current_filename(sctx)]
        /\ spc' = "token"
        /\ matches' = Noted(m)
        /\ UNCHANGED streams

RoomForInclude == depth # MAX_INCLUDE_DEPTH

\* Rule 20: the file is opened and read from now on, with a buffer of its own.
\* fopen also succeeds for a directory, but not for an empty name (include_dir is
\* not set).
IncludeOpens == \E m \in {Matched} :
    LET stream == Len(streams) + 1
        buffer == Len(bufs) + 1
        behind == [bufs EXCEPT ![yyg.current] = RuleSetup(m)]
        g == [yyg EXCEPT !.yy_c_buf_p = @ + TextEnd(m)]
    IN  /\ MayMatch
        /\ m.rule = 20
        /\ RoomForInclude
        /\ sctx.string.string # << >>
        /\ stream <= input.maxStreams + 1
        /\ \E text \in Contents[input], kind \in input.includes \ {"missing"} :
               LET isDirectory == kind = "directory"
                   made == Append(behind, [yy_create_buffer(stream) EXCEPT !.text = IF isDirectory THEN << >> ELSE text])
                   switched == yy_switch_to_buffer(made, g, buffer)
               IN  /\ isDirectory => text = << >>
                   /\ streams' = Append(streams, StreamOf(text, isDirectory))
                   /\ bufs' = switched.bufs
                   /\ yyg' = [switched.yyg EXCEPT !.yy_start = "INITIAL"]
        /\ sctx' = scanctx_push_include(sctx, yyg.current, stream)
        /\ spc' = "match"
        /\ matches' = Noted(m)
        /\ UNCHANGED error
-----------------------------------------------------------------------------
\* The size a buffer is given so that something can be read into it.
Enlarged(size, moved) == IF size - moved - 1 = 0 THEN 2 * size ELSE size

\* Fault: the text that is kept is forgotten.
NumToRead_all(size, moved) ==
    LET n == Enlarged(size, moved) - 1
    IN  IF n < 0 \/ n > YY_READ_BUF_SIZE THEN YY_READ_BUF_SIZE ELSE n

\* The number of characters to read.  It is unsigned: a negative one is large.
NumToRead(size, moved) ==
    LET n == Enlarged(size, moved) - moved - 1
    IN  IF n < 0 \/ n > YY_READ_BUF_SIZE THEN YY_READ_BUF_SIZE ELSE n

\* Fault: at the end of the file there is an attempt to read more.
AtEnd_more(moved) == IF moved = << >> THEN "match" ELSE "last"

\* EOB_ACT_END_OF_FILE, or EOB_ACT_LAST_MATCH for what is left of a token.
AtEnd(moved) == IF moved = << >> THEN "eof" ELSE "last"

\* The end of the buffer, and it is not to be filled: yy_get_next_buffer says
\* what the text before it counts for.
EndOfString ==
    /\ spc \in {"match", "token"}
    /\ Matched.eob
    /\ ~ Current.yy_fill_buffer
    /\ spc' = AtEnd(Unscanned)
    /\ UNCHANGED <<streams, bufs, yyg, sctx, matches, error>>

\* The end of the buffer: the text of the token so far is moved to the front and
\* more is read behind it: as much as there is room for, or less when the read
\* is interrupted, but at least one character.
Refill ==
    LET moved == Unscanned
        room  == NumToRead(Current.yy_buf_size, Len(moved))
        left  == streams[yyg.yyin].rest
        b == [Current EXCEPT !.yy_buffer_status = IF @ = "NEW" THEN "NORMAL" ELSE @,
                             !.yy_input_file = yyg.yyin, !.ch = moved]
    IN  /\ spc \in {"match", "token"}
        /\ Matched.eob
        /\ Current.yy_fill_buffer
        /\ Current.yy_buffer_status # "EOF_PENDING"
        /\ ~ streams[yyg.yyin].directory
        /\ left # << >>
        /\ \E n \in {Min({r, room, Len(left)}) : r \in input.readSizes} :
               /\ bufs' = [bufs EXCEPT ![yyg.current] =
                              [b EXCEPT !.ch = moved \o SubSeq(left, 1, n),
                                        !.yy_buf_size = Enlarged(@, Len(moved))]]
               /\ streams' = [streams EXCEPT ![yyg.yyin].rest = SubSeq(left, n + 1, Len(left))]
        /\ yyg' = [yyg EXCEPT !.yy_c_buf_p = 0]
        /\ spc' = "match"
        /\ UNCHANGED <<sctx, matches, error>>

\* The end of the buffer and of the file: what there is of a token counts first,
\* with the end of the file still to come.
ReadsNothing ==
    LET moved == Unscanned
        b == [Current EXCEPT !.ch = moved, !.yy_input_file = yyg.yyin,
                             !.yy_buf_size = IF Current.yy_buffer_status = "EOF_PENDING" THEN @
                                             ELSE Enlarged(@, Len(moved))]
    IN  /\ spc \in {"match", "token"}
        /\ Matched.eob
        /\ Current.yy_fill_buffer
        /\ Current.yy_buffer_status = "EOF_PENDING"
           \/ (streams[yyg.yyin].rest = << >> /\ ~ streams[yyg.yyin].directory)
        /\ bufs' = [bufs EXCEPT ![yyg.current] = IF moved = << >> THEN yyrestart(b, yyg.yyin)
                                                 ELSE [b EXCEPT !.yy_buffer_status = "EOF_PENDING"]]
        /\ yyg' = [yyg EXCEPT !.yy_c_buf_p = 0]
        /\ spc' = AtEnd(moved)
        /\ UNCHANGED <<streams, sctx, matches, error>>

\* Reading fails for a directory, and yy_fatal_error ends the process.
ReadFails ==
    /\ spc \in {"match", "token"}
    /\ Matched.eob
    /\ Current.yy_fill_buffer
    /\ streams[yyg.yyin].directory
    /\ spc' = "exit"
    /\ UNCHANGED <<streams, bufs, yyg, sctx, matches, error>>

\* The end-of-file rule, inside an include: back to the file that has it.  The
\* start condition stays what it is.
EndOfInclude ==
    LET back == Last(sctx.stack).buffer
        switched == yy_switch_to_buffer(yy_delete_buffer(bufs, yyg.current), [yyg EXCEPT !.current = NoBuffer], back)
    IN  /\ spc = "eof"
        /\ depth > 0
        /\ streams' = scanctx_pop_include(streams, sctx)
        /\ sctx' = [sctx EXCEPT !.stack = Front(@)]
        /\ bufs' = switched.bufs
        /\ yyg' = switched.yyg
        /\ spc' = "match"
        /\ UNCHANGED <<matches, error>>

\* All that scanning holds on to.
Held == [bufs |-> bufs, streams |-> streams, sctx |-> sctx]

\* Fault: the files that are still included are not left.
Unwound_not == Held

\* The parser has failed: each include is popped, which closes its file, and
\* the buffer of the file it is in is deleted.
Unwound ==
    [bufs    |-> [b \in DOMAIN bufs |-> IF \E i \in 1..depth : sctx.stack[i].buffer = b
                                        THEN [bufs[b] EXCEPT !.deleted = @ + 1] ELSE bufs[b]],
     streams |-> [f \in DOMAIN streams |-> IF \E i \in 1..depth : sctx.stack[i].stream = f
                                           THEN [streams[f] EXCEPT !.closed = @ + 1] ELSE streams[f]],
     sctx    |-> [sctx EXCEPT !.stack = << >>]]

\* The buffer stack has one entry, the current buffer.
yylex_destroy(all) == yy_delete_buffer(all, yyg.current)

\* __config_read after yyparse: if it failed, the place of the error is noted and
\* the include stack is unwound; then yylex_destroy and scanctx_cleanup.
ScannerDestroyed(failed) ==
    LET held == IF failed THEN Unwound ELSE Held
    IN  /\ bufs' = yylex_destroy(held.bufs)
        /\ streams' = scanctx_cleanup(held.streams, held.sctx)
        /\ sctx' = [held.sctx EXCEPT !.string = strbuf_release(@), !.stack = << >>]
        /\ error' = IF failed
                    THEN [text |-> IF error.text = "none" THEN "syntax error" ELSE error.text,
                          line |-> IF error.text = "none" THEN Current.yy_bs_lineno ELSE error.line,
                          file |-> scanctx_current_filename(sctx)]
                    ELSE error
        /\ spc' = "over"
        /\ UNCHANGED <<yyg, matches>>

\* TOK_EOF: the parser takes it, or fails for what is missing.
EndOfScan ==
    /\ spc = "eof"
    /\ depth = 0
    /\ \E failed \in BOOLEAN : ScannerDestroyed(failed)

\* The parser fails on a token: on any that does not fit, and always on an error.
ParserFails == spc = "token" /\ ScannerDestroyed(TRUE)

\* The parser fails on TOK_ERROR and TOK_GARBAGE, and asks for no more.
MayGoOn ==
    spc = "token" => error.text = "none" /\ Last(matches).rule # 41

ScannerNext ==
    /\ UNCHANGED input
    /\ \/ MayGoOn /\ MatchRule
       \/ MayGoOn /\ IncludeFails
       \/ MayGoOn /\ IncludeOpens
       \/ MayGoOn /\ EndOfString
       \/ MayGoOn /\ Refill
       \/ MayGoOn /\ ReadsNothing
       \/ MayGoOn /\ ReadFails
       \/ EndOfInclude
       \/ EndOfScan
       \/ ParserFails

ScannerSpec == ScannerInit /\ [][ScannerNext]_scannerVars /\ WF_scannerVars(ScannerNext)
-----------------------------------------------------------------------------
\* The text of a match, without the newline behind a line comment: the pattern
\* needs it, and the next match is to begin with it.
Consumed(m) == IF m.rule = 40 THEN m.end - 1 ELSE m.end

\* How much of the text of buffer b the matches took.
Taken(ms, b) ==
    LET upTo[k \in 0..Len(ms)] ==
            IF k = 0 THEN 0
            ELSE IF ms[k].buffer = b THEN upTo[k - 1] + Consumed(ms[k]) ELSE upTo[k - 1]
    IN  upTo[Len(ms)]

\* The line of every buffer is that of its own file, also while another is read.
LinesCounted ==
    \A b \in DOMAIN bufs :
        bufs[b].yy_bs_lineno = 1 + Newlines(SubSeq(bufs[b].text, 1, Taken(matches, b)))

\* Nothing is written behind what is allocated: the input buffers, the string,
\* the list of file names.
WithinBounds ==
    /\ \A b \in DOMAIN bufs : Len(bufs[b].ch) <= bufs[b].yy_buf_size
    /\ sctx.string.string # << >> => Len(sctx.string.string) < sctx.string.capacity
    /\ Len(sctx.filenames) <= sctx.room
    /\ depth <= MAX_INCLUDE_DEPTH

\* While files are read, the buffer in use is that of the innermost, and each
\* one that waits is that of the file it is to go on with: a token, its line
\* and the name of its file belong together.  No buffer in use has been deleted
\* and no file that is to be read on is closed.
IncludeStackSound ==
    LET Level(i) == IF i > depth THEN yyg.current ELSE sctx.stack[i].buffer
        InUse == {Level(i) : i \in 1..(depth + 1)}
    IN  spc \notin {"over", "exit"} =>
            /\ Cardinality(InUse) = depth + 1
            /\ \A b \in InUse : bufs[b].deleted = 0
            /\ \A i \in 1..depth : /\ bufs[Level(i + 1)].yy_input_file = sctx.stack[i].stream
                                   /\ streams[sctx.stack[i].stream].closed = 0
                                   /\ sctx.stack[i].file \in Range(sctx.filenames)
            /\ yyg.yyin = Current.yy_input_file

\* Once the read is over, whether it failed or not and wherever it stopped,
\* every buffer has been deleted and every included file closed, each once, and
\* the file named in the error is one whose name is kept.
EverythingReleased ==
    spc = "over" =>
        /\ \A b \in DOMAIN bufs : bufs[b].deleted = 1
        /\ \A s \in DOMAIN streams : streams[s].closed = IF bufs[1].yy_input_file = s THEN 0 ELSE 1
        /\ error.file \in Range(sctx.filenames) \cup {<< >>}

\* A string and a file name begin empty: nothing of an earlier one, or of an
\* include that failed, is left in the string buffer.
StringsBeginEmpty == yyg.yy_start \in {"INITIAL", "COMMENT"} => sctx.string = EmptyString

\* Every read ends, also when files include each other.
ScanEnds == <>(spc \in {"over", "exit"})
==============================================================================
