----------------------------- MODULE ScanTables -----------------------------
(***************************************************************************)
(* scanner.c: the automaton of the scanner, with the tables of the file.   *)
(* A character is written as itself; one stands for its equivalence class. *)
(***************************************************************************)
EXTENDS Naturals, Sequences, FiniteSets

\* A character of each class of yy_ec, from class 1; tables are indexed from 0
\* in C.
Characters == << "?", " ", "\n", "\f", "\r", "\"", "#", "(", ")", "*", "+", ",", "-", ".", "/", "0", "1", ":", ";", "=",
    "@", "A", "B", "E", "F", "G", "L", "R", "S", "T", "U", "X", "[", "\\", "]", "_", "c", "d", "e", "f",
    "i", "l", "n", "r", "t", "u", "{", "}" >>
Char == {Characters[i] : i \in 1..Len(Characters)}

yy_ec == [ch \in Char |-> CHOOSE i \in 1..Len(Characters) : Characters[i] = ch]

yy_accept == <<
      0,   0,   0,   0,   0,   0,   0,   0,   0,  43,  41,  22,  21,  21,   5,  41,  37,  38,  29,  41,  24,  30,  41,  31,
     31,  23,  39,  29,  29,  35,  36,  25,  26,  22,  41,   3,   4,   3,   6,  15,  14,  17,  20,  42,  22,   0,  40,  29,
     30,  31,  30,   0,   1,   0,  30,   0,  32,   0,  29,  29,  22,   0,   0,   2,   6,  12,   0,  11,  10,   7,   8,   9,
     17,  19,  18,   0,  30,  30,   0,   0,  30,  32,  33,  29,  29,   0,   0,   0,  30,  34,  29,  27,   0,  13,  34,  28,
      0,   0,   0,   0,   0,  16,   0 >>

yy_meta == <<
      0,   1,   1,   1,   1,   1,   2,   1,   1,   1,   3,   1,   1,   3,   1,   1,   4,   4,   1,   1,   1,   1,   4,   4,
      4,   4,   3,   3,   3,   3,   3,   3,   3,   1,   2,   1,   3,   4,   4,   4,   4,   3,   3,   3,   3,   3,   3,   1,
      1 >>

yy_base == <<
      0,   0,  47,  47,  48,  46,  47,  48,  49, 203, 204, 200, 204, 204, 204, 198, 204, 204,   0,  45, 204,  47,  50,  60,
     74, 204, 204, 178,  28, 204, 204, 204, 204,  64, 158, 204, 204, 183,   0, 204,  63,   0, 204,  83, 195, 193, 204,   0,
     88, 102,  98,  62, 204, 190, 104, 119, 162,   0,  67,  65, 121, 127, 124, 204,   0, 204,   0, 204, 204, 204, 204, 204,
      0, 204, 204, 108, 117, 122, 134, 132, 136, 204, 139, 136, 116, 126,   0, 140, 142, 135, 130,   0, 102, 204, 204,   0,
     85,  72,  63,  98, 158, 204, 204, 169, 173, 177, 181, 183, 187, 191,  89,  66,  63 >>

yy_def == <<
      0, 102,   1, 103, 103, 104, 104, 105, 105, 102, 102, 102, 102, 102, 102, 106, 102, 102, 107, 102, 102, 102, 102, 102,
    102, 102, 102, 107, 107, 102, 102, 102, 102, 102, 102, 102, 102, 102, 108, 102, 102, 109, 102, 102, 102, 106, 102, 107,
    102, 102, 102, 102, 102, 106, 102, 102, 102, 110, 107, 107, 102, 102, 102, 102, 108, 102, 111, 102, 102, 102, 102, 102,
    109, 102, 102, 102, 102, 102, 102, 102, 102, 102, 110, 107, 107, 102, 112, 102, 102, 102, 107, 107, 102, 102, 102, 107,
    102, 102, 102, 102, 102, 102,   0, 102, 102, 102, 102, 102, 102, 102, 102, 102, 102 >>

yy_nxt == <<
      0,  10,  11,  12,  13,  13,  14,  15,  16,  17,  18,  19,  20,  19,  21,  22,  23,  24,  25,  26,  25,  10,  18,  18,
     18,  27,  18,  18,  18,  18,  28,  18,  18,  29,  10,  30,  10,  18,  18,  18,  27,  18,  18,  18,  18,  28,  18,  31,
     32,  33,  36,  36,  39,  39,  42,  42,  59,  37,  37,  48,  52,  49,  49,  50,  50,  53,  60,  93,  34,  65,  86,  51,
     59,  75,  54,  75,  49,  49,  76,  76,  40,  40,  43,  43,  55,  61,  51,  56,  54,  73,  49,  49,  57,  82,  83,  66,
     84,  67,  55,  55, 100,  56,  99,  68,  50,  50,  69,  70,  71,  83,  98,  84,  51,  55,  50,  50,  54,  74,  49,  49,
     77,  77,  51,  60,  76,  76,  55,  51,  78,  56,  79,  97,  79,  76,  76,  80,  80,  51,  77,  77,  91,  55,  61,  78,
     96,  87,  78,  87,  80,  80,  88,  88,  80,  80,  95,  91,  88,  88,  88,  88, 100,  78,  94,  92, 101,  90,  89,  85,
     62,  95,  35,  35,  35,  35,  38,  38,  38,  38,  41,  41,  41,  41,  45,  45,  45,  45,  47,  47,  64,  81,  64,  64,
     72,  46,  72,  72,  46,  44,  63,  62,  58,  46,  44, 102,   9, 102, 102, 102, 102, 102, 102, 102, 102, 102, 102, 102,
    102, 102, 102, 102, 102, 102, 102, 102, 102, 102, 102, 102, 102, 102, 102, 102, 102, 102, 102, 102, 102, 102, 102, 102,
    102, 102, 102, 102, 102, 102, 102, 102, 102, 102, 102, 102, 102 >>

yy_chk == <<
      0,   1,   1,   1,   1,   1,   1,   1,   1,   1,   1,   1,   1,   1,   1,   1,   1,   1,   1,   1,   1,   1,   1,   1,
      1,   1,   1,   1,   1,   1,   1,   1,   1,   1,   1,   1,   1,   1,   1,   1,   1,   1,   1,   1,   1,   1,   1,   1,
      1,   2,   3,   4,   5,   6,   7,   8,  28,   3,   4,  19,  22,  19,  19,  21,  21,  22,  33, 112,   2,  40, 111,  21,
     28,  51,  23,  51,  23,  23,  51,  51,   5,   6,   7,   8,  23,  33,  21,  23,  24,  43,  24,  24,  23, 110,  58,  40,
     59,  40,  24,  23,  99,  24,  98,  40,  48,  48,  40,  40,  40,  58,  97,  59,  48,  24,  50,  50,  49,  43,  49,  49,
     54,  54,  50,  60,  75,  75,  49,  48,  54,  49,  55,  96,  55,  76,  76,  55,  55,  50,  77,  77,  84,  49,  60,  54,
     92,  78,  77,  78,  79,  79,  78,  78,  80,  80,  90,  84,  87,  87,  88,  88, 100,  77,  89,  85, 100,  83,  82,  62,
     61,  90, 103, 103, 103, 103, 104, 104, 104, 104, 105, 105, 105, 105, 106, 106, 106, 106, 107, 107, 108,  56, 108, 108,
    109,  53, 109, 109,  45,  44,  37,  34,  27,  15,  11,   9, 102, 102, 102, 102, 102, 102, 102, 102, 102, 102, 102, 102,
    102, 102, 102, 102, 102, 102, 102, 102, 102, 102, 102, 102, 102, 102, 102, 102, 102, 102, 102, 102, 102, 102, 102, 102,
    102, 102, 102, 102, 102, 102, 102, 102, 102, 102, 102, 102, 102 >>

\* The rules whose text may have a newline in it.
yy_rule_can_match_eol == {4, 6, 17, 21}

\* The state from which nothing can be matched any more.
YY_JAM == 102

\* t[i] of C.
Entry(t, i) == t[i + 1]

\* The start conditions, and the state each begins in; at the beginning of a
\* line it is the next one.
StartConditions == <<"INITIAL", "COMMENT", "STRING", "INCLUDE">>
StartState(sc, bol) ==
    LET i == CHOOSE i \in 1..4 : StartConditions[i] = sc IN 2 * i - 1 + IF bol THEN 1 ELSE 0

\* The transitions of a state: the tables are compressed, a state that has no
\* entry of its own for a class has that of its default state.
NextState[st \in 1..112] ==
    [class \in 1..48 |->
        LET i == Entry(yy_base, st) + class
            d == Entry(yy_def, st)
        IN  IF Entry(yy_chk, i) = st THEN Entry(yy_nxt, i)
            ELSE NextState[d][IF d >= 103 THEN Entry(yy_meta, class) ELSE class]]

\* A match so far: where it is in the text and the state there, and the rule of
\* the last accepting state with the place it was met at.
Matching(text) == [at : 0..Len(text), state : 1..YY_JAM, rule : 0..43, end : 0..Len(text)]

\* The state is noted when it accepts.
RuleAt(m) == IF Entry(yy_accept, m.state) = 0 THEN m.rule ELSE Entry(yy_accept, m.state)
EndAt(m) == IF Entry(yy_accept, m.state) = 0 THEN m.end ELSE m.at

\* The state behind the next character; at the end of the text there is none.
StateAfter(text, m) == IF m.at = Len(text) THEN YY_JAM ELSE NextState[m.state][yy_ec[text[m.at + 1]]]
Advanced(text, m) == [at |-> m.at + 1, state |-> StateAfter(text, m), rule |-> RuleAt(m), end |-> EndAt(m)]

\* yy_match on text from state start: the rule of the last accepting state, where
\* its text ends, and whether the end of the text was reached before the
\* automaton jammed.
yy_match(text, start) ==
    LET Run[m \in Matching(text)] ==
            IF StateAfter(text, m) = YY_JAM
            THEN [rule |-> RuleAt(m), end |-> EndAt(m), eob |-> m.at = Len(text)]
            ELSE Run[Advanced(text, m)]
    IN  Run[[at |-> 0, state |-> start, rule |-> 0, end |-> 0]]
-----------------------------------------------------------------------------
\* The rules of a start condition in scanner.l; the last is flex's own, for
\* anything else.
RulesOf(sc, bol) ==
    CASE sc = "INITIAL" -> {1, 5, 42} \cup 21..41 \cup (IF bol THEN {16} ELSE {})
      [] sc = "COMMENT" -> 2..4 \cup {42}
      [] sc = "STRING" -> 6..15 \cup {42}
      [] sc = "INCLUDE" -> 17..20 \cup {42}

\* The states the automaton gets to from a start condition.
StatesOf(sc) ==
    CASE sc = "INITIAL" -> {1, 2} \cup (10..34) \cup (44..62) \cup (75..85) \cup (87..92) \cup (94..101)
      [] sc = "COMMENT" -> {3, 4, 63} \cup (35..37)
      [] sc = "STRING"  -> {5, 6, 86, 93} \cup (38..40) \cup (64..71)
      [] sc = "INCLUDE" -> {7, 8} \cup (41..43) \cup (72..74)

\* The states behind a newline.
BehindNewline == {12, 36, 38, 41, 46, 64, 72}

\* What the tables say.  The automaton stays within its states.
ASSUME TablesClosed ==
    \A st \in 1..YY_JAM :
        /\ Entry(yy_accept, st) \in 0..43
        /\ \A class \in 1..48 : NextState[st][class] \in 1..YY_JAM

\* A start condition has states and rules of its own, and no rule matches nothing.
ASSUME StartConditionsApart ==
    \A i \in 1..4 :
        LET sc == StartConditions[i]
        IN  /\ {2 * i - 1, 2 * i} \subseteq StatesOf(sc)
            /\ Entry(yy_accept, 2 * i - 1) = 0 /\ Entry(yy_accept, 2 * i) = 0
            /\ \A st \in StatesOf(sc) :
                   /\ Entry(yy_accept, st) \in {0} \cup RulesOf(sc, TRUE)
                   /\ \A class \in 1..48 : NextState[st][class] \in StatesOf(sc) \cup {YY_JAM}

\* A newline is in the text of the rules of yy_rule_can_match_eol only, but for
\* the one that rule 40 ends with.
ASSUME NewlinesKnown ==
    \A st \in 1..(YY_JAM - 1) :
        /\ NextState[st][yy_ec["\n"]] \in BehindNewline \cup {YY_JAM}
        /\ st \in BehindNewline =>
               /\ Entry(yy_accept, st) \in yy_rule_can_match_eol \cup {40}
               /\ \A class \in 1..48 : NextState[st][class] \in BehindNewline \cup {YY_JAM}
        /\ \A class \in 1..48 : Entry(yy_accept, NextState[st][class]) = 40 => st \notin BehindNewline
=============================================================================
