---------------------------- MODULE ScanPatterns ----------------------------
(***************************************************************************)
(* What the automaton of scanner.c is compared with: the patterns of       *)
(* scanner.l it was made from, and the text of a file as a whole.          *)
(***************************************************************************)
EXTENDS ConfigScanner

\* The patterns of scanner.l.
One(S) == [op |-> "class", of |-> S]
Or(p, q) == [op |-> "or", left |-> p, right |-> q]
Cat(p, q) == [op |-> "cat", left |-> p, right |-> q]
Star(p) == [op |-> "star", of |-> p]
Opt(p) == [op |-> "opt", of |-> p]
Plus(p) == Cat(p, Star(p))
RECURSIVE Word(_)
Word(classes) == IF Len(classes) = 1 THEN One(classes[1]) ELSE Cat(One(classes[1]), Word(Tail(classes)))

\* The places where a match of the pattern that begins at i may end.
RECURSIVE Ends(_, _, _)
Ends(p, text, i) ==
    CASE p.op = "class" -> IF i < Len(text) /\ text[i + 1] \in p.of THEN {i + 1} ELSE {}
      [] p.op = "or" -> Ends(p.left, text, i) \cup Ends(p.right, text, i)
      [] p.op = "cat" -> UNION {Ends(p.right, text, j) : j \in Ends(p.left, text, i)}
      [] p.op = "opt" -> {i} \cup Ends(p.of, text, i)
      [] p.op = "star" -> {i} \cup UNION {Ends(p, text, j) : j \in Ends(p.of, text, i) \ {i}}

Blank == {" "}
Digit == {"0", "1"}
HexDigit == Digit \cup {"A", "B", "E", "F", "c", "d", "e", "f"}
Letter == (HexDigit \ Digit) \cup {"G", "L", "R", "S", "T", "U", "X", "i", "l", "n", "r", "t", "u"}
AnyBut(S) == One(Char \ S)
Sign == Opt(One({"+", "-"}))
Digits == Plus(One(Digit))
Exponent == Cat(One({"e", "E"}), Cat(Sign, Digits))
Integer == Cat(Sign, Digits)
Hex == Cat(Word(<<{"0"}, {"X"}>>), Plus(One(HexDigit)))
Long == Cat(One({"L"}), Opt(One({"L"})))
Float == Or(Cat(Cat(Sign, Star(One(Digit))), Cat(One({"."}), Cat(Star(One(Digit)), Opt(Exponent)))),
            Cat(Integer, Cat(Opt(Cat(One({"."}), Star(One(Digit)))), Exponent)))
IncludeOpen == Cat(Star(One(Blank)),
                   Cat(Word(<<{"@"}, {"i"}, {"n"}, {"c"}, {"l"}, {"u"}, {"d"}, {"e"}>>),
                       Cat(Plus(One(Blank)), One({"\""}))))

\* A comment to the end of the line, with the newline it must have behind it.
LineComment == Cat(Or(One({"#"}), Word(<<{"/"}, {"/"}>>)), Cat(Star(AnyBut({"\n"})), One({"\n"})))

Pattern == <<
    Word(<<{"/"}, {"*"}>>), Word(<<{"*"}, {"/"}>>), AnyBut({"\n"}), One({"\n"}), One({"\""}),
    Plus(AnyBut({"\"", "\\"})), Word(<<{"\\"}, {"n"}>>), Word(<<{"\\"}, {"r"}>>), Word(<<{"\\"}, {"t"}>>),
    Word(<<{"\\"}, {"f"}>>), Word(<<{"\\"}, {"\\"}>>), Word(<<{"\\"}, {"\""}>>),
    Word(<<{"\\"}, {"X"}, HexDigit, HexDigit>>), One({"\\"}), One({"\""}), IncludeOpen,
    Plus(AnyBut({"\"", "\\"})), Word(<<{"\\"}, {"\\"}>>), Word(<<{"\\"}, {"\""}>>), One({"\""}),
    One({"\n", "\r", "\f"}), Plus(One(Blank)), One({"=", ":"}), One({","}), One({"{"}), One({"}"}),
    Word(<<{"T", "t"}, {"R", "r"}, {"U", "u"}, {"E", "e"}>>),
    Word(<<{"F", "f"}, {"A"}, {"L", "l"}, {"S"}, {"E", "e"}>>),
    Cat(One(Letter \cup {"*"}), Star(One(Letter \cup Digit \cup {"-", "_", "*"}))),
    Float, Integer, Cat(Integer, Long), Hex, Cat(Hex, Long),
    One({"["}), One({"]"}), One({"("}), One({")"}), One({";"}), LineComment, AnyBut({"\n"}), One(Char) >>

\* The longest match, of the first rule that has it.
LongestMatch(sc, bol, text) ==
    LET all == UNION {{[rule |-> r, end |-> n] : n \in Ends(Pattern[r], text, 0)} : r \in RulesOf(sc, bol)}
    IN  CHOOSE m \in all : \A o \in all : o.end < m.end \/ (o.end = m.end /\ o.rule >= m.rule)
-----------------------------------------------------------------------------
\* The scanner sees each file as one text: however the reads cut it, whatever
\* the size of the buffer and whatever was included in between, each match is
\* the one scanner.l's patterns ask for, at the place behind the match before.
\* At the end of a file nothing of it is left over.
ScansTheText ==
    /\ matches # << >> =>
           LET m    == Last(matches)
               text == bufs[m.buffer].text
               at   == Taken(Front(matches), m.buffer)
               bol  == IF at = 0 THEN TRUE ELSE text[at] = "\n"
           IN  LongestMatch(m.start, bol, SubSeq(text, at + 1, Len(text))) = [rule |-> m.rule, end |-> m.end]
    /\ spc = "eof" => Taken(matches, yyg.current) = Len(Current.text)
=============================================================================
