------------------------ MODULE ConfigScannerProofs -------------------------
(***************************************************************************)
(* Proofs about the scanner of libconfig, for every input, every way the   *)
(* reads cut it, and every size of the buffers, the blocks, the chunks and *)
(* the include stack.                                                      *)
(***************************************************************************)
EXTENDS ConfigScanner, FiniteSetTheorems, SequenceTheorems, WellFoundedInduction, TLAPS

-----------------------------------------------------------------------------
(* Induction, on sets of natural numbers. *)

\* A set of natural numbers that is not empty has a least element.
LEMMA Least ==
    ASSUME NEW T, T \subseteq Nat, T # {}
    PROVE  \E n \in T : \A m \in T : n <= m
<1> DEFINE R == OpToRel(<, Nat)
<1>1. IsWellFoundedOn(R, Nat)
  BY NatLessThanWellFounded
<1>2. \A i, j \in Nat : <<i, j>> \in R <=> i < j
  BY DEF OpToRel
<1> HIDE DEF R
<1>3. PICK n \in T : \A m \in T : ~ (<<m, n>> \in R)
  BY <1>1, WFMin
<1>4. \A m \in T : ~ (m < n)
  BY <1>2, <1>3, Zenon
<1> QED BY <1>4

\* Induction over the natural numbers, for a property given as a set.
LEMMA SetInduction ==
    ASSUME NEW T, 0 \in T, \A n \in Nat : n \in T => n + 1 \in T
    PROVE  Nat \subseteq T
<1> SUFFICES ASSUME Nat \ T # {} PROVE FALSE
  OBVIOUS
<1>1. PICK n \in Nat \ T : \A m \in Nat \ T : n <= m
  BY Least
<1>2. n # 0 /\ n - 1 \in Nat /\ n - 1 \in T
  BY <1>1
<1> QED BY <1>1, <1>2

-----------------------------------------------------------------------------
(* A match. *)

\* The characters and their classes.
LEMMA Classes == "\n" \in Char /\ \A ch \in Char : yy_ec[ch] \in 1..48
<1>1. Len(Characters) = 48 /\ Characters[3] = "\n"
  BY DEF Characters
<1>2. 3 \in 1..48
  OBVIOUS
<1>3. "\n" \in Char
  BY <1>1, <1>2 DEF Char
<1>4. ASSUME NEW ch \in Char PROVE yy_ec[ch] \in 1..48
  <2>1. PICK i \in 1..48 : Characters[i] = ch
    BY <1>1 DEF Char
  <2> DEFINE c == CHOOSE j \in 1..48 : Characters[j] = ch
  <2>2. c \in 1..48
    BY <2>1
  <2>3. yy_ec[ch] = c
    BY <1>1 DEF yy_ec
  <2> QED BY <2>2, <2>3
<1> QED BY <1>3, <1>4

\* A step of the automaton stays within the matches of the text.
LEMMA AdvancedType ==
    ASSUME NEW text \in Seq(Char), NEW m \in Matching(text)
    PROVE  /\ RuleAt(m) \in 0..43 /\ EndAt(m) \in 0..Len(text)
           /\ m.at = Len(text) => StateAfter(text, m) = YY_JAM
           /\ StateAfter(text, m) # YY_JAM =>
                  /\ m.at < Len(text)
                  /\ text[m.at + 1] \in Char
                  /\ yy_ec[text[m.at + 1]] \in 1..48
                  /\ StateAfter(text, m) = NextState[m.state][yy_ec[text[m.at + 1]]]
                  /\ Advanced(text, m) \in Matching(text)
                  /\ Advanced(text, m).at = m.at + 1
<1> DEFINE a == Entry(yy_accept, m.state)
<1>1. /\ m.at \in 0..Len(text) /\ m.state \in 1..YY_JAM
      /\ m.rule \in 0..43 /\ m.end \in 0..Len(text) /\ Len(text) \in Nat
  BY DEF Matching
<1>2. a \in 0..43 /\ \A class \in 1..48 : NextState[m.state][class] \in 1..YY_JAM
  BY <1>1, TablesClosed
<1>3. RuleAt(m) \in 0..43 /\ EndAt(m) \in 0..Len(text)
  <2> HIDE DEF a
  <2>1. RuleAt(m) = (IF a = 0 THEN m.rule ELSE a) /\ EndAt(m) = IF a = 0 THEN m.end ELSE m.at
    BY DEF RuleAt, EndAt, a
  <2> QED BY <1>1, <1>2, <2>1
<1>4. m.at = Len(text) => StateAfter(text, m) = YY_JAM
  BY DEF StateAfter
<1>5. ASSUME StateAfter(text, m) # YY_JAM
      PROVE  /\ m.at < Len(text)
             /\ text[m.at + 1] \in Char
             /\ yy_ec[text[m.at + 1]] \in 1..48
             /\ StateAfter(text, m) = NextState[m.state][yy_ec[text[m.at + 1]]]
             /\ Advanced(text, m) \in Matching(text)
             /\ Advanced(text, m).at = m.at + 1
  <2>1. m.at < Len(text)
    BY <1>1, <1>4, <1>5
  <2>2. text[m.at + 1] \in Char
    BY <1>1, <2>1
  <2>3. yy_ec[text[m.at + 1]] \in 1..48
    BY <2>2, Classes
  <2>4. StateAfter(text, m) = NextState[m.state][yy_ec[text[m.at + 1]]]
    BY <1>1, <2>1 DEF StateAfter
  <2>5. StateAfter(text, m) \in 1..YY_JAM
    BY <1>2, <2>3, <2>4
  <2>6. m.at + 1 \in 0..Len(text)
    BY <1>1, <2>1
  <2>7. Advanced(text, m) \in Matching(text)
    BY <1>3, <2>5, <2>6 DEF Advanced, Matching
  <2>8. Advanced(text, m).at = m.at + 1
    BY DEF Advanced
  <2> QED BY <2>1, <2>2, <2>3, <2>4, <2>7, <2>8
<1> QED BY <1>3, <1>4, <1>5

\* What a run of the automaton ends with, from a match on.
Final(text, m) == [rule |-> RuleAt(m), end |-> EndAt(m), eob |-> m.at = Len(text)]
Runs(text, D, f) ==
    f = [m \in D |-> IF StateAfter(text, m) = YY_JAM THEN Final(text, m) ELSE f[Advanced(text, m)]]

LEMMA RunsEach ==
    ASSUME NEW text, NEW D, NEW f, Runs(text, D, f), NEW m \in D
    PROVE  f[m] = IF StateAfter(text, m) = YY_JAM THEN Final(text, m) ELSE f[Advanced(text, m)]
<1> DEFINE B(x) == IF StateAfter(text, x) = YY_JAM THEN Final(text, x) ELSE f[Advanced(text, x)]
<1>1. f = [x \in D |-> B(x)]
  BY Zenon DEF Runs
<1> HIDE DEF B
<1>2. f[m] = B(m)
  BY <1>1, Zenon
<1> QED BY <1>2 DEF B

\* The matches with at most k characters behind them.
NearEnd(text, k) == {m \in Matching(text) : m.at >= Len(text) - k}

LEMMA RunExists ==
    ASSUME NEW text \in Seq(Char)
    PROVE  \E f : Runs(text, Matching(text), f)
<1> DEFINE N == Len(text)
           T == {k \in Nat : \E f : Runs(text, NearEnd(text, k), f)}
<1>0. N \in Nat
  OBVIOUS
<1>1. 0 \in T
  <2> DEFINE f == [m \in NearEnd(text, 0) |-> Final(text, m)]
  <2>1. ASSUME NEW m \in NearEnd(text, 0) PROVE StateAfter(text, m) = YY_JAM
    <3>1. m \in Matching(text) /\ m.at >= N - 0
      BY DEF NearEnd
    <3>2. m.at \in 0..N
      BY <3>1 DEF Matching
    <3>3. m.at = N
      BY <3>1, <3>2
    <3> QED BY <3>1, <3>3, AdvancedType
  <2>2. f = [m \in NearEnd(text, 0) |->
                IF StateAfter(text, m) = YY_JAM THEN Final(text, m) ELSE f[Advanced(text, m)]]
    BY <2>1, Zenon
  <2>3. Runs(text, NearEnd(text, 0), f)
    BY <2>2 DEF Runs
  <2> HIDE DEF f
  <2> QED BY <2>3
<1>2. ASSUME NEW k \in Nat, k \in T PROVE k + 1 \in T
  <2> DEFINE D == NearEnd(text, k)
             E == NearEnd(text, k + 1)
  <2>1. PICK f : Runs(text, D, f)
    BY <1>2
  <2> DEFINE B(m) == IF StateAfter(text, m) = YY_JAM THEN Final(text, m) ELSE f[Advanced(text, m)]
             g == [m \in E |-> IF m \in D THEN f[m] ELSE B(m)]
  <2>2. \A m \in D : f[m] = B(m)
    <3> HIDE DEF D
    <3> QED BY <2>1, RunsEach
  <2>3. ASSUME NEW m \in E, StateAfter(text, m) # YY_JAM PROVE Advanced(text, m) \in D
    <3>1. m \in Matching(text) /\ m.at >= N - (k + 1)
      BY DEF NearEnd
    <3>2. m.at \in 0..N
      BY <3>1 DEF Matching
    <3>3. Advanced(text, m) \in Matching(text) /\ Advanced(text, m).at = m.at + 1
      BY <2>3, <3>1, AdvancedType
    <3>4. Advanced(text, m).at >= N - k
      BY <1>0, <3>1, <3>2, <3>3
    <3> QED BY <3>3, <3>4 DEF NearEnd
  <2>4. D \subseteq E
    <3> SUFFICES ASSUME NEW m \in D PROVE m \in E
      OBVIOUS
    <3>1. m \in Matching(text) /\ m.at >= N - k
      BY DEF NearEnd
    <3>2. m.at \in 0..N
      BY <3>1 DEF Matching
    <3>3. m.at >= N - (k + 1)
      BY <1>0, <3>1, <3>2
    <3> QED BY <3>1, <3>3 DEF NearEnd
  <2> HIDE DEF D, E
  <2>5. \A m \in D : g[m] = f[m]
    BY <2>4, Zenon
  <2>6. ASSUME NEW m \in E
        PROVE  g[m] = IF StateAfter(text, m) = YY_JAM THEN Final(text, m) ELSE g[Advanced(text, m)]
    <3>1. g[m] = B(m)
      BY <2>2, Zenon
    <3>2. StateAfter(text, m) # YY_JAM => g[Advanced(text, m)] = f[Advanced(text, m)]
      BY <2>3, <2>5, Zenon
    <3> HIDE DEF g
    <3> QED BY <3>1, <3>2, Zenon
  <2>7. g = [m \in E |-> g[m]]
    BY Zenon
  <2> HIDE DEF g
  <2>8. Runs(text, E, g)
    BY <2>6, <2>7, Zenon DEF Runs
  <2> QED BY <2>8 DEF E
<1> HIDE DEF T
<1>3. N \in T
  BY <1>0, <1>1, <1>2, SetInduction
<1>4. PICK f : Runs(text, NearEnd(text, N), f)
  BY <1>3 DEF T
<1>5. NearEnd(text, N) = Matching(text)
  <2>1. ASSUME NEW m \in Matching(text) PROVE m.at >= N - N
    BY <1>0 DEF Matching
  <2> QED BY <2>1 DEF NearEnd
<1> QED BY <1>4, <1>5

NoNewline(text, k) == \A j \in 1..k : text[j] # "\n"

\* What a match has found: a rule of its start condition, with at least one
\* character, and no newline where none is counted.
Sound(sc, text, m) ==
    /\ m.rule \in {0} \cup RulesOf(sc, TRUE)
    /\ m.rule = 0 => m.end = 0
    /\ m.rule # 0 => m.end >= 1
    /\ m.rule \notin yy_rule_can_match_eol => NoNewline(text, TextEnd(m))

\* A match in progress.
OnTheWay(sc, text, m) ==
    /\ m \in Matching(text)
    /\ m.state \in StatesOf(sc)
    /\ m.at = 0 => Entry(yy_accept, m.state) = 0
    /\ m.state \notin BehindNewline => NoNewline(text, m.at)
    /\ Entry(yy_accept, m.state) = 40 => NoNewline(text, m.at - 1)
    /\ Sound(sc, text, m)

Conditions == {"INITIAL", "COMMENT", "STRING", "INCLUDE"}

\* The tables, read for one start condition.
LEMMA ConditionTables ==
    ASSUME NEW sc \in Conditions
    PROVE  /\ StatesOf(sc) \subseteq 1..101
           /\ \A bol \in BOOLEAN : /\ StartState(sc, bol) \in StatesOf(sc)
                                   /\ Entry(yy_accept, StartState(sc, bol)) = 0
           /\ \A st \in StatesOf(sc) :
                  /\ Entry(yy_accept, st) \in {0} \cup RulesOf(sc, TRUE)
                  /\ \A class \in 1..48 : NextState[st][class] \in StatesOf(sc) \cup {YY_JAM}
<1>1. PICK i \in 1..4 : StartConditions[i] = sc
  <2>1. /\ StartConditions[1] = "INITIAL" /\ StartConditions[2] = "COMMENT"
        /\ StartConditions[3] = "STRING" /\ StartConditions[4] = "INCLUDE"
    BY DEF StartConditions
  <2> QED BY <2>1 DEF Conditions
<1>2. \A j \in 1..4 : StartConditions[j] = sc => j = i
  BY <1>1 DEF StartConditions
<1>3. (CHOOSE j \in 1..4 : StartConditions[j] = sc) = i
  BY <1>1, <1>2
<1>4. \A bol \in BOOLEAN : StartState(sc, bol) = 2 * i - 1 + IF bol THEN 1 ELSE 0
  BY <1>3 DEF StartState
<1>5. \A bol \in BOOLEAN : StartState(sc, bol) = 2 * i - 1 \/ StartState(sc, bol) = 2 * i
  BY <1>4
<1>6. /\ {2 * i - 1, 2 * i} \subseteq StatesOf(sc)
      /\ Entry(yy_accept, 2 * i - 1) = 0 /\ Entry(yy_accept, 2 * i) = 0
      /\ \A st \in StatesOf(sc) :
             /\ Entry(yy_accept, st) \in {0} \cup RulesOf(sc, TRUE)
             /\ \A class \in 1..48 : NextState[st][class] \in StatesOf(sc) \cup {YY_JAM}
  BY <1>1, StartConditionsApart, Zenon
<1>7. StatesOf(sc) \subseteq 1..101
  BY DEF StatesOf, Conditions
<1>8. \A bol \in BOOLEAN : /\ StartState(sc, bol) \in StatesOf(sc)
                           /\ Entry(yy_accept, StartState(sc, bol)) = 0
  BY <1>5, <1>6
<1> QED BY <1>6, <1>7, <1>8

\* Noting an accepting state is sound.
LEMMA SoundNoted ==
    ASSUME NEW sc \in Conditions, NEW text \in Seq(Char), NEW m, OnTheWay(sc, text, m),
           NEW r, r.rule = RuleAt(m), r.end = EndAt(m)
    PROVE  Sound(sc, text, r)
<1> DEFINE a == Entry(yy_accept, m.state)
<1>1. /\ m.at \in 0..Len(text) /\ m.rule \in 0..43 /\ m.end \in 0..Len(text) /\ Len(text) \in Nat
      /\ m.state \in StatesOf(sc) /\ m.state \in 1..YY_JAM /\ m.state \in 1..(YY_JAM - 1)
  <2>1. /\ m.at \in 0..Len(text) /\ m.rule \in 0..43 /\ m.end \in 0..Len(text) /\ Len(text) \in Nat
    BY DEF OnTheWay, Matching
  <2>2. m.state \in StatesOf(sc)
    BY DEF OnTheWay
  <2>3. m.state \in 1..101
    BY <2>2, ConditionTables
  <2> QED BY <2>1, <2>2, <2>3 DEF YY_JAM
<1>2. a \in {0} \cup RulesOf(sc, TRUE) /\ a \in 0..43
  BY <1>1, ConditionTables, TablesClosed
<1>3. r.rule = (IF a = 0 THEN m.rule ELSE a) /\ r.end = IF a = 0 THEN m.end ELSE m.at
  BY DEF RuleAt, EndAt
<1>4. m.state \in BehindNewline => a \in yy_rule_can_match_eol \cup {40}
  BY <1>1, NewlinesKnown, Zenon
<1> HIDE DEF a
<1>5. CASE a = 0
  <2>1. r.rule = m.rule /\ r.end = m.end
    BY <1>3, <1>5
  <2>2. TextEnd(r) = TextEnd(m)
    BY <2>1 DEF TextEnd
  <2> QED BY <2>1, <2>2, Zenon DEF OnTheWay, Sound
<1>6. CASE a # 0
  <2>1. r.rule = a /\ r.end = m.at
    BY <1>3, <1>6
  <2>2. m.at >= 1
    BY <1>1, <1>6 DEF OnTheWay, a
  <2>3. ASSUME r.rule \notin yy_rule_can_match_eol PROVE NoNewline(text, TextEnd(r))
    <3>1. CASE a = 40
      <4>1. TextEnd(r) = m.at - 1
        BY <2>1, <3>1 DEF TextEnd
      <4> QED BY <3>1, <4>1 DEF OnTheWay, a
    <3>2. CASE a # 40
      <4>1. TextEnd(r) = m.at
        BY <2>1, <3>2 DEF TextEnd
      <4>2. m.state \notin BehindNewline
        BY <1>4, <2>1, <2>3, <3>2
      <4> QED BY <4>1, <4>2 DEF OnTheWay
    <3> QED BY <3>1, <3>2
  <2>4. r.rule \in {0} \cup RulesOf(sc, TRUE) /\ r.rule # 0 /\ r.end >= 1
    BY <1>2, <1>6, <2>1, <2>2
  <2> QED BY <2>3, <2>4 DEF Sound
<1> QED BY <1>5, <1>6

\* A step of the automaton keeps a match on the way.
LEMMA AdvancedOnTheWay ==
    ASSUME NEW sc \in Conditions, NEW text \in Seq(Char), NEW m, OnTheWay(sc, text, m),
           StateAfter(text, m) # YY_JAM
    PROVE  OnTheWay(sc, text, Advanced(text, m))
<1> DEFINE n == Advanced(text, m)
           ch == text[m.at + 1]
<1>0. m \in Matching(text)
  BY DEF OnTheWay
<1>1. /\ m.at < Len(text) /\ ch \in Char /\ yy_ec[ch] \in 1..48
      /\ StateAfter(text, m) = NextState[m.state][yy_ec[ch]]
      /\ n \in Matching(text)
  BY <1>0, AdvancedType
<1>2. n.at = m.at + 1 /\ n.state = StateAfter(text, m) /\ n.rule = RuleAt(m) /\ n.end = EndAt(m)
  BY DEF Advanced
<1>3. m.at \in Nat /\ m.state \in StatesOf(sc) /\ m.state \in 1..101 /\ m.state \in 1..(YY_JAM - 1)
  <2>1. m.at \in Nat
    BY DEF OnTheWay, Matching
  <2>2. m.state \in StatesOf(sc) /\ m.state \in 1..101
    BY ConditionTables DEF OnTheWay
  <2> QED BY <2>1, <2>2 DEF YY_JAM
<1> HIDE DEF n
<1>4. Sound(sc, text, n)
  BY <1>2, SoundNoted
<1>5. n.state \in StatesOf(sc)
  BY <1>1, <1>2, <1>3, ConditionTables
<1>6. n.at # 0
  BY <1>2, <1>3
<1>7. /\ NextState[m.state][yy_ec["\n"]] \in BehindNewline \cup {YY_JAM}
      /\ m.state \in BehindNewline => NextState[m.state][yy_ec[ch]] \in BehindNewline \cup {YY_JAM}
      /\ Entry(yy_accept, NextState[m.state][yy_ec[ch]]) = 40 => m.state \notin BehindNewline
  BY <1>1, <1>3, NewlinesKnown, Zenon
<1>8. ASSUME n.state \notin BehindNewline PROVE NoNewline(text, n.at)
  <2>1. m.state \notin BehindNewline /\ ch # "\n"
    BY <1>1, <1>2, <1>7, <1>8
  <2>2. NoNewline(text, m.at)
    BY <2>1 DEF OnTheWay
  <2>3. ASSUME NEW j \in 1..(m.at + 1) PROVE text[j] # "\n"
    <3>1. CASE j = m.at + 1
      BY <2>1, <3>1
    <3>2. CASE j # m.at + 1
      <4>1. j \in 1..m.at
        BY <1>3, <3>2
      <4> QED BY <2>2, <4>1 DEF NoNewline
    <3> QED BY <3>1, <3>2
  <2> QED BY <1>2, <2>3 DEF NoNewline
<1>9. ASSUME Entry(yy_accept, n.state) = 40 PROVE NoNewline(text, n.at - 1)
  <2>1. m.state \notin BehindNewline
    BY <1>1, <1>2, <1>7, <1>9
  <2>2. n.at - 1 = m.at
    BY <1>2, <1>3
  <2> QED BY <2>1, <2>2 DEF OnTheWay
<1>10. n \in Matching(text)
  BY <1>1 DEF n
<1>11. OnTheWay(sc, text, n)
  BY <1>4, <1>5, <1>6, <1>8, <1>9, <1>10, Zenon DEF OnTheWay
<1> QED BY <1>11 DEF n

\* What yy_match finds, in a text and a start condition.
LEMMA MatchFacts ==
    ASSUME NEW sc \in Conditions, NEW bol \in BOOLEAN, NEW text \in Seq(Char)
    PROVE  LET m == yy_match(text, StartState(sc, bol))
           IN  /\ Sound(sc, text, m)
               /\ m.end \in 0..Len(text)
               /\ m.rule \in 0..43
               /\ m.eob \in BOOLEAN
<1> DEFINE N == Len(text)
           f == CHOOSE g : Runs(text, Matching(text), g)
           Fine(r) == Sound(sc, text, r) /\ r.end \in 0..N /\ r.rule \in 0..43 /\ r.eob \in BOOLEAN
           T == {k \in Nat : \A m : OnTheWay(sc, text, m) /\ m.at = N - k => Fine(f[m])}
<1>0. N \in Nat
  OBVIOUS
<1>1. Runs(text, Matching(text), f)
  BY RunExists
<1>2. yy_match(text, StartState(sc, bol)) =
          f[[at |-> 0, state |-> StartState(sc, bol), rule |-> 0, end |-> 0]]
  BY DEF yy_match, Runs, Final
<1> HIDE DEF f
<1>3. ASSUME NEW m, OnTheWay(sc, text, m)
      PROVE  f[m] = IF StateAfter(text, m) = YY_JAM THEN Final(text, m) ELSE f[Advanced(text, m)]
  <2>1. m \in Matching(text)
    BY <1>3 DEF OnTheWay
  <2> QED BY <1>1, <2>1, RunsEach
<1>4. ASSUME NEW m, OnTheWay(sc, text, m) PROVE Fine(Final(text, m))
  <2> DEFINE r == Final(text, m)
  <2>1. m \in Matching(text)
    BY <1>4 DEF OnTheWay
  <2>2. r.rule = RuleAt(m) /\ r.end = EndAt(m) /\ r.eob \in BOOLEAN
    BY DEF Final
  <2> HIDE DEF r
  <2>3. Sound(sc, text, r)
    BY <1>4, <2>2, SoundNoted
  <2>4. RuleAt(m) \in 0..43 /\ EndAt(m) \in 0..N
    BY <2>1, AdvancedType
  <2>5. Fine(r)
    BY <2>2, <2>3, <2>4
  <2> QED BY <2>5 DEF r
<1> HIDE DEF Fine
<1>5. 0 \in T
  <2>1. ASSUME NEW m, OnTheWay(sc, text, m), m.at = N - 0 PROVE Fine(f[m])
    <3>1. m \in Matching(text) /\ m.at = Len(text)
      BY <1>0, <2>1 DEF OnTheWay
    <3>2. StateAfter(text, m) = YY_JAM
      BY <3>1, AdvancedType
    <3>3. f[m] = Final(text, m)
      BY <1>3, <2>1, <3>2
    <3> QED BY <1>4, <2>1, <3>3
  <2> QED BY <2>1
<1>6. ASSUME NEW k \in Nat, k \in T PROVE k + 1 \in T
  <2>1. ASSUME NEW m, OnTheWay(sc, text, m), m.at = N - (k + 1) PROVE Fine(f[m])
    <3>1. CASE StateAfter(text, m) = YY_JAM
      <4>1. f[m] = Final(text, m)
        BY <1>3, <2>1, <3>1
      <4> QED BY <1>4, <2>1, <4>1
    <3>2. CASE StateAfter(text, m) # YY_JAM
      <4>1. f[m] = f[Advanced(text, m)]
        BY <1>3, <2>1, <3>2
      <4>2. OnTheWay(sc, text, Advanced(text, m))
        BY <2>1, <3>2, AdvancedOnTheWay
      <4>3. Advanced(text, m).at = N - k
        <5>1. Advanced(text, m).at = m.at + 1
          BY DEF Advanced
        <5> QED BY <1>0, <2>1, <5>1
      <4>4. Fine(f[Advanced(text, m)])
        BY <1>6, <4>2, <4>3
      <4> QED BY <4>1, <4>4
    <3> QED BY <3>1, <3>2
  <2> QED BY <2>1
<1> HIDE DEF T
<1>7. N \in T
  BY <1>0, <1>5, <1>6, SetInduction
<1> DEFINE first == [at |-> 0, state |-> StartState(sc, bol), rule |-> 0, end |-> 0]
<1>8. OnTheWay(sc, text, first)
  <2>1. /\ StartState(sc, bol) \in StatesOf(sc) /\ StatesOf(sc) \subseteq 1..101
        /\ Entry(yy_accept, StartState(sc, bol)) = 0
    BY ConditionTables
  <2>2. first.state = StartState(sc, bol) /\ first.at = 0 /\ first.rule = 0 /\ first.end = 0
    OBVIOUS
  <2>3. first \in Matching(text)
    BY <1>0, <2>1 DEF Matching, YY_JAM
  <2> HIDE DEF first
  <2>4. TextEnd(first) = 0 /\ NoNewline(text, 0)
    BY <2>2 DEF TextEnd, NoNewline
  <2>5. Sound(sc, text, first)
    BY <2>2, <2>4 DEF Sound
  <2> QED BY <2>1, <2>2, <2>3, <2>4, <2>5 DEF OnTheWay
<1>9. first.at = N - N
  BY <1>0
<1> HIDE DEF first
<1>10. Fine(f[first])
  BY <1>7, <1>8, <1>9 DEF T
<1> QED BY <1>2, <1>10 DEF Fine, first

-----------------------------------------------------------------------------
(* The inductive invariant. *)

Places == {"match", "last", "eof", "token", "over", "exit"}
Buffers ==
    [ch : Seq(Char), yy_buf_pos : Nat, yy_buf_size : Nat, yy_at_bol : BOOLEAN, yy_bs_lineno : Nat,
     yy_input_file : Nat, yy_fill_buffer : BOOLEAN, yy_buffer_status : {"NEW", "NORMAL", "EOF_PENDING"},
     deleted : Nat, text : Seq(Char)]
Streams == [all : Seq(Char), rest : Seq(Char), directory : BOOLEAN, closed : Nat]
Symbols == Char \cup {"\n", "\r", " ", "\f", "\\", "\"", "?", "f"}
Text == Seq(Symbols)

Entries == [file : Text, buffer : Nat, stream : Nat]
ContextType(s) ==
    /\ s = [stack |-> s.stack, string |-> s.string, filenames |-> s.filenames, room |-> s.room,
            top_filename |-> s.top_filename]
    /\ s.stack \in Seq([file : Text, buffer : Nat, stream : Nat])
    /\ s.string = [string |-> s.string.string, capacity |-> s.string.capacity]
    /\ s.string.string \in Text /\ s.string.capacity \in Nat
    /\ s.filenames \in Seq(Text) /\ s.room \in Nat

ScanTypeOK ==
    /\ input \in Inputs
    /\ streams \in Seq(Streams)
    /\ bufs \in Seq(Buffers)
    /\ yyg \in [current : Nat, yy_c_buf_p : Nat, yyin : Nat, yy_start : Conditions]
    /\ ContextType(sctx)
    /\ spc \in Places

\* A buffer has room for what is in it, and one that is to be filled has room
\* for one character more and a file.
Fits(b) ==
    /\ Len(b.ch) <= b.yy_buf_size
    /\ b.yy_fill_buffer => Len(b.ch) < b.yy_buf_size /\ b.yy_input_file # NoStream

Placed ==
    /\ \A b \in 1..Len(bufs) : Fits(bufs[b])
    /\ yyg.current \in 1..Len(bufs)
    /\ yyg.yy_c_buf_p <= Len(Current.ch)

\* The string and the list of names have the room they need; that of the list is
\* a whole number of chunks.
StringFits(s) == s.string.string # << >> => Len(s.string.string) < s.string.capacity
NamesFit(s) == Len(s.filenames) <= s.room /\ s.room % CHUNK_SIZE = 0

\* The buffer of a level: each file that waits, then the one being read.
Level(s, g, i) == IF i > Len(s.stack) THEN g.current ELSE s.stack[i].buffer
InUse(s, g, b) == \E i \in 1..(Len(s.stack) + 1) : Level(s, g, i) = b
Included(s, f) == \E i \in 1..Len(s.stack) : s.stack[i].stream = f

\* Buffers and files in use are those of the include stack, the later the higher.
BuffersNested(all, s, g) ==
    /\ \A i \in 1..(Len(s.stack) + 1) : Level(s, g, i) \in 1..Len(all)
    /\ \A i, j \in 1..(Len(s.stack) + 1) : i < j => Level(s, g, i) < Level(s, g, j)
    /\ Level(s, g, 1) = 1
    /\ \A b \in 1..Len(all) : all[b].deleted = IF InUse(s, g, b) THEN 0 ELSE 1
    /\ \A i \in 1..Len(s.stack) : all[Level(s, g, i + 1)].yy_input_file = s.stack[i].stream
    /\ \A i \in 1..Len(s.stack) : all[s.stack[i].buffer].yy_buf_pos <= Len(all[s.stack[i].buffer].ch)
    /\ g.yyin = all[g.current].yy_input_file

StreamsNested(files, s, top) ==
    /\ top \in 0..Len(files)
    /\ \A i \in 1..Len(s.stack) : s.stack[i].stream \in 1..Len(files) /\ top < s.stack[i].stream
    /\ \A i, j \in 1..Len(s.stack) : i < j => s.stack[i].stream < s.stack[j].stream
    /\ \A f \in 1..Len(files) : files[f].closed = IF Included(s, f) \/ f = top THEN 0 ELSE 1

NamesKept(s) ==
    /\ s.top_filename \in Range(s.filenames) \cup {<< >>}
    /\ \A i \in 1..Len(s.stack) : s.stack[i].file \in Range(s.filenames)

Going == spc \notin {"over", "exit"}

Nested ==
    Going => /\ BuffersNested(bufs, sctx, yyg)
             /\ StreamsNested(streams, sctx, bufs[1].yy_input_file)
             /\ NamesKept(sctx)

ErrorNamed == error.file \in Range(sctx.filenames) \cup {<< >>}

ScanInv ==
    /\ ScanTypeOK
    /\ Placed
    /\ StringFits(sctx)
    /\ NamesFit(sctx)
    /\ depth <= MAX_INCLUDE_DEPTH
    /\ Nested
    /\ ErrorNamed
    /\ StringsBeginEmpty
    /\ EverythingReleased

-----------------------------------------------------------------------------
(* The files. *)

Joins(texts, n, f) == f = [k \in 0..n |-> IF k = 0 THEN << >> ELSE f[k - 1] \o texts[k]]

LEMMA JoinsEach ==
    ASSUME NEW texts, NEW n \in Nat, NEW f, Joins(texts, n, f)
    PROVE  f[0] = << >> /\ \A k \in 1..n : f[k] = f[k - 1] \o texts[k]
<1> DEFINE B(k) == IF k = 0 THEN << >> ELSE f[k - 1] \o texts[k]
<1>1. f = [k \in 0..n |-> B(k)]
  BY DEF Joins
<1>2. \A k \in 0..n : f[k] = B(k)
  <2> HIDE DEF B
  <2> QED BY <1>1, Zenon
<1>3. ASSUME NEW k \in 1..n PROVE k \in 0..n /\ k # 0
  OBVIOUS
<1>4. 0 \in 0..n
  OBVIOUS
<1>5. f[0] = << >>
  BY <1>2, <1>4, Zenon
<1> QED BY <1>2, <1>3, <1>5, Zenon

LEMMA JoinsExists ==
    ASSUME NEW texts, NEW n \in Nat
    PROVE  \E f : Joins(texts, n, f)
<1> DEFINE T == {k \in Nat : \E f : Joins(texts, k, f)}
<1>1. 0 \in T
  <2> DEFINE f == [k \in 0..0 |-> << >>]
  <2>1. f = [k \in 0..0 |-> IF k = 0 THEN << >> ELSE f[k - 1] \o texts[k]]
    OBVIOUS
  <2> HIDE DEF f
  <2> QED BY <2>1 DEF Joins
<1>2. ASSUME NEW k \in Nat, k \in T PROVE k + 1 \in T
  <2>1. PICK f : Joins(texts, k, f)
    BY <1>2
  <2>0. f[0] = << >> /\ \A j \in 1..k : f[j] = f[j - 1] \o texts[j]
    BY <2>1, JoinsEach
  <2> DEFINE g == [j \in 0..(k + 1) |-> IF j <= k THEN f[j] ELSE f[k] \o texts[k + 1]]
  <2>3. ASSUME NEW j \in 0..(k + 1)
        PROVE  g[j] = IF j = 0 THEN << >> ELSE g[j - 1] \o texts[j]
    <3>1. CASE j = k + 1
      <4>1. g[j] = f[k] \o texts[k + 1] /\ g[k] = f[k] /\ j - 1 = k /\ j # 0
        BY <3>1
      <4> HIDE DEF g
      <4> QED BY <3>1, <4>1
    <3>2. CASE j = 0
      BY <2>0, <3>2
    <3>3. CASE j \in 1..k
      <4>1. f[j] = f[j - 1] \o texts[j]
        BY <2>0, <3>3, Zenon
      <4>2. g[j] = f[j] /\ g[j - 1] = f[j - 1] /\ j # 0
        BY <3>3
      <4> HIDE DEF g
      <4> QED BY <4>1, <4>2
    <3> QED BY <3>1, <3>2, <3>3
  <2>4. g = [j \in 0..(k + 1) |-> g[j]]
    OBVIOUS
  <2> HIDE DEF g
  <2>5. Joins(texts, k + 1, g)
    BY <2>3, <2>4 DEF Joins
  <2> QED BY <2>5
<1> HIDE DEF T
<1>3. Nat \subseteq T
  BY <1>1, <1>2, SetInduction
<1> QED BY <1>3 DEF T

\* Texts put together are a text.
LEMMA JoinedType ==
    ASSUME NEW texts \in Seq(Seq(Char))
    PROVE  Joined(texts) \in Seq(Char)
<1> DEFINE n == Len(texts)
           f == CHOOSE g : Joins(texts, n, g)
           T == {k \in Nat : k <= n => f[k] \in Seq(Char)}
<1>0. n \in Nat
  OBVIOUS
<1>1. Joins(texts, n, f)
  BY <1>0, JoinsExists
<1>2. Joined(texts) = f[n]
  BY DEF Joined, Joins
<1> HIDE DEF f
<1>3. f[0] = << >> /\ \A k \in 1..n : f[k] = f[k - 1] \o texts[k]
  BY <1>0, <1>1, JoinsEach
<1>4. 0 \in T
  <2>1. << >> \in Seq(Char)
    OBVIOUS
  <2> QED BY <1>3, <2>1
<1>5. ASSUME NEW k \in Nat, k \in T PROVE k + 1 \in T
  <2> SUFFICES ASSUME k + 1 <= n PROVE f[k + 1] \in Seq(Char)
    OBVIOUS
  <2>1. f[k] \in Seq(Char) /\ texts[k + 1] \in Seq(Char)
    BY <1>0, <1>5
  <2>2. f[k + 1] = f[k] \o texts[k + 1]
    <3>1. k + 1 \in 1..n /\ (k + 1) - 1 = k
      BY <1>0
    <3> HIDE DEF n
    <3> QED BY <1>3, <3>1
  <2> QED BY <2>1, <2>2
<1> HIDE DEF T
<1>6. n \in T
  BY <1>0, <1>4, <1>5, SetInduction
<1> QED BY <1>0, <1>2, <1>6 DEF T

LEMMA ContentsType ==
    ASSUME NEW i \in Inputs
    PROVE  Contents[i] \subseteq Seq(Char)
<1> DEFINE P == UNION {[1..n -> a] : n \in 0..i.maxTexts, a \in i.alphabets}
<1>1. Contents[i] = {Joined(p) : p \in P}
  BY DEF Contents
<1>2. i.maxTexts \in Nat /\ \A a \in i.alphabets : a \subseteq Seq(Char)
  BY ScannerAssumption
<1>3. P \subseteq Seq(Seq(Char))
  <2> SUFFICES ASSUME NEW p \in P PROVE p \in Seq(Seq(Char))
    OBVIOUS
  <2>1. PICK n \in 0..i.maxTexts : \E a \in i.alphabets : p \in [1..n -> a]
    OBVIOUS
  <2>4. PICK a \in i.alphabets : p \in [1..n -> a]
    BY <2>1
  <2>2. n \in Nat /\ a \subseteq Seq(Char)
    BY <1>2
  <2>3. p \in [1..n -> Seq(Char)]
    BY <2>2, <2>4
  <2> QED BY <2>2, <2>3
<1> HIDE DEF P
<1> QED BY <1>1, <1>3, JoinedType

\* The number of newlines in a text.
LEMMA NewlinesType ==
    ASSUME NEW text, Len(text) \in Nat
    PROVE  Newlines(text) \in Nat
<1>1. IsFiniteSet(1..Len(text))
  BY FS_Interval
<1>2. IsFiniteSet({i \in 1..Len(text) : text[i] = "\n"})
  BY <1>1, FS_Subset
<1> QED BY <1>2, FS_CardinalityType DEF Newlines
-----------------------------------------------------------------------------
(* The current buffer. *)

LEMMA CurrentFacts ==
    ASSUME ScanTypeOK, Placed
    PROVE  /\ Current \in Buffers /\ Fits(Current)
           /\ Unscanned \in Seq(Char)
           /\ Len(Unscanned) = Len(Current.ch) - yyg.yy_c_buf_p
           /\ Len(Current.ch) \in Nat /\ yyg.yy_c_buf_p \in 0..Len(Current.ch)
           /\ \A k \in 1..Len(Unscanned) : Unscanned[k] = Current.ch[yyg.yy_c_buf_p + k]
<1>1. bufs \in Seq(Buffers) /\ yyg.current \in 1..Len(bufs) /\ yyg.yy_c_buf_p \in Nat
  BY DEF ScanTypeOK, Placed
<1>2. Current \in Buffers
  BY <1>1 DEF Current
<1>3. Current.ch \in Seq(Char)
  BY <1>2 DEF Buffers
<1>4. yyg.yy_c_buf_p <= Len(Current.ch) /\ Fits(Current)
  BY <1>1 DEF Placed, Current
<1> DEFINE ch == Current.ch
           p == yyg.yy_c_buf_p
<1>5. Unscanned = SubSeq(ch, p + 1, Len(ch))
  BY DEF Unscanned
<1>6. ch \in Seq(Char) /\ p \in Nat /\ p <= Len(ch) /\ Len(ch) \in Nat
  BY <1>1, <1>3, <1>4
<1> HIDE DEF ch, p
<1>7. /\ Unscanned \in Seq(Char) /\ Len(Unscanned) = Len(ch) - p
      /\ \A k \in 1..Len(Unscanned) : Unscanned[k] = ch[p + k]
  BY <1>5, <1>6
<1> QED BY <1>2, <1>4, <1>6, <1>7 DEF ch, p

LEMMA MatchedFacts ==
    ASSUME ScanTypeOK, Placed
    PROVE  /\ Sound(yyg.yy_start, Unscanned, Matched)
           /\ Matched.end \in 0..Len(Unscanned)
           /\ Matched.rule \in 0..43
           /\ TextEnd(Matched) \in 0..Len(Unscanned)
<1> DEFINE m == Matched
<1>1. Unscanned \in Seq(Char) /\ Current \in Buffers
  BY CurrentFacts
<1>2. yyg.yy_start \in Conditions /\ Current.yy_at_bol \in BOOLEAN
  BY <1>1 DEF ScanTypeOK, Buffers
<1>3. /\ Sound(yyg.yy_start, Unscanned, m) /\ m.end \in 0..Len(Unscanned) /\ m.rule \in 0..43
  BY <1>1, <1>2, MatchFacts DEF Matched
<1> HIDE DEF m
<1>4. m.rule = 40 => m.end >= 1
  BY <1>3 DEF Sound
<1>5. Len(Unscanned) \in Nat
  BY <1>1
<1>6. TextEnd(m) \in 0..Len(Unscanned)
  BY <1>3, <1>4, <1>5 DEF TextEnd
<1> QED BY <1>3, <1>6 DEF m

\* What every rule does to the current buffer.
LEMMA RuleSetupFacts ==
    ASSUME ScanTypeOK, Placed
    PROVE  LET b == RuleSetup(Matched)
           IN  /\ b \in Buffers /\ Fits(b)
               /\ b.ch = Current.ch /\ b.yy_buf_size = Current.yy_buf_size /\ b.yy_fill_buffer = Current.yy_fill_buffer
               /\ b.yy_input_file = Current.yy_input_file /\ b.deleted = Current.deleted
               /\ b.text = Current.text
               /\ b.yy_bs_lineno = Current.yy_bs_lineno
                                   + LinesIn(Matched.rule, SubSeq(Unscanned, 1, TextEnd(Matched)))
<1> DEFINE text == SubSeq(Unscanned, 1, TextEnd(Matched))
           b == RuleSetup(Matched)
           n == LinesIn(Matched.rule, text)
<1>1. Current \in Buffers /\ Fits(Current) /\ Unscanned \in Seq(Char)
  BY CurrentFacts
<1>2. TextEnd(Matched) \in 0..Len(Unscanned)
  BY MatchedFacts
<1>3. text \in Seq(Char)
  BY <1>1, <1>2
<1>4. n \in Nat
  <2>1. Newlines(text) \in Nat
    BY <1>3, NewlinesType
  <2> QED BY <2>1 DEF LinesIn
<1> DEFINE bol == Last(text) = "\n"
<1>5. b = [Current EXCEPT !.yy_at_bol = bol, !.yy_bs_lineno = @ + n]
  BY DEF RuleSetup
<1>6. bol \in BOOLEAN
  OBVIOUS
<1> HIDE DEF b, n, text, bol
<1>7. b \in Buffers
  <2> DEFINE x == [Current EXCEPT !.yy_at_bol = bol]
  <2>1. x \in Buffers /\ x.yy_bs_lineno \in Nat
    BY <1>1, <1>6 DEF Buffers
  <2> DEFINE v == Current.yy_bs_lineno + n
  <2>2. b = [x EXCEPT !.yy_bs_lineno = v]
    BY <1>5
  <2>3. v \in Nat
    BY <1>1, <1>4 DEF Buffers
  <2> HIDE DEF x, v
  <2> QED BY <2>1, <2>2, <2>3 DEF Buffers
<1>8. /\ b.ch = Current.ch /\ b.yy_buf_size = Current.yy_buf_size /\ b.yy_fill_buffer = Current.yy_fill_buffer
      /\ b.yy_input_file = Current.yy_input_file /\ b.deleted = Current.deleted
      /\ b.text = Current.text
  BY <1>1, <1>5 DEF Buffers
<1>9. b.yy_bs_lineno = Current.yy_bs_lineno + n
  BY <1>1, <1>5 DEF Buffers
<1>10. Fits(b)
  BY <1>1, <1>8 DEF Fits
<1> QED BY <1>7, <1>8, <1>9, <1>10 DEF b, n, text

-----------------------------------------------------------------------------
(* The string and the names of the files. *)

\* A whole number of chunks and one more.
LEMMA ChunkMultiple ==
    ASSUME NEW n \in Nat, n % CHUNK_SIZE = 0
    PROVE  (n + CHUNK_SIZE) % CHUNK_SIZE = 0
<1> DEFINE m == n + CHUNK_SIZE
           q == n \div CHUNK_SIZE
           k == m \div CHUNK_SIZE
           x == m % CHUNK_SIZE
<1>1. CHUNK_SIZE \in Nat \ {0} /\ m \in Nat
  BY ScannerAssumption
<1>2. ASSUME NEW a \in Nat
      PROVE  /\ a \div CHUNK_SIZE \in Int
             /\ a % CHUNK_SIZE \in 0..(CHUNK_SIZE - 1)
             /\ a = CHUNK_SIZE * (a \div CHUNK_SIZE) + (a % CHUNK_SIZE)
  BY <1>1
<1>3. q \in Int /\ n = CHUNK_SIZE * q
  BY <1>1, <1>2
<1>4. k \in Int /\ x \in 0..(CHUNK_SIZE - 1) /\ m = CHUNK_SIZE * k + x
  BY <1>1, <1>2
<1>5. m = n + CHUNK_SIZE
  OBVIOUS
<1> HIDE DEF m, q, k, x
<1>6. CHUNK_SIZE * (q + 1 - k) = x
  BY <1>1, <1>3, <1>4, <1>5
<1>7. ~ (q + 1 - k >= 1)
  <2>1. ASSUME q + 1 - k >= 1 PROVE CHUNK_SIZE * (q - k) \in Nat
    BY <2>1, <1>1, <1>3, <1>4
  <2>2. CHUNK_SIZE * (q + 1 - k) = CHUNK_SIZE * (q - k) + CHUNK_SIZE
    BY <1>1, <1>3, <1>4
  <2> QED BY <2>1, <2>2, <1>1, <1>4, <1>6
<1>8. ~ (q + 1 - k <= -1)
  <2>1. ASSUME q + 1 - k <= -1 PROVE CHUNK_SIZE * (k - q - 2) \in Nat
    BY <2>1, <1>1, <1>3, <1>4
  <2>2. CHUNK_SIZE * (q + 1 - k) = - (CHUNK_SIZE * (k - q - 2)) - CHUNK_SIZE
    BY <1>1, <1>3, <1>4
  <2> QED BY <2>1, <2>2, <1>1, <1>4, <1>6
<1>9. q + 1 - k = 0
  BY <1>3, <1>4, <1>7, <1>8
<1>10. x = 0
  BY <1>1, <1>6, <1>9
<1> QED BY <1>10 DEF x, m

LEMMA TextFacts == Seq(Char) \subseteq Text /\ << >> \in Text /\ TopName \in Text
<1>1. Char \subseteq Symbols /\ "f" \in Symbols
  BY Zenon DEF Symbols
<1> QED BY <1>1 DEF Text, TopName

LEMMA AppendedType ==
    ASSUME NEW rule, NEW text \in Text
    PROVE  Appended(rule, text) \in Text
<1>1. << >> \in Text /\ \A x \in Symbols : <<x>> \in Text
  BY DEF Text
<1>2. /\ "\n" \in Symbols /\ "\r" \in Symbols /\ " " \in Symbols /\ "\f" \in Symbols
      /\ "\\" \in Symbols /\ "\"" \in Symbols /\ "?" \in Symbols
  BY Zenon DEF Symbols
<1>3. /\ <<"\n">> \in Text /\ <<"\r">> \in Text /\ <<" ">> \in Text /\ <<"\f">> \in Text
      /\ <<"\\">> \in Text /\ <<"\"">> \in Text /\ <<"?">> \in Text
  BY <1>1, <1>2, Zenon
<1> QED BY <1>1, <1>3, Zenon DEF Appended

\* Appending to the string: there is room for the text and the 0 behind it.
LEMMA StringGrows ==
    ASSUME NEW s, s.string \in Text, s.capacity \in Nat, NEW text \in Text
    PROVE  LET r == strbuf_append(s, text)
           IN  /\ r = [string |-> r.string, capacity |-> r.capacity]
               /\ r.string \in Text /\ r.capacity \in Nat
               /\ Len(r.string) < r.capacity
<1> DEFINE r == strbuf_append(s, text)
           B == STRING_BLOCK_SIZE
           newlen == Len(s.string) + Len(text) + 1
           a == newlen + B - 1
           q == a \div B
           rounded == q * B
<1>1. B \in Nat \ {0}
  BY ScannerAssumption
<1>2. Len(s.string) \in Nat /\ Len(text) \in Nat /\ newlen \in Nat /\ a \in Nat
  <2>1. Len(s.string) \in Nat /\ Len(text) \in Nat
    BY DEF Text
  <2> QED BY <1>1, <2>1
<1>3. r = [string |-> s.string \o text, capacity |-> IF newlen > s.capacity THEN rounded ELSE s.capacity]
  BY DEF strbuf_append
<1>4. r.string = s.string \o text /\ r.capacity = IF newlen > s.capacity THEN rounded ELSE s.capacity
  BY <1>3
<1>5. s.string \o text \in Text /\ Len(s.string \o text) = newlen - 1
  BY <1>2 DEF Text
<1>6. rounded \in Int /\ rounded >= newlen
  <2>1. q \in Int /\ a < B * q + B
    <3> HIDE DEF a
    <3> QED BY <1>1, <1>2
  <2>2. a = newlen + B - 1
    OBVIOUS
  <2> HIDE DEF a, q, newlen
  <2>3. rounded = B * q /\ B * q \in Int
    BY <1>1, <2>1
  <2> HIDE DEF rounded
  <2> QED BY <1>1, <1>2, <2>1, <2>2, <2>3
<1>7. r = [string |-> r.string, capacity |-> r.capacity]
  BY <1>3, <1>4
<1> HIDE DEF r, rounded, newlen
<1>8. r.capacity \in Nat /\ r.capacity >= newlen
  BY <1>2, <1>4, <1>6
<1>9. r.string \in Text /\ Len(r.string) < r.capacity
  BY <1>2, <1>4, <1>5, <1>8
<1> QED BY <1>7, <1>8, <1>9 DEF r

\* Adding a name to the list.
LEMMA NameAdded ==
    ASSUME NEW s, ContextType(s), NamesFit(s), NEW file \in Text
    PROVE  LET r == scanctx_add_filename(s, file)
           IN  /\ ContextType(r) /\ NamesFit(r)
               /\ r.stack = s.stack /\ r.string = s.string /\ r.top_filename = s.top_filename
               /\ file \in Range(r.filenames)
               /\ Range(s.filenames) \subseteq Range(r.filenames)
<1> DEFINE r == scanctx_add_filename(s, file)
           n == Len(s.filenames)
<1>0. s.filenames \in Seq(Text) /\ n \in Nat /\ s.room \in Nat /\ CHUNK_SIZE \in Nat \ {0}
  BY ScannerAssumption DEF ContextType
<1>1. CASE file \in Range(s.filenames)
  <2>1. r = s
    BY <1>1 DEF scanctx_add_filename
  <2> HIDE DEF r
  <2>2. /\ ContextType(r) /\ NamesFit(r)
        /\ r.stack = s.stack /\ r.string = s.string /\ r.top_filename = s.top_filename
        /\ file \in Range(r.filenames)
        /\ Range(s.filenames) \subseteq Range(r.filenames)
    BY <1>1, <2>1
  <2> QED BY <2>2 DEF r
<1>2. CASE file \notin Range(s.filenames)
  <2> DEFINE names == Append(s.filenames, file)
             room == IF n % CHUNK_SIZE = 0 THEN n + CHUNK_SIZE ELSE s.room
  <2>1. r = [s EXCEPT !.filenames = names, !.room = room]
    BY <1>2 DEF scanctx_add_filename
  <2>2. names \in Seq(Text) /\ Len(names) = n + 1 /\ \A i \in 1..n : names[i] = s.filenames[i]
    BY <1>0
  <2>3. names[n + 1] = file
    BY <1>0
  <2>4. room \in Nat /\ room % CHUNK_SIZE = 0 /\ n + 1 <= room
    <3>1. CASE n % CHUNK_SIZE = 0
      <4>1. room = n + CHUNK_SIZE
        BY <3>1
      <4>2. (n + CHUNK_SIZE) % CHUNK_SIZE = 0
        <5>1. \A k \in Nat : k % CHUNK_SIZE = 0 => (k + CHUNK_SIZE) % CHUNK_SIZE = 0
          BY ChunkMultiple
        <5>2. n \in Nat /\ n % CHUNK_SIZE = 0
          BY <1>0, <3>1
        <5> HIDE DEF n, room
        <5> QED BY <5>1, <5>2, Zenon
      <4>3. n + CHUNK_SIZE \in Nat /\ n + 1 <= n + CHUNK_SIZE
        BY <1>0
      <4> HIDE DEF n, room
      <4> QED BY <4>1, <4>2, <4>3, Zenon
    <3>2. CASE n % CHUNK_SIZE # 0
      <4>1. room = s.room
        BY <3>2
      <4>2. n <= s.room /\ s.room % CHUNK_SIZE = 0
        BY DEF NamesFit
      <4>3. n # s.room
        BY <3>2, <4>2
      <4> HIDE DEF n, room
      <4> QED BY <1>0, <4>1, <4>2, <4>3
    <3> QED BY <3>1, <3>2
  <2>5. s = [stack |-> s.stack, string |-> s.string, filenames |-> s.filenames, room |-> s.room,
             top_filename |-> s.top_filename]
    BY DEF ContextType
  <2> HIDE DEF r, names, room
  <2>6. r = [stack |-> s.stack, string |-> s.string, filenames |-> names, room |-> room,
             top_filename |-> s.top_filename]
    BY <2>1, <2>5
  <2>7. /\ r.stack = s.stack /\ r.string = s.string /\ r.top_filename = s.top_filename
        /\ r.filenames = names /\ r.room = room
    BY <2>6
  <2>8. ContextType(r)
    BY <2>2, <2>4, <2>6, <2>7 DEF ContextType
  <2>9. NamesFit(r)
    BY <2>2, <2>4, <2>7 DEF NamesFit
  <2>10. file \in Range(r.filenames)
    <3>1. n + 1 \in DOMAIN names
      BY <1>0, <2>2
    <3> QED BY <2>3, <2>7, <3>1 DEF Range
  <2>11. Range(s.filenames) \subseteq Range(r.filenames)
    <3> SUFFICES ASSUME NEW x \in Range(s.filenames) PROVE x \in Range(names)
      BY <2>7
    <3>1. PICK i \in DOMAIN s.filenames : s.filenames[i] = x
      BY DEF Range
    <3>2. i \in 1..n /\ i \in DOMAIN names
      BY <1>0, <2>2, <3>1
    <3> QED BY <2>2, <3>1, <3>2 DEF Range
  <2> QED BY <2>7, <2>8, <2>9, <2>10, <2>11 DEF r
<1> QED BY <1>1, <1>2

-----------------------------------------------------------------------------
(* A step within the file being read. *)

\* The current buffer may change, as long as it stays in use for its file.
LEMMA BuffersStay ==
    ASSUME NEW all \in Seq(Buffers), NEW s, NEW g, Len(s.stack) \in Nat, BuffersNested(all, s, g),
           NEW nb \in Buffers, nb.yy_input_file = all[g.current].yy_input_file,
           nb.deleted = all[g.current].deleted,
           NEW s2, s2.stack = s.stack, NEW g2, g2.current = g.current, g2.yyin = g.yyin
    PROVE  BuffersNested([all EXCEPT ![g.current] = nb], s2, g2)
<1> DEFINE n == Len(s.stack)
           all2 == [all EXCEPT ![g.current] = nb]
<1>1. \A i : Level(s2, g2, i) = Level(s, g, i)
  BY DEF Level
<1>2. Level(s, g, n + 1) = g.current /\ \A i \in 1..n : Level(s, g, i) = s.stack[i].buffer
  BY DEF Level
<1>3. /\ \A i \in 1..(n + 1) : Level(s, g, i) \in 1..Len(all)
      /\ \A i, j \in 1..(n + 1) : i < j => Level(s, g, i) < Level(s, g, j)
      /\ Level(s, g, 1) = 1
      /\ \A b \in 1..Len(all) : all[b].deleted = IF InUse(s, g, b) THEN 0 ELSE 1
      /\ \A i \in 1..n : all[Level(s, g, i + 1)].yy_input_file = s.stack[i].stream
      /\ \A i \in 1..n : all[s.stack[i].buffer].yy_buf_pos <= Len(all[s.stack[i].buffer].ch)
      /\ g.yyin = all[g.current].yy_input_file
  BY DEF BuffersNested
<1>4. g.current \in 1..Len(all) /\ n + 1 \in 1..(n + 1)
  BY <1>2, <1>3
<1>5. /\ Len(all2) = Len(all)
      /\ \A b \in 1..Len(all) : /\ all2[b].deleted = all[b].deleted
                                /\ all2[b].yy_input_file = all[b].yy_input_file
                                /\ b # g.current => all2[b] = all[b]
  BY <1>4
<1>6. ASSUME NEW i \in 1..n PROVE s.stack[i].buffer \in 1..Len(all) /\ s.stack[i].buffer # g.current
  <2>1. i \in 1..(n + 1) /\ i < n + 1
    OBVIOUS
  <2>2. Level(s, g, i) < Level(s, g, n + 1) /\ Level(s, g, i) \in 1..Len(all)
    BY <1>3, <1>4, <2>1
  <2> QED BY <1>2, <1>4, <2>2
<1>7. \A b : InUse(s2, g2, b) = InUse(s, g, b)
  BY <1>1 DEF InUse
<1> HIDE DEF all2
<1>8. \A b \in 1..Len(all2) : all2[b].deleted = IF InUse(s2, g2, b) THEN 0 ELSE 1
  BY <1>3, <1>5, <1>7
<1>9. ASSUME NEW i \in 1..n PROVE all2[Level(s2, g2, i + 1)].yy_input_file = s.stack[i].stream
  <2>1. Level(s, g, i + 1) \in 1..Len(all)
    BY <1>3
  <2> QED BY <1>1, <1>3, <1>5, <2>1
<1>10. \A i \in 1..n : all2[s.stack[i].buffer].yy_buf_pos <= Len(all2[s.stack[i].buffer].ch)
  BY <1>3, <1>5, <1>6
<1>11. g2.yyin = all2[g2.current].yy_input_file
  BY <1>3, <1>4, <1>5
<1>12. BuffersNested(all2, s2, g2)
  BY <1>1, <1>3, <1>5, <1>8, <1>9, <1>10, <1>11 DEF BuffersNested
<1> QED BY <1>12 DEF all2

\* The files may be read from.
LEMMA StreamsStay ==
    ASSUME NEW files, NEW s, NEW top, Len(s.stack) \in Nat, StreamsNested(files, s, top),
           NEW files2, Len(files2) = Len(files), \A f \in 1..Len(files) : files2[f].closed = files[f].closed,
           NEW s2, s2.stack = s.stack
    PROVE  StreamsNested(files2, s2, top)
<1>1. \A f : Included(s2, f) = Included(s, f)
  BY DEF Included
<1> QED BY <1>1 DEF StreamsNested

LEMMA NamesStay ==
    ASSUME NEW s, NamesKept(s), NEW s2, s2.stack = s.stack, s2.filenames = s.filenames,
           s2.top_filename = s.top_filename
    PROVE  NamesKept(s2)
BY DEF NamesKept

\* Whatever happens within the file being read keeps the invariant: the buffer
\* is still one that fits, for the same file; the string is one that fits.
LEMMA StepWithin ==
    ASSUME ScanInv, Going, input' = input,
           NEW nb \in Buffers, Fits(nb), nb.yy_input_file = Current.yy_input_file,
           nb.deleted = Current.deleted, bufs' = [bufs EXCEPT ![yyg.current] = nb],
           NEW pos \in 0..Len(nb.ch), NEW sc \in Conditions,
           yyg' = [yyg EXCEPT !.yy_c_buf_p = pos, !.yy_start = sc],
           NEW str, str = [string |-> str.string, capacity |-> str.capacity],
           str.string \in Text, str.capacity \in Nat,
           str.string # << >> => Len(str.string) < str.capacity,
           sctx' = [sctx EXCEPT !.string = str],
           sc \in {"INITIAL", "COMMENT"} => str = EmptyString,
           streams' \in Seq(Streams), Len(streams') = Len(streams),
           \A f \in 1..Len(streams) : streams'[f].closed = streams[f].closed,
           error'.file \in Range(sctx.filenames) \cup {<< >>},
           spc' \in Places \ {"over"}
    PROVE  ScanInv'
<1>0. /\ bufs \in Seq(Buffers) /\ ContextType(sctx) /\ input \in Inputs
      /\ yyg \in [current : Nat, yy_c_buf_p : Nat, yyin : Nat, yy_start : Conditions]
      /\ yyg.current \in 1..Len(bufs) /\ Len(bufs) \in Nat
  BY DEF ScanInv, ScanTypeOK, Placed
<1>1. sctx = [stack |-> sctx.stack, string |-> sctx.string, filenames |-> sctx.filenames, room |-> sctx.room,
              top_filename |-> sctx.top_filename]
  BY <1>0 DEF ContextType
<1>2. sctx' = [stack |-> sctx.stack, string |-> str, filenames |-> sctx.filenames, room |-> sctx.room,
               top_filename |-> sctx.top_filename]
  BY <1>1
<1>3. /\ sctx'.stack = sctx.stack /\ sctx'.filenames = sctx.filenames /\ sctx'.room = sctx.room
      /\ sctx'.string = str /\ sctx'.top_filename = sctx.top_filename
  BY <1>2
<1>4. ContextType(sctx')
  BY <1>0, <1>2, <1>3 DEF ContextType
<1>5. /\ yyg'.current = yyg.current /\ yyg'.yyin = yyg.yyin /\ yyg'.yy_start = sc /\ yyg'.yy_c_buf_p = pos
      /\ yyg' \in [current : Nat, yy_c_buf_p : Nat, yyin : Nat, yy_start : Conditions]
  <2>1. Len(nb.ch) \in Nat
    BY DEF Buffers
  <2>2. pos \in Nat
    BY <2>1
  <2> QED BY <1>0, <2>2
<1>6. bufs' \in Seq(Buffers) /\ Len(bufs') = Len(bufs)
      /\ \A b \in 1..Len(bufs) : bufs'[b] = IF b = yyg.current THEN nb ELSE bufs[b]
  BY <1>0
<1>7. ScanTypeOK'
  <2>1. input' \in Inputs /\ spc' \in Places
    BY <1>0
  <2>2. ContextType(sctx)'
    BY <1>4 DEF ContextType
  <2> QED BY <1>5, <1>6, <2>1, <2>2 DEF ScanTypeOK
<1>8. Placed'
  <2>1. \A b \in 1..Len(bufs') : Fits(bufs'[b])
    BY <1>0, <1>6 DEF ScanInv, Placed
  <2>2. yyg'.current \in 1..Len(bufs')
    BY <1>0, <1>5, <1>6
  <2>3. bufs'[yyg'.current] = nb
    BY <1>0, <1>5, <1>6
  <2>4. yyg'.yy_c_buf_p <= Len(bufs'[yyg'.current].ch)
    BY <1>5, <2>3
  <2> QED BY <2>1, <2>2, <2>4 DEF Placed, Current, Fits
<1>9. StringFits(sctx)' /\ NamesFit(sctx)'
  BY <1>3 DEF StringFits, NamesFit, ScanInv
<1>10. depth' <= MAX_INCLUDE_DEPTH
  BY <1>3 DEF depth, ScanInv
<1>11. Nested'
  <2>1. /\ BuffersNested(bufs, sctx, yyg)
        /\ StreamsNested(streams, sctx, bufs[1].yy_input_file)
        /\ NamesKept(sctx)
    BY DEF ScanInv, Nested
  <2>2. Len(sctx.stack) \in Nat
    BY <1>0 DEF ContextType
  <2>3. BuffersNested(bufs', sctx', yyg')
    BY <1>0, <1>3, <1>5, <2>1, <2>2, BuffersStay DEF Current
  <2>4. bufs'[1].yy_input_file = bufs[1].yy_input_file
    <3>1. 1 \in 1..Len(bufs)
      BY <1>0
    <3> QED BY <1>6, <3>1 DEF Current
  <2>5. StreamsNested(streams', sctx', bufs[1].yy_input_file)
    BY <1>3, <2>1, <2>2, StreamsStay
  <2>6. NamesKept(sctx')
    BY <1>3, <2>1, NamesStay
  <2>7. StreamsNested(streams', sctx', bufs'[1].yy_input_file)
    BY <2>4, <2>5
  <2>8. BuffersNested(bufs, sctx, yyg)'
    BY <2>3 DEF BuffersNested, InUse, Level
  <2>9. StreamsNested(streams, sctx, bufs[1].yy_input_file)'
    BY <2>7 DEF StreamsNested, Included
  <2>10. NamesKept(sctx)'
    BY <2>6 DEF NamesKept
  <2> QED BY <2>8, <2>9, <2>10 DEF Nested
<1>12. ErrorNamed'
  BY <1>3 DEF ErrorNamed, Range
<1>13. StringsBeginEmpty'
  BY <1>3, <1>5 DEF StringsBeginEmpty, EmptyString
<1>14. EverythingReleased'
  BY DEF EverythingReleased
<1> QED BY <1>7, <1>8, <1>9, <1>10, <1>11, <1>12, <1>13, <1>14 DEF ScanInv

\* The facts every one of the following proofs begins with.
LEMMA GoingFacts ==
    ASSUME ScanInv
    PROVE  /\ ScanTypeOK /\ Placed
           /\ bufs \in Seq(Buffers) /\ streams \in Seq(Streams) /\ ContextType(sctx) /\ input \in Inputs
           /\ yyg \in [current : Nat, yy_c_buf_p : Nat, yyin : Nat, yy_start : Conditions]
           /\ yyg.current \in 1..Len(bufs) /\ Len(bufs) \in Nat
           /\ Current \in Buffers /\ Fits(Current)
           /\ scanctx_current_filename(sctx) \in Range(sctx.filenames) \cup {<< >>} \/ ~ Going
           /\ error.file \in Range(sctx.filenames) \cup {<< >>}
           /\ sctx.string = [string |-> sctx.string.string, capacity |-> sctx.string.capacity]
           /\ sctx.string.string \in Text /\ sctx.string.capacity \in Nat
           /\ sctx.string.string # << >> => Len(sctx.string.string) < sctx.string.capacity
           /\ yyg.yy_start \in {"INITIAL", "COMMENT"} => sctx.string = EmptyString
<1>1. ScanTypeOK /\ Placed
  BY DEF ScanInv
<1>2. /\ bufs \in Seq(Buffers) /\ streams \in Seq(Streams) /\ ContextType(sctx) /\ input \in Inputs
      /\ yyg \in [current : Nat, yy_c_buf_p : Nat, yyin : Nat, yy_start : Conditions]
      /\ yyg.current \in 1..Len(bufs) /\ Len(bufs) \in Nat
  BY <1>1 DEF ScanTypeOK, Placed
<1>3. Current \in Buffers /\ Fits(Current)
  BY <1>1, CurrentFacts
<1>4. ASSUME Going PROVE scanctx_current_filename(sctx) \in Range(sctx.filenames) \cup {<< >>}
  <2>1. NamesKept(sctx)
    BY <1>4 DEF ScanInv, Nested
  <2>2. CASE sctx.stack = << >>
    BY <2>1, <2>2 DEF scanctx_current_filename, NamesKept
  <2>3. CASE sctx.stack # << >>
    <3>1. sctx.stack \in Seq([file : Text, buffer : Nat, stream : Nat])
      BY <1>2 DEF ContextType
    <3>2. Len(sctx.stack) \in 1..Len(sctx.stack)
      BY <2>3, <3>1
    <3> QED BY <2>1, <2>3, <3>2 DEF scanctx_current_filename, NamesKept, Last
  <2> QED BY <2>2, <2>3
<1>5. error.file \in Range(sctx.filenames) \cup {<< >>}
  BY DEF ScanInv, ErrorNamed
<1>6. /\ sctx.string = [string |-> sctx.string.string, capacity |-> sctx.string.capacity]
      /\ sctx.string.string \in Text /\ sctx.string.capacity \in Nat
  BY <1>2 DEF ContextType
<1>7. /\ sctx.string.string # << >> => Len(sctx.string.string) < sctx.string.capacity
      /\ yyg.yy_start \in {"INITIAL", "COMMENT"} => sctx.string = EmptyString
  BY DEF ScanInv, StringFits, StringsBeginEmpty
<1> QED BY <1>1, <1>2, <1>3, <1>4, <1>5, <1>6, <1>7

LEMMA EmptyStringFacts ==
    /\ EmptyString = [string |-> EmptyString.string, capacity |-> EmptyString.capacity]
    /\ EmptyString.string = << >> /\ EmptyString.string \in Text /\ EmptyString.capacity \in Nat
BY DEF EmptyString, Text

\* The scanner is behind the text matched.
LEMMA BehindMatch ==
    ASSUME ScanInv
    PROVE  /\ yyg.yy_c_buf_p + TextEnd(Matched) \in 0..Len(RuleSetup(Matched).ch)
           /\ SubSeq(Unscanned, 1, TextEnd(Matched)) \in Text
<1>1. ScanTypeOK /\ Placed
  BY GoingFacts
<1>2. /\ Unscanned \in Seq(Char) /\ Len(Unscanned) = Len(Current.ch) - yyg.yy_c_buf_p
      /\ Len(Current.ch) \in Nat /\ yyg.yy_c_buf_p \in 0..Len(Current.ch)
  BY <1>1, CurrentFacts
<1>3. TextEnd(Matched) \in 0..Len(Unscanned)
  BY <1>1, MatchedFacts
<1>4. RuleSetup(Matched).ch = Current.ch
  BY <1>1, RuleSetupFacts
<1>5. yyg.yy_c_buf_p + TextEnd(Matched) \in 0..Len(RuleSetup(Matched).ch)
  BY <1>2, <1>3, <1>4
<1>6. SubSeq(Unscanned, 1, TextEnd(Matched)) \in Seq(Char)
  BY <1>2, <1>3
<1> QED BY <1>5, <1>6, TextFacts

LEMMA MatchRuleKeeps == ScanInv /\ MatchRule /\ UNCHANGED input => ScanInv'
<1> SUFFICES ASSUME ScanInv, MatchRule, UNCHANGED input PROVE ScanInv'
  OBVIOUS
<1> DEFINE m == Matched
           nb == RuleSetup(m)
           text == SubSeq(Unscanned, 1, TextEnd(m))
           sc == StartAfter(m.rule)
           str == IF m.rule = 15 THEN strbuf_release(sctx.string)
                  ELSE IF m.rule \in (6..19) \ {16} THEN strbuf_append(sctx.string, Appended(m.rule, text))
                  ELSE sctx.string
           pos == yyg.yy_c_buf_p + TextEnd(m)
<1>1. /\ bufs' = [bufs EXCEPT ![yyg.current] = nb]
      /\ yyg' = [yyg EXCEPT !.yy_c_buf_p = pos, !.yy_start = sc]
      /\ sctx' = [sctx EXCEPT !.string = str]
      /\ spc' \in {"token", "match"}
      /\ streams' = streams /\ error' = error
      /\ MayMatch /\ m.rule # 20
  BY DEF MatchRule
<1>2. Going
  BY <1>1 DEF MayMatch, Going
<1>3. /\ nb \in Buffers /\ Fits(nb) /\ nb.yy_input_file = Current.yy_input_file /\ nb.deleted = Current.deleted
  BY GoingFacts, RuleSetupFacts
<1>4. pos \in 0..Len(nb.ch) /\ text \in Text
  BY BehindMatch
<1>5. m.rule \in {0} \cup RulesOf(yyg.yy_start, TRUE) /\ yyg.yy_start \in Conditions
  BY GoingFacts, MatchedFacts DEF Sound
<1>6. /\ str = [string |-> str.string, capacity |-> str.capacity]
      /\ str.string \in Text /\ str.capacity \in Nat
      /\ str.string # << >> => Len(str.string) < str.capacity
  <2>1. CASE m.rule = 15
    <3>1. str = EmptyString
      BY <2>1 DEF strbuf_release
    <3> QED BY <3>1, EmptyStringFacts
  <2>2. CASE m.rule # 15 /\ m.rule \in (6..19) \ {16}
    <3> DEFINE a == Appended(m.rule, text)
    <3>1. a \in Text
      BY <1>4, AppendedType
    <3>2. str = strbuf_append(sctx.string, a)
      BY <2>2
    <3> HIDE DEF a, str
    <3> QED BY <3>1, <3>2, GoingFacts, StringGrows
  <2>3. CASE m.rule # 15 /\ m.rule \notin (6..19) \ {16}
    <3>1. str = sctx.string
      BY <2>3
    <3> QED BY <3>1, GoingFacts
  <2> QED BY <2>1, <2>2, <2>3
<1>7. sc \in Conditions
  BY <1>5 DEF StartAfter, Conditions
<1>8. ASSUME sc \in {"INITIAL", "COMMENT"} PROVE str = EmptyString
  <2>1. CASE m.rule = 15
    BY <2>1 DEF strbuf_release
  <2>2. CASE m.rule # 15
    <3>1. yyg.yy_start \in {"INITIAL", "COMMENT"}
      <4>1. CASE m.rule \in {1, 2}
        BY <1>5, <4>1 DEF RulesOf, Conditions
      <4>2. CASE m.rule \notin {1, 2}
        BY <1>8, <2>2, <4>2 DEF StartAfter
      <4> QED BY <4>1, <4>2
    <3>2. m.rule \notin (6..19) \ {16}
      BY <1>5, <3>1 DEF RulesOf
    <3>3. str = sctx.string
      BY <2>2, <3>2
    <3> QED BY <3>1, <3>3, GoingFacts
  <2> QED BY <2>1, <2>2
<1>9. /\ streams' \in Seq(Streams) /\ Len(streams') = Len(streams)
      /\ \A f \in 1..Len(streams) : streams'[f].closed = streams[f].closed
      /\ error'.file \in Range(sctx.filenames) \cup {<< >>}
      /\ spc' \in Places \ {"over"} /\ input' = input
  BY <1>1, GoingFacts DEF Places
<1> HIDE DEF nb, sc, str, pos
<1> QED BY <1>1, <1>2, <1>3, <1>4, <1>6, <1>7, <1>8, <1>9, StepWithin, Zenon

\* Parts of a record that stay what they are.
LEMMA ScannerKept ==
    ASSUME NEW g \in [current : Nat, yy_c_buf_p : Nat, yyin : Nat, yy_start : Conditions], NEW pos
    PROVE  [g EXCEPT !.yy_c_buf_p = pos] = [g EXCEPT !.yy_c_buf_p = pos, !.yy_start = g.yy_start]
<1>1. g = [current |-> g.current, yy_c_buf_p |-> g.yy_c_buf_p, yyin |-> g.yyin, yy_start |-> g.yy_start]
  OBVIOUS
<1>2. [g EXCEPT !.yy_c_buf_p = pos] =
          [current |-> g.current, yy_c_buf_p |-> pos, yyin |-> g.yyin, yy_start |-> g.yy_start]
  BY <1>1
<1> DEFINE x == [g EXCEPT !.yy_c_buf_p = pos]
<1>3. [g EXCEPT !.yy_c_buf_p = pos, !.yy_start = g.yy_start] = [x EXCEPT !.yy_start = g.yy_start]
  OBVIOUS
<1> HIDE DEF x
<1>4. [x EXCEPT !.yy_start = g.yy_start] = x
  BY <1>2 DEF x
<1> QED BY <1>3, <1>4 DEF x

LEMMA ContextKept ==
    ASSUME NEW s, ContextType(s)
    PROVE  s = [s EXCEPT !.string = s.string]
BY DEF ContextType


LEMMA IncludeFailsKeeps == ScanInv /\ IncludeFails /\ UNCHANGED input => ScanInv'
<1> SUFFICES ASSUME ScanInv, IncludeFails, UNCHANGED input PROVE ScanInv'
  OBVIOUS
<1> DEFINE m == Matched
           nb == RuleSetup(m)
           sc == yyg.yy_start
           tooDeep == depth = MAX_INCLUDE_DEPTH
           str == IF tooDeep THEN sctx.string ELSE EmptyString
           pos == yyg.yy_c_buf_p + TextEnd(m)
<1>1. /\ bufs' = [bufs EXCEPT ![yyg.current] = nb]
      /\ yyg' = [yyg EXCEPT !.yy_c_buf_p = pos]
      /\ sctx' = IF tooDeep THEN sctx ELSE [sctx EXCEPT !.string = strbuf_release(@)]
      /\ spc' = "token"
      /\ streams' = streams /\ error'.file = scanctx_current_filename(sctx)
      /\ MayMatch
  <2>1. \E e : error' = [text |-> e, line |-> Current.yy_bs_lineno, file |-> scanctx_current_filename(sctx)]
    BY Zenon DEF IncludeFails
  <2>2. error'.file = scanctx_current_filename(sctx)
    BY <2>1
  <2> QED BY <2>2, Zenon DEF IncludeFails
<1>2. Going
  BY <1>1 DEF MayMatch, Going
<1>3. /\ nb \in Buffers /\ Fits(nb) /\ nb.yy_input_file = Current.yy_input_file /\ nb.deleted = Current.deleted
  BY GoingFacts, RuleSetupFacts
<1>4. pos \in 0..Len(nb.ch)
  BY BehindMatch
<1>5. sc \in Conditions /\ yyg' = [yyg EXCEPT !.yy_c_buf_p = pos, !.yy_start = sc]
  BY <1>1, GoingFacts, ScannerKept
<1>6. /\ str = [string |-> str.string, capacity |-> str.capacity]
      /\ str.string \in Text /\ str.capacity \in Nat
      /\ str.string # << >> => Len(str.string) < str.capacity
      /\ sc \in {"INITIAL", "COMMENT"} => str = EmptyString
  <2>1. str = sctx.string \/ str = EmptyString
    OBVIOUS
  <2> HIDE DEF str
  <2> QED BY <2>1, GoingFacts, EmptyStringFacts, Zenon
<1>7. sctx' = [sctx EXCEPT !.string = str]
  BY <1>1, GoingFacts, ContextKept DEF strbuf_release
<1>8. /\ streams' \in Seq(Streams) /\ Len(streams') = Len(streams)
      /\ \A f \in 1..Len(streams) : streams'[f].closed = streams[f].closed
      /\ error'.file \in Range(sctx.filenames) \cup {<< >>}
      /\ spc' \in Places \ {"over"} /\ input' = input
  BY <1>1, <1>2, GoingFacts DEF Places
<1> HIDE DEF nb, sc, str, pos
<1> QED BY <1>1, <1>2, <1>3, <1>4, <1>5, <1>6, <1>7, <1>8, StepWithin, Zenon

\* Nothing changes but the place in the scanner.
LEMMA PlaceChanges ==
    ASSUME ScanInv, Going, UNCHANGED <<input, streams, bufs, yyg, sctx, error>>, spc' \in Places \ {"over"}
    PROVE  ScanInv'
<1> DEFINE nb == Current
           sc == yyg.yy_start
           str == sctx.string
           pos == yyg.yy_c_buf_p
<1>1. bufs' = [bufs EXCEPT ![yyg.current] = nb]
  BY GoingFacts DEF Current
<1>2. /\ nb \in Buffers /\ Fits(nb) /\ nb.yy_input_file = Current.yy_input_file /\ nb.deleted = Current.deleted
  BY GoingFacts
<1>3. pos \in 0..Len(nb.ch) /\ sc \in Conditions
  BY GoingFacts, CurrentFacts
<1>4. yyg' = [yyg EXCEPT !.yy_c_buf_p = pos, !.yy_start = sc]
  <2>1. yyg = [yyg EXCEPT !.yy_c_buf_p = pos]
    BY GoingFacts
  <2>2. [yyg EXCEPT !.yy_c_buf_p = pos] = [yyg EXCEPT !.yy_c_buf_p = pos, !.yy_start = sc]
    BY GoingFacts, ScannerKept
  <2> QED BY <2>1, <2>2
<1>5. sctx' = [sctx EXCEPT !.string = str]
  BY GoingFacts, ContextKept
<1>6. /\ str = [string |-> str.string, capacity |-> str.capacity]
      /\ str.string \in Text /\ str.capacity \in Nat
      /\ str.string # << >> => Len(str.string) < str.capacity
      /\ sc \in {"INITIAL", "COMMENT"} => str = EmptyString
  BY GoingFacts, Zenon
<1>7. /\ streams' \in Seq(Streams) /\ Len(streams') = Len(streams)
      /\ \A f \in 1..Len(streams) : streams'[f].closed = streams[f].closed
      /\ error'.file \in Range(sctx.filenames) \cup {<< >>} /\ input' = input
  BY GoingFacts
<1> HIDE DEF nb, sc, str, pos
<1> QED BY <1>1, <1>2, <1>3, <1>4, <1>5, <1>6, <1>7, StepWithin, Zenon

LEMMA EndOfStringKeeps == ScanInv /\ EndOfString /\ UNCHANGED input => ScanInv'
<1>1. EndOfString => Going /\ spc' \in Places \ {"over"}
  BY DEF EndOfString, Going, AtEnd, Places
<1> QED BY <1>1, PlaceChanges DEF EndOfString

LEMMA ReadFailsKeeps == ScanInv /\ ReadFails /\ UNCHANGED input => ScanInv'
<1>1. ReadFails => Going /\ spc' \in Places \ {"over"}
  BY DEF ReadFails, Going, Places
<1> QED BY <1>1, PlaceChanges DEF ReadFails

\* The smallest of three numbers.
LEMMA MinOfThree ==
    ASSUME NEW x \in Nat, NEW y \in Nat, NEW z \in Nat
    PROVE  /\ Min({x, y, z}) \in {x, y, z}
           /\ Min({x, y, z}) <= x /\ Min({x, y, z}) <= y /\ Min({x, y, z}) <= z
<1> DEFINE S == {x, y, z}
<1>1. \E n \in S : \A m \in S : n <= m
  BY Least
<1>2. Min(S) \in S /\ \A m \in S : Min(S) <= m
  <2> HIDE DEF S
  <2> QED BY <1>1, Zenon DEF Min
<1> QED BY <1>2, Zenon

\* A buffer that is to be filled is filled from a file that is there.
LEMMA FileThere ==
    ASSUME ScanInv, Going, Current.yy_fill_buffer
    PROVE  /\ yyg.yyin \in 1..Len(streams) /\ yyg.yyin = Current.yy_input_file
           /\ streams[yyg.yyin] \in Streams /\ streams[yyg.yyin].rest \in Seq(Char)
<1> DEFINE n == Len(sctx.stack)
<1>1. BuffersNested(bufs, sctx, yyg) /\ StreamsNested(streams, sctx, bufs[1].yy_input_file)
  BY DEF ScanInv, Nested
<1>2. yyg.yyin = Current.yy_input_file /\ Current.yy_input_file # NoStream
  BY <1>1, GoingFacts DEF BuffersNested, Fits, Current
<1>3. n \in Nat /\ streams \in Seq(Streams) /\ Len(streams) \in Nat
  BY GoingFacts DEF ContextType
<1>4. ASSUME n = 0 PROVE yyg.yyin \in 1..Len(streams)
  <2>1. Level(sctx, yyg, 1) = yyg.current /\ Level(sctx, yyg, 1) = 1
    BY <1>1, <1>4 DEF BuffersNested, Level
  <2>2. Current.yy_input_file \in 0..Len(streams)
    BY <1>1, <2>1 DEF StreamsNested, Current
  <2> QED BY <1>2, <1>3, <2>2 DEF NoStream
<1>5. ASSUME n # 0 PROVE yyg.yyin \in 1..Len(streams)
  <2>1. n \in 1..n /\ n + 1 > n
    BY <1>3, <1>5
  <2>2. Level(sctx, yyg, n + 1) = yyg.current
    BY <2>1 DEF Level
  <2>3. Current.yy_input_file = sctx.stack[n].stream
    BY <1>1, <2>1, <2>2 DEF BuffersNested, Current
  <2>4. sctx.stack[n].stream \in 1..Len(streams)
    BY <1>1, <2>1 DEF StreamsNested
  <2> QED BY <1>2, <2>3, <2>4
<1>6. yyg.yyin \in 1..Len(streams)
  BY <1>4, <1>5
<1>7. streams[yyg.yyin] \in Streams
  BY <1>3, <1>6
<1>8. streams[yyg.yyin].rest \in Seq(Char)
  BY <1>7 DEF Streams
<1> QED BY <1>2, <1>6, <1>7, <1>8

\* What is read fits into the buffer, behind what is kept.
LEMMA RoomFacts ==
    ASSUME NEW size \in Nat, NEW kept \in Nat, kept < size
    PROVE  /\ Enlarged(size, kept) \in Nat /\ size <= Enlarged(size, kept)
           /\ NumToRead(size, kept) \in Nat
           /\ kept + NumToRead(size, kept) < Enlarged(size, kept)
<1> DEFINE e == Enlarged(size, kept)
<1>1. e \in Nat /\ size <= e /\ e - kept - 1 \in Nat
  BY DEF Enlarged
<1>2. YY_READ_BUF_SIZE \in Nat
  BY ScannerAssumption
<1>3. NumToRead(size, kept) = IF e - kept - 1 < 0 \/ e - kept - 1 > YY_READ_BUF_SIZE THEN YY_READ_BUF_SIZE
                              ELSE e - kept - 1
  BY DEF NumToRead
<1> HIDE DEF e
<1>4. NumToRead(size, kept) \in Nat /\ kept + NumToRead(size, kept) < e
  BY <1>1, <1>2, <1>3
<1> QED BY <1>1, <1>4 DEF e

LEMMA RefillKeeps == ScanInv /\ Refill /\ UNCHANGED input => ScanInv'
<1> SUFFICES ASSUME ScanInv, Refill, UNCHANGED input PROVE ScanInv'
  OBVIOUS
<1> DEFINE moved == Unscanned
           size == Current.yy_buf_size
           room == NumToRead(size, Len(moved))
           left == streams[yyg.yyin].rest
           status == IF Current.yy_buffer_status = "NEW" THEN "NORMAL" ELSE Current.yy_buffer_status
           b == [Current EXCEPT !.yy_buffer_status = IF @ = "NEW" THEN "NORMAL" ELSE @,
                                !.yy_input_file = yyg.yyin, !.ch = moved]
<1>1. PICK n \in {Min({r, room, Len(left)}) : r \in input.readSizes} :
          /\ bufs' = [bufs EXCEPT ![yyg.current] =
                         [b EXCEPT !.ch = moved \o SubSeq(left, 1, n), !.yy_buf_size = Enlarged(@, Len(moved))]]
          /\ streams' = [streams EXCEPT ![yyg.yyin].rest = SubSeq(left, n + 1, Len(left))]
  BY Zenon DEF Refill
<1>2. /\ Going /\ Current.yy_fill_buffer /\ yyg' = [yyg EXCEPT !.yy_c_buf_p = 0]
      /\ spc' \in Places \ {"over"} /\ sctx' = sctx /\ error' = error
  BY DEF Refill, Going, Places
<1>3. /\ Current \in Buffers /\ Len(Current.ch) < size /\ size \in Nat
      /\ moved \in Seq(Char) /\ Len(moved) \in Nat /\ Len(moved) < size
  <2>1. Current \in Buffers /\ Fits(Current)
    BY GoingFacts
  <2>2. size \in Nat /\ Len(Current.ch) < size
    BY <1>2, <2>1 DEF Buffers, Fits
  <2>3. /\ moved \in Seq(Char) /\ Len(moved) = Len(Current.ch) - yyg.yy_c_buf_p
        /\ Len(Current.ch) \in Nat /\ yyg.yy_c_buf_p \in 0..Len(Current.ch)
    BY GoingFacts, CurrentFacts
  <2> QED BY <2>1, <2>2, <2>3
<1>4. /\ yyg.yyin \in 1..Len(streams) /\ yyg.yyin = Current.yy_input_file
      /\ streams[yyg.yyin] \in Streams /\ left \in Seq(Char) /\ Len(left) \in Nat
  BY <1>2, FileThere
<1>5. /\ Enlarged(size, Len(moved)) \in Nat /\ room \in Nat
      /\ Len(moved) + room < Enlarged(size, Len(moved))
  BY <1>3, RoomFacts
<1>6. n \in Nat /\ n <= room /\ n <= Len(left)
  <2>1. PICK r \in input.readSizes : n = Min({r, room, Len(left)})
    BY <1>1
  <2>2. r \in Nat
    BY <2>1, GoingFacts, ScannerAssumption
  <2> HIDE DEF room, left
  <2>3. n \in {r, room, Len(left)} /\ n <= r /\ n <= room /\ n <= Len(left)
    BY <1>4, <1>5, <2>1, <2>2, MinOfThree
  <2> QED BY <1>4, <1>5, <2>2, <2>3
<1> DEFINE chars == moved \o SubSeq(left, 1, n)
           big == Enlarged(size, Len(moved))
           nb == [b EXCEPT !.ch = chars, !.yy_buf_size = Enlarged(@, Len(moved))]
<1>7. chars \in Seq(Char) /\ Len(chars) = Len(moved) + n
  <2> HIDE DEF moved, left
  <2> QED BY <1>3, <1>4, <1>6
<1>8. /\ nb \in Buffers /\ nb.ch = chars /\ nb.yy_buf_size = big /\ nb.yy_input_file = Current.yy_input_file
      /\ nb.deleted = Current.deleted
  <2> DEFINE x1 == [Current EXCEPT !.yy_buffer_status = status]
             x2 == [x1 EXCEPT !.yy_input_file = yyg.yyin]
             x3 == [x2 EXCEPT !.ch = moved]
             x4 == [x3 EXCEPT !.ch = chars]
             x5 == [x4 EXCEPT !.yy_buf_size = big]
  <2>1. status \in {"NEW", "NORMAL", "EOF_PENDING"} /\ Current \in Buffers
    BY <1>3 DEF Buffers
  <2> HIDE DEF status, moved, chars, big
  <2>2. x1 \in Buffers /\ x1.deleted = Current.deleted /\ x1.yy_buf_size = size
    BY <2>1 DEF Buffers
  <2>3. yyg.yyin \in Nat
    BY GoingFacts
  <2>4. x2 \in Buffers /\ x2.deleted = x1.deleted /\ x2.yy_input_file = yyg.yyin /\ x2.yy_buf_size = size
    <3> HIDE DEF x1
    <3> QED BY <2>2, <2>3 DEF Buffers
  <2>5. x3 \in Buffers /\ x3.deleted = x2.deleted /\ x3.yy_input_file = yyg.yyin /\ x3.yy_buf_size = size
    <3> HIDE DEF x2
    <3> QED BY <1>3, <2>4 DEF Buffers
  <2>6. x4 \in Buffers /\ x4.deleted = x3.deleted /\ x4.yy_input_file = yyg.yyin /\ x4.yy_buf_size = size /\ x4.ch = chars
    <3> HIDE DEF x3
    <3> QED BY <1>7, <2>5 DEF Buffers
  <2>7. /\ x5 \in Buffers /\ x5.deleted = x4.deleted /\ x5.yy_input_file = yyg.yyin /\ x5.yy_buf_size = big
        /\ x5.ch = chars
    <3>1. big \in Nat
      BY <1>5 DEF big
    <3> HIDE DEF x4
    <3> QED BY <2>6, <3>1 DEF Buffers
  <2>8. b = x3
    BY DEF status
  <2>9. nb = x5
    <3>1. b.yy_buf_size = size
      BY <2>5, <2>8
    <3>2. nb = [[b EXCEPT !.ch = chars] EXCEPT !.yy_buf_size = Enlarged([b EXCEPT !.ch = chars].yy_buf_size, Len(moved))]
      OBVIOUS
    <3>3. [b EXCEPT !.ch = chars].yy_buf_size = size
      BY <2>6, <2>8
    <3> HIDE DEF nb, b, x3
    <3> QED BY <2>8, <3>2, <3>3 DEF big
  <2> HIDE DEF x1, x2, x3, x4, x5, nb, b
  <2> QED BY <1>4, <2>2, <2>4, <2>5, <2>6, <2>7, <2>9
<1>9. Fits(nb)
  <2> HIDE DEF nb, chars, moved, room, left
  <2>1. Len(nb.ch) < nb.yy_buf_size
    BY <1>3, <1>5, <1>6, <1>7, <1>8
  <2>2. nb.yy_input_file # NoStream
    BY <1>4, <1>8 DEF NoStream
  <2>3. Len(nb.ch) \in Nat /\ nb.yy_buf_size \in Nat
    BY <1>8 DEF Buffers
  <2> QED BY <2>1, <2>2, <2>3 DEF Fits
<1>10. /\ streams' \in Seq(Streams) /\ Len(streams') = Len(streams)
       /\ \A f \in 1..Len(streams) : streams'[f].closed = streams[f].closed
  <2> DEFINE after == SubSeq(left, n + 1, Len(left))
             x == [streams[yyg.yyin] EXCEPT !.rest = after]
  <2>1. after \in Seq(Char)
    <3> HIDE DEF left
    <3> QED BY <1>4, <1>6
  <2>2. x \in Streams /\ x.closed = streams[yyg.yyin].closed
    <3> HIDE DEF after
    <3> QED BY <1>4, <2>1 DEF Streams
  <2>3. streams' = [streams EXCEPT ![yyg.yyin] = x]
    BY <1>1
  <2>4. streams \in Seq(Streams)
    BY GoingFacts
  <2> HIDE DEF x
  <2> QED BY <1>4, <2>2, <2>3, <2>4
<1> DEFINE sc == yyg.yy_start
           str == sctx.string
           pos == 0
<1>11. pos \in 0..Len(nb.ch) /\ sc \in Conditions
  <2> HIDE DEF nb, chars
  <2>1. Len(nb.ch) \in Nat
    BY <1>7, <1>8 DEF Buffers
  <2> QED BY <2>1, GoingFacts
<1>12. yyg' = [yyg EXCEPT !.yy_c_buf_p = pos, !.yy_start = sc]
  BY <1>2, GoingFacts, ScannerKept
<1>13. sctx' = [sctx EXCEPT !.string = str]
  BY <1>2, GoingFacts, ContextKept
<1>14. /\ str = [string |-> str.string, capacity |-> str.capacity]
       /\ str.string \in Text /\ str.capacity \in Nat
       /\ str.string # << >> => Len(str.string) < str.capacity
       /\ sc \in {"INITIAL", "COMMENT"} => str = EmptyString
  BY GoingFacts, Zenon
<1>15. error'.file \in Range(sctx.filenames) \cup {<< >>} /\ input' = input
  BY <1>2, GoingFacts
<1>16. bufs' = [bufs EXCEPT ![yyg.current] = nb]
  BY <1>1, Zenon
<1> HIDE DEF nb, sc, str, pos
<1> QED BY <1>2, <1>8, <1>9, <1>10, <1>11, <1>12, <1>13, <1>14, <1>15, <1>16, StepWithin, Zenon

LEMMA ReadsNothingKeeps == ScanInv /\ ReadsNothing /\ UNCHANGED input => ScanInv'
<1> SUFFICES ASSUME ScanInv, ReadsNothing, UNCHANGED input PROVE ScanInv'
  OBVIOUS
<1> DEFINE moved == Unscanned
           size == Current.yy_buf_size
           big == IF Current.yy_buffer_status = "EOF_PENDING" THEN size ELSE Enlarged(size, Len(moved))
           b == [Current EXCEPT !.ch = moved, !.yy_input_file = yyg.yyin,
                                !.yy_buf_size = IF Current.yy_buffer_status = "EOF_PENDING" THEN @
                                                ELSE Enlarged(@, Len(moved))]
           nb == IF moved = << >> THEN yyrestart(b, yyg.yyin) ELSE [b EXCEPT !.yy_buffer_status = "EOF_PENDING"]
<1>1. bufs' = [bufs EXCEPT ![yyg.current] = nb]
  BY Zenon DEF ReadsNothing
<1>2. /\ Going /\ Current.yy_fill_buffer /\ yyg' = [yyg EXCEPT !.yy_c_buf_p = 0]
      /\ spc' \in Places \ {"over"} /\ sctx' = sctx /\ error' = error /\ streams' = streams
  BY DEF ReadsNothing, Going, Places, AtEnd
<1>3. /\ Current \in Buffers /\ Len(Current.ch) < size /\ size \in Nat
      /\ moved \in Seq(Char) /\ Len(moved) \in Nat /\ Len(moved) < size
  <2>1. Current \in Buffers /\ Fits(Current)
    BY GoingFacts
  <2>2. size \in Nat /\ Len(Current.ch) < size
    BY <1>2, <2>1 DEF Buffers, Fits
  <2>3. /\ moved \in Seq(Char) /\ Len(moved) = Len(Current.ch) - yyg.yy_c_buf_p
        /\ Len(Current.ch) \in Nat /\ yyg.yy_c_buf_p \in 0..Len(Current.ch)
    BY GoingFacts, CurrentFacts
  <2> QED BY <2>1, <2>2, <2>3
<1>4. yyg.yyin = Current.yy_input_file /\ yyg.yyin \in Nat /\ yyg.yyin # 0
  BY <1>2, FileThere
<1>5. big \in Nat /\ Len(moved) < big
  BY <1>3, RoomFacts
<1>6. /\ b \in Buffers /\ b.ch = moved /\ b.yy_buf_size = big /\ b.yy_input_file = Current.yy_input_file
      /\ b.deleted = Current.deleted /\ b.text = Current.text /\ b.yy_bs_lineno = Current.yy_bs_lineno
  <2> DEFINE x1 == [Current EXCEPT !.ch = moved]
             x2 == [x1 EXCEPT !.yy_input_file = yyg.yyin]
             x3 == [x2 EXCEPT !.yy_buf_size = big]
  <2> HIDE DEF moved, big
  <2>1. /\ x1 \in Buffers /\ x1.deleted = Current.deleted /\ x1.yy_buf_size = size /\ x1.ch = moved
        /\ x1.text = Current.text /\ x1.yy_bs_lineno = Current.yy_bs_lineno
    BY <1>3 DEF Buffers
  <2>2. /\ x2 \in Buffers /\ x2.deleted = Current.deleted /\ x2.yy_buf_size = size /\ x2.ch = moved
        /\ x2.yy_input_file = yyg.yyin /\ x2.text = Current.text /\ x2.yy_bs_lineno = Current.yy_bs_lineno
    <3> HIDE DEF x1
    <3> QED BY <1>4, <2>1 DEF Buffers
  <2>3. /\ x3 \in Buffers /\ x3.deleted = Current.deleted /\ x3.yy_buf_size = big /\ x3.ch = moved
        /\ x3.yy_input_file = yyg.yyin /\ x3.text = Current.text /\ x3.yy_bs_lineno = Current.yy_bs_lineno
    <3> HIDE DEF x2
    <3> QED BY <1>5, <2>2 DEF Buffers
  <2>4. b = x3
    <3>1. b = [x2 EXCEPT !.yy_buf_size = IF Current.yy_buffer_status = "EOF_PENDING" THEN x2.yy_buf_size
                                         ELSE Enlarged(x2.yy_buf_size, Len(moved))]
      OBVIOUS
    <3> HIDE DEF x2, b
    <3> QED BY <2>2, <3>1 DEF big
  <2> HIDE DEF x3, b
  <2> QED BY <1>4, <2>3, <2>4
<1> HIDE DEF b, big
<1>7. /\ nb \in Buffers /\ Len(nb.ch) <= Len(moved) /\ nb.yy_buf_size = big
      /\ nb.yy_input_file = Current.yy_input_file /\ nb.deleted = Current.deleted
  <2>1. CASE moved = << >>
    <3> DEFINE f == [b EXCEPT !.ch = << >>, !.yy_buf_pos = 0, !.yy_at_bol = TRUE, !.yy_buffer_status = "NEW"]
               x1 == [b EXCEPT !.ch = << >>]
               x2 == [x1 EXCEPT !.yy_buf_pos = 0]
               x3 == [x2 EXCEPT !.yy_at_bol = TRUE]
               x4 == [x3 EXCEPT !.yy_buffer_status = "NEW"]
               x5 == [x4 EXCEPT !.yy_input_file = yyg.yyin]
               x6 == [x5 EXCEPT !.yy_fill_buffer = TRUE]
               x7 == [x6 EXCEPT !.yy_bs_lineno = x6.yy_bs_lineno]
               Good(x) == /\ x \in Buffers /\ x.ch = << >> /\ x.yy_buf_size = big
                          /\ x.yy_input_file = yyg.yyin /\ x.deleted = Current.deleted
    <3>1. << >> \in Seq(Char)
      OBVIOUS
    <3>2. Good(x1)
      BY <1>4, <1>6, <3>1 DEF Buffers
    <3>3. Good(x2)
      <4> HIDE DEF x1
      <4> QED BY <3>2 DEF Buffers
    <3>4. Good(x3)
      <4> HIDE DEF x2
      <4> QED BY <3>3 DEF Buffers
    <3>5. Good(x4)
      <4> HIDE DEF x3
      <4> QED BY <3>4 DEF Buffers
    <3>6. Good(x5)
      <4> HIDE DEF x4
      <4> QED BY <3>5 DEF Buffers
    <3>7. Good(x6)
      <4> HIDE DEF x5
      <4> QED BY <3>6 DEF Buffers
    <3>8. Good(x7)
      <4> HIDE DEF x6
      <4> QED BY <3>7 DEF Buffers
    <3>9. nb = x7
      BY <2>1 DEF yyrestart, yy_init_buffer, yy_flush_buffer
    <3> HIDE DEF nb, x7
    <3> QED BY <1>3, <1>4, <2>1, <3>8, <3>9
  <2>2. CASE moved # << >>
    <3>1. nb = [b EXCEPT !.yy_buffer_status = "EOF_PENDING"]
      BY <2>2
    <3> HIDE DEF nb, moved
    <3>2. /\ nb \in Buffers /\ nb.ch = b.ch /\ nb.yy_buf_size = b.yy_buf_size
          /\ nb.yy_input_file = b.yy_input_file /\ nb.deleted = b.deleted
      BY <1>6, <3>1 DEF Buffers
    <3> QED BY <1>3, <1>6, <3>2
  <2> QED BY <2>1, <2>2
<1>8. Fits(nb)
  <2> HIDE DEF nb, moved
  <2>1. Len(nb.ch) \in Nat /\ nb.yy_buf_size \in Nat
    BY <1>7 DEF Buffers
  <2>2. nb.yy_input_file # NoStream
    BY <1>4, <1>7 DEF NoStream
  <2> QED BY <1>3, <1>5, <1>7, <2>1, <2>2 DEF Fits
<1> DEFINE sc == yyg.yy_start
           str == sctx.string
           pos == 0
<1>9. pos \in 0..Len(nb.ch) /\ sc \in Conditions
  <2> HIDE DEF nb
  <2>1. Len(nb.ch) \in Nat
    BY <1>7 DEF Buffers
  <2> QED BY <2>1, GoingFacts
<1>10. yyg' = [yyg EXCEPT !.yy_c_buf_p = pos, !.yy_start = sc]
  BY <1>2, GoingFacts, ScannerKept
<1>11. sctx' = [sctx EXCEPT !.string = str]
  BY <1>2, GoingFacts, ContextKept
<1>12. /\ str = [string |-> str.string, capacity |-> str.capacity]
       /\ str.string \in Text /\ str.capacity \in Nat
       /\ str.string # << >> => Len(str.string) < str.capacity
       /\ sc \in {"INITIAL", "COMMENT"} => str = EmptyString
  BY GoingFacts, Zenon
<1>13. /\ error'.file \in Range(sctx.filenames) \cup {<< >>} /\ input' = input
       /\ streams' \in Seq(Streams) /\ Len(streams') = Len(streams)
       /\ \A f \in 1..Len(streams) : streams'[f].closed = streams[f].closed
  BY <1>2, GoingFacts
<1> HIDE DEF nb, sc, str, pos
<1> QED BY <1>1, <1>2, <1>7, <1>8, <1>9, <1>10, <1>11, <1>12, <1>13, StepWithin, Zenon

-----------------------------------------------------------------------------
(* A file is included, and left. *)

\* What is appended is last.
LEMMA AppendFacts ==
    ASSUME NEW S, NEW s \in Seq(S), NEW x \in S
    PROVE  /\ Append(s, x) \in Seq(S) /\ Len(Append(s, x)) = Len(s) + 1 /\ Append(s, x)[Len(s) + 1] = x
           /\ \A i \in 1..Len(s) : Append(s, x)[i] = s[i]
OBVIOUS

\* The buffer that waits keeps its place; the new one is on top.
LEMMA BuffersPushed ==
    ASSUME NEW all \in Seq(Buffers), NEW s, NEW g, s.stack \in Seq(Entries),
           BuffersNested(all, s, g),
           NEW wb \in Buffers, wb.yy_input_file = all[g.current].yy_input_file,
           wb.deleted = all[g.current].deleted, wb.yy_buf_pos <= Len(wb.ch),
           NEW nw \in Buffers, nw.deleted = 0,
           NEW e \in Entries, e.buffer = g.current, e.stream = nw.yy_input_file,
           NEW s2, s2.stack = Append(s.stack, e),
           NEW g2, g2.current = Len(all) + 1, g2.yyin = nw.yy_input_file
    PROVE  BuffersNested(Append([all EXCEPT ![g.current] = wb], nw), s2, g2)
<1> DEFINE n == Len(s.stack)
           c == g.current
           all2 == Append([all EXCEPT ![c] = wb], nw)
<1>0. n \in Nat /\ Len(all) \in Nat
  OBVIOUS
<1>1. /\ Len(s2.stack) = n + 1 /\ s2.stack[n + 1] = e
      /\ \A i \in 1..n : s2.stack[i] = s.stack[i]
  OBVIOUS
<1>2. Level(s, g, n + 1) = c /\ \A i \in 1..n : Level(s, g, i) = s.stack[i].buffer
  BY DEF Level
<1>3. /\ \A i \in 1..(n + 1) : Level(s, g, i) \in 1..Len(all)
      /\ \A i, j \in 1..(n + 1) : i < j => Level(s, g, i) < Level(s, g, j)
      /\ Level(s, g, 1) = 1
      /\ \A b \in 1..Len(all) : all[b].deleted = IF InUse(s, g, b) THEN 0 ELSE 1
      /\ \A i \in 1..n : all[Level(s, g, i + 1)].yy_input_file = s.stack[i].stream
      /\ \A i \in 1..n : all[s.stack[i].buffer].yy_buf_pos <= Len(all[s.stack[i].buffer].ch)
  BY DEF BuffersNested
<1>4. c \in 1..Len(all) /\ n + 1 \in 1..(n + 1)
  BY <1>0, <1>2, <1>3
<1>5. /\ Len(all2) = Len(all) + 1 /\ all2[Len(all) + 1] = nw /\ all2[c] = wb
      /\ \A b \in 1..Len(all) : all2[b] = IF b = c THEN wb ELSE all[b]
  <2> DEFINE x == [all EXCEPT ![c] = wb]
  <2>1. x \in Seq(Buffers) /\ Len(x) = Len(all) /\ \A b \in 1..Len(all) : x[b] = IF b = c THEN wb ELSE all[b]
    BY <1>4
  <2> HIDE DEF x
  <2>2. /\ Len(Append(x, nw)) = Len(all) + 1 /\ Append(x, nw)[Len(all) + 1] = nw
        /\ \A b \in 1..Len(all) : Append(x, nw)[b] = x[b]
    <3>1. x \in Seq(Buffers) /\ nw \in Buffers /\ Len(x) = Len(all)
      BY <2>1
    <3> HIDE DEF Buffers
    <3> QED BY <3>1, AppendFacts
  <2> QED BY <1>4, <2>1, <2>2 DEF x
<1> HIDE DEF all2
<1>6. \A b \in 1..Len(all) : all2[b].deleted = all[b].deleted /\ all2[b].yy_input_file = all[b].yy_input_file
  BY <1>5
<1>7. /\ \A i \in 1..(n + 1) : Level(s2, g2, i) = Level(s, g, i)
      /\ Level(s2, g2, n + 2) = Len(all) + 1
  <2>1. ASSUME NEW i \in 1..(n + 1) PROVE Level(s2, g2, i) = Level(s, g, i)
    <3>1. Level(s2, g2, i) = s2.stack[i].buffer
      BY <1>0, <1>1 DEF Level
    <3>2. CASE i = n + 1
      BY <1>1, <1>2, <3>1, <3>2
    <3>3. CASE i \in 1..n
      BY <1>1, <1>2, <3>1, <3>3
    <3> QED BY <3>2, <3>3
  <2>2. Level(s2, g2, n + 2) = Len(all) + 1
    BY <1>0, <1>1 DEF Level
  <2> QED BY <2>1, <2>2
<1>8. \A i \in 1..(n + 2) : i \in 1..(n + 1) \/ i = n + 2
  BY <1>0
<1>9. ASSUME NEW i \in 1..(n + 2) PROVE Level(s2, g2, i) \in 1..Len(all2)
  <2>1. CASE i = n + 2
    BY <1>0, <1>5, <1>7, <2>1
  <2>2. CASE i \in 1..(n + 1)
    <3>1. Level(s2, g2, i) \in 1..Len(all)
      BY <1>3, <1>7, <2>2
    <3> QED BY <1>0, <1>5, <3>1
  <2> QED BY <1>8, <2>1, <2>2
<1>10. \A i, j \in 1..(n + 2) : i < j => Level(s2, g2, i) < Level(s2, g2, j)
  <2> SUFFICES ASSUME NEW i \in 1..(n + 2), NEW j \in 1..(n + 2), i < j
               PROVE  Level(s2, g2, i) < Level(s2, g2, j)
    OBVIOUS
  <2>1. i \in 1..(n + 1) /\ Level(s2, g2, i) = Level(s, g, i) /\ Level(s, g, i) \in 1..Len(all)
    BY <1>0, <1>3, <1>7
  <2>2. CASE j = n + 2
    BY <1>0, <1>7, <2>1, <2>2
  <2>3. CASE j \in 1..(n + 1)
    BY <1>3, <1>7, <2>1, <2>3
  <2> QED BY <1>8, <2>2, <2>3
<1>11. Level(s2, g2, 1) = 1
  BY <1>0, <1>3, <1>7
<1>12. ASSUME NEW b \in 1..Len(all2) PROVE all2[b].deleted = IF InUse(s2, g2, b) THEN 0 ELSE 1
  <2>1. CASE b = Len(all) + 1
    <3>1. n + 2 \in 1..(Len(s2.stack) + 1)
      BY <1>0, <1>1
    <3>2. InUse(s2, g2, b)
      BY <1>7, <2>1, <3>1 DEF InUse
    <3>3. all2[b].deleted = 0
      BY <1>5, <2>1
    <3> QED BY <3>2, <3>3, Zenon
  <2>2. CASE b \in 1..Len(all)
    <3>1. InUse(s2, g2, b) <=> \E i \in 1..(n + 2) : Level(s2, g2, i) = b
      <4>1. Len(s2.stack) + 1 = n + 2
        BY <1>0, <1>1
      <4> QED BY <4>1 DEF InUse
    <3>2. b # Len(all) + 1
      BY <1>0, <2>2
    <3>3. (\E i \in 1..(n + 2) : Level(s2, g2, i) = b) <=> \E i \in 1..(n + 1) : Level(s, g, i) = b
      <4>1. \A i \in 1..(n + 1) : i \in 1..(n + 2)
        BY <1>0
      <4> QED BY <1>7, <1>8, <3>2, <4>1
    <3>4. InUse(s2, g2, b) <=> InUse(s, g, b)
      BY <3>1, <3>3 DEF InUse
    <3>5. all2[b].deleted = all[b].deleted /\ all[b].deleted = IF InUse(s, g, b) THEN 0 ELSE 1
      BY <1>3, <1>6, <2>2, Zenon
    <3> QED BY <3>4, <3>5, Zenon
  <2> QED BY <1>0, <1>5, <2>1, <2>2
<1>13. ASSUME NEW i \in 1..(n + 1) PROVE all2[Level(s2, g2, i + 1)].yy_input_file = s2.stack[i].stream
  <2>1. CASE i = n + 1
    <3>1. i + 1 = n + 2
      BY <1>0, <2>1
    <3>2. s2.stack[i].stream = nw.yy_input_file
      BY <1>1, <2>1
    <3>3. Level(s2, g2, i + 1) = Len(all) + 1
      BY <1>7, <3>1
    <3>4. all2[Len(all) + 1].yy_input_file = nw.yy_input_file
      BY <1>5
    <3> QED BY <3>2, <3>3, <3>4, Zenon
  <2>2. CASE i \in 1..n
    <3>1. i + 1 \in 1..(n + 1)
      BY <1>0, <2>2
    <3>2. Level(s2, g2, i + 1) = Level(s, g, i + 1) /\ Level(s, g, i + 1) \in 1..Len(all)
      BY <1>3, <1>7, <3>1
    <3>3. all2[Level(s, g, i + 1)].yy_input_file = all[Level(s, g, i + 1)].yy_input_file
      BY <1>6, <3>2
    <3>4. all[Level(s, g, i + 1)].yy_input_file = s.stack[i].stream
      BY <1>3, <2>2
    <3>5. s2.stack[i].stream = s.stack[i].stream
      BY <1>1, <2>2
    <3> QED BY <3>2, <3>3, <3>4, <3>5, Zenon
  <2> QED BY <2>1, <2>2
<1>14. ASSUME NEW i \in 1..(n + 1)
       PROVE  all2[s2.stack[i].buffer].yy_buf_pos <= Len(all2[s2.stack[i].buffer].ch)
  <2>1. CASE i = n + 1
    <3>1. s2.stack[i].buffer = c
      BY <1>1, <2>1
    <3> QED BY <1>5, <3>1
  <2>2. CASE i \in 1..n
    <3>1. s2.stack[i].buffer = s.stack[i].buffer /\ s.stack[i].buffer = Level(s, g, i)
      BY <1>1, <1>2, <2>2
    <3>2. Level(s, g, i) \in 1..Len(all) /\ Level(s, g, i) < c
      BY <1>0, <1>2, <1>3, <1>4, <2>2
    <3>3. all2[s.stack[i].buffer] = all[s.stack[i].buffer]
      BY <1>4, <1>5, <3>1, <3>2
    <3> QED BY <1>3, <2>2, <3>1, <3>3
  <2> QED BY <2>1, <2>2
<1>15. g2.yyin = all2[g2.current].yy_input_file
  BY <1>5
<1>16. Len(s2.stack) + 1 = n + 2 /\ Len(s2.stack) = n + 1
  BY <1>0, <1>1
<1>17. BuffersNested(all2, s2, g2)
  BY <1>9, <1>10, <1>11, <1>12, <1>13, <1>14, <1>15, <1>16 DEF BuffersNested
<1> QED BY <1>17 DEF all2

LEMMA StreamsPushed ==
    ASSUME NEW files \in Seq(Streams), NEW s, NEW E, s.stack \in Seq(E), NEW top, StreamsNested(files, s, top),
           NEW new \in Streams, new.closed = 0,
           NEW e \in E, e.stream = Len(files) + 1, NEW s2, s2.stack = Append(s.stack, e)
    PROVE  StreamsNested(Append(files, new), s2, top)
<1> DEFINE n == Len(s.stack)
           files2 == Append(files, new)
<1>0. n \in Nat /\ Len(files) \in Nat
  OBVIOUS
<1>1. /\ Len(s2.stack) = n + 1 /\ s2.stack[n + 1] = e
      /\ \A i \in 1..n : s2.stack[i] = s.stack[i]
  BY AppendFacts
<1>2. /\ Len(files2) = Len(files) + 1 /\ files2[Len(files) + 1] = new
      /\ \A f \in 1..Len(files) : files2[f] = files[f]
  OBVIOUS
<1>3. /\ top \in 0..Len(files)
      /\ \A i \in 1..n : s.stack[i].stream \in 1..Len(files) /\ top < s.stack[i].stream
      /\ \A i, j \in 1..n : i < j => s.stack[i].stream < s.stack[j].stream
      /\ \A f \in 1..Len(files) : files[f].closed = IF Included(s, f) \/ f = top THEN 0 ELSE 1
  BY DEF StreamsNested
<1> HIDE DEF files2
<1>4. \A i \in 1..(n + 1) : i \in 1..n \/ i = n + 1
  BY <1>0
<1>5. \A i \in 1..(n + 1) : s2.stack[i].stream \in 1..Len(files2) /\ top < s2.stack[i].stream
  <2> SUFFICES ASSUME NEW i \in 1..(n + 1)
               PROVE  s2.stack[i].stream \in 1..Len(files2) /\ top < s2.stack[i].stream
    OBVIOUS
  <2>1. CASE i = n + 1
    <3>1. s2.stack[i].stream = Len(files) + 1
      BY <1>1, <2>1
    <3> QED BY <1>0, <1>2, <1>3, <3>1
  <2>2. CASE i \in 1..n
    <3>1. s2.stack[i].stream = s.stack[i].stream
      BY <1>1, <2>2
    <3>2. s.stack[i].stream \in 1..Len(files) /\ top < s.stack[i].stream
      BY <1>3, <2>2
    <3> QED BY <1>0, <1>2, <3>1, <3>2
  <2> QED BY <1>4, <2>1, <2>2
<1>6. \A i, j \in 1..(n + 1) : i < j => s2.stack[i].stream < s2.stack[j].stream
  <2> SUFFICES ASSUME NEW i \in 1..(n + 1), NEW j \in 1..(n + 1), i < j
               PROVE  s2.stack[i].stream < s2.stack[j].stream
    OBVIOUS
  <2>0. i \in 1..n
    BY <1>0
  <2>1. s2.stack[i] = s.stack[i] /\ s.stack[i].stream \in 1..Len(files)
    BY <1>1, <1>3, <2>0
  <2>2. CASE j = n + 1
    <3>1. s2.stack[j].stream = Len(files) + 1 /\ s2.stack[i].stream = s.stack[i].stream
      BY <1>1, <2>1, <2>2
    <3>2. s.stack[i].stream < Len(files) + 1
      BY <1>0, <2>1
    <3> QED BY <3>1, <3>2, Zenon
  <2>3. CASE j \in 1..n
    <3>1. s2.stack[j] = s.stack[j] /\ s.stack[i].stream < s.stack[j].stream
      BY <1>1, <1>3, <2>0, <2>3
    <3> QED BY <2>1, <3>1
  <2> QED BY <1>4, <2>2, <2>3
<1>7. ASSUME NEW f \in 1..Len(files2) PROVE files2[f].closed = IF Included(s2, f) \/ f = top THEN 0 ELSE 1
  <2>1. CASE f = Len(files) + 1
    <3>1. n + 1 \in 1..Len(s2.stack)
      BY <1>0, <1>1
    <3>2. Included(s2, f)
      BY <1>1, <2>1, <3>1 DEF Included
    <3> QED BY <1>2, <2>1, <3>2
  <2>2. CASE f \in 1..Len(files)
    <3>1. f # Len(files) + 1
      BY <1>0, <2>2
    <3>2. (\E i \in 1..(n + 1) : s2.stack[i].stream = f) <=> \E i \in 1..n : s.stack[i].stream = f
      <4>1. \A i \in 1..n : i \in 1..(n + 1)
        BY <1>0
      <4> QED BY <1>1, <1>4, <3>1, <4>1
    <3>3. Included(s2, f) <=> Included(s, f)
      BY <1>1, <3>2 DEF Included
    <3> QED BY <1>2, <1>3, <2>2, <3>3
  <2> QED BY <1>0, <1>2, <2>1, <2>2
<1>8. top \in 0..Len(files2)
  BY <1>0, <1>2, <1>3
<1>9. StreamsNested(files2, s2, top)
  BY <1>1, <1>5, <1>6, <1>7, <1>8 DEF StreamsNested
<1> QED BY <1>9 DEF files2

\* A buffer that has just been made, with its text.
LEMMA NewBuffer ==
    ASSUME NEW stream \in Nat, stream # NoStream, NEW text \in Seq(Char)
    PROVE  LET nw == [yy_create_buffer(stream) EXCEPT !.text = text]
           IN  /\ nw \in Buffers /\ Fits(nw)
               /\ nw.ch = << >> /\ nw.yy_buf_pos = 0 /\ nw.deleted = 0 /\ nw.yy_input_file = stream
               /\ nw.text = text /\ nw.yy_bs_lineno = 1 /\ nw.yy_fill_buffer
<1> DEFINE b == yy_buffer_state(YY_BUF_SIZE)
           x1 == [b EXCEPT !.ch = << >>]
           x2 == [x1 EXCEPT !.yy_buf_pos = 0]
           x3 == [x2 EXCEPT !.yy_at_bol = TRUE]
           x4 == [x3 EXCEPT !.yy_buffer_status = "NEW"]
           x5 == [x4 EXCEPT !.yy_input_file = stream]
           x6 == [x5 EXCEPT !.yy_fill_buffer = TRUE]
           x7 == [x6 EXCEPT !.yy_bs_lineno = 1]
           x8 == [x7 EXCEPT !.text = text]
           Begun(x) == /\ x \in Buffers /\ x.ch = << >> /\ x.yy_buf_pos = 0 /\ x.yy_buf_size = YY_BUF_SIZE
                       /\ x.yy_bs_lineno = 1 /\ x.deleted = 0
           nw == [yy_create_buffer(stream) EXCEPT !.text = text]
<1>1. YY_BUF_SIZE \in Nat \ {0} /\ << >> \in Seq(Char)
  BY ScannerAssumption
<1>2. nw = x8
  BY DEF yy_create_buffer, yy_init_buffer, yy_flush_buffer
<1>3. Begun(b)
  BY <1>1 DEF yy_buffer_state, Buffers, NoStream
<1> HIDE DEF b
<1>4. Begun(x1)
  BY <1>1, <1>3 DEF Buffers
<1>5. Begun(x2)
  <2> HIDE DEF x1
  <2> QED BY <1>4 DEF Buffers
<1>6. Begun(x3)
  <2> HIDE DEF x2
  <2> QED BY <1>5 DEF Buffers
<1>7. Begun(x4)
  <2> HIDE DEF x3
  <2> QED BY <1>6 DEF Buffers
<1>8. Begun(x5) /\ x5.yy_input_file = stream
  <2> HIDE DEF x4
  <2> QED BY <1>7 DEF Buffers
<1>9. Begun(x6) /\ x6.yy_input_file = stream /\ x6.yy_fill_buffer
  <2> HIDE DEF x5
  <2> QED BY <1>8 DEF Buffers
<1>10. Begun(x7) /\ x7.yy_input_file = stream /\ x7.yy_fill_buffer
  <2> HIDE DEF x6
  <2> QED BY <1>9 DEF Buffers
<1>11. Begun(x8) /\ x8.yy_input_file = stream /\ x8.yy_fill_buffer /\ x8.text = text
  <2> HIDE DEF x7
  <2> QED BY <1>10 DEF Buffers
<1> HIDE DEF nw, x8
<1>12. Fits(nw)
  <2>1. Len(nw.ch) = 0
    BY <1>2, <1>11
  <2> QED BY <1>1, <1>2, <1>11, <2>1 DEF Fits
<1> QED BY <1>2, <1>11, <1>12 DEF nw

\* r is s with one more file on the stack.
IsPushed(s, r, e) ==
    /\ ContextType(r) /\ NamesFit(r) /\ NamesKept(r)
    /\ r.stack = Append(s.stack, e) /\ e \in [file : Text, buffer : Nat, stream : Nat]
    /\ r.string = EmptyString
    /\ Range(s.filenames) \subseteq Range(r.filenames)

LEMMA Pushed ==
    ASSUME NEW s, ContextType(s), NamesFit(s), NamesKept(s), NEW buffer \in Nat, NEW stream \in Nat
    PROVE  IsPushed(s, scanctx_push_include(s, buffer, stream),
                    [file |-> s.string.string, buffer |-> buffer, stream |-> stream])
<1> DEFINE r == scanctx_push_include(s, buffer, stream)
           file == s.string.string
           e == [file |-> file, buffer |-> buffer, stream |-> stream]
           w == scanctx_add_filename(s, file)
           stack == Append(s.stack, e)
<1>1. file \in Text
  BY DEF ContextType
<1>2. /\ ContextType(w) /\ NamesFit(w)
      /\ w.stack = s.stack /\ w.string = s.string /\ w.top_filename = s.top_filename
      /\ file \in Range(w.filenames) /\ Range(s.filenames) \subseteq Range(w.filenames)
  BY <1>1, NameAdded
<1>3. r = [w EXCEPT !.string = EmptyString, !.stack = stack]
  <2>1. r = [w EXCEPT !.string = strbuf_release(@), !.stack = Append(@, e)]
    BY DEF scanctx_push_include
  <2> DEFINE x == [w EXCEPT !.string = EmptyString]
  <2>2. x.stack = s.stack
    <3> HIDE DEF w
    <3> QED BY <1>2 DEF ContextType
  <2>3. r = [x EXCEPT !.stack = Append(x.stack, e)]
    BY <2>1 DEF strbuf_release
  <2>4. r = [x EXCEPT !.stack = stack]
    BY <2>2, <2>3
  <2> QED BY <2>4
<1> HIDE DEF w
<1>4. r = [stack |-> stack, string |-> EmptyString, filenames |-> w.filenames, room |-> w.room,
           top_filename |-> w.top_filename]
  <2> DEFINE x == [w EXCEPT !.string = EmptyString]
  <2>1. w = [stack |-> w.stack, string |-> w.string, filenames |-> w.filenames, room |-> w.room,
             top_filename |-> w.top_filename]
    BY <1>2 DEF ContextType
  <2>2. x = [stack |-> w.stack, string |-> EmptyString, filenames |-> w.filenames, room |-> w.room,
             top_filename |-> w.top_filename]
    BY <2>1
  <2>3. r = [x EXCEPT !.stack = stack]
    BY <1>3
  <2> HIDE DEF x, stack, r
  <2> QED BY <2>2, <2>3
<1> HIDE DEF r
<1>5. /\ r.stack = stack /\ r.string = EmptyString /\ r.filenames = w.filenames /\ r.room = w.room
      /\ r.top_filename = s.top_filename
  BY <1>2, <1>4
<1>6. e \in [file : Text, buffer : Nat, stream : Nat] /\ s.stack \in Seq([file : Text, buffer : Nat, stream : Nat])
  BY <1>1 DEF ContextType
<1>7. stack \in Seq([file : Text, buffer : Nat, stream : Nat])
  <2> HIDE DEF e
  <2> QED BY <1>6
<1>8. ContextType(r)
  <2>1. r = [stack |-> r.stack, string |-> r.string, filenames |-> r.filenames, room |-> r.room,
             top_filename |-> r.top_filename]
    BY <1>2, <1>4, <1>5
  <2>2. w.filenames \in Seq(Text) /\ w.room \in Nat
    BY <1>2 DEF ContextType
  <2> HIDE DEF stack
  <2> QED BY <1>5, <1>7, <2>1, <2>2, EmptyStringFacts DEF ContextType
<1>9. NamesFit(r)
  BY <1>2, <1>5 DEF NamesFit
<1>10. NamesKept(r)
  <2>1. r.top_filename \in Range(r.filenames) \cup {<< >>}
    BY <1>2, <1>5 DEF NamesKept
  <2>2. ASSUME NEW i \in 1..Len(r.stack) PROVE r.stack[i].file \in Range(r.filenames)
    <3>1. Len(s.stack) \in Nat /\ Len(stack) = Len(s.stack) + 1 /\ stack[Len(s.stack) + 1] = e
          /\ \A j \in 1..Len(s.stack) : stack[j] = s.stack[j]
      <4> HIDE DEF e
      <4> QED BY <1>6
    <3>2. CASE i = Len(s.stack) + 1
      BY <1>2, <1>5, <3>1, <3>2
    <3>3. CASE i \in 1..Len(s.stack)
      <4>1. s.stack[i].file \in Range(s.filenames)
        BY <3>3 DEF NamesKept
      <4> QED BY <1>2, <1>5, <3>1, <3>3, <4>1
    <3>4. i \in 1..(Len(s.stack) + 1)
      BY <1>5, <3>1
    <3> QED BY <3>1, <3>2, <3>3, <3>4
  <2> QED BY <2>1, <2>2 DEF NamesKept
<1> QED BY <1>2, <1>5, <1>6, <1>8, <1>9, <1>10 DEF r, IsPushed

\* The buffer of the file with the directive stands behind it, that of the new
\* file has everything ahead of it.
IncludeEntered(text) ==
    LET c == yyg.current
        new == Len(bufs) + 1
    IN  /\ Len(bufs') = new /\ \A b \in 1..Len(bufs) : b # c => bufs'[b] = bufs[b]
        /\ bufs'[c].ch = Current.ch /\ bufs'[c].text = Current.text
        /\ bufs'[c].yy_fill_buffer = Current.yy_fill_buffer /\ bufs'[c].yy_input_file = Current.yy_input_file
        /\ bufs'[c].yy_bs_lineno = RuleSetup(Matched).yy_bs_lineno
        /\ bufs'[c].yy_buf_pos = yyg.yy_c_buf_p + TextEnd(Matched)
        /\ bufs'[new].ch = << >> /\ bufs'[new].text = text /\ bufs'[new].yy_bs_lineno = 1
        /\ bufs'[new].yy_fill_buffer /\ bufs'[new].yy_input_file = Len(streams) + 1
        /\ yyg'.current = new /\ yyg'.yy_c_buf_p = 0
        /\ streams'[Len(streams) + 1].rest = text /\ \A f \in 1..Len(streams) : streams'[f] = streams[f]
        /\ \E e \in Entries : e.buffer = c /\ sctx'.stack = Append(sctx.stack, e)

LEMMA IncludeOpensKeeps ==
    ScanInv /\ IncludeOpens /\ UNCHANGED input => ScanInv' /\ \E text \in Seq(Char) : IncludeEntered(text)
<1> SUFFICES ASSUME ScanInv, IncludeOpens, UNCHANGED input
             PROVE  ScanInv' /\ \E text \in Seq(Char) : IncludeEntered(text)
  OBVIOUS
<1> DEFINE m == Matched
           c == yyg.current
           stream == Len(streams) + 1
           buffer == Len(bufs) + 1
           rb == RuleSetup(m)
           pos == yyg.yy_c_buf_p + TextEnd(m)
           behind == [bufs EXCEPT ![c] = rb]
           g == [yyg EXCEPT !.yy_c_buf_p = pos]
           Made(text) == Append(behind, [yy_create_buffer(stream) EXCEPT !.text = text])
<1>1. PICK text \in Contents[input] : \E isDirectory \in BOOLEAN, text2 \in {text, << >>} :
          /\ streams' = Append(streams, StreamOf(text, isDirectory))
          /\ bufs' = yy_switch_to_buffer(Made(text2), g, buffer).bufs
          /\ yyg' = [yy_switch_to_buffer(Made(text2), g, buffer).yyg EXCEPT !.yy_start = "INITIAL"]
          /\ text2 = text
  <2> DEFINE Behind(mm) == [bufs EXCEPT ![yyg.current] = RuleSetup(mm)]
             G(mm) == [yyg EXCEPT !.yy_c_buf_p = @ + TextEnd(mm)]
             Opens(mm, t, kind) ==
                 LET isDirectory == kind = "directory"
                     made == Append(Behind(mm), [yy_create_buffer(Len(streams) + 1) EXCEPT !.text = IF isDirectory THEN << >> ELSE t])
                     switched == yy_switch_to_buffer(made, G(mm), Len(bufs) + 1)
                 IN  /\ isDirectory => t = << >>
                     /\ streams' = Append(streams, StreamOf(t, isDirectory))
                     /\ bufs' = switched.bufs
                     /\ yyg' = [switched.yyg EXCEPT !.yy_start = "INITIAL"]
  <2>0. PICK mm \in {Matched} : \E t \in Contents[input], kind \in input.includes \ {"missing"} : Opens(mm, t, kind)
    BY Zenon DEF IncludeOpens
  <2> HIDE DEF Opens
  <2>1. PICK t \in Contents[input] : \E kind \in input.includes \ {"missing"} : Opens(mm, t, kind)
    BY <2>0, Zenon
  <2>2. PICK kind \in input.includes \ {"missing"} : Opens(mm, t, kind)
    BY <2>1, Zenon
  <2>22. Opens(Matched, t, kind)
    BY <2>0, <2>2
  <2> DEFINE isDirectory == kind = "directory"
             text2 == IF isDirectory THEN << >> ELSE t
  <2>3. /\ streams' = Append(streams, StreamOf(t, isDirectory))
        /\ bufs' = yy_switch_to_buffer(Made(text2), g, buffer).bufs
        /\ yyg' = [yy_switch_to_buffer(Made(text2), g, buffer).yyg EXCEPT !.yy_start = "INITIAL"]
    BY <2>22, Zenon DEF Opens
  <2>4. isDirectory \in BOOLEAN /\ text2 \in {t, << >>} /\ text2 = t
    <3>1. isDirectory => t = << >>
      BY <2>22, Zenon DEF Opens
    <3> QED BY <3>1
  <2> HIDE DEF isDirectory, text2, Made, g, buffer, stream
  <2> QED BY <2>3, <2>4, Zenon
<1>2. PICK isDirectory \in BOOLEAN : \E text2 \in {text, << >>} :
          /\ streams' = Append(streams, StreamOf(text, isDirectory))
          /\ bufs' = yy_switch_to_buffer(Made(text2), g, buffer).bufs
          /\ yyg' = [yy_switch_to_buffer(Made(text2), g, buffer).yyg EXCEPT !.yy_start = "INITIAL"]
          /\ text2 = text
  <2> HIDE DEF Made, g, buffer, stream
  <2> QED BY <1>1, Zenon
<1>3. PICK text2 \in {text, << >>} :
          /\ streams' = Append(streams, StreamOf(text, isDirectory))
          /\ bufs' = yy_switch_to_buffer(Made(text2), g, buffer).bufs
          /\ yyg' = [yy_switch_to_buffer(Made(text2), g, buffer).yyg EXCEPT !.yy_start = "INITIAL"]
          /\ text2 = text
  <2> HIDE DEF Made, g, buffer, stream
  <2> QED BY <1>2, Zenon
<1>4. /\ MayMatch /\ RoomForInclude /\ sctx' = scanctx_push_include(sctx, c, stream)
      /\ spc' = "match" /\ error' = error
  BY Zenon DEF IncludeOpens
<1>5. Going
  BY <1>4 DEF MayMatch, Going
<1>6. text \in Seq(Char) /\ text2 \in Seq(Char)
  <2>1. Contents[input] \subseteq Seq(Char)
    BY GoingFacts, ContentsType
  <2>2. << >> \in Seq(Char)
    OBVIOUS
  <2> QED BY <1>1, <1>3, <2>1, <2>2
<1>7. /\ bufs \in Seq(Buffers) /\ Len(bufs) \in Nat /\ streams \in Seq(Streams) /\ Len(streams) \in Nat
      /\ c \in 1..Len(bufs) /\ ContextType(sctx) /\ input \in Inputs
      /\ yyg \in [current : Nat, yy_c_buf_p : Nat, yyin : Nat, yy_start : Conditions]
  BY GoingFacts
<1>8. /\ rb \in Buffers /\ Fits(rb) /\ rb.yy_input_file = bufs[c].yy_input_file /\ rb.deleted = bufs[c].deleted
      /\ rb.ch = Current.ch /\ rb.text = Current.text /\ rb.yy_fill_buffer = Current.yy_fill_buffer
  BY GoingFacts, RuleSetupFacts DEF Current
<1>9. pos \in 0..Len(rb.ch) /\ pos \in Nat
  <2>1. pos \in 0..Len(rb.ch)
    BY BehindMatch
  <2>2. Len(rb.ch) \in Nat
    <3> HIDE DEF rb
    <3> QED BY <1>8 DEF Buffers
  <2> HIDE DEF pos, rb
  <2> QED BY <2>1, <2>2
<1> DEFINE wb == [rb EXCEPT !.yy_buf_pos = pos]
           nw == [yy_create_buffer(stream) EXCEPT !.text = text2]
           kept == [Made(text2) EXCEPT ![c].yy_buf_pos = pos]
<1> HIDE DEF rb, pos
<1>10. /\ wb \in Buffers /\ Fits(wb) /\ wb.yy_input_file = bufs[c].yy_input_file /\ wb.deleted = bufs[c].deleted
       /\ wb.yy_buf_pos <= Len(wb.ch)
       /\ wb.yy_buf_pos = pos /\ wb.ch = rb.ch /\ wb.text = rb.text /\ wb.yy_fill_buffer = rb.yy_fill_buffer
       /\ wb.yy_bs_lineno = rb.yy_bs_lineno
  <2>1. /\ wb \in Buffers /\ wb.ch = rb.ch /\ wb.yy_buf_size = rb.yy_buf_size /\ wb.yy_input_file = rb.yy_input_file
        /\ wb.deleted = rb.deleted /\ wb.yy_fill_buffer = rb.yy_fill_buffer /\ wb.yy_buf_pos = pos
        /\ wb.text = rb.text /\ wb.yy_bs_lineno = rb.yy_bs_lineno
    BY <1>8, <1>9 DEF Buffers
  <2>2. Len(rb.ch) \in Nat
    BY <1>8 DEF Buffers
  <2> HIDE DEF wb
  <2> QED BY <1>8, <1>9, <2>1, <2>2 DEF Fits
<1>11. stream \in Nat /\ stream # NoStream
  BY <1>7 DEF NoStream
<1>12. /\ nw \in Buffers /\ Fits(nw) /\ nw.ch = << >> /\ nw.yy_buf_pos = 0 /\ nw.deleted = 0
       /\ nw.yy_input_file = stream /\ nw.text = text /\ nw.yy_bs_lineno = 1 /\ nw.yy_fill_buffer
  <2> HIDE DEF stream
  <2> QED BY <1>3, <1>6, <1>11, NewBuffer
<1> HIDE DEF nw
<1>13. /\ kept = Append([bufs EXCEPT ![c] = wb], nw) /\ kept[buffer] = nw
       /\ kept \in Seq(Buffers) /\ Len(kept) = Len(bufs) + 1
       /\ \A b \in 1..Len(bufs) : kept[b] = IF b = c THEN wb ELSE bufs[b]
  <2>1. Made(text2) = Append(behind, nw)
    BY DEF nw
  <2>2. behind \in Seq(Buffers) /\ Len(behind) = Len(bufs) /\ \A b \in 1..Len(bufs) : behind[b] = IF b = c THEN rb ELSE bufs[b]
    BY <1>7, <1>8
  <2> DEFINE made == Made(text2)
  <2>3. /\ made \in Seq(Buffers) /\ Len(made) = Len(bufs) + 1 /\ made[Len(bufs) + 1] = nw
        /\ \A b \in 1..Len(bufs) : made[b] = behind[b]
    <3> HIDE DEF behind, Made, made
    <3>1. made = Append(behind, nw)
      BY <2>1 DEF made
    <3> QED BY <1>12, <2>2, <3>1, AppendFacts
  <2>4. kept = [made EXCEPT ![c] = [made[c] EXCEPT !.yy_buf_pos = pos]]
    OBVIOUS
  <2>5. made[c] = rb
    BY <1>7, <2>2, <2>3
  <2>6. kept = [made EXCEPT ![c] = wb]
    BY <2>4, <2>5
  <2> HIDE DEF made, kept, wb
  <2>7. /\ kept \in Seq(Buffers) /\ Len(kept) = Len(bufs) + 1 /\ kept[Len(bufs) + 1] = nw
        /\ \A b \in 1..Len(bufs) : kept[b] = IF b = c THEN wb ELSE bufs[b]
    BY <1>7, <1>10, <2>2, <2>3, <2>6
  <2> DEFINE x == [bufs EXCEPT ![c] = wb]
             y == Append(x, nw)
  <2>8. x \in Seq(Buffers) /\ Len(x) = Len(bufs) /\ \A b \in 1..Len(bufs) : x[b] = IF b = c THEN wb ELSE bufs[b]
    BY <1>7, <1>10
  <2>9. /\ y \in Seq(Buffers) /\ Len(y) = Len(bufs) + 1 /\ y[Len(bufs) + 1] = nw
        /\ \A b \in 1..Len(bufs) : y[b] = x[b]
    <3> HIDE DEF x
    <3> QED BY <1>7, <1>12, <2>8
  <2> HIDE DEF x, y
  <2>10. \A b \in 1..Len(kept) : kept[b] = y[b]
    <3>1. \A b \in 1..(Len(bufs) + 1) : b \in 1..Len(bufs) \/ b = Len(bufs) + 1
      BY <1>7
    <3> QED BY <2>7, <2>8, <2>9, <3>1
  <2>11. kept = y
    BY <2>7, <2>9, <2>10, SeqEqual
  <2> QED BY <2>7, <2>11 DEF x, y
<1>14. /\ bufs' = kept /\ yyg'.current = buffer /\ yyg'.yy_c_buf_p = 0 /\ yyg'.yyin = stream
       /\ yyg'.yy_start = "INITIAL"
       /\ yyg' \in [current : Nat, yy_c_buf_p : Nat, yyin : Nat, yy_start : Conditions]
  <2>1. g.current = c /\ g.yy_c_buf_p = pos /\ c # NoBuffer
    BY <1>7 DEF NoBuffer
  <2>2. g \in [current : Nat, yy_c_buf_p : Nat, yyin : Nat, yy_start : Conditions]
    BY <1>7, <1>9
  <2> HIDE DEF Made, g, buffer, stream
  <2>3. yy_switch_to_buffer(Made(text2), g, buffer) =
            [bufs |-> kept, yyg |-> yy_load_buffer_state(g, buffer, kept[buffer])]
    BY <2>1 DEF yy_switch_to_buffer
  <2> HIDE DEF kept
  <2>4. /\ bufs' = kept
        /\ yyg' = [yy_load_buffer_state(g, buffer, nw) EXCEPT !.yy_start = "INITIAL"]
    BY <1>3, <1>13, <2>3
  <2> DEFINE x1 == [g EXCEPT !.current = buffer]
             x2 == [x1 EXCEPT !.yy_c_buf_p = 0]
             x3 == [x2 EXCEPT !.yyin = stream]
  <2>5. yy_load_buffer_state(g, buffer, nw) = x3
    BY <1>12 DEF yy_load_buffer_state
  <2>6. buffer \in Nat /\ stream \in Nat
    BY <1>7 DEF buffer, stream
  <2>7. x1 \in [current : Nat, yy_c_buf_p : Nat, yyin : Nat, yy_start : Conditions] /\ x1.current = buffer
    BY <2>2, <2>6
  <2>8. /\ x2 \in [current : Nat, yy_c_buf_p : Nat, yyin : Nat, yy_start : Conditions] /\ x2.current = buffer
        /\ x2.yy_c_buf_p = 0
    <3> HIDE DEF x1
    <3> QED BY <2>7
  <2>9. /\ x3 \in [current : Nat, yy_c_buf_p : Nat, yyin : Nat, yy_start : Conditions] /\ x3.current = buffer
        /\ x3.yy_c_buf_p = 0 /\ x3.yyin = stream
    <3> HIDE DEF x2
    <3> QED BY <2>6, <2>8
  <2> HIDE DEF x3
  <2>10. yyg' = [x3 EXCEPT !.yy_start = "INITIAL"] /\ "INITIAL" \in Conditions
    BY <2>4, <2>5 DEF Conditions
  <2> QED BY <2>4, <2>9, <2>10
<1> HIDE DEF kept, wb
<1> DEFINE new == StreamOf(text, isDirectory)
           S == Entries
           e == [file |-> sctx.string.string, buffer |-> c, stream |-> stream]
<1>15. new \in Streams /\ new.closed = 0 /\ new.rest = text
  BY <1>6 DEF StreamOf, Streams
<1>16. /\ streams' = Append(streams, new) /\ streams' \in Seq(Streams)
  <2>1. streams' = Append(streams, new)
    BY <1>3
  <2> HIDE DEF new
  <2> QED BY <1>7, <1>15, <2>1
<1>17. /\ BuffersNested(bufs, sctx, yyg) /\ StreamsNested(streams, sctx, bufs[1].yy_input_file)
       /\ NamesKept(sctx) /\ NamesFit(sctx)
  BY <1>5 DEF ScanInv, Nested
<1>18. /\ ContextType(sctx') /\ NamesFit(sctx') /\ NamesKept(sctx')
       /\ sctx'.stack = Append(sctx.stack, e) /\ e \in S /\ sctx'.string = EmptyString
       /\ Range(sctx.filenames) \subseteq Range(sctx'.filenames)
  <2>1. c \in Nat /\ stream \in Nat
    BY <1>7
  <2>2. IsPushed(sctx, scanctx_push_include(sctx, c, stream), e)
    <3> HIDE DEF stream, c
    <3> QED BY <1>7, <1>17, <2>1, Pushed
  <2>3. IsPushed(sctx, sctx', e)
    BY <1>4, <2>2
  <2> QED BY <2>3 DEF IsPushed, Entries
<1>19. sctx.stack \in Seq(S) /\ e.buffer = c /\ e.stream = stream
  BY <1>7 DEF ContextType, Entries
<1> HIDE DEF e, new
<1>20. BuffersNested(bufs', sctx', yyg')
  <2>1. BuffersNested(Append([bufs EXCEPT ![yyg.current] = wb], nw), sctx', yyg')
    <3>1. /\ e.buffer = yyg.current /\ e.stream = nw.yy_input_file /\ yyg'.current = Len(bufs) + 1
          /\ yyg'.yyin = nw.yy_input_file
          /\ wb.yy_input_file = bufs[yyg.current].yy_input_file /\ wb.deleted = bufs[yyg.current].deleted
      BY <1>10, <1>12, <1>14, <1>19
    <3>2. /\ bufs \in Seq(Buffers) /\ sctx.stack \in Seq(S) /\ BuffersNested(bufs, sctx, yyg)
          /\ wb \in Buffers /\ wb.yy_buf_pos <= Len(wb.ch) /\ nw \in Buffers /\ nw.deleted = 0
          /\ e \in S /\ sctx'.stack = Append(sctx.stack, e)
      BY <1>7, <1>10, <1>12, <1>17, <1>18, <1>19
    <3> QED BY <3>1, <3>2, BuffersPushed, Zenon
  <2> QED BY <1>13, <1>14, <2>1
<1>21. StreamsNested(streams', sctx', bufs[1].yy_input_file)
  BY <1>7, <1>15, <1>16, <1>17, <1>18, <1>19, StreamsPushed
<1>22. bufs'[1].yy_input_file = bufs[1].yy_input_file
  <2>1. 1 \in 1..Len(bufs)
    BY <1>7
  <2> QED BY <1>10, <1>13, <1>14, <2>1
<1>23. Nested'
  <2>1. BuffersNested(bufs, sctx, yyg)'
    BY <1>20 DEF BuffersNested, InUse, Level
  <2>2. StreamsNested(streams, sctx, bufs[1].yy_input_file)'
    BY <1>21, <1>22 DEF StreamsNested, Included
  <2>3. NamesKept(sctx)'
    BY <1>18 DEF NamesKept
  <2> QED BY <2>1, <2>2, <2>3 DEF Nested
<1>24. ScanTypeOK'
  <2>1. input' \in Inputs /\ spc' \in Places
    BY <1>4, <1>7 DEF Places
  <2>2. ContextType(sctx)'
    BY <1>18 DEF ContextType
  <2> QED BY <1>13, <1>14, <1>16, <2>1, <2>2 DEF ScanTypeOK
<1>25. Placed'
  <2>1. ASSUME NEW b \in 1..Len(bufs') PROVE Fits(bufs'[b])
    <3>1. CASE b = Len(bufs) + 1
      BY <1>12, <1>13, <1>14, <3>1
    <3>2. CASE b \in 1..Len(bufs)
      BY <1>10, <1>13, <1>14, <3>2 DEF ScanInv, Placed
    <3> QED BY <1>7, <1>13, <1>14, <3>1, <3>2
  <2>2. yyg'.current \in 1..Len(bufs') /\ bufs'[yyg'.current] = nw
    BY <1>7, <1>13, <1>14
  <2>3. Len(bufs'[yyg'.current].ch) = 0
    BY <1>12, <2>2
  <2>4. yyg'.yy_c_buf_p <= Len(bufs'[yyg'.current].ch)
    BY <1>14, <2>3
  <2> QED BY <2>1, <2>2, <2>4 DEF Placed, Current, Fits
<1>26. StringFits(sctx)' /\ NamesFit(sctx)'
  BY <1>18, EmptyStringFacts DEF StringFits, NamesFit
<1>27. depth' <= MAX_INCLUDE_DEPTH
  <2>1. Len(sctx'.stack) = Len(sctx.stack) + 1 /\ Len(sctx.stack) \in Nat
    BY <1>18, <1>19
  <2>2. Len(sctx.stack) <= MAX_INCLUDE_DEPTH /\ Len(sctx.stack) # MAX_INCLUDE_DEPTH /\ MAX_INCLUDE_DEPTH \in Nat
    BY <1>4, ScannerAssumption DEF ScanInv, RoomForInclude, depth
  <2> QED BY <2>1, <2>2 DEF depth
<1>28. ErrorNamed'
  <2>1. error'.file \in Range(sctx'.filenames) \cup {<< >>}
    BY <1>4, <1>18, GoingFacts
  <2> QED BY <2>1 DEF ErrorNamed, Range
<1>29. StringsBeginEmpty' /\ EverythingReleased'
  <2>1. StringsBeginEmpty'
    BY <1>18 DEF StringsBeginEmpty, EmptyString
  <2>2. EverythingReleased'
    BY <1>4 DEF EverythingReleased
  <2> QED BY <2>1, <2>2
<1>30. ScanInv'
  BY <1>23, <1>24, <1>25, <1>26, <1>27, <1>28, <1>29 DEF ScanInv
<1>31. IncludeEntered(text)
  <2>1. /\ Len(bufs') = Len(bufs) + 1 /\ bufs'[Len(bufs) + 1] = nw
        /\ \A b \in 1..Len(bufs) : bufs'[b] = IF b = c THEN wb ELSE bufs[b]
    BY <1>13, <1>14
  <2>2. streams'[Len(streams) + 1] = new /\ \A f \in 1..Len(streams) : streams'[f] = streams[f]
    BY <1>7, <1>15, <1>16, AppendFacts
  <2>3. \E x \in Entries : x.buffer = c /\ sctx'.stack = Append(sctx.stack, x)
    BY <1>18, <1>19
  <2>4. bufs'[c] = wb /\ \A b \in 1..Len(bufs) : b # c => bufs'[b] = bufs[b]
    BY <1>7, <2>1
  <2>5. bufs[c] = Current
    BY DEF Current
  <2> QED BY <1>8, <1>10, <1>12, <1>14, <1>15, <2>1, <2>2, <2>3, <2>4, <2>5 DEF IncludeEntered, rb, pos
<1> QED BY <1>6, <1>30, <1>31

\* The buffer on top is deleted, the one below goes on.
LEMMA BuffersPopped ==
    ASSUME NEW all \in Seq(Buffers), NEW s, NEW g, NEW E, s.stack \in Seq(E),
           BuffersNested(all, s, g), Len(s.stack) > 0,
           NEW db \in Buffers, db.deleted = 1,
           NEW s2, s2.stack = Front(s.stack),
           NEW g2, g2.current = Last(s.stack).buffer, g2.yyin = all[Last(s.stack).buffer].yy_input_file
    PROVE  BuffersNested([all EXCEPT ![g.current] = db], s2, g2)
<1> DEFINE n == Len(s.stack)
           c == g.current
           all2 == [all EXCEPT ![c] = db]
<1>0. n \in Nat /\ n >= 1 /\ Len(all) \in Nat /\ n - 1 \in Nat
  OBVIOUS
<1>1. Len(s2.stack) = n - 1 /\ \A i \in 1..(n - 1) : s2.stack[i] = s.stack[i]
  <2>1. s2.stack = SubSeq(s.stack, 1, n - 1)
    BY DEF Front
  <2> QED BY <1>0, <2>1
<1>2. Level(s, g, n + 1) = c /\ \A i \in 1..n : Level(s, g, i) = s.stack[i].buffer
  BY DEF Level
<1>3. /\ \A i \in 1..(n + 1) : Level(s, g, i) \in 1..Len(all)
      /\ \A i, j \in 1..(n + 1) : i < j => Level(s, g, i) < Level(s, g, j)
      /\ Level(s, g, 1) = 1
      /\ \A b \in 1..Len(all) : all[b].deleted = IF InUse(s, g, b) THEN 0 ELSE 1
      /\ \A i \in 1..n : all[Level(s, g, i + 1)].yy_input_file = s.stack[i].stream
      /\ \A i \in 1..n : all[s.stack[i].buffer].yy_buf_pos <= Len(all[s.stack[i].buffer].ch)
  BY DEF BuffersNested
<1>4. c \in 1..Len(all) /\ n + 1 \in 1..(n + 1) /\ n \in 1..(n + 1)
  BY <1>0, <1>2, <1>3
<1>5. Len(all2) = Len(all) /\ \A b \in 1..Len(all) : all2[b] = IF b = c THEN db ELSE all[b]
  BY <1>4
<1> HIDE DEF all2
<1>6. \A i \in 1..n : Level(s, g, i) \in 1..Len(all) /\ Level(s, g, i) < c
  <2> SUFFICES ASSUME NEW i \in 1..n PROVE Level(s, g, i) \in 1..Len(all) /\ Level(s, g, i) < c
    OBVIOUS
  <2>1. i \in 1..(n + 1) /\ i < n + 1
    BY <1>0
  <2> QED BY <1>2, <1>3, <1>4, <2>1
<1>61. ASSUME NEW i \in 1..n PROVE all2[Level(s, g, i)] = all[Level(s, g, i)]
  <2>1. Level(s, g, i) \in 1..Len(all) /\ Level(s, g, i) < c
    BY <1>6
  <2>2. Level(s, g, i) # c
    BY <1>4, <2>1
  <2> QED BY <1>5, <2>1, <2>2
<1>7. \A i \in 1..n : Level(s2, g2, i) = Level(s, g, i)
  <2> SUFFICES ASSUME NEW i \in 1..n PROVE Level(s2, g2, i) = Level(s, g, i)
    OBVIOUS
  <2>1. CASE i = n
    <3>1. i > Len(s2.stack)
      BY <1>0, <1>1, <2>1
    <3>2. Level(s2, g2, i) = g2.current /\ g2.current = s.stack[n].buffer
      BY <3>1 DEF Level, Last
    <3> QED BY <1>2, <2>1, <3>2
  <2>2. CASE i \in 1..(n - 1)
    <3>1. ~ (i > Len(s2.stack))
      BY <1>0, <1>1, <2>2
    <3>2. Level(s2, g2, i) = s2.stack[i].buffer
      BY <3>1 DEF Level
    <3> QED BY <1>1, <1>2, <2>2, <3>2
  <2> QED BY <1>0, <2>1, <2>2
<1>8. Len(s2.stack) + 1 = n
  BY <1>0, <1>1
<1>9. \A i \in 1..n : Level(s2, g2, i) \in 1..Len(all2)
  BY <1>5, <1>6, <1>7
<1>10. \A i, j \in 1..n : i < j => Level(s2, g2, i) < Level(s2, g2, j)
  <2>1. \A i \in 1..n : i \in 1..(n + 1)
    BY <1>0
  <2> QED BY <1>3, <1>7, <2>1
<1>11. Level(s2, g2, 1) = 1
  BY <1>0, <1>3, <1>7
<1>12. ASSUME NEW b \in 1..Len(all2) PROVE all2[b].deleted = IF InUse(s2, g2, b) THEN 0 ELSE 1
  <2>1. InUse(s2, g2, b) <=> \E i \in 1..n : Level(s, g, i) = b
    <3>1. InUse(s2, g2, b) <=> \E i \in 1..n : Level(s2, g2, i) = b
      BY <1>8 DEF InUse
    <3> QED BY <1>7, <3>1
  <2>2. CASE b = c
    <3>1. ~ InUse(s2, g2, b)
      BY <1>4, <1>6, <2>1, <2>2
    <3> QED BY <1>4, <1>5, <2>2, <3>1
  <2>3. CASE b # c
    <3>1. InUse(s, g, b) <=> \E i \in 1..(n + 1) : Level(s, g, i) = b
      BY DEF InUse
    <3>2. \A i \in 1..(n + 1) : i \in 1..n \/ i = n + 1
      <4> HIDE DEF n
      <4> QED BY <1>0
    <3>3. \A i \in 1..n : i \in 1..(n + 1)
      BY <1>0
    <3>4. InUse(s, g, b) <=> InUse(s2, g2, b)
      BY <1>2, <2>1, <2>3, <3>1, <3>2, <3>3
    <3> QED BY <1>3, <1>5, <2>3, <3>4
  <2> QED BY <2>2, <2>3
<1>13. ASSUME NEW i \in 1..(n - 1) PROVE all2[Level(s2, g2, i + 1)].yy_input_file = s2.stack[i].stream
  <2>1. i + 1 \in 1..n /\ i \in 1..n
    BY <1>0
  <2>2. Level(s2, g2, i + 1) = Level(s, g, i + 1) /\ all2[Level(s, g, i + 1)] = all[Level(s, g, i + 1)]
    BY <1>7, <1>61, <2>1
  <2>3. all[Level(s, g, i + 1)].yy_input_file = s.stack[i].stream
    BY <1>3, <2>1
  <2> QED BY <1>1, <2>2, <2>3
<1>14. ASSUME NEW i \in 1..(n - 1)
       PROVE  all2[s2.stack[i].buffer].yy_buf_pos <= Len(all2[s2.stack[i].buffer].ch)
  <2>0. i \in 1..n
    <3> HIDE DEF n
    <3> QED BY <1>0
  <2>1. s2.stack[i] = s.stack[i] /\ s.stack[i].buffer = Level(s, g, i)
    BY <1>1, <1>2, <2>0
  <2>2. all2[s.stack[i].buffer] = all[s.stack[i].buffer]
    BY <1>61, <2>0, <2>1
  <2>3. all[s.stack[i].buffer].yy_buf_pos <= Len(all[s.stack[i].buffer].ch)
    BY <1>3, <2>0
  <2> QED BY <2>1, <2>2, <2>3
<1>15. g2.yyin = all2[g2.current].yy_input_file
  <2>1. n \in 1..n
    BY <1>0
  <2>2. g2.current = Level(s, g, n)
    BY <1>2, <2>1 DEF Last
  <2> QED BY <1>61, <2>1, <2>2 DEF Last
<1>16. BuffersNested(all2, s2, g2)
  BY <1>1, <1>8, <1>9, <1>10, <1>11, <1>12, <1>13, <1>14, <1>15 DEF BuffersNested
<1> QED BY <1>16 DEF all2

\* The file left is closed.
LEMMA StreamsPopped ==
    ASSUME NEW files \in Seq(Streams), NEW s, NEW E, s.stack \in Seq(E), NEW top,
           StreamsNested(files, s, top), Len(s.stack) > 0,
           NEW left \in Streams, left.closed = 1,
           NEW s2, s2.stack = Front(s.stack)
    PROVE  StreamsNested([files EXCEPT ![Last(s.stack).stream] = left], s2, top)
<1> DEFINE n == Len(s.stack)
           l == Last(s.stack).stream
           files2 == [files EXCEPT ![l] = left]
<1>0. n \in Nat /\ n >= 1 /\ Len(files) \in Nat /\ n - 1 \in Nat
  OBVIOUS
<1>1. Len(s2.stack) = n - 1 /\ \A i \in 1..(n - 1) : s2.stack[i] = s.stack[i]
  <2>1. s2.stack = SubSeq(s.stack, 1, n - 1)
    BY DEF Front
  <2> QED BY <1>0, <2>1
<1>2. /\ top \in 0..Len(files)
      /\ \A i \in 1..n : s.stack[i].stream \in 1..Len(files) /\ top < s.stack[i].stream
      /\ \A i, j \in 1..n : i < j => s.stack[i].stream < s.stack[j].stream
      /\ \A f \in 1..Len(files) : files[f].closed = IF Included(s, f) \/ f = top THEN 0 ELSE 1
  BY DEF StreamsNested
<1>3. l = s.stack[n].stream /\ n \in 1..n /\ l \in 1..Len(files) /\ top < l
  <2>1. l = s.stack[n].stream /\ n \in 1..n
    BY <1>0 DEF Last
  <2> QED BY <1>2, <2>1
<1>4. Len(files2) = Len(files) /\ \A f \in 1..Len(files) : files2[f] = IF f = l THEN left ELSE files[f]
  BY <1>3
<1> HIDE DEF files2
<1>5. \A i \in 1..(n - 1) : i \in 1..n /\ i < n
  BY <1>0
<1>6. ASSUME NEW i \in 1..(n - 1)
      PROVE  s2.stack[i].stream \in 1..Len(files2) /\ top < s2.stack[i].stream /\ s2.stack[i].stream # l
  <2>1. i \in 1..n /\ i < n /\ s2.stack[i] = s.stack[i]
    BY <1>1, <1>5
  <2>2. s.stack[i].stream \in 1..Len(files) /\ top < s.stack[i].stream /\ s.stack[i].stream < s.stack[n].stream
    BY <1>2, <1>3, <2>1
  <2> DEFINE x == s.stack[i].stream
  <2>3. x \in 1..Len(files) /\ top < x /\ x < l /\ l \in 1..Len(files)
    BY <1>3, <2>2
  <2>4. s2.stack[i].stream = x
    BY <2>1
  <2> HIDE DEF l, x
  <2> QED BY <1>4, <2>3, <2>4
<1>7. \A i, j \in 1..(n - 1) : i < j => s2.stack[i].stream < s2.stack[j].stream
  BY <1>1, <1>2, <1>5
<1>8. ASSUME NEW f \in 1..Len(files2) PROVE files2[f].closed = IF Included(s2, f) \/ f = top THEN 0 ELSE 1
  <2>1. Included(s2, f) <=> \E i \in 1..(n - 1) : s2.stack[i].stream = f
    BY <1>1 DEF Included
  <2>2. CASE f = l
    <3>1. ~ Included(s2, f) /\ f # top
      BY <1>2, <1>3, <1>6, <2>1, <2>2
    <3> QED BY <1>3, <1>4, <2>2, <3>1
  <2>3. CASE f # l
    <3>1. \A i \in 1..n : i \in 1..(n - 1) \/ i = n
      BY <1>0
    <3>2. Included(s, f) <=> \E i \in 1..(n - 1) : s.stack[i].stream = f
      BY <1>3, <1>5, <2>3, <3>1 DEF Included
    <3>3. Included(s, f) <=> Included(s2, f)
      BY <1>1, <2>1, <3>2
    <3> QED BY <1>2, <1>4, <2>3, <3>3
  <2> QED BY <2>2, <2>3
<1>9. StreamsNested(files2, s2, top)
  BY <1>1, <1>2, <1>4, <1>6, <1>7, <1>8 DEF StreamsNested
<1> QED BY <1>9 DEF files2

\* The scanner goes on in the buffer of the file with the directive where it
\* left it, and nothing of what is ahead has changed.
IncludeLeft ==
    /\ Len(bufs') = Len(bufs)
    /\ \A b \in 1..Len(bufs) :
           /\ bufs'[b].ch = bufs[b].ch /\ bufs'[b].text = bufs[b].text /\ bufs'[b].yy_buf_pos = bufs[b].yy_buf_pos
           /\ bufs'[b].yy_fill_buffer = bufs[b].yy_fill_buffer /\ bufs'[b].yy_input_file = bufs[b].yy_input_file
           /\ bufs'[b].yy_bs_lineno = bufs[b].yy_bs_lineno
    /\ yyg'.current # yyg.current /\ yyg'.yy_c_buf_p = bufs[yyg'.current].yy_buf_pos
    /\ \A b \in 1..Len(bufs) : InUse(sctx', yyg', b) => InUse(sctx, yyg, b) /\ b # yyg.current
    /\ \A f \in 1..Len(streams) : streams'[f].rest = streams[f].rest

LEMMA EndOfIncludeKeeps == ScanInv /\ EndOfInclude /\ UNCHANGED input => ScanInv' /\ IncludeLeft
<1> SUFFICES ASSUME ScanInv, EndOfInclude, UNCHANGED input PROVE ScanInv' /\ IncludeLeft
  OBVIOUS
<1> DEFINE c == yyg.current
           n == Len(sctx.stack)
           back == Last(sctx.stack).buffer
           l == Last(sctx.stack).stream
           g == [yyg EXCEPT !.current = NoBuffer]
           db == [bufs[c] EXCEPT !.deleted = @ + 1]
           all == [bufs EXCEPT ![c] = db]
           left == [streams[l] EXCEPT !.closed = @ + 1]
           S == [file : Text, buffer : Nat, stream : Nat]
<1>1. /\ spc = "eof" /\ n > 0 /\ spc' = "match" /\ error' = error
      /\ streams' = scanctx_pop_include(streams, sctx)
      /\ sctx' = [sctx EXCEPT !.stack = Front(@)]
      /\ bufs' = yy_switch_to_buffer(yy_delete_buffer(bufs, c), g, back).bufs
      /\ yyg' = yy_switch_to_buffer(yy_delete_buffer(bufs, c), g, back).yyg
  BY DEF EndOfInclude, depth
<1>2. Going
  BY <1>1 DEF Going
<1>3. /\ bufs \in Seq(Buffers) /\ Len(bufs) \in Nat /\ streams \in Seq(Streams) /\ Len(streams) \in Nat
      /\ c \in 1..Len(bufs) /\ ContextType(sctx) /\ input \in Inputs
      /\ yyg \in [current : Nat, yy_c_buf_p : Nat, yyin : Nat, yy_start : Conditions]
      /\ bufs[c] \in Buffers
  BY GoingFacts DEF Current
<1>4. /\ BuffersNested(bufs, sctx, yyg) /\ StreamsNested(streams, sctx, bufs[1].yy_input_file)
      /\ NamesKept(sctx) /\ NamesFit(sctx) /\ StringFits(sctx) /\ n <= MAX_INCLUDE_DEPTH
  BY <1>2 DEF ScanInv, Nested, depth
<1>5. sctx.stack \in Seq(S) /\ n \in 1..n /\ n \in Nat
  BY <1>1, <1>3 DEF ContextType
<1>6. /\ back = Level(sctx, yyg, n) /\ Level(sctx, yyg, n) \in 1..Len(bufs) /\ Level(sctx, yyg, n) < c
      /\ bufs[back].yy_buf_pos <= Len(bufs[back].ch)
  <2>1. Level(sctx, yyg, n) = sctx.stack[n].buffer /\ Level(sctx, yyg, n + 1) = c
    BY <1>5 DEF Level
  <2>2. n \in 1..(n + 1) /\ n + 1 \in 1..(n + 1) /\ n < n + 1
    BY <1>5
  <2> QED BY <1>4, <1>5, <2>1, <2>2 DEF BuffersNested, Last
<1>7. back \in 1..Len(bufs) /\ back # c /\ bufs[back] \in Buffers
  <2> HIDE DEF back
  <2> QED BY <1>3, <1>6
<1>8. /\ db \in Buffers /\ db.deleted = 1 /\ db.yy_input_file = bufs[c].yy_input_file /\ Fits(db)
      /\ db.ch = bufs[c].ch /\ db.yy_fill_buffer = bufs[c].yy_fill_buffer /\ db.text = bufs[c].text
      /\ db.yy_buf_pos = bufs[c].yy_buf_pos /\ db.yy_bs_lineno = bufs[c].yy_bs_lineno
  <2>1. InUse(sctx, yyg, c)
    <3>1. Level(sctx, yyg, n + 1) = c /\ n + 1 \in 1..(Len(sctx.stack) + 1)
      BY <1>5 DEF Level
    <3> QED BY <3>1 DEF InUse
  <2>2. bufs[c].deleted = 0
    BY <1>3, <1>4, <2>1 DEF BuffersNested
  <2>3. db = [bufs[c] EXCEPT !.deleted = 1]
    BY <2>2
  <2>4. /\ db \in Buffers /\ db.deleted = 1 /\ db.yy_input_file = bufs[c].yy_input_file /\ db.ch = bufs[c].ch
        /\ db.yy_buf_size = bufs[c].yy_buf_size /\ db.yy_fill_buffer = bufs[c].yy_fill_buffer
        /\ db.text = bufs[c].text /\ db.yy_buf_pos = bufs[c].yy_buf_pos /\ db.yy_bs_lineno = bufs[c].yy_bs_lineno
    <3> HIDE DEF db
    <3> QED BY <1>3, <2>3 DEF Buffers
  <2>5. Fits(bufs[c])
    BY <1>3 DEF ScanInv, Placed
  <2> HIDE DEF db
  <2> QED BY <2>4, <2>5 DEF Fits
<1>9. yy_delete_buffer(bufs, c) = all
  BY DEF yy_delete_buffer
<1> HIDE DEF db
<1>10. all \in Seq(Buffers) /\ Len(all) = Len(bufs) /\ \A b \in 1..Len(bufs) : all[b] = IF b = c THEN db ELSE bufs[b]
  BY <1>3, <1>8
<1>11. all[back] = bufs[back]
  <2> HIDE DEF all, back
  <2> QED BY <1>7, <1>10
<1>12. /\ bufs' = all /\ yyg'.current = back /\ yyg'.yy_c_buf_p = bufs[back].yy_buf_pos
       /\ yyg'.yyin = bufs[back].yy_input_file /\ yyg'.yy_start = yyg.yy_start
       /\ yyg' \in [current : Nat, yy_c_buf_p : Nat, yyin : Nat, yy_start : Conditions]
  <2>1. g \in [current : Nat, yy_c_buf_p : Nat, yyin : Nat, yy_start : Conditions] /\ g.current = NoBuffer
        /\ g.yy_start = yyg.yy_start
    BY <1>3 DEF NoBuffer
  <2> HIDE DEF g, all, back
  <2>2. yy_switch_to_buffer(all, g, back) = [bufs |-> all, yyg |-> yy_load_buffer_state(g, back, all[back])]
    BY <2>1 DEF yy_switch_to_buffer
  <2>3. bufs' = all /\ yyg' = yy_load_buffer_state(g, back, bufs[back])
    BY <1>1, <1>9, <1>11, <2>2
  <2> DEFINE p == bufs[back].yy_buf_pos
             f == bufs[back].yy_input_file
             x1 == [g EXCEPT !.current = back]
             x2 == [x1 EXCEPT !.yy_c_buf_p = p]
             x3 == [x2 EXCEPT !.yyin = f]
  <2>4. yyg' = x3
    BY <2>3 DEF yy_load_buffer_state
  <2>5. p \in Nat /\ f \in Nat /\ back \in Nat
    <3>1. back \in Nat
      BY <1>3, <1>7
    <3>2. p \in Nat /\ f \in Nat
      <4> DEFINE o == bufs[back]
      <4>1. o \in Buffers
        BY <1>7
      <4> HIDE DEF o
      <4>2. o.yy_buf_pos \in Nat /\ o.yy_input_file \in Nat
        BY <4>1 DEF Buffers
      <4> QED BY <4>2 DEF o
    <3> QED BY <3>1, <3>2
  <2> HIDE DEF p, f
  <2>6. /\ x1 \in [current : Nat, yy_c_buf_p : Nat, yyin : Nat, yy_start : Conditions] /\ x1.current = back
        /\ x1.yy_start = yyg.yy_start
    BY <2>1, <2>5
  <2>7. /\ x2 \in [current : Nat, yy_c_buf_p : Nat, yyin : Nat, yy_start : Conditions] /\ x2.current = back
        /\ x2.yy_start = yyg.yy_start /\ x2.yy_c_buf_p = p
    <3> HIDE DEF x1
    <3> QED BY <2>5, <2>6
  <2>8. /\ x3 \in [current : Nat, yy_c_buf_p : Nat, yyin : Nat, yy_start : Conditions] /\ x3.current = back
        /\ x3.yy_start = yyg.yy_start /\ x3.yy_c_buf_p = p /\ x3.yyin = f
    <3> HIDE DEF x2
    <3> QED BY <2>5, <2>7
  <2> HIDE DEF x3
  <2> QED BY <2>3, <2>4, <2>8 DEF p, f
<1>13. /\ sctx'.stack = Front(sctx.stack) /\ sctx'.string = sctx.string /\ sctx'.filenames = sctx.filenames
       /\ sctx'.room = sctx.room /\ sctx'.top_filename = sctx.top_filename
       /\ sctx' = [stack |-> Front(sctx.stack), string |-> sctx.string, filenames |-> sctx.filenames,
                   room |-> sctx.room, top_filename |-> sctx.top_filename]
  <2>1. sctx = [stack |-> sctx.stack, string |-> sctx.string, filenames |-> sctx.filenames, room |-> sctx.room,
                top_filename |-> sctx.top_filename]
    BY <1>3 DEF ContextType
  <2> DEFINE fr == Front(sctx.stack)
  <2>2. sctx' = [sctx EXCEPT !.stack = fr]
    BY <1>1
  <2> HIDE DEF fr
  <2>3. sctx' = [stack |-> fr, string |-> sctx.string, filenames |-> sctx.filenames, room |-> sctx.room,
                top_filename |-> sctx.top_filename]
    BY <2>1, <2>2
  <2>4. /\ sctx'.stack = fr /\ sctx'.string = sctx.string /\ sctx'.filenames = sctx.filenames
        /\ sctx'.room = sctx.room /\ sctx'.top_filename = sctx.top_filename
    BY <2>3
  <2> QED BY <2>3, <2>4 DEF fr
<1>14. /\ Front(sctx.stack) \in Seq(S) /\ Len(Front(sctx.stack)) = n - 1
       /\ \A i \in 1..(n - 1) : Front(sctx.stack)[i] = sctx.stack[i]
  <2>1. Front(sctx.stack) = SubSeq(sctx.stack, 1, n - 1)
    BY DEF Front
  <2> HIDE DEF S
  <2> QED BY <1>5, <2>1
<1>15. ContextType(sctx')
  BY <1>3, <1>13, <1>14 DEF ContextType
<1>16. BuffersNested(bufs', sctx', yyg')
  <2>1. yyg'.current = Last(sctx.stack).buffer /\ yyg'.yyin = bufs[Last(sctx.stack).buffer].yy_input_file
    BY <1>12
  <2>2. sctx'.stack = Front(sctx.stack) /\ Len(sctx.stack) > 0
    BY <1>1, <1>13
  <2>3. BuffersNested([bufs EXCEPT ![yyg.current] = db], sctx', yyg')
    BY <1>3, <1>4, <1>5, <1>8, <2>1, <2>2, BuffersPopped, Zenon
  <2> QED BY <1>12, <2>3
<1>17. l \in 1..Len(streams) /\ bufs[1].yy_input_file < l /\ streams[l] \in Streams /\ streams[l].closed = 0
  <2>1. l = sctx.stack[n].stream
    BY DEF Last
  <2>2. l \in 1..Len(streams) /\ bufs[1].yy_input_file < l
    BY <1>4, <1>5, <2>1 DEF StreamsNested
  <2>3. Included(sctx, l)
    BY <1>5, <2>1 DEF Included
  <2>4. streams[l].closed = 0
    BY <1>4, <2>2, <2>3 DEF StreamsNested
  <2>5. streams[l] \in Streams
    <3> HIDE DEF l
    <3> QED BY <1>3, <2>2
  <2> QED BY <2>2, <2>4, <2>5
<1>18. left \in Streams /\ left.closed = 1 /\ left.rest = streams[l].rest
  <2>1. left = [streams[l] EXCEPT !.closed = 1]
    BY <1>17
  <2> HIDE DEF left, l
  <2> QED BY <1>17, <2>1 DEF Streams
<1>19. streams' = [streams EXCEPT ![l] = left]
  BY <1>1 DEF scanctx_pop_include
<1> HIDE DEF left
<1>20. streams' \in Seq(Streams)
  <2> HIDE DEF l
  <2> QED BY <1>3, <1>17, <1>18, <1>19
<1>21. StreamsNested(streams', sctx', bufs[1].yy_input_file)
  <2>1. streams' = [streams EXCEPT ![Last(sctx.stack).stream] = left]
    BY <1>19
  <2>2. sctx'.stack = Front(sctx.stack) /\ Len(sctx.stack) > 0
    BY <1>1, <1>13
  <2>3. StreamsNested([streams EXCEPT ![Last(sctx.stack).stream] = left], sctx', bufs[1].yy_input_file)
    BY <1>3, <1>4, <1>5, <1>18, <2>2, StreamsPopped, Zenon
  <2> QED BY <2>1, <2>3
<1>22. bufs'[1].yy_input_file = bufs[1].yy_input_file
  <2>1. 1 \in 1..Len(bufs)
    BY <1>3
  <2> QED BY <1>8, <1>10, <1>12, <2>1
<1>23. NamesKept(sctx')
  <2>1. \A i \in 1..(n - 1) : i \in 1..n
    BY <1>5
  <2> QED BY <1>4, <1>13, <1>14, <2>1 DEF NamesKept
<1>24. Nested'
  <2>1. BuffersNested(bufs, sctx, yyg)'
    BY <1>16 DEF BuffersNested, InUse, Level
  <2>2. StreamsNested(streams, sctx, bufs[1].yy_input_file)'
    BY <1>21, <1>22 DEF StreamsNested, Included
  <2>3. NamesKept(sctx)'
    BY <1>23 DEF NamesKept
  <2> QED BY <2>1, <2>2, <2>3 DEF Nested
<1>25. ScanTypeOK'
  <2>1. input' \in Inputs /\ spc' \in Places
    BY <1>1, <1>3 DEF Places
  <2>2. ContextType(sctx)'
    BY <1>15 DEF ContextType
  <2> HIDE DEF all
  <2> QED BY <1>10, <1>12, <1>20, <2>1, <2>2 DEF ScanTypeOK
<1>26. Placed'
  <2> HIDE DEF all, back
  <2>1. \A b \in 1..Len(bufs') : Fits(bufs'[b])
    BY <1>8, <1>10, <1>12 DEF ScanInv, Placed
  <2>2. yyg'.current \in 1..Len(bufs') /\ bufs'[yyg'.current] = bufs[back]
    BY <1>7, <1>10, <1>11, <1>12
  <2>3. yyg'.yy_c_buf_p <= Len(bufs'[yyg'.current].ch)
    BY <1>6, <1>12, <2>2
  <2> QED BY <2>1, <2>2, <2>3 DEF Placed, Current, Fits
<1>27. StringFits(sctx)' /\ NamesFit(sctx)'
  BY <1>4, <1>13 DEF StringFits, NamesFit
<1>28. depth' <= MAX_INCLUDE_DEPTH
  <2>1. MAX_INCLUDE_DEPTH \in Nat
    BY ScannerAssumption
  <2> QED BY <1>4, <1>5, <1>13, <1>14, <2>1 DEF depth
<1>29. ErrorNamed'
  BY <1>1, <1>13, GoingFacts DEF ErrorNamed, Range
<1>30. StringsBeginEmpty'
  BY <1>12, <1>13 DEF ScanInv, StringsBeginEmpty, EmptyString
<1>31. EverythingReleased'
  BY <1>1 DEF EverythingReleased
<1>32. ScanInv'
  BY <1>24, <1>25, <1>26, <1>27, <1>28, <1>29, <1>30, <1>31 DEF ScanInv
<1>33. ASSUME NEW b \in 1..Len(bufs), InUse(sctx', yyg', b) PROVE InUse(sctx, yyg, b) /\ b # c
  <2>1. Len(sctx'.stack) + 1 = n
    BY <1>5, <1>13, <1>14
  <2>2. PICK i \in 1..n : Level(sctx', yyg', i) = b
    BY <1>33, <2>1 DEF InUse
  <2>3. Level(sctx', yyg', i) = Level(sctx, yyg, i)
    <3>1. CASE i = n
      <4>1. Level(sctx', yyg', i) = back
        BY <1>5, <1>12, <2>1, <3>1 DEF Level
      <4> QED BY <1>6, <3>1, <4>1
    <3>2. CASE i \in 1..(n - 1)
      <4>0. Len(sctx'.stack) = n - 1
        BY <1>13, <1>14
      <4>1. ~ (i > Len(sctx'.stack)) /\ ~ (i > n)
        BY <1>5, <3>2, <4>0
      <4>2. sctx'.stack[i] = sctx.stack[i]
        BY <1>13, <1>14, <3>2
      <4> QED BY <4>1, <4>2 DEF Level
    <3> QED BY <1>5, <3>1, <3>2
  <2>4. i \in 1..(n + 1) /\ n + 1 \in 1..(n + 1) /\ i < n + 1
    BY <1>5
  <2>5. Level(sctx, yyg, i) < Level(sctx, yyg, n + 1)
    BY <1>4, <2>4 DEF BuffersNested
  <2>6. Level(sctx, yyg, n + 1) = c
    BY <1>5 DEF Level
  <2>7. b # c
    BY <1>3, <2>2, <2>3, <2>5, <2>6
  <2> QED BY <2>2, <2>3, <2>4, <2>7 DEF InUse
<1>34. \A f \in 1..Len(streams) : streams'[f].rest = streams[f].rest
  <2> HIDE DEF l
  <2> QED BY <1>3, <1>17, <1>18, <1>19
<1>35. IncludeLeft
  <2> HIDE DEF all, back
  <2>1. /\ Len(bufs') = Len(bufs) /\ \A b \in 1..Len(bufs) : bufs'[b] = IF b = c THEN db ELSE bufs[b]
    BY <1>10, <1>12
  <2>2. yyg'.current = back /\ back # c /\ yyg'.yy_c_buf_p = bufs[back].yy_buf_pos
    BY <1>7, <1>12
  <2> QED BY <1>8, <1>33, <1>34, <2>1, <2>2 DEF IncludeLeft
<1> QED BY <1>32, <1>35

-----------------------------------------------------------------------------
(* The end of the read. *)

\* b with one more deletion, or none.
IsReleased(b, all, all2, more) ==
    /\ all2[b] \in Buffers /\ all2[b].ch = all[b].ch /\ all2[b].yy_buf_size = all[b].yy_buf_size
    /\ all2[b].yy_fill_buffer = all[b].yy_fill_buffer /\ all2[b].yy_input_file = all[b].yy_input_file
    /\ all2[b].yy_bs_lineno = all[b].yy_bs_lineno /\ all2[b].text = all[b].text
    /\ all2[b].deleted = IF more THEN all[b].deleted + 1 ELSE all[b].deleted

LEMMA Deleted ==
    ASSUME NEW b \in Buffers
    PROVE  LET d == [b EXCEPT !.deleted = @ + 1]
           IN  /\ d \in Buffers /\ d.ch = b.ch /\ d.yy_buf_size = b.yy_buf_size
               /\ d.yy_fill_buffer = b.yy_fill_buffer /\ d.yy_input_file = b.yy_input_file
               /\ d.yy_bs_lineno = b.yy_bs_lineno /\ d.text = b.text
               /\ d.deleted = b.deleted + 1
<1> DEFINE v == b.deleted + 1
           d == [b EXCEPT !.deleted = v]
<1>1. v \in Nat
  BY DEF Buffers
<1> HIDE DEF v
<1>2. /\ d \in Buffers /\ d.ch = b.ch /\ d.yy_buf_size = b.yy_buf_size
      /\ d.yy_fill_buffer = b.yy_fill_buffer /\ d.yy_input_file = b.yy_input_file
      /\ d.yy_bs_lineno = b.yy_bs_lineno /\ d.text = b.text
      /\ d.deleted = v
  BY <1>1 DEF Buffers
<1> QED BY <1>2 DEF v

LEMMA Closed ==
    ASSUME NEW f \in Streams
    PROVE  LET d == [f EXCEPT !.closed = @ + 1] IN d \in Streams /\ d.closed = f.closed + 1
<1> DEFINE v == f.closed + 1
           d == [f EXCEPT !.closed = v]
<1>1. v \in Nat
  BY DEF Streams
<1> HIDE DEF v
<1>2. d \in Streams /\ d.closed = v
  BY <1>1 DEF Streams
<1> QED BY <1>2 DEF v

\* The include stack is unwound: every buffer that waits is deleted, every
\* included file closed.
LEMMA UnwoundFacts ==
    ASSUME ScanInv, NEW held, held = Unwound \/ (held = Held /\ depth = 0)
    PROVE  /\ held.bufs \in Seq(Buffers) /\ Len(held.bufs) = Len(bufs)
           /\ \A b \in 1..Len(bufs) :
                  IsReleased(b, bufs, held.bufs, \E i \in 1..Len(sctx.stack) : sctx.stack[i].buffer = b)
           /\ held.streams \in Seq(Streams) /\ Len(held.streams) = Len(streams)
           /\ \A f \in 1..Len(streams) :
                  held.streams[f].closed = IF Included(sctx, f) THEN streams[f].closed + 1 ELSE streams[f].closed
           /\ held.sctx = [stack |-> << >>, string |-> sctx.string, filenames |-> sctx.filenames,
                           room |-> sctx.room, top_filename |-> sctx.top_filename]
<1>0. /\ bufs \in Seq(Buffers) /\ streams \in Seq(Streams) /\ ContextType(sctx)
      /\ Len(bufs) \in Nat /\ Len(streams) \in Nat
  BY GoingFacts
<1>1. sctx = [stack |-> sctx.stack, string |-> sctx.string, filenames |-> sctx.filenames, room |-> sctx.room,
              top_filename |-> sctx.top_filename]
  BY <1>0 DEF ContextType
<1>2. CASE held = Unwound
  <2> DEFINE Waits(b) == \E i \in 1..depth : sctx.stack[i].buffer = b
             Open(f) == \E i \in 1..depth : sctx.stack[i].stream = f
             hb == [b \in DOMAIN bufs |-> IF Waits(b) THEN [bufs[b] EXCEPT !.deleted = @ + 1] ELSE bufs[b]]
             hf == [f \in DOMAIN streams |-> IF Open(f) THEN [streams[f] EXCEPT !.closed = @ + 1] ELSE streams[f]]
  <2>1. held = [bufs |-> hb, streams |-> hf, sctx |-> [sctx EXCEPT !.stack = << >>]]
    BY <1>2 DEF Unwound
  <2>2. ASSUME NEW b \in 1..Len(bufs) PROVE hb[b] \in Buffers /\ IsReleased(b, bufs, hb, Waits(b))
    <3>0. b \in DOMAIN bufs
      BY <1>0
    <3>1. hb[b] = IF Waits(b) THEN [bufs[b] EXCEPT !.deleted = @ + 1] ELSE bufs[b]
      BY <3>0, Zenon
    <3>2. bufs[b] \in Buffers
      BY <1>0
    <3> HIDE DEF hb, Waits
    <3>3. CASE Waits(b)
      BY <3>1, <3>2, <3>3, Deleted DEF IsReleased
    <3>4. CASE ~ Waits(b)
      <4>1. hb[b] = bufs[b]
        BY <3>1, <3>4
      <4> QED BY <3>2, <3>4, <4>1 DEF IsReleased
    <3> QED BY <3>3, <3>4
  <2>3. ASSUME NEW f \in 1..Len(streams)
        PROVE  hf[f] \in Streams /\ hf[f].closed = IF Open(f) THEN streams[f].closed + 1 ELSE streams[f].closed
    <3>1. hf[f] = IF Open(f) THEN [streams[f] EXCEPT !.closed = @ + 1] ELSE streams[f]
      BY <1>0
    <3>2. streams[f] \in Streams
      BY <1>0
    <3> HIDE DEF hf, Open
    <3>3. CASE Open(f)
      BY <3>1, <3>2, <3>3, Closed
    <3>4. CASE ~ Open(f)
      BY <3>1, <3>2, <3>4
    <3> QED BY <3>3, <3>4
  <2>4. \A b : Waits(b) <=> \E i \in 1..Len(sctx.stack) : sctx.stack[i].buffer = b
    BY DEF depth
  <2>5. \A f : Open(f) <=> Included(sctx, f)
    BY DEF depth, Included
  <2>6. DOMAIN hb = 1..Len(bufs) /\ DOMAIN hf = 1..Len(streams) /\ hb = [b \in 1..Len(bufs) |-> hb[b]]
        /\ hf = [f \in 1..Len(streams) |-> hf[f]]
    BY <1>0
  <2>7. held.bufs = hb /\ held.streams = hf /\ held.sctx = [sctx EXCEPT !.stack = << >>]
    BY <2>1
  <2> HIDE DEF hb, hf, Waits, Open
  <2>8. hb \in Seq(Buffers) /\ Len(hb) = Len(bufs)
    <3>1. hb \in [1..Len(bufs) -> Buffers]
      BY <2>2, <2>6
    <3> QED BY <1>0, <3>1
  <2>9. hf \in Seq(Streams) /\ Len(hf) = Len(streams)
    <3>1. hf \in [1..Len(streams) -> Streams]
      BY <2>3, <2>6
    <3> QED BY <1>0, <3>1
  <2>10. held.sctx = [stack |-> << >>, string |-> sctx.string, filenames |-> sctx.filenames, room |-> sctx.room,
                      top_filename |-> sctx.top_filename]
    BY <1>1, <2>7
  <2>11. \A b \in 1..Len(bufs) :
             IsReleased(b, bufs, held.bufs, \E i \in 1..Len(sctx.stack) : sctx.stack[i].buffer = b)
    BY <2>2, <2>4, <2>7 DEF IsReleased
  <2> QED BY <2>3, <2>5, <2>7, <2>8, <2>9, <2>10, <2>11
<1>3. CASE held = Held /\ depth = 0
  <2>1. held.bufs = bufs /\ held.streams = streams /\ held.sctx = sctx /\ Len(sctx.stack) = 0
    BY <1>3 DEF Held, depth
  <2>2. sctx.stack = << >>
    BY <1>0, <2>1 DEF ContextType
  <2>3. \A b \in 1..Len(bufs) : bufs[b] \in Buffers
    BY <1>0
  <2>4. \A b : ~ \E i \in 1..Len(sctx.stack) : sctx.stack[i].buffer = b
    BY <2>1
  <2>5. \A f : ~ Included(sctx, f)
    BY <2>1 DEF Included
  <2>6. \A b \in 1..Len(bufs) :
             IsReleased(b, bufs, held.bufs, \E i \in 1..Len(sctx.stack) : sctx.stack[i].buffer = b)
    BY <2>1, <2>3, <2>4 DEF IsReleased
  <2>7. held.sctx = [stack |-> << >>, string |-> sctx.string, filenames |-> sctx.filenames, room |-> sctx.room,
                     top_filename |-> sctx.top_filename]
    BY <1>1, <2>1, <2>2
  <2> QED BY <1>0, <2>1, <2>5, <2>6, <2>7
<1> QED BY <1>2, <1>3

LEMMA DestroyedKeeps ==
    ASSUME ScanInv, Going, UNCHANGED input, NEW failed \in BOOLEAN, failed \/ depth = 0, ScannerDestroyed(failed)
    PROVE  /\ ScanInv' /\ Len(bufs') = Len(bufs)
           /\ \A b \in 1..Len(bufs) : bufs'[b].text = bufs[b].text /\ bufs'[b].yy_bs_lineno = bufs[b].yy_bs_lineno
<1> DEFINE held == IF failed THEN Unwound ELSE Held
           c == yyg.current
           top == bufs[1].yy_input_file
           db == [held.bufs[c] EXCEPT !.deleted = @ + 1]
           Waits(b) == \E i \in 1..Len(sctx.stack) : sctx.stack[i].buffer = b
<1>1. /\ bufs' = yylex_destroy(held.bufs)
      /\ streams' = scanctx_cleanup(held.streams, held.sctx)
      /\ sctx' = [held.sctx EXCEPT !.string = strbuf_release(@), !.stack = << >>]
      /\ spc' = "over" /\ yyg' = yyg
  BY Zenon DEF ScannerDestroyed
<1>2. error' = error \/ \E e, l : error' = [text |-> e, line |-> l, file |-> scanctx_current_filename(sctx)]
  BY Zenon DEF ScannerDestroyed
<1>3. held = Unwound \/ (held = Held /\ depth = 0)
  OBVIOUS
<1> HIDE DEF held
<1>4. /\ held.bufs \in Seq(Buffers) /\ Len(held.bufs) = Len(bufs)
      /\ \A b \in 1..Len(bufs) : IsReleased(b, bufs, held.bufs, Waits(b))
      /\ held.streams \in Seq(Streams) /\ Len(held.streams) = Len(streams)
      /\ \A f \in 1..Len(streams) :
             held.streams[f].closed = IF Included(sctx, f) THEN streams[f].closed + 1 ELSE streams[f].closed
      /\ held.sctx = [stack |-> << >>, string |-> sctx.string, filenames |-> sctx.filenames,
                      room |-> sctx.room, top_filename |-> sctx.top_filename]
  BY <1>3, UnwoundFacts
<1>5. /\ bufs \in Seq(Buffers) /\ Len(bufs) \in Nat /\ streams \in Seq(Streams) /\ Len(streams) \in Nat
      /\ c \in 1..Len(bufs) /\ ContextType(sctx) /\ input \in Inputs
      /\ yyg \in [current : Nat, yy_c_buf_p : Nat, yyin : Nat, yy_start : Conditions]
  BY GoingFacts
<1>6. BuffersNested(bufs, sctx, yyg) /\ StreamsNested(streams, sctx, bufs[1].yy_input_file)
  BY DEF ScanInv, Nested
<1>7. /\ \A b \in 1..Len(bufs) : InUse(sctx, yyg, b) <=> (b = c \/ Waits(b))
      /\ ~ Waits(c)
  <2> DEFINE n == Len(sctx.stack)
  <2>1. n \in Nat
    BY <1>5 DEF ContextType
  <2>2. Level(sctx, yyg, n + 1) = c /\ \A i \in 1..n : Level(sctx, yyg, i) = sctx.stack[i].buffer
    BY <2>1 DEF Level
  <2>3. \A i \in 1..(n + 1) : i \in 1..n \/ i = n + 1
    BY <2>1
  <2>4. n + 1 \in 1..(n + 1) /\ \A i \in 1..n : i \in 1..(n + 1) /\ i < n + 1
    BY <2>1
  <2>5. \A b \in 1..Len(bufs) : InUse(sctx, yyg, b) <=> (b = c \/ Waits(b))
    <3> HIDE DEF n
    <3>1. \A b : InUse(sctx, yyg, b) <=> \E i \in 1..(n + 1) : Level(sctx, yyg, i) = b
      BY DEF InUse, n
    <3>2. \A b : Waits(b) <=> \E i \in 1..n : sctx.stack[i].buffer = b
      BY DEF n
    <3> HIDE DEF Waits
    <3> QED BY <2>2, <2>3, <2>4, <3>1, <3>2
  <2>6. ASSUME NEW i \in 1..n PROVE sctx.stack[i].buffer # c
    <3>1. Level(sctx, yyg, i) < Level(sctx, yyg, n + 1) /\ Level(sctx, yyg, i) \in 1..Len(bufs)
      BY <1>6, <2>4 DEF BuffersNested
    <3> QED BY <1>5, <2>2, <3>1
  <2> QED BY <2>5, <2>6
<1> HIDE DEF Waits
<1>8. \A b \in 1..Len(bufs) : bufs[b].deleted = IF b = c \/ Waits(b) THEN 0 ELSE 1
  BY <1>6, <1>7 DEF BuffersNested
<1>9. /\ bufs' \in Seq(Buffers) /\ Len(bufs') = Len(bufs)
      /\ \A b \in 1..Len(bufs) : IsReleased(b, bufs, bufs', b = c \/ Waits(b))
  <2>1. bufs' = [held.bufs EXCEPT ![c] = db]
    BY <1>1 DEF yylex_destroy, yy_delete_buffer
  <2> DEFINE o == held.bufs[c]
  <2>2. o \in Buffers /\ IsReleased(c, bufs, held.bufs, Waits(c))
    BY <1>4, <1>5
  <2>3. /\ db \in Buffers /\ db.ch = o.ch /\ db.yy_buf_size = o.yy_buf_size
        /\ db.yy_fill_buffer = o.yy_fill_buffer /\ db.yy_input_file = o.yy_input_file
        /\ db.yy_bs_lineno = o.yy_bs_lineno /\ db.text = o.text
        /\ db.deleted = o.deleted + 1
    <3> HIDE DEF o
    <3>1. db = [o EXCEPT !.deleted = @ + 1]
      BY DEF o
    <3> QED BY <2>2, <3>1, Deleted
  <2> HIDE DEF db
  <2>4. /\ bufs' \in Seq(Buffers) /\ Len(bufs') = Len(bufs)
        /\ \A b \in 1..Len(bufs) : bufs'[b] = IF b = c THEN db ELSE held.bufs[b]
    BY <1>4, <1>5, <2>1, <2>3
  <2>5. ASSUME NEW b \in 1..Len(bufs) PROVE IsReleased(b, bufs, bufs', b = c \/ Waits(b))
    <3>1. CASE b = c
      <4>1. bufs'[c] = db /\ o.deleted = bufs[c].deleted
        BY <1>5, <1>7, <2>2, <2>4 DEF IsReleased
      <4> QED BY <2>2, <2>3, <3>1, <4>1 DEF IsReleased
    <3>2. CASE b # c
      <4>1. bufs'[b] = held.bufs[b] /\ IsReleased(b, bufs, held.bufs, Waits(b))
        BY <1>4, <2>4, <3>2
      <4> QED BY <3>2, <4>1 DEF IsReleased
    <3> QED BY <3>1, <3>2
  <2> QED BY <2>4, <2>5
<1>10. \A b \in 1..Len(bufs) : bufs'[b].deleted = 1 /\ bufs'[b].yy_input_file = bufs[b].yy_input_file
  <2> SUFFICES ASSUME NEW b \in 1..Len(bufs)
               PROVE  bufs'[b].deleted = 1 /\ bufs'[b].yy_input_file = bufs[b].yy_input_file
    OBVIOUS
  <2>1. IsReleased(b, bufs, bufs', b = c \/ Waits(b))
    BY <1>9
  <2>2. bufs[b].deleted = IF b = c \/ Waits(b) THEN 0 ELSE 1
    BY <1>8
  <2> QED BY <2>1, <2>2 DEF IsReleased
<1>11. streams' = held.streams
  <2>1. held.sctx.stack = << >>
    BY <1>4
  <2>2. scanctx_cleanup(held.streams, held.sctx) = [f \in DOMAIN held.streams |-> held.streams[f]]
    BY <2>1 DEF scanctx_cleanup
  <2> QED BY <1>1, <1>4, <2>2
<1>12. \A f \in 1..Len(streams) : streams'[f].closed = IF top = f THEN 0 ELSE 1
  <2> SUFFICES ASSUME NEW f \in 1..Len(streams) PROVE streams'[f].closed = IF top = f THEN 0 ELSE 1
    OBVIOUS
  <2>1. streams[f].closed = IF Included(sctx, f) \/ f = top THEN 0 ELSE 1
    BY <1>6 DEF StreamsNested
  <2>2. streams'[f].closed = IF Included(sctx, f) THEN streams[f].closed + 1 ELSE streams[f].closed
    BY <1>4, <1>11
  <2>3. Included(sctx, f) => f # top
    <3> SUFFICES ASSUME Included(sctx, f) PROVE f # top
      OBVIOUS
    <3>1. PICK i \in 1..Len(sctx.stack) : sctx.stack[i].stream = f
      BY DEF Included
    <3>2. top < f /\ top \in 0..Len(streams)
      BY <1>6, <3>1 DEF StreamsNested
    <3> HIDE DEF top
    <3> QED BY <1>5, <3>2
  <2> HIDE DEF top
  <2> QED BY <2>1, <2>2, <2>3
<1>13. /\ sctx' = [stack |-> << >>, string |-> EmptyString, filenames |-> sctx.filenames,
                   room |-> sctx.room, top_filename |-> sctx.top_filename]
  <2> DEFINE h == held.sctx
             x == [h EXCEPT !.string = EmptyString]
  <2>1. sctx' = [x EXCEPT !.stack = << >>]
    BY <1>1 DEF strbuf_release
  <2>2. x = [stack |-> << >>, string |-> EmptyString, filenames |-> sctx.filenames,
             room |-> sctx.room, top_filename |-> sctx.top_filename]
    BY <1>4
  <2> HIDE DEF x
  <2> QED BY <2>1, <2>2
<1>14. /\ sctx'.stack = << >> /\ sctx'.string = EmptyString /\ sctx'.filenames = sctx.filenames
       /\ sctx'.room = sctx.room /\ sctx'.top_filename = sctx.top_filename
  BY <1>13
<1>15. ScanTypeOK'
  <2>1. ContextType(sctx')
    <3>1. sctx.filenames \in Seq(Text) /\ sctx.room \in Nat
      BY <1>5 DEF ContextType
    <3>2. << >> \in Seq([file : Text, buffer : Nat, stream : Nat])
      OBVIOUS
    <3> QED BY <1>13, <1>14, <3>1, <3>2, EmptyStringFacts DEF ContextType
  <2>2. ContextType(sctx)'
    BY <2>1 DEF ContextType
  <2>3. input' \in Inputs /\ spc' \in Places /\ streams' \in Seq(Streams)
    BY <1>1, <1>4, <1>5, <1>11 DEF Places
  <2> QED BY <1>1, <1>5, <1>9, <2>2, <2>3 DEF ScanTypeOK
<1>16. Placed'
  <2>1. ASSUME NEW b \in 1..Len(bufs) PROVE Fits(bufs'[b])
    <3>1. Fits(bufs[b])
      BY DEF ScanInv, Placed
    <3> QED BY <1>9, <3>1 DEF IsReleased, Fits
  <2>2. yyg'.current \in 1..Len(bufs')
    BY <1>1, <1>5, <1>9
  <2>3. yyg'.yy_c_buf_p <= Len(bufs'[yyg'.current].ch)
    <3>1. yyg.yy_c_buf_p <= Len(bufs[c].ch)
      BY DEF ScanInv, Placed, Current
    <3>2. bufs'[c].ch = bufs[c].ch
      BY <1>5, <1>9 DEF IsReleased
    <3> QED BY <1>1, <3>1, <3>2
  <2> QED BY <1>9, <2>1, <2>2, <2>3 DEF Placed, Current, Fits
<1>17. StringFits(sctx)' /\ NamesFit(sctx)'
  BY <1>14, EmptyStringFacts DEF StringFits, NamesFit, ScanInv
<1>18. depth' <= MAX_INCLUDE_DEPTH
  <2>1. MAX_INCLUDE_DEPTH \in Nat
    BY ScannerAssumption
  <2>2. Len(sctx'.stack) = 0
    BY <1>14
  <2> QED BY <2>1, <2>2 DEF depth
<1>19. error'.file \in Range(sctx.filenames) \cup {<< >>}
  <2>1. CASE error' = error
    BY <2>1, GoingFacts
  <2>2. CASE error' # error
    <3>1. error'.file = scanctx_current_filename(sctx)
      BY <1>2, <2>2
    <3> QED BY <3>1, GoingFacts
  <2> QED BY <2>1, <2>2
<1>20. error'.file \in Range(sctx'.filenames) \cup {<< >>}
  BY <1>14, <1>19
<1>21. ErrorNamed'
  BY <1>20 DEF ErrorNamed, Range
<1>22. StringsBeginEmpty'
  BY <1>14 DEF StringsBeginEmpty, EmptyString
<1>23. EverythingReleased'
  <2>1. DOMAIN bufs' = 1..Len(bufs) /\ DOMAIN streams' = 1..Len(streams)
    BY <1>4, <1>9, <1>11
  <2>2. bufs'[1].yy_input_file = top
    BY <1>5, <1>10
  <2> HIDE DEF top
  <2> QED BY <1>10, <1>12, <1>20, <2>1, <2>2 DEF EverythingReleased, Range
<1>24. Nested'
  BY <1>1 DEF Nested, Going
<1>25. ScanInv'
  BY <1>15, <1>16, <1>17, <1>18, <1>21, <1>22, <1>23, <1>24 DEF ScanInv
<1> QED BY <1>9, <1>25 DEF IsReleased

-----------------------------------------------------------------------------
(* The invariant holds. *)

\* The buffer of a string, with its text.
LEMMA StringBuffer ==
    ASSUME NEW text \in Seq(Char)
    PROVE  LET nb == [yy_scan_bytes(text) EXCEPT !.text = text]
           IN  /\ nb \in Buffers /\ Fits(nb) /\ nb.ch = text /\ nb.yy_buf_pos = 0 /\ nb.deleted = 0
               /\ nb.yy_input_file = NoStream /\ nb.text = text /\ nb.yy_bs_lineno = 1 /\ ~ nb.yy_fill_buffer
<1> DEFINE b == yy_buffer_state(Len(text))
           x1 == [b EXCEPT !.ch = text]
           x2 == [x1 EXCEPT !.text = text]
           nb == [yy_scan_bytes(text) EXCEPT !.text = text]
           Begun(x) == /\ x \in Buffers /\ x.yy_buf_pos = 0 /\ x.yy_buf_size = Len(text) /\ x.yy_bs_lineno = 1
                       /\ x.deleted = 0 /\ x.yy_input_file = NoStream /\ ~ x.yy_fill_buffer
<1>1. nb = x2
  BY DEF yy_scan_bytes, yy_scan_buffer
<1>2. Begun(b)
  <2>1. Len(text) \in Nat /\ << >> \in Seq(Char)
    OBVIOUS
  <2> QED BY <2>1 DEF yy_buffer_state, Buffers, NoStream
<1> HIDE DEF b
<1>3. Begun(x1) /\ x1.ch = text
  BY <1>2 DEF Buffers
<1>4. Begun(x2) /\ x2.ch = text /\ x2.text = text
  <2> HIDE DEF x1
  <2> QED BY <1>3 DEF Buffers
<1>5. Len(text) \in Nat
  OBVIOUS
<1> HIDE DEF x2, nb
<1>6. Fits(nb)
  BY <1>1, <1>4, <1>5 DEF Fits
<1> QED BY <1>1, <1>4, <1>6 DEF nb

LEMMA FirstContext ==
    ASSUME NEW top \in {<< >>, TopName}
    PROVE  LET s == scanctx_init(top)
           IN  /\ ContextType(s) /\ NamesFit(s) /\ NamesKept(s) /\ s.stack = << >> /\ s.string = EmptyString
<1> DEFINE s == [stack |-> << >>, string |-> EmptyString, filenames |-> << >>, room |-> 0, top_filename |-> top]
<1>1. CHUNK_SIZE \in Nat \ {0} /\ 0 % CHUNK_SIZE = 0
  BY ScannerAssumption
<1>2. ContextType(s)
  <2>1. << >> \in Seq([file : Text, buffer : Nat, stream : Nat]) /\ << >> \in Seq(Text)
    OBVIOUS
  <2> QED BY <2>1, EmptyStringFacts DEF ContextType
<1>3. NamesFit(s)
  BY <1>1 DEF NamesFit
<1>4. CASE top = << >>
  <2>1. scanctx_init(top) = s
    BY <1>4 DEF scanctx_init
  <2>2. NamesKept(s)
    BY <1>4 DEF NamesKept
  <2> QED BY <1>2, <1>3, <2>1, <2>2
<1>5. CASE top # << >>
  <2> DEFINE r == scanctx_add_filename(s, top)
  <2>1. scanctx_init(top) = r
    BY <1>5 DEF scanctx_init
  <2>2. top \in Text
    BY TextFacts
  <2>3. s.stack = << >> /\ s.string = EmptyString /\ s.top_filename = top
    OBVIOUS
  <2> HIDE DEF s
  <2>4. /\ ContextType(r) /\ NamesFit(r)
        /\ r.stack = s.stack /\ r.string = s.string /\ r.top_filename = s.top_filename
        /\ top \in Range(r.filenames)
    BY <1>2, <1>3, <2>2, NameAdded
  <2> HIDE DEF r
  <2>5. NamesKept(r)
    BY <2>3, <2>4 DEF NamesKept
  <2> QED BY <2>1, <2>3, <2>4, <2>5
<1> QED BY <1>4, <1>5

LEMMA InitScanInv == ScannerInit => ScanInv
<1> SUFFICES ASSUME ScannerInit PROVE ScanInv
  OBVIOUS
<1>1. PICK kind \in Inputs : \E text \in Contents[kind], source \in kind.sources :
          LET file == source = "stream"
          IN  /\ input = kind
              /\ streams = IF file THEN <<StreamOf(text, FALSE)>> ELSE << >>
              /\ bufs = <<[(IF file THEN yy_create_buffer(1) ELSE yy_scan_bytes(text)) EXCEPT !.text = text]>>
              /\ yyg = yy_load_buffer_state(yy_init_globals, 1, bufs[1])
              /\ sctx = scanctx_init(IF file THEN TopName ELSE << >>)
              /\ spc = "match" /\ error = NoError
  BY Zenon DEF ScannerInit
<1>2. PICK text \in Contents[kind] : \E source \in kind.sources :
          LET file == source = "stream"
          IN  /\ input = kind
              /\ streams = IF file THEN <<StreamOf(text, FALSE)>> ELSE << >>
              /\ bufs = <<[(IF file THEN yy_create_buffer(1) ELSE yy_scan_bytes(text)) EXCEPT !.text = text]>>
              /\ yyg = yy_load_buffer_state(yy_init_globals, 1, bufs[1])
              /\ sctx = scanctx_init(IF file THEN TopName ELSE << >>)
              /\ spc = "match" /\ error = NoError
  BY <1>1, Zenon
<1>3. PICK source \in kind.sources :
          LET file == source = "stream"
          IN  /\ input = kind
              /\ streams = IF file THEN <<StreamOf(text, FALSE)>> ELSE << >>
              /\ bufs = <<[(IF file THEN yy_create_buffer(1) ELSE yy_scan_bytes(text)) EXCEPT !.text = text]>>
              /\ yyg = yy_load_buffer_state(yy_init_globals, 1, bufs[1])
              /\ sctx = scanctx_init(IF file THEN TopName ELSE << >>)
              /\ spc = "match" /\ error = NoError
  BY <1>2, Zenon
<1> DEFINE file == source = "stream"
           base == IF file THEN yy_create_buffer(1) ELSE yy_scan_bytes(text)
           nb == [base EXCEPT !.text = text]
           first == IF file THEN 1 ELSE NoStream
           top == IF file THEN TopName ELSE << >>
<1>4. /\ input = kind
      /\ streams = IF file THEN <<StreamOf(text, FALSE)>> ELSE << >>
      /\ bufs = <<nb>>
      /\ yyg = yy_load_buffer_state(yy_init_globals, 1, bufs[1])
      /\ sctx = scanctx_init(top)
      /\ spc = "match" /\ error = NoError
  BY <1>3, Zenon
<1>5. text \in Seq(Char)
  BY ContentsType
<1>6. /\ nb \in Buffers /\ Fits(nb) /\ nb.yy_buf_pos = 0 /\ nb.deleted = 0 /\ nb.yy_input_file = first
      /\ nb.yy_bs_lineno = 1 /\ nb.text = text
  <2>1. CASE file
    <3>1. base = yy_create_buffer(1) /\ first = 1
      BY <2>1
    <3> HIDE DEF base, first
    <3>2. 1 \in Nat /\ 1 # NoStream
      BY DEF NoStream
    <3> QED BY <1>5, <3>1, <3>2, NewBuffer
  <2>2. CASE ~ file
    <3>1. base = yy_scan_bytes(text) /\ first = NoStream
      BY <2>2
    <3> HIDE DEF base, first
    <3> QED BY <1>5, <3>1, StringBuffer
  <2> QED BY <2>1, <2>2
<1> HIDE DEF nb
<1>7. /\ bufs \in Seq(Buffers) /\ Len(bufs) = 1 /\ bufs[1] = nb
  BY <1>4, <1>6
<1>8. /\ streams \in Seq(Streams) /\ Len(streams) = (IF file THEN 1 ELSE 0)
      /\ \A f \in 1..Len(streams) : f = first /\ streams[f].closed = 0
  <2> DEFINE st == StreamOf(text, FALSE)
  <2>1. st \in Streams /\ st.closed = 0
    BY <1>5 DEF StreamOf, Streams
  <2> HIDE DEF st
  <2>2. CASE file
    <3>1. streams = <<st>> /\ first = 1
      BY <1>4, <2>2 DEF st
    <3> HIDE DEF first
    <3> QED BY <2>1, <2>2, <3>1
  <2>3. CASE ~ file
    <3>1. streams = << >>
      BY <1>4, <2>3
    <3> QED BY <2>3, <3>1
  <2> QED BY <2>2, <2>3
<1>9. first \in 0..Len(streams) /\ first \in Nat
  BY <1>8 DEF NoStream
<1> HIDE DEF first
<1>10. yyg = [current |-> 1, yy_c_buf_p |-> 0, yyin |-> first, yy_start |-> "INITIAL"]
  <2> DEFINE g == [current |-> NoBuffer, yy_c_buf_p |-> 0, yyin |-> NoStream, yy_start |-> "INITIAL"]
             x1 == [g EXCEPT !.current = 1]
             x2 == [x1 EXCEPT !.yy_c_buf_p = 0]
             x3 == [x2 EXCEPT !.yyin = first]
  <2>1. yyg = x3
    BY <1>4, <1>6, <1>7 DEF yy_load_buffer_state, yy_init_globals
  <2>2. x1 = [current |-> 1, yy_c_buf_p |-> 0, yyin |-> NoStream, yy_start |-> "INITIAL"]
    OBVIOUS
  <2>3. x2 = [current |-> 1, yy_c_buf_p |-> 0, yyin |-> NoStream, yy_start |-> "INITIAL"]
    <3> HIDE DEF x1
    <3> QED BY <2>2
  <2>4. x3 = [current |-> 1, yy_c_buf_p |-> 0, yyin |-> first, yy_start |-> "INITIAL"]
    <3> HIDE DEF x2
    <3> QED BY <2>3
  <2> QED BY <2>1, <2>4
<1>11. /\ ContextType(sctx) /\ NamesFit(sctx) /\ NamesKept(sctx) /\ sctx.stack = << >> /\ sctx.string = EmptyString
  <2>1. top \in {<< >>, TopName}
    OBVIOUS
  <2> HIDE DEF top
  <2> QED BY <1>4, <2>1, FirstContext
<1>12. Len(sctx.stack) = 0
  BY <1>11
<1>13. ScanTypeOK
  <2>1. yyg \in [current : Nat, yy_c_buf_p : Nat, yyin : Nat, yy_start : Conditions]
    BY <1>9, <1>10 DEF Conditions
  <2> QED BY <1>4, <1>7, <1>8, <1>11, <2>1 DEF ScanTypeOK, Places
<1>14. Placed
  <2>1. \A b \in 1..Len(bufs) : bufs[b] = nb
    BY <1>7
  <2>2. Len(Current.ch) \in Nat /\ yyg.current = 1 /\ yyg.yy_c_buf_p = 0
    BY <1>6, <1>7, <1>10 DEF Current, Buffers
  <2> QED BY <1>6, <1>7, <2>1, <2>2 DEF Placed
<1>15. StringFits(sctx)
  BY <1>11, EmptyStringFacts DEF StringFits
<1>16. depth <= MAX_INCLUDE_DEPTH
  BY <1>12, ScannerAssumption DEF depth
<1>17. BuffersNested(bufs, sctx, yyg)
  <2>1. yyg.current = 1 /\ yyg.yyin = first
    BY <1>10
  <2>2. \A i \in 1..(Len(sctx.stack) + 1) : i = 1
    BY <1>12
  <2>3. Level(sctx, yyg, 1) = 1
    BY <1>12, <2>1 DEF Level
  <2>4. 1 \in 1..(Len(sctx.stack) + 1)
    BY <1>12
  <2>5. InUse(sctx, yyg, 1)
    BY <2>3, <2>4 DEF InUse
  <2>6. \A b \in 1..Len(bufs) : b = 1
    BY <1>7
  <2>7. \A b \in 1..Len(bufs) : bufs[b].deleted = IF InUse(sctx, yyg, b) THEN 0 ELSE 1
    BY <1>6, <1>7, <2>5, <2>6
  <2>8. \A i \in 1..Len(sctx.stack) : FALSE
    BY <1>12
  <2>9. 1 \in 1..Len(bufs)
    BY <1>7
  <2>10. \A i \in 1..(Len(sctx.stack) + 1) : Level(sctx, yyg, i) \in 1..Len(bufs)
    BY <2>2, <2>3, <2>9
  <2>11. \A i, j \in 1..(Len(sctx.stack) + 1) : i < j => Level(sctx, yyg, i) < Level(sctx, yyg, j)
    BY <2>2
  <2>12. yyg.yyin = bufs[yyg.current].yy_input_file
    BY <1>6, <1>7, <2>1
  <2> QED BY <2>3, <2>7, <2>8, <2>10, <2>11, <2>12 DEF BuffersNested
<1>18. StreamsNested(streams, sctx, bufs[1].yy_input_file)
  <2>1. bufs[1].yy_input_file = first
    BY <1>6, <1>7
  <2>2. \A i \in 1..Len(sctx.stack) : FALSE
    BY <1>12
  <2> QED BY <1>8, <1>9, <2>1, <2>2 DEF StreamsNested
<1>19. ErrorNamed
  BY <1>4 DEF ErrorNamed, NoError
<1>20. StringsBeginEmpty /\ EverythingReleased
  BY <1>4, <1>11 DEF StringsBeginEmpty, EverythingReleased
<1> QED BY <1>11, <1>13, <1>14, <1>15, <1>16, <1>17, <1>18, <1>19, <1>20 DEF ScanInv, Nested

LEMMA NextScanInv == ScanInv /\ [ScannerNext]_scannerVars => ScanInv'
<1> SUFFICES ASSUME ScanInv, [ScannerNext]_scannerVars PROVE ScanInv'
  OBVIOUS
<1>1. CASE ScannerNext
  <2>1. UNCHANGED input
    BY <1>1 DEF ScannerNext
  <2>2. CASE MatchRule
    BY <2>1, <2>2, MatchRuleKeeps
  <2>3. CASE IncludeFails
    BY <2>1, <2>3, IncludeFailsKeeps
  <2>4. CASE IncludeOpens
    BY <2>1, <2>4, IncludeOpensKeeps
  <2>5. CASE EndOfString
    BY <2>1, <2>5, EndOfStringKeeps
  <2>6. CASE Refill
    BY <2>1, <2>6, RefillKeeps
  <2>7. CASE ReadsNothing
    BY <2>1, <2>7, ReadsNothingKeeps
  <2>8. CASE ReadFails
    BY <2>1, <2>8, ReadFailsKeeps
  <2>9. CASE EndOfInclude
    BY <2>1, <2>9, EndOfIncludeKeeps
  <2>10. CASE EndOfScan
    <3>1. spc = "eof" /\ depth = 0
      BY <2>10 DEF EndOfScan
    <3>2. PICK failed \in BOOLEAN : ScannerDestroyed(failed)
      BY <2>10, Zenon DEF EndOfScan
    <3>3. Going
      BY <3>1 DEF Going
    <3> QED BY <2>1, <3>1, <3>2, <3>3, DestroyedKeeps
  <2>11. CASE ParserFails
    <3>1. spc = "token" /\ ScannerDestroyed(TRUE)
      BY <2>11 DEF ParserFails
    <3>2. Going
      BY <3>1 DEF Going
    <3> QED BY <2>1, <3>1, <3>2, DestroyedKeeps
  <2> QED BY <1>1, <2>2, <2>3, <2>4, <2>5, <2>6, <2>7, <2>8, <2>9, <2>10, <2>11, Zenon DEF ScannerNext
<1>2. CASE UNCHANGED scannerVars
  <2>1. /\ input' = input /\ streams' = streams /\ bufs' = bufs /\ yyg' = yyg /\ sctx' = sctx /\ spc' = spc
        /\ error' = error
    BY <1>2 DEF scannerVars
  <2>2. CASE Going
    <3>1. spc' \in Places \ {"over"}
      BY <2>1, <2>2, GoingFacts DEF ScanTypeOK, Going
    <3> QED BY <2>1, <2>2, <3>1, PlaceChanges
  <2>3. CASE ~ Going
    BY <2>1, <2>3, Zenon DEF ScanInv, ScanTypeOK, Placed, Nested, ErrorNamed, StringsBeginEmpty, EverythingReleased,
                             depth, Current, Fits, Going, StringFits, NamesFit, ContextType, BuffersNested, StreamsNested, NamesKept
  <2> QED BY <2>2, <2>3
<1> QED BY <1>1, <1>2

-----------------------------------------------------------------------------
(* What follows. *)

\* The inductive invariant.
THEOREM ScannerInvariant == ScannerSpec => []ScanInv
<1>1. ScannerInit => ScanInv
  BY InitScanInv
<1>2. ScanInv /\ [ScannerNext]_scannerVars => ScanInv'
  BY NextScanInv
<1> QED BY <1>1, <1>2, PTL DEF ScannerSpec

\* Whatever is read, however it is cut by the reads and whatever the sizes are,
\* no buffer, string, list of names or include stack is written behind its end.
THEOREM WithinBoundsHolds == ScannerSpec => []WithinBounds
<1>1. ScanInv => WithinBounds
  <2> SUFFICES ASSUME ScanInv PROVE WithinBounds
    OBVIOUS
  <2>1. \A b \in DOMAIN bufs : Len(bufs[b].ch) <= bufs[b].yy_buf_size
    <3>1. DOMAIN bufs = 1..Len(bufs)
      BY GoingFacts
    <3> QED BY <3>1 DEF ScanInv, Placed, Fits
  <2> QED BY <2>1 DEF WithinBounds, ScanInv, StringFits, NamesFit
<1> QED BY <1>1, ScannerInvariant, PTL

\* Buffers, files and names of the include stack belong together, none in use
\* has been deleted or closed.
THEOREM IncludeStackSoundHolds == ScannerSpec => []IncludeStackSound
<1>1. ScanInv => IncludeStackSound
  <2> SUFFICES ASSUME ScanInv, Going PROVE IncludeStackSound
    BY DEF IncludeStackSound, Going
  <2> DEFINE L(i) == IF i > depth THEN yyg.current ELSE sctx.stack[i].buffer
             I == {L(i) : i \in 1..(depth + 1)}
  <2>1. BuffersNested(bufs, sctx, yyg) /\ StreamsNested(streams, sctx, bufs[1].yy_input_file) /\ NamesKept(sctx)
    BY DEF ScanInv, Nested
  <2>2. depth \in Nat /\ depth = Len(sctx.stack) /\ bufs \in Seq(Buffers) /\ Len(bufs) \in Nat
    BY GoingFacts DEF ContextType, depth
  <2>3. \A i : L(i) = Level(sctx, yyg, i)
    BY DEF Level, depth
  <2>4. /\ \A i \in 1..(depth + 1) : L(i) \in 1..Len(bufs)
        /\ \A i, j \in 1..(depth + 1) : i < j => L(i) < L(j)
        /\ \A b \in 1..Len(bufs) : bufs[b].deleted = IF InUse(sctx, yyg, b) THEN 0 ELSE 1
        /\ \A i \in 1..depth : bufs[L(i + 1)].yy_input_file = sctx.stack[i].stream
        /\ yyg.yyin = bufs[yyg.current].yy_input_file
    <3> HIDE DEF L
    <3> QED BY <2>1, <2>2, <2>3 DEF BuffersNested
  <2>5. Cardinality(I) = depth + 1
    <3> DEFINE D == 1..(depth + 1)
               f == [i \in D |-> L(i)]
    <3>1. IsFiniteSet(D) /\ Cardinality(D) = depth + 1
      <4>1. 1 \in Int /\ depth + 1 \in Int /\ ~ (1 > depth + 1) /\ (depth + 1) - 1 + 1 = depth + 1
        BY <2>2
      <4> HIDE DEF depth
      <4> QED BY <4>1, FS_Interval
    <3> HIDE DEF L
    <3>2. ASSUME NEW i \in D, NEW j \in D, f[i] = f[j] PROVE i = j
      <4>1. L(i) = L(j) /\ L(i) \in Nat /\ L(j) \in Nat
        BY <2>2, <2>4, <3>2
      <4>2. ~ (L(i) < L(j)) /\ ~ (L(j) < L(i))
        BY <4>1
      <4>3. ~ (i < j) /\ ~ (j < i)
        BY <2>4, <4>2
      <4> QED BY <2>2, <4>3
    <3>3. f \in [D -> I]
      OBVIOUS
    <3>4. \A t \in I : \E s \in D : f[s] = t
      OBVIOUS
    <3>5. DOMAIN f = D
      OBVIOUS
    <3> HIDE DEF f, D, I
    <3>6. f \in Injection(D, I)
      BY <3>2, <3>3, <3>5 DEF Injection, IsInjective
    <3>7. f \in Surjection(D, I)
      BY <3>3, <3>4 DEF Surjection
    <3>8. ExistsBijection(D, I)
      BY <3>6, <3>7 DEF ExistsBijection, Bijection
    <3>9. Cardinality(I) = Cardinality(D)
      BY <3>1, <3>8, FS_Bijection
    <3> QED BY <3>1, <3>9
  <2>6. ASSUME NEW b \in I PROVE bufs[b].deleted = 0
    <3>1. PICK i \in 1..(depth + 1) : L(i) = b
      OBVIOUS
    <3> HIDE DEF L, I
    <3>2. b \in 1..Len(bufs)
      BY <2>4, <3>1
    <3>3. InUse(sctx, yyg, b)
      BY <2>2, <2>3, <3>1 DEF InUse
    <3> QED BY <2>4, <3>2, <3>3
  <2>7. ASSUME NEW i \in 1..depth
        PROVE  /\ bufs[L(i + 1)].yy_input_file = sctx.stack[i].stream
               /\ streams[sctx.stack[i].stream].closed = 0
               /\ sctx.stack[i].file \in Range(sctx.filenames)
    <3> HIDE DEF L
    <3>1. i \in 1..Len(sctx.stack)
      BY <2>2
    <3>2. sctx.stack[i].stream \in 1..Len(streams) /\ Included(sctx, sctx.stack[i].stream)
      BY <2>1, <3>1 DEF StreamsNested, Included
    <3>3. streams[sctx.stack[i].stream].closed = 0
      BY <2>1, <3>2 DEF StreamsNested
    <3>4. sctx.stack[i].file \in Range(sctx.filenames)
      BY <2>1, <3>1 DEF NamesKept
    <3> QED BY <2>4, <3>3, <3>4
  <2>8. yyg.yyin = Current.yy_input_file
    BY <2>4 DEF Current
  <2> HIDE DEF I
  <2>9. IncludeStackSound = (Going =>
            /\ Cardinality(I) = depth + 1
            /\ \A b \in I : bufs[b].deleted = 0
            /\ \A i \in 1..depth : /\ bufs[L(i + 1)].yy_input_file = sctx.stack[i].stream
                                   /\ streams[sctx.stack[i].stream].closed = 0
                                   /\ sctx.stack[i].file \in Range(sctx.filenames)
            /\ yyg.yyin = Current.yy_input_file)
    BY DEF IncludeStackSound, I, Going
  <2> HIDE DEF L
  <2> QED BY <2>5, <2>6, <2>7, <2>8, <2>9
<1> QED BY <1>1, ScannerInvariant, PTL

\* However the read ends, every buffer is deleted once and every included file
\* closed once.
THEOREM EverythingReleasedHolds == ScannerSpec => []EverythingReleased
<1>1. ScanInv => EverythingReleased
  BY DEF ScanInv
<1> QED BY <1>1, ScannerInvariant, PTL

\* Nothing of an earlier string is in the string buffer when one begins.
THEOREM StringsBeginEmptyHolds == ScannerSpec => []StringsBeginEmpty
<1>1. ScanInv => StringsBeginEmpty
  BY DEF ScanInv
<1> QED BY <1>1, ScannerInvariant, PTL

-----------------------------------------------------------------------------
(* What the matches took of a buffer's text. *)

Takes(ms, n, b, f) ==
    f = [k \in 0..n |-> IF k = 0 THEN 0 ELSE IF ms[k].buffer = b THEN f[k - 1] + Consumed(ms[k]) ELSE f[k - 1]]

LEMMA TakesEach ==
    ASSUME NEW ms, NEW b, NEW n \in Nat, NEW f, Takes(ms, n, b, f)
    PROVE  /\ f[0] = 0
           /\ \A k \in 1..n : f[k] = IF ms[k].buffer = b THEN f[k - 1] + Consumed(ms[k]) ELSE f[k - 1]
<1> DEFINE B(k) == IF k = 0 THEN 0 ELSE IF ms[k].buffer = b THEN f[k - 1] + Consumed(ms[k]) ELSE f[k - 1]
<1>1. f = [k \in 0..n |-> B(k)]
  BY DEF Takes
<1>2. \A k \in 0..n : f[k] = B(k)
  <2> HIDE DEF B
  <2> QED BY <1>1, Zenon
<1>3. ASSUME NEW k \in 1..n PROVE k \in 0..n /\ k # 0
  OBVIOUS
<1>4. 0 \in 0..n
  OBVIOUS
<1>5. f[0] = 0
  BY <1>2, <1>4, Zenon
<1> QED BY <1>2, <1>3, <1>5, Zenon

LEMMA TakesExists ==
    ASSUME NEW ms, NEW b, NEW n \in Nat
    PROVE  \E f : Takes(ms, n, b, f)
<1> DEFINE T == {k \in Nat : \E f : Takes(ms, k, b, f)}
<1>1. 0 \in T
  <2> DEFINE f == [k \in 0..0 |-> 0]
  <2>1. f = [k \in 0..0 |-> IF k = 0 THEN 0
                            ELSE IF ms[k].buffer = b THEN f[k - 1] + Consumed(ms[k]) ELSE f[k - 1]]
    OBVIOUS
  <2> HIDE DEF f
  <2> QED BY <2>1 DEF Takes
<1>2. ASSUME NEW k \in Nat, k \in T PROVE k + 1 \in T
  <2>1. PICK f : Takes(ms, k, b, f)
    BY <1>2
  <2> DEFINE S(x, i) == IF ms[i].buffer = b THEN x + Consumed(ms[i]) ELSE x
  <2>0. f[0] = 0 /\ \A j \in 1..k : f[j] = S(f[j - 1], j)
    BY <2>1, TakesEach
  <2> HIDE DEF S
  <2> DEFINE g == [j \in 0..(k + 1) |-> IF j <= k THEN f[j] ELSE S(f[k], k + 1)]
  <2>3. ASSUME NEW j \in 0..(k + 1)
        PROVE  g[j] = IF j = 0 THEN 0 ELSE S(g[j - 1], j)
    <3>1. CASE j = k + 1
      <4>1. g[j] = S(f[k], k + 1) /\ g[k] = f[k] /\ j - 1 = k /\ j # 0
        BY <3>1
      <4> HIDE DEF g
      <4> QED BY <3>1, <4>1
    <3>2. CASE j = 0
      BY <2>0, <3>2
    <3>3. CASE j \in 1..k
      <4>1. f[j] = S(f[j - 1], j)
        BY <2>0, <3>3, Zenon
      <4>2. g[j] = f[j] /\ g[j - 1] = f[j - 1] /\ j # 0
        BY <3>3
      <4> HIDE DEF g
      <4> QED BY <4>1, <4>2
    <3> QED BY <3>1, <3>2, <3>3
  <2>4. g = [j \in 0..(k + 1) |-> g[j]]
    OBVIOUS
  <2> HIDE DEF g
  <2>5. g = [j \in 0..(k + 1) |-> IF j = 0 THEN 0 ELSE S(g[j - 1], j)]
    BY <2>3, <2>4, Zenon
  <2>6. Takes(ms, k + 1, b, g)
    BY <2>5 DEF Takes, S
  <2> QED BY <2>6
<1> HIDE DEF T
<1>3. Nat \subseteq T
  BY <1>1, <1>2, SetInduction
<1> QED BY <1>3 DEF T

\* The function that Taken is defined with.
TakenBy(ms, b, f) ==
    /\ Taken(ms, b) = f[Len(ms)]
    /\ f[0] = 0
    /\ \A k \in 1..Len(ms) : f[k] = IF ms[k].buffer = b THEN f[k - 1] + Consumed(ms[k]) ELSE f[k - 1]

LEMMA TakenFunction ==
    ASSUME NEW ms, Len(ms) \in Nat, NEW b
    PROVE  \E f : TakenBy(ms, b, f)
<1> DEFINE n == Len(ms)
           f == CHOOSE g : Takes(ms, n, b, g)
<1>1. Takes(ms, n, b, f)
  BY TakesExists
<1>2. Taken(ms, b) = f[n]
  BY DEF Taken, Takes
<1> HIDE DEF f
<1>3. /\ f[0] = 0
      /\ \A k \in 1..n : f[k] = IF ms[k].buffer = b THEN f[k - 1] + Consumed(ms[k]) ELSE f[k - 1]
  BY <1>1, TakesEach
<1> QED BY <1>2, <1>3 DEF TakenBy

\* A match more.
LEMMA TakenAppend ==
    ASSUME NEW S, NEW ms \in Seq(S), NEW x \in S, NEW b
    PROVE  Taken(Append(ms, x), b) = IF x.buffer = b THEN Taken(ms, b) + Consumed(x) ELSE Taken(ms, b)
<1> DEFINE n == Len(ms)
           as == Append(ms, x)
<1>1. n \in Nat /\ Len(as) = n + 1 /\ as[n + 1] = x /\ \A k \in 1..n : as[k] = ms[k]
  OBVIOUS
<1>20. PICK f : TakenBy(ms, b, f)
  BY <1>1, TakenFunction
<1>2. /\ Taken(ms, b) = f[n]
      /\ f[0] = 0
      /\ \A k \in 1..n : f[k] = IF ms[k].buffer = b THEN f[k - 1] + Consumed(ms[k]) ELSE f[k - 1]
  BY <1>20 DEF TakenBy
<1> HIDE DEF as
<1>31. Len(as) \in Nat
  BY <1>1
<1>30. PICK g : TakenBy(as, b, g)
  BY <1>31, TakenFunction
<1>32. /\ Taken(as, b) = g[Len(as)]
       /\ g[0] = 0
       /\ \A k \in 1..Len(as) : g[k] = IF as[k].buffer = b THEN g[k - 1] + Consumed(as[k]) ELSE g[k - 1]
  BY <1>30 DEF TakenBy
<1> DEFINE G(k) == IF as[k].buffer = b THEN g[k - 1] + Consumed(as[k]) ELSE g[k - 1]
<1>3. /\ Taken(as, b) = g[n + 1]
      /\ g[0] = 0
      /\ \A k \in 1..(n + 1) : g[k] = G(k)
  <2> HIDE DEF n
  <2>1. \A k \in 1..Len(as) : g[k] = G(k)
    BY <1>32, Zenon
  <2> HIDE DEF G
  <2> QED BY <1>1, <1>32, <2>1
<1> HIDE DEF n
<1> DEFINE T == {k \in Nat : k <= n => g[k] = f[k]}
<1>4. 0 \in T
  BY <1>2, <1>3
<1>5. ASSUME NEW k \in Nat, k \in T PROVE k + 1 \in T
  <2> SUFFICES ASSUME k + 1 <= n PROVE g[k + 1] = f[k + 1]
    OBVIOUS
  <2>1. k + 1 \in 1..n /\ k + 1 \in 1..(n + 1) /\ (k + 1) - 1 = k /\ k <= n
    BY <1>1
  <2>2. g[k] = f[k]
    BY <1>5, <2>1
  <2>3. as[k + 1] = ms[k + 1]
    BY <1>1, <2>1
  <2>4. f[k + 1] = IF ms[k + 1].buffer = b THEN f[k] + Consumed(ms[k + 1]) ELSE f[k]
    BY <1>2, <2>1
  <2>5. g[k + 1] = IF as[k + 1].buffer = b THEN g[k] + Consumed(as[k + 1]) ELSE g[k]
    BY <1>3, <2>1
  <2> QED BY <2>2, <2>3, <2>4, <2>5
<1> HIDE DEF T
<1>6. n \in T
  BY <1>1, <1>4, <1>5, SetInduction
<1>7. g[n] = f[n]
  BY <1>1, <1>6 DEF T
<1>8. n + 1 \in 1..(n + 1) /\ (n + 1) - 1 = n
  BY <1>1
<1>9. g[n + 1] = IF as[n + 1].buffer = b THEN g[n] + Consumed(as[n + 1]) ELSE g[n]
  BY <1>3, <1>8
<1> QED BY <1>1, <1>2, <1>3, <1>7, <1>9 DEF as

\* Nothing was taken of a buffer without a match.
LEMMA TakenNone ==
    ASSUME NEW ms, Len(ms) \in Nat, NEW b, \A k \in 1..Len(ms) : ms[k].buffer # b
    PROVE  Taken(ms, b) = 0
<1> DEFINE n == Len(ms)
<1>0. n \in Nat
  OBVIOUS
<1>10. PICK f : TakenBy(ms, b, f)
  BY TakenFunction
<1>1. /\ Taken(ms, b) = f[n]
      /\ f[0] = 0
      /\ \A k \in 1..n : f[k] = IF ms[k].buffer = b THEN f[k - 1] + Consumed(ms[k]) ELSE f[k - 1]
  BY <1>10 DEF TakenBy
<1> HIDE DEF n
<1> DEFINE T == {k \in Nat : k <= n => f[k] = 0}
<1>2. 0 \in T
  BY <1>1
<1>3. ASSUME NEW k \in Nat, k \in T PROVE k + 1 \in T
  <2> SUFFICES ASSUME k + 1 <= n PROVE f[k + 1] = 0
    OBVIOUS
  <2>1. k + 1 \in 1..n /\ (k + 1) - 1 = k /\ k <= n
    BY <1>0
  <2>2. ms[k + 1].buffer # b
    BY <2>1 DEF n
  <2> QED BY <1>1, <1>3, <2>1, <2>2
<1> HIDE DEF T
<1>4. n \in T
  BY <1>0, <1>2, <1>3, SetInduction
<1> QED BY <1>0, <1>1, <1>4 DEF T

-----------------------------------------------------------------------------
(* The lines of a text. *)

\* Two texts, one behind the other; a text without its beginning, and only that.
LEMMA ConcatFacts ==
    ASSUME NEW S, NEW u \in Seq(S), NEW v \in Seq(S)
    PROVE  /\ u \o v \in Seq(S) /\ Len(u \o v) = Len(u) + Len(v)
           /\ \A i \in 1..Len(u) : (u \o v)[i] = u[i]
           /\ \A i \in (Len(u) + 1)..(Len(u) + Len(v)) : (u \o v)[i] = v[i - Len(u)]
OBVIOUS

LEMMA TailFacts ==
    ASSUME NEW S, NEW u \in Seq(S), NEW k \in 0..Len(u)
    PROVE  /\ SubSeq(u, k + 1, Len(u)) \in Seq(S) /\ Len(SubSeq(u, k + 1, Len(u))) = Len(u) - k
           /\ \A i \in 1..(Len(u) - k) : SubSeq(u, k + 1, Len(u))[i] = u[k + i]
OBVIOUS

LEMMA PrefixFacts ==
    ASSUME NEW S, NEW u \in Seq(S), NEW k \in 0..Len(u)
    PROVE  /\ SubSeq(u, 1, k) \in Seq(S) /\ Len(SubSeq(u, 1, k)) = k
           /\ \A i \in 1..k : SubSeq(u, 1, k)[i] = u[i]
OBVIOUS

Count(u, x) == Cardinality({i \in 1..Len(u) : u[i] = x})

\* The places of x in u and v, one behind the other.
LEMMA CountConcat ==
    ASSUME NEW S, NEW u \in Seq(S), NEW v \in Seq(S), NEW x
    PROVE  Count(u \o v, x) = Count(u, x) + Count(v, x)
<1> DEFINE n == Len(u)
           k == Len(v)
           A == {i \in 1..n : u[i] = x}
           B == {i \in 1..k : v[i] = x}
           B2 == {i \in (n + 1)..(n + k) : v[i - n] = x}
           C == {i \in 1..Len(u \o v) : (u \o v)[i] = x}
<1>1. /\ n \in Nat /\ k \in Nat /\ Len(u \o v) = n + k
      /\ \A i \in 1..n : (u \o v)[i] = u[i]
      /\ \A i \in (n + 1)..(n + k) : (u \o v)[i] = v[i - n]
  OBVIOUS
<1>2. C = A \cup B2 /\ A \cap B2 = {}
  <2> DEFINE w == u \o v
  <2> HIDE DEF w, n, k
  <2> QED BY <1>1 DEF w
<1>3. IsFiniteSet(A) /\ IsFiniteSet(B)
  <2>1. IsFiniteSet(1..n) /\ IsFiniteSet(1..k)
    BY <1>1, FS_Interval
  <2> QED BY <2>1, FS_Subset
<1>4. IsFiniteSet(B2) /\ Cardinality(B2) = Cardinality(B)
  <2> DEFINE f == [i \in B |-> i + n]
  <2>1. f \in Bijection(B, B2)
    <3> HIDE DEF n, k
    <3>1. f \in Injection(B, B2)
      <4>1. \A i \in B : i + n \in B2
        BY <1>1
      <4>2. \A i, j \in B : i + n = j + n => i = j
        BY <1>1
      <4> HIDE DEF B, B2
      <4>3. f \in [B -> B2]
        BY <4>1
      <4>4. \A i, j \in B : f[i] = f[j] => i = j
        BY <4>2
      <4> HIDE DEF f
      <4> QED BY <4>3, <4>4 DEF Injection, IsInjective
    <3>2. \A j \in B2 : \E i \in B : f[i] = j
      <4> SUFFICES ASSUME NEW j \in B2 PROVE \E i \in B : f[i] = j
        OBVIOUS
      <4>1. j - n \in B /\ (j - n) + n = j
        BY <1>1
      <4> QED BY <4>1
    <3> HIDE DEF f, B, B2
    <3> QED BY <3>1, <3>2 DEF Bijection, Injection, Surjection
  <2>2. ExistsBijection(B, B2)
    BY <2>1 DEF ExistsBijection
  <2> HIDE DEF B, B2
  <2> QED BY <1>3, <2>2, FS_Bijection
<1> HIDE DEF A, B, B2, C
<1>5. Cardinality(A \cup B2) = Cardinality(A) + Cardinality(B2) - Cardinality(A \cap B2)
  BY <1>3, <1>4, FS_Union
<1>6. Cardinality(A) \in Nat /\ Cardinality(B) \in Nat
  BY <1>3, FS_CardinalityType
<1>7. Cardinality({}) = 0
  BY FS_EmptySet
<1>8. Cardinality(C) = Cardinality(A) + Cardinality(B)
  <2>1. Cardinality(C) = Cardinality(A) + Cardinality(B) - 0
    BY <1>2, <1>4, <1>5, <1>7, Zenon
  <2> QED BY <1>6, <2>1
<1> QED BY <1>8 DEF A, B, C, n, k, Count

LEMMA NewlinesConcat ==
    ASSUME NEW S, NEW u \in Seq(S), NEW v \in Seq(S)
    PROVE  Newlines(u \o v) = Newlines(u) + Newlines(v)
<1>1. \A u2 : Newlines(u2) = Count(u2, "\n")
  BY Zenon DEF Newlines, Count
<1> QED BY <1>1, CountConcat, Zenon

LEMMA NoNewlines ==
    ASSUME NEW text, Len(text) \in Nat, NoNewline(text, Len(text))
    PROVE  Newlines(text) = 0
<1>1. {i \in 1..Len(text) : text[i] = "\n"} = {}
  BY Zenon DEF NoNewline
<1> QED BY <1>1, FS_EmptySet DEF Newlines

\* t is a text of which k characters were taken, and what is ahead is the rest
\* of ch, then r.  And when e more of ch are taken.
Reads(S, t, k, ch, p, r) ==
    /\ t \in Seq(S) /\ ch \in Seq(S) /\ r \in Seq(S) /\ k \in 0..Len(t) /\ p \in 0..Len(ch)
    /\ SubSeq(t, k + 1, Len(t)) = SubSeq(ch, p + 1, Len(ch)) \o r
ReadsOn(t, k, ch, p, r, e) ==
    /\ k + e \in 0..Len(t)
    /\ SubSeq(t, 1, k + e) = SubSeq(t, 1, k) \o SubSeq(SubSeq(ch, p + 1, Len(ch)), 1, e)
    /\ SubSeq(t, k + e + 1, Len(t)) = SubSeq(ch, p + e + 1, Len(ch)) \o r

LEMMA Onward ==
    ASSUME NEW S, NEW t, NEW ch, NEW r, NEW k, NEW p, Reads(S, t, k, ch, p, r), NEW e \in 0..(Len(ch) - p)
    PROVE  ReadsOn(t, k, ch, p, r, e)
<1> USE DEF Reads
<1> DEFINE a == SubSeq(ch, p + 1, Len(ch))
           w == SubSeq(t, k + 1, Len(t))
           n == Len(t)
           c == Len(ch)
           q == Len(r)
<1>0. n \in Nat /\ c \in Nat /\ q \in Nat /\ k \in Nat /\ p \in Nat /\ e \in Nat /\ k <= n /\ p <= c /\ e <= c - p
  OBVIOUS
<1>1. a \in Seq(S) /\ Len(a) = c - p /\ \A i \in 1..(c - p) : a[i] = ch[p + i]
  BY <1>0
<1>2. w \in Seq(S) /\ Len(w) = n - k /\ \A i \in 1..(n - k) : w[i] = t[k + i]
  BY <1>0
<1>3. w = a \o r
  OBVIOUS
<1>4. /\ Len(w) = (c - p) + q
      /\ \A i \in 1..(c - p) : w[i] = a[i]
      /\ \A i \in ((c - p) + 1)..((c - p) + q) : w[i] = r[i - (c - p)]
  <2> HIDE DEF a, w
  <2> DEFINE d == a \o r
  <2>1. /\ Len(d) = Len(a) + Len(r)
        /\ \A i \in 1..Len(a) : d[i] = a[i]
        /\ \A i \in (Len(a) + 1)..(Len(a) + Len(r)) : d[i] = r[i - Len(a)]
    BY <1>1, ConcatFacts, Zenon
  <2> HIDE DEF d
  <2>2. w = d /\ Len(a) = c - p /\ Len(r) = q
    BY <1>1, <1>3 DEF d
  <2> HIDE DEF c, q
  <2> QED BY <2>1, <2>2, Zenon
<1> HIDE DEF a, w, n, c, q
<1>5. n - k = (c - p) + q
  BY <1>2, <1>4
<1>6. k + e \in 0..n
  BY <1>0, <1>5
<1>7. \A i \in 1..e : t[k + i] = a[i]
  <2> SUFFICES ASSUME NEW i \in 1..e PROVE t[k + i] = a[i]
    OBVIOUS
  <2>1. i \in 1..(c - p) /\ i \in 1..(n - k)
    BY <1>0, <1>5
  <2> QED BY <1>2, <1>4, <2>1
<1>8. SubSeq(t, 1, k + e) = SubSeq(t, 1, k) \o SubSeq(a, 1, e)
  <2> DEFINE x == SubSeq(t, 1, k + e)
             y == SubSeq(t, 1, k)
             z == SubSeq(a, 1, e)
             v == y \o z
  <2>1. x \in Seq(S) /\ Len(x) = k + e /\ \A i \in 1..(k + e) : x[i] = t[i]
    BY <1>0, <1>6 DEF n
  <2>2. y \in Seq(S) /\ Len(y) = k /\ \A i \in 1..k : y[i] = t[i]
    BY <1>0 DEF n
  <2>3. z \in Seq(S) /\ Len(z) = e /\ \A i \in 1..e : z[i] = a[i]
    BY <1>0, <1>1
  <2> HIDE DEF x, y, z
  <2>4. v \in Seq(S) /\ Len(v) = k + e /\ (\A i \in 1..k : v[i] = y[i]) /\ \A i \in (k + 1)..(k + e) : v[i] = z[i - k]
    <3>0. y \in Seq(S) /\ z \in Seq(S)
      BY <2>2, <2>3
    <3>1. /\ v \in Seq(S) /\ Len(v) = Len(y) + Len(z)
          /\ \A i \in 1..Len(y) : v[i] = y[i]
          /\ \A i \in (Len(y) + 1)..(Len(y) + Len(z)) : v[i] = z[i - Len(y)]
      BY <3>0, ConcatFacts, Zenon
    <3> HIDE DEF v
    <3> QED BY <2>2, <2>3, <3>1
  <2> HIDE DEF v
  <2>5. ASSUME NEW i \in 1..(k + e) PROVE x[i] = v[i]
    <3>1. CASE i \in 1..k
      BY <2>1, <2>2, <2>4, <3>1
    <3>2. CASE i \in (k + 1)..(k + e)
      <4>1. i - k \in 1..e /\ k + (i - k) = i
        BY <1>0, <3>2
      <4>2. t[i] = a[i - k]
        BY <1>7, <4>1
      <4> QED BY <2>1, <2>3, <2>4, <3>2, <4>1, <4>2
    <3> QED BY <1>0, <3>1, <3>2
  <2>6. x = v
    BY <2>1, <2>4, <2>5, SeqEqual
  <2> QED BY <2>6 DEF x, y, z, v
<1>9. SubSeq(t, k + e + 1, n) = SubSeq(ch, p + e + 1, c) \o r
  <2> DEFINE x == SubSeq(t, k + e + 1, n)
             y == SubSeq(ch, p + e + 1, c)
             v == y \o r
             l == (c - p) - e
  <2>1. x \in Seq(S) /\ Len(x) = l + q /\ \A i \in 1..(l + q) : x[i] = t[(k + e) + i]
    <3>1. n - (k + e) = l + q
      BY <1>0, <1>5
    <3> QED BY <1>6, <3>1, TailFacts DEF n
  <2>2. y \in Seq(S) /\ Len(y) = l /\ \A i \in 1..l : y[i] = ch[(p + e) + i]
    <3>1. c - (p + e) = l /\ p + e \in 0..c
      BY <1>0
    <3> QED BY <3>1, TailFacts DEF c
  <2> HIDE DEF x, y
  <2>3. l \in Nat
    BY <1>0
  <2>4. v \in Seq(S) /\ Len(v) = l + q /\ (\A i \in 1..l : v[i] = y[i]) /\ \A i \in (l + 1)..(l + q) : v[i] = r[i - l]
    <3>1. /\ v \in Seq(S) /\ Len(v) = Len(y) + Len(r)
          /\ \A i \in 1..Len(y) : v[i] = y[i]
          /\ \A i \in (Len(y) + 1)..(Len(y) + Len(r)) : v[i] = r[i - Len(y)]
      BY <2>2, ConcatFacts, Zenon
    <3> HIDE DEF v
    <3> QED BY <2>2, <3>1 DEF q
  <2> HIDE DEF v
  <2>5. ASSUME NEW i \in 1..(l + q) PROVE x[i] = v[i]
    <3>0. i \in Nat /\ e + i \in 1..(n - k) /\ (k + e) + i = k + (e + i) /\ (p + e) + i = p + (e + i)
      BY <1>0, <1>5, <2>3
    <3>1. x[i] = w[e + i]
      BY <1>2, <2>1, <3>0
    <3>2. CASE i \in 1..l
      <4>1. e + i \in 1..(c - p)
        BY <1>0, <3>2
      <4> QED BY <1>1, <1>4, <2>2, <2>4, <3>0, <3>1, <3>2, <4>1
    <3>3. CASE i \in (l + 1)..(l + q)
      <4>1. e + i \in ((c - p) + 1)..((c - p) + q) /\ (e + i) - (c - p) = i - l
        BY <1>0, <2>3, <3>3
      <4> QED BY <1>4, <2>4, <3>1, <3>3, <4>1
    <3> QED BY <1>0, <2>3, <3>2, <3>3
  <2>6. x = v
    BY <2>1, <2>4, <2>5, SeqEqual
  <2> QED BY <2>6 DEF x, y, v
<1> QED BY <1>6, <1>8, <1>9 DEF a, n, c, ReadsOn

\* What is left of the file a buffer is filled from, where the scanner is in a
\* buffer, what is ahead of it there, and that this is the text less what the
\* matches took.
RestOf(all, files, b) == IF all[b].yy_fill_buffer THEN files[all[b].yy_input_file].rest ELSE << >>
Place(all, g, b) == IF b = g.current THEN g.yy_c_buf_p ELSE all[b].yy_buf_pos
Ahead(all, files, g, b) == SubSeq(all[b].ch, Place(all, g, b) + 1, Len(all[b].ch)) \o RestOf(all, files, b)
Follows(all, files, g, ms, b) ==
    /\ Taken(ms, b) \in 0..Len(all[b].text)
    /\ SubSeq(all[b].text, Taken(ms, b) + 1, Len(all[b].text)) = Ahead(all, files, g, b)

MatchRecords == [rule : 0..43, end : Nat, start : Conditions, bol : BOOLEAN, buffer : Nat]
MatchesTyped(ms, n) ==
    /\ ms \in Seq(MatchRecords)
    /\ \A k \in 1..Len(ms) : ms[k].buffer \in 1..n

Counted(b, n) == b.yy_bs_lineno = 1 + Newlines(SubSeq(b.text, 1, n))

LinesState(all, files, g, s, ms, going) ==
    /\ MatchesTyped(ms, Len(all))
    /\ \A b \in 1..Len(all) : Counted(all[b], Taken(ms, b))
    /\ going => \A b \in 1..Len(all) : InUse(s, g, b) => Follows(all, files, g, ms, b)

LinesInv == LinesState(bufs, streams, yyg, sctx, matches, Going)

\* Every buffer in use that is filled has a file, another than the others'.
LEMMA FilesApart ==
    ASSUME ScanInv, Going, NEW b \in 1..Len(bufs), InUse(sctx, yyg, b)
    PROVE  /\ bufs[b].yy_input_file \in 0..Len(streams)
           /\ b # yyg.current => bufs[b].yy_input_file # yyg.yyin
<1> DEFINE n == Len(sctx.stack)
<1>0. n \in Nat /\ Len(streams) \in Nat
  BY GoingFacts DEF ContextType
<1>1. /\ \A i \in 1..(n + 1) : Level(sctx, yyg, i) \in 1..Len(bufs)
      /\ Level(sctx, yyg, 1) = 1
      /\ \A i \in 1..n : bufs[Level(sctx, yyg, i + 1)].yy_input_file = sctx.stack[i].stream
      /\ yyg.yyin = bufs[yyg.current].yy_input_file
      /\ \A i \in 1..n : sctx.stack[i].stream \in 1..Len(streams) /\ bufs[1].yy_input_file < sctx.stack[i].stream
      /\ \A i, j \in 1..n : i < j => sctx.stack[i].stream < sctx.stack[j].stream
      /\ bufs[1].yy_input_file \in 0..Len(streams)
  BY DEF ScanInv, Nested, BuffersNested, StreamsNested
<1>2. PICK i \in 1..(n + 1) : Level(sctx, yyg, i) = b
  BY DEF InUse
<1>3. Level(sctx, yyg, n + 1) = yyg.current
  BY <1>0 DEF Level
<1> HIDE DEF n
<1> DEFINE file == bufs[b].yy_input_file
           top == bufs[1].yy_input_file
<1>4. CASE i = 1
  <2>1. file = top
    BY <1>1, <1>2, <1>4
  <2>2. ASSUME b # yyg.current PROVE file # yyg.yyin
    <3>1. n >= 1
      BY <1>0, <1>2, <1>3, <1>4, <2>2
    <3>2. yyg.yyin = sctx.stack[n].stream /\ top < sctx.stack[n].stream
      BY <1>0, <1>1, <1>3, <3>1
    <3> QED BY <1>0, <1>1, <2>1, <3>1, <3>2
  <2> QED BY <1>1, <2>1, <2>2
<1>5. CASE i # 1
  <2>0. i - 1 \in 1..n /\ (i - 1) + 1 = i
    BY <1>0, <1>5
  <2>1. file = sctx.stack[i - 1].stream
    BY <1>1, <1>2, <2>0
  <2>2. file \in 0..Len(streams)
    BY <1>0, <1>1, <2>0, <2>1
  <2>3. ASSUME b # yyg.current PROVE file # yyg.yyin
    <3>1. i # n + 1
      BY <1>2, <1>3, <2>3
    <3>2. i - 1 < n /\ n \in 1..n
      BY <1>0, <2>0, <3>1
    <3>3. yyg.yyin = sctx.stack[n].stream
      BY <1>1, <1>3, <3>2
    <3>4. sctx.stack[i - 1].stream < sctx.stack[n].stream
      BY <1>1, <2>0, <3>2
    <3>5. sctx.stack[i - 1].stream \in Nat /\ sctx.stack[n].stream \in Nat
      <4>1. sctx.stack[i - 1].stream \in 1..Len(streams) /\ sctx.stack[n].stream \in 1..Len(streams)
        BY <1>1, <2>0, <3>2, Zenon
      <4> QED BY <1>0, <4>1
    <3> QED BY <2>1, <3>3, <3>4, <3>5
  <2> QED BY <2>2, <2>3
<1> QED BY <1>4, <1>5

\* What is left to read is a text.
LEMMA RestType ==
    ASSUME ScanInv, Going, NEW b \in 1..Len(bufs), InUse(sctx, yyg, b)
    PROVE  RestOf(bufs, streams, b) \in Seq(Char)
<1>1. CASE ~ bufs[b].yy_fill_buffer
  BY <1>1 DEF RestOf
<1>2. CASE bufs[b].yy_fill_buffer
  <2>1. bufs[b].yy_input_file # NoStream
    BY <1>2 DEF ScanInv, Placed, Fits
  <2>2. Len(streams) \in Nat /\ streams \in Seq(Streams)
    BY GoingFacts
  <2>3. bufs[b].yy_input_file \in 1..Len(streams)
    BY <2>1, <2>2, FilesApart DEF NoStream
  <2>4. streams[bufs[b].yy_input_file] \in Streams
    BY <2>2, <2>3
  <2> QED BY <1>2, <2>4 DEF RestOf, Streams
<1> QED BY <1>1, <1>2

\* What a match takes of the current buffer, and that its lines are counted.
IsNoted(ms) ==
    LET c == yyg.current
        n == Taken(ms, c)
    IN  /\ MatchesTyped(ms, Len(bufs))
        /\ \A b \in 1..Len(bufs) : b # c => Taken(ms, b) = Taken(matches, b)
        /\ \A b : b \notin 1..Len(bufs) => Taken(ms, b) = 0
        /\ n \in 0..Len(Current.text)
        /\ RuleSetup(Matched).yy_bs_lineno = 1 + Newlines(SubSeq(Current.text, 1, n))
        /\ SubSeq(Current.text, n + 1, Len(Current.text))
               = SubSeq(Current.ch, yyg.yy_c_buf_p + TextEnd(Matched) + 1, Len(Current.ch)) \o RestOf(bufs, streams, c)

LEMMA MatchNoted ==
    ASSUME ScanInv, LinesInv, Going
    PROVE  IsNoted(Noted(Matched))
<1> DEFINE c == yyg.current
           m == Matched
           x == [rule |-> m.rule, end |-> m.end, start |-> yyg.yy_start, bol |-> Current.yy_at_bol, buffer |-> c]
           ms == Noted(m)
           e == TextEnd(m)
           u == Unscanned
           t == Current.text
           k == Taken(matches, c)
           r == RestOf(bufs, streams, c)
<1>1. ScanTypeOK /\ Placed /\ c \in 1..Len(bufs) /\ Len(bufs) \in Nat /\ Current \in Buffers /\ yyg.yy_start \in Conditions
  BY GoingFacts
<1>2. /\ Sound(yyg.yy_start, u, m) /\ m.end \in 0..Len(u) /\ m.rule \in 0..43 /\ e \in 0..Len(u)
  BY <1>1, MatchedFacts
<1>3. /\ u \in Seq(Char) /\ Len(u) = Len(Current.ch) - yyg.yy_c_buf_p /\ Len(Current.ch) \in Nat
      /\ yyg.yy_c_buf_p \in 0..Len(Current.ch) /\ u = SubSeq(Current.ch, yyg.yy_c_buf_p + 1, Len(Current.ch))
  BY <1>1, CurrentFacts DEF Unscanned
<1>4. t \in Seq(Char) /\ Current.ch \in Seq(Char) /\ Current.yy_at_bol \in BOOLEAN /\ Current.yy_bs_lineno \in Nat
  BY <1>1 DEF Buffers
<1>5. InUse(sctx, yyg, c)
  <2>1. Len(sctx.stack) \in Nat
    BY GoingFacts DEF ContextType
  <2>2. Len(sctx.stack) + 1 \in 1..(Len(sctx.stack) + 1) /\ Level(sctx, yyg, Len(sctx.stack) + 1) = c
    BY <2>1 DEF Level
  <2> QED BY <2>2 DEF InUse
<1>6. r \in Seq(Char)
  BY <1>1, <1>5, RestType
<1>7. Follows(bufs, streams, yyg, matches, c) /\ MatchesTyped(matches, Len(bufs)) /\ Counted(bufs[c], k)
  BY <1>1, <1>5 DEF LinesInv, LinesState, Current
<1>8. k \in 0..Len(t) /\ SubSeq(t, k + 1, Len(t)) = u \o r
  BY <1>3, <1>7 DEF Follows, Ahead, Place, Current
<1>9. x \in MatchRecords /\ ms = Append(matches, x) /\ x.buffer = c /\ Consumed(x) = e /\ matches \in Seq(MatchRecords)
  <2>1. m.end \in Nat /\ c \in Nat
    BY <1>1, <1>2, <1>3
  <2> QED BY <1>1, <1>2, <1>4, <1>7, <2>1 DEF MatchRecords, MatchesTyped, Noted, TextEnd, Consumed
<1> HIDE DEF x, ms, m, e, u, t, k, r
<1>10. MatchesTyped(ms, Len(bufs))
  <2>1. /\ ms \in Seq(MatchRecords) /\ Len(ms) = Len(matches) + 1 /\ ms[Len(matches) + 1] = x
        /\ \A i \in 1..Len(matches) : ms[i] = matches[i]
    BY <1>9, AppendFacts
  <2>2. ASSUME NEW i \in 1..Len(ms) PROVE ms[i].buffer \in 1..Len(bufs)
    <3>0. Len(matches) \in Nat
      BY <1>9
    <3>1. CASE i = Len(matches) + 1
      BY <1>1, <1>9, <2>1, <3>1
    <3>2. CASE i \in 1..Len(matches)
      BY <1>7, <2>1, <3>2 DEF MatchesTyped
    <3> QED BY <2>1, <3>0, <3>1, <3>2
  <2> QED BY <2>1, <2>2 DEF MatchesTyped
<1>11. /\ \A b : b # c => Taken(ms, b) = Taken(matches, b)
       /\ Taken(ms, c) = k + e
  BY <1>9, TakenAppend DEF k
<1>12. ASSUME NEW b, b \notin 1..Len(bufs) PROVE Taken(ms, b) = 0
  <2>1. \A i \in 1..Len(ms) : ms[i].buffer # b
    BY <1>10, <1>12 DEF MatchesTyped
  <2>2. Len(ms) \in Nat
    BY <1>10 DEF MatchesTyped
  <2> QED BY <2>1, <2>2, TakenNone
<1>13. /\ k + e \in 0..Len(t)
       /\ SubSeq(t, 1, k + e) = SubSeq(t, 1, k) \o SubSeq(u, 1, e)
       /\ SubSeq(t, k + e + 1, Len(t)) = SubSeq(Current.ch, yyg.yy_c_buf_p + e + 1, Len(Current.ch)) \o r
  <2>1. e \in 0..(Len(Current.ch) - yyg.yy_c_buf_p)
    BY <1>2, <1>3
  <2> DEFINE ch == Current.ch
             p == yyg.yy_c_buf_p
  <2>2. ch \in Seq(Char) /\ p \in 0..Len(ch) /\ u = SubSeq(ch, p + 1, Len(ch)) /\ e \in 0..(Len(ch) - p)
    BY <1>3, <1>4, <2>1
  <2> HIDE DEF ch, p
  <2>3. Reads(Char, t, k, ch, p, r)
    BY <1>4, <1>6, <1>8, <2>2 DEF Reads
  <2>4. ReadsOn(t, k, ch, p, r, e)
    BY <2>2, <2>3, Onward
  <2> QED BY <2>2, <2>4 DEF ch, p, ReadsOn
<1>14. LinesIn(m.rule, SubSeq(u, 1, e)) = Newlines(SubSeq(u, 1, e))
  <2>1. CASE m.rule \in yy_rule_can_match_eol
    BY <2>1 DEF LinesIn
  <2>2. CASE m.rule \notin yy_rule_can_match_eol
    <3>1. NoNewline(u, e)
      BY <1>2, <2>2 DEF Sound, e
    <3>2. Len(SubSeq(u, 1, e)) = e /\ \A i \in 1..e : SubSeq(u, 1, e)[i] = u[i]
      BY <1>2, <1>3, PrefixFacts
    <3>3. NoNewline(SubSeq(u, 1, e), Len(SubSeq(u, 1, e))) /\ e \in Nat
      BY <1>2, <1>3, <3>1, <3>2 DEF NoNewline
    <3> QED BY <2>2, <3>2, <3>3, NoNewlines DEF LinesIn
  <2> QED BY <2>1, <2>2
<1>15. RuleSetup(m).yy_bs_lineno = Current.yy_bs_lineno + LinesIn(m.rule, SubSeq(u, 1, e))
  BY <1>1, RuleSetupFacts DEF m, e, u
<1>16. Newlines(SubSeq(t, 1, k + e)) = Newlines(SubSeq(t, 1, k)) + Newlines(SubSeq(u, 1, e))
  <2>1. SubSeq(t, 1, k) \in Seq(Char) /\ SubSeq(u, 1, e) \in Seq(Char)
    BY <1>2, <1>3, <1>4, <1>8, PrefixFacts
  <2> QED BY <1>13, <2>1, NewlinesConcat
<1>17. Current.yy_bs_lineno = 1 + Newlines(SubSeq(t, 1, k))
  BY <1>7 DEF Counted, Current, t
<1>18. Newlines(SubSeq(t, 1, k)) \in Nat /\ Newlines(SubSeq(u, 1, e)) \in Nat
  <2>1. Len(SubSeq(t, 1, k)) \in Nat /\ Len(SubSeq(u, 1, e)) \in Nat
    BY <1>2, <1>3, <1>4, <1>8
  <2> QED BY <2>1, NewlinesType
<1>19. RuleSetup(m).yy_bs_lineno = 1 + Newlines(SubSeq(t, 1, k + e))
  BY <1>14, <1>15, <1>16, <1>17, <1>18
<1> QED BY <1>10, <1>11, <1>12, <1>13, <1>19 DEF IsNoted, ms, m, e, t, r

LEMMA LinesPrimed ==
    ASSUME LinesState(bufs', streams', yyg', sctx', matches', Going')
    PROVE  LinesInv'
BY DEF LinesInv, LinesState, MatchesTyped, MatchRecords, Conditions, Counted, InUse, Level, Follows, Ahead, Place, RestOf,
       Newlines, Taken, Consumed

\* A buffer of which nothing changes is followed as before.
SameAhead(all, files, g, all2, files2, g2, b) ==
    /\ all2[b].text = all[b].text /\ all2[b].ch = all[b].ch
    /\ all2[b].yy_fill_buffer = all[b].yy_fill_buffer /\ all2[b].yy_input_file = all[b].yy_input_file
    /\ Place(all2, g2, b) = Place(all, g, b)
    /\ all[b].yy_fill_buffer => files2[all[b].yy_input_file].rest = files[all[b].yy_input_file].rest

LEMMA FollowsStays ==
    ASSUME NEW all, NEW files, NEW g, NEW ms, NEW b, Follows(all, files, g, ms, b),
           NEW all2, NEW files2, NEW g2, NEW ms2, SameAhead(all, files, g, all2, files2, g2, b),
           Taken(ms2, b) = Taken(ms, b)
    PROVE  Follows(all2, files2, g2, ms2, b)
<1> USE DEF SameAhead
<1>1. RestOf(all2, files2, b) = RestOf(all, files, b)
  BY DEF RestOf
<1>2. Ahead(all2, files2, g2, b) = Ahead(all, files, g, b)
  BY <1>1, Zenon DEF Ahead
<1> QED BY <1>2, Zenon DEF Follows

\* Whatever happens within the file being read, as long as the current buffer is
\* followed.
LEMMA LinesWithin ==
    ASSUME ScanInv, LinesInv, Going, NEW nb, bufs' = [bufs EXCEPT ![yyg.current] = nb],
           yyg'.current = yyg.current, sctx'.stack = sctx.stack,
           MatchesTyped(matches', Len(bufs)),
           \A b \in 1..Len(bufs) : b # yyg.current => Taken(matches', b) = Taken(matches, b),
           Counted(nb, Taken(matches', yyg.current)),
           Follows(bufs', streams', yyg', matches', yyg.current),
           \A f \in 1..Len(streams) : f # yyg.yyin => streams'[f].rest = streams[f].rest
    PROVE  LinesInv'
<1> DEFINE c == yyg.current
<1>1. bufs \in Seq(Buffers) /\ c \in 1..Len(bufs) /\ Len(bufs) \in Nat /\ Len(streams) \in Nat
  BY GoingFacts
<1>2. Len(bufs') = Len(bufs) /\ \A b \in 1..Len(bufs) : bufs'[b] = IF b = c THEN nb ELSE bufs[b]
  BY <1>1
<1>3. /\ \A b \in 1..Len(bufs) : Counted(bufs[b], Taken(matches, b))
      /\ \A b \in 1..Len(bufs) : InUse(sctx, yyg, b) => Follows(bufs, streams, yyg, matches, b)
  BY DEF LinesInv, LinesState
<1>4. \A b \in 1..Len(bufs) : Counted(bufs'[b], Taken(matches', b))
  BY <1>2, <1>3
<1>5. ASSUME NEW b \in 1..Len(bufs), InUse(sctx', yyg', b) PROVE Follows(bufs', streams', yyg', matches', b)
  <2>1. CASE b = c
    BY <2>1
  <2>2. CASE b # c
    <3>1. InUse(sctx, yyg, b)
      BY <1>5 DEF InUse, Level
    <3>2. Follows(bufs, streams, yyg, matches, b)
      BY <1>3, <3>1
    <3>3. bufs'[b] = bufs[b] /\ Place(bufs', yyg', b) = Place(bufs, yyg, b) /\ Taken(matches', b) = Taken(matches, b)
      BY <1>2, <2>2 DEF Place
    <3>4. bufs[b].yy_input_file \in 0..Len(streams) /\ bufs[b].yy_input_file # yyg.yyin
      BY <2>2, <3>1, FilesApart
    <3>5. ASSUME bufs[b].yy_fill_buffer
          PROVE  streams'[bufs[b].yy_input_file].rest = streams[bufs[b].yy_input_file].rest
      <4>1. bufs[b].yy_input_file # NoStream
        BY <3>5 DEF ScanInv, Placed, Fits
      <4>2. bufs[b].yy_input_file \in 1..Len(streams)
        BY <1>1, <3>4, <4>1 DEF NoStream
      <4> QED BY <3>4, <4>2
    <3>6. SameAhead(bufs, streams, yyg, bufs', streams', yyg', b)
      BY <3>3, <3>5 DEF SameAhead
    <3> QED BY <3>2, <3>3, <3>6, FollowsStays, Zenon
  <2> QED BY <2>1, <2>2
<1>6. MatchesTyped(matches', Len(bufs'))
  BY <1>2
<1>7. LinesState(bufs', streams', yyg', sctx', matches', Going')
  BY <1>2, <1>4, <1>5, <1>6 DEF LinesState
<1> QED BY <1>7, LinesPrimed

\* A rule is matched: the scanner goes on behind its text.
LEMMA MatchLines ==
    ASSUME ScanInv, LinesInv, Going, bufs' = [bufs EXCEPT ![yyg.current] = RuleSetup(Matched)],
           yyg'.current = yyg.current, yyg'.yy_c_buf_p = yyg.yy_c_buf_p + TextEnd(Matched),
           sctx'.stack = sctx.stack, matches' = Noted(Matched), streams' = streams
    PROVE  LinesInv'
<1> DEFINE c == yyg.current
           nb == RuleSetup(Matched)
           ms == Noted(Matched)
<1>1. bufs \in Seq(Buffers) /\ c \in 1..Len(bufs) /\ ScanTypeOK /\ Placed
  BY GoingFacts
<1>2. nb.ch = Current.ch /\ nb.yy_fill_buffer = Current.yy_fill_buffer /\ nb.yy_input_file = Current.yy_input_file
      /\ nb.text = Current.text
  BY <1>1, RuleSetupFacts
<1>3. IsNoted(ms)
  BY MatchNoted
<1>4. bufs'[c] = nb
  BY <1>1
<1> HIDE DEF nb, ms
<1>5. /\ MatchesTyped(ms, Len(bufs)) /\ \A b \in 1..Len(bufs) : b # c => Taken(ms, b) = Taken(matches, b)
      /\ Taken(ms, c) \in 0..Len(Current.text)
      /\ nb.yy_bs_lineno = 1 + Newlines(SubSeq(Current.text, 1, Taken(ms, c)))
      /\ SubSeq(Current.text, Taken(ms, c) + 1, Len(Current.text))
             = SubSeq(Current.ch, yyg.yy_c_buf_p + TextEnd(Matched) + 1, Len(Current.ch)) \o RestOf(bufs, streams, c)
  BY <1>3, Zenon DEF IsNoted, nb
<1>6. Counted(nb, Taken(ms, c))
  BY <1>2, <1>5, Zenon DEF Counted
<1>7. matches' = ms
  BY DEF ms
<1>8. Follows(bufs', streams', yyg', matches', c)
  <2>1. RestOf(bufs', streams', c) = RestOf(bufs, streams, c)
    BY <1>2, <1>4 DEF RestOf, Current
  <2>2. Place(bufs', yyg', c) = yyg.yy_c_buf_p + TextEnd(Matched)
    BY DEF Place
  <2>3. Ahead(bufs', streams', yyg', c)
            = SubSeq(Current.ch, yyg.yy_c_buf_p + TextEnd(Matched) + 1, Len(Current.ch)) \o RestOf(bufs, streams, c)
    BY <1>2, <1>4, <2>1, <2>2, Zenon DEF Ahead
  <2>4. bufs'[c].text = Current.text
    BY <1>2, <1>4
  <2> QED BY <1>5, <1>7, <2>3, <2>4, Zenon DEF Follows
<1>9. bufs' = [bufs EXCEPT ![yyg.current] = nb]
  BY DEF nb
<1> QED BY <1>5, <1>6, <1>7, <1>8, <1>9, LinesWithin

LEMMA MatchRuleLines == ScanInv /\ LinesInv /\ MatchRule => LinesInv'
<1> SUFFICES ASSUME ScanInv, LinesInv, MatchRule PROVE LinesInv'
  OBVIOUS
<1> DEFINE pos == yyg.yy_c_buf_p + TextEnd(Matched)
           sc == StartAfter(Matched.rule)
<1>1. /\ bufs' = [bufs EXCEPT ![yyg.current] = RuleSetup(Matched)]
      /\ yyg' = [yyg EXCEPT !.yy_c_buf_p = pos, !.yy_start = sc]
      /\ matches' = Noted(Matched) /\ streams' = streams /\ MayMatch
      /\ \E str : sctx' = [sctx EXCEPT !.string = str]
  BY DEF MatchRule
<1>2. Going
  BY <1>1 DEF MayMatch, Going
<1>3. yyg'.current = yyg.current /\ yyg'.yy_c_buf_p = pos
  <2> HIDE DEF pos, sc
  <2> QED BY <1>1, GoingFacts
<1>4. sctx'.stack = sctx.stack
  <2>1. ContextType(sctx)
    BY GoingFacts
  <2> QED BY <1>1, <2>1 DEF ContextType
<1> QED BY <1>1, <1>2, <1>3, <1>4, MatchLines

LEMMA IncludeFailsLines == ScanInv /\ LinesInv /\ IncludeFails => LinesInv'
<1> SUFFICES ASSUME ScanInv, LinesInv, IncludeFails PROVE LinesInv'
  OBVIOUS
<1> DEFINE pos == yyg.yy_c_buf_p + TextEnd(Matched)
<1>1. /\ bufs' = [bufs EXCEPT ![yyg.current] = RuleSetup(Matched)]
      /\ yyg' = [yyg EXCEPT !.yy_c_buf_p = pos]
      /\ matches' = Noted(Matched) /\ streams' = streams /\ MayMatch
      /\ sctx' = IF depth = MAX_INCLUDE_DEPTH THEN sctx ELSE [sctx EXCEPT !.string = strbuf_release(@)]
  BY Zenon DEF IncludeFails
<1>2. Going
  BY <1>1 DEF MayMatch, Going
<1>3. yyg'.current = yyg.current /\ yyg'.yy_c_buf_p = pos
  <2> HIDE DEF pos
  <2> QED BY <1>1, GoingFacts
<1>4. sctx'.stack = sctx.stack
  <2>1. ContextType(sctx)
    BY GoingFacts
  <2> QED BY <1>1, <2>1 DEF ContextType, strbuf_release
<1> QED BY <1>1, <1>2, <1>3, <1>4, MatchLines

\* The buffer is filled: what is ahead stays what it is.
LEMMA WholeSeq ==
    ASSUME NEW S, NEW u \in Seq(S)
    PROVE  SubSeq(u, 1, Len(u)) = u
<1> DEFINE w == SubSeq(u, 1, Len(u))
<1>1. w \in Seq(S) /\ Len(w) = Len(u) /\ \A i \in 1..Len(u) : w[i] = u[i]
  OBVIOUS
<1> HIDE DEF w
<1>2. w = u
  BY <1>1, SeqEqual
<1> QED BY <1>2 DEF w

LEMMA ConcatThree ==
    ASSUME NEW S, NEW u \in Seq(S), NEW v \in Seq(S), NEW w \in Seq(S)
    PROVE  (u \o v) \o w = u \o (v \o w)
OBVIOUS

LEMMA Cut ==
    ASSUME NEW S, NEW u \in Seq(S), NEW n \in 0..Len(u)
    PROVE  SubSeq(u, 1, n) \o SubSeq(u, n + 1, Len(u)) = u
<1> DEFINE a == SubSeq(u, 1, n)
           z == SubSeq(u, n + 1, Len(u))
           w == a \o z
<1>1. a \in Seq(S) /\ Len(a) = n /\ \A i \in 1..n : a[i] = u[i]
  BY PrefixFacts
<1>2. z \in Seq(S) /\ Len(z) = Len(u) - n /\ \A i \in 1..(Len(u) - n) : z[i] = u[n + i]
  BY TailFacts
<1> HIDE DEF a, z
<1>3. /\ w \in Seq(S) /\ Len(w) = Len(a) + Len(z)
      /\ \A i \in 1..Len(a) : w[i] = a[i]
      /\ \A i \in (Len(a) + 1)..(Len(a) + Len(z)) : w[i] = z[i - Len(a)]
  BY <1>1, <1>2, ConcatFacts, Zenon
<1> HIDE DEF w
<1>4. ASSUME NEW i \in 1..Len(u) PROVE w[i] = u[i]
  <2>1. CASE i <= n
    BY <1>1, <1>3, <2>1
  <2>2. CASE i > n
    <3>1. i - n \in 1..(Len(u) - n) /\ n + (i - n) = i /\ i \in (n + 1)..(n + (Len(u) - n))
      BY <2>2
    <3> QED BY <1>1, <1>2, <1>3, <3>1
  <2> QED BY <2>1, <2>2
<1>5. Len(w) = Len(u)
  BY <1>1, <1>2, <1>3
<1>6. w = u
  BY <1>3, <1>4, <1>5, SeqEqual
<1> QED BY <1>6 DEF w, a, z

LEMMA Refilled ==
    ASSUME NEW S, NEW moved \in Seq(S), NEW left \in Seq(S), NEW n \in 0..Len(left)
    PROVE  (moved \o SubSeq(left, 1, n)) \o SubSeq(left, n + 1, Len(left)) = moved \o left
<1> DEFINE a == SubSeq(left, 1, n)
           z == SubSeq(left, n + 1, Len(left))
<1>1. a \in Seq(S) /\ z \in Seq(S)
  BY PrefixFacts, TailFacts
<1>2. a \o z = left
  BY Cut
<1> HIDE DEF a, z
<1>3. (moved \o a) \o z = moved \o (a \o z)
  BY <1>1
<1> QED BY <1>2, <1>3 DEF a, z

\* What the current buffer is followed by.
LEMMA CurrentFollows ==
    ASSUME ScanInv, LinesInv, Going
    PROVE  LET k == Taken(matches, yyg.current)
           IN  /\ k \in 0..Len(Current.text) /\ Counted(Current, k)
               /\ SubSeq(Current.text, k + 1, Len(Current.text)) = Unscanned \o RestOf(bufs, streams, yyg.current)
               /\ MatchesTyped(matches, Len(bufs))
<1> DEFINE c == yyg.current
<1>1. c \in 1..Len(bufs)
  BY GoingFacts
<1>2. InUse(sctx, yyg, c)
  <2>1. Len(sctx.stack) \in Nat
    BY GoingFacts DEF ContextType
  <2>2. Len(sctx.stack) + 1 \in 1..(Len(sctx.stack) + 1) /\ Level(sctx, yyg, Len(sctx.stack) + 1) = c
    BY <2>1 DEF Level
  <2> QED BY <2>2 DEF InUse
<1>3. Follows(bufs, streams, yyg, matches, c) /\ MatchesTyped(matches, Len(bufs)) /\ Counted(bufs[c], Taken(matches, c))
  BY <1>1, <1>2 DEF LinesInv, LinesState, Current
<1>4. Ahead(bufs, streams, yyg, c) = Unscanned \o RestOf(bufs, streams, c)
  BY DEF Ahead, Place, Unscanned, Current
<1> QED BY <1>3, <1>4 DEF Follows, Current

\* The text is moved to the front of the buffer, and may be read on behind it.
LEMMA FillLines ==
    ASSUME ScanInv, LinesInv, Going, Current.yy_fill_buffer,
           NEW nb, bufs' = [bufs EXCEPT ![yyg.current] = nb], nb.text = Current.text,
           nb.yy_bs_lineno = Current.yy_bs_lineno, nb.yy_fill_buffer = TRUE, nb.yy_input_file = yyg.yyin,
           nb.ch \in Seq(Char), nb.ch \o streams'[yyg.yyin].rest = Unscanned \o streams[yyg.yyin].rest,
           yyg'.current = yyg.current, yyg'.yy_c_buf_p = 0, sctx'.stack = sctx.stack, matches' = matches,
           \A f \in 1..Len(streams) : f # yyg.yyin => streams'[f].rest = streams[f].rest
    PROVE  LinesInv'
<1> DEFINE c == yyg.current
           k == Taken(matches, c)
<1>1. bufs \in Seq(Buffers) /\ c \in 1..Len(bufs)
  BY GoingFacts
<1>2. /\ k \in 0..Len(Current.text) /\ Counted(Current, k) /\ MatchesTyped(matches, Len(bufs))
      /\ SubSeq(Current.text, k + 1, Len(Current.text)) = Unscanned \o RestOf(bufs, streams, c)
  BY CurrentFollows
<1>3. bufs'[c] = nb
  BY <1>1
<1>4. yyg.yyin = Current.yy_input_file
  BY FileThere
<1>5. RestOf(bufs, streams, c) = streams[yyg.yyin].rest
  BY <1>4 DEF RestOf, Current
<1>6. RestOf(bufs', streams', c) = streams'[yyg.yyin].rest
  BY <1>3 DEF RestOf
<1>7. Place(bufs', yyg', c) = 0
  BY DEF Place
<1>8. SubSeq(nb.ch, 0 + 1, Len(nb.ch)) = nb.ch
  <2>1. 0 + 1 = 1
    OBVIOUS
  <2> QED BY <2>1, WholeSeq
<1>9. Ahead(bufs', streams', yyg', c) = nb.ch \o streams'[yyg.yyin].rest
  BY <1>3, <1>6, <1>7, <1>8, Zenon DEF Ahead
<1>10. Follows(bufs', streams', yyg', matches', c)
  BY <1>2, <1>3, <1>5, <1>9, Zenon DEF Follows
<1>11. Counted(nb, Taken(matches', c))
  BY <1>2, Zenon DEF Counted
<1>12. \A b \in 1..Len(bufs) : b # c => Taken(matches', b) = Taken(matches, b)
  OBVIOUS
<1>13. MatchesTyped(matches', Len(bufs))
  BY <1>2
<1> QED BY <1>10, <1>11, <1>12, <1>13, LinesWithin

LEMMA RefillLines == ScanInv /\ LinesInv /\ Refill => LinesInv'
<1> SUFFICES ASSUME ScanInv, LinesInv, Refill PROVE LinesInv'
  OBVIOUS
<1> DEFINE moved == Unscanned
           size == Current.yy_buf_size
           room == NumToRead(size, Len(moved))
           left == streams[yyg.yyin].rest
           b == [Current EXCEPT !.yy_buffer_status = IF @ = "NEW" THEN "NORMAL" ELSE @,
                                !.yy_input_file = yyg.yyin, !.ch = moved]
<1>1. PICK n \in {Min({r, room, Len(left)}) : r \in input.readSizes} :
          /\ bufs' = [bufs EXCEPT ![yyg.current] =
                         [b EXCEPT !.ch = moved \o SubSeq(left, 1, n), !.yy_buf_size = Enlarged(@, Len(moved))]]
          /\ streams' = [streams EXCEPT ![yyg.yyin].rest = SubSeq(left, n + 1, Len(left))]
  BY Zenon DEF Refill
<1>2. /\ Going /\ Current.yy_fill_buffer /\ yyg' = [yyg EXCEPT !.yy_c_buf_p = 0]
      /\ sctx' = sctx /\ matches' = matches
  BY DEF Refill, Going
<1>3. Current \in Buffers /\ moved \in Seq(Char) /\ size \in Nat /\ Len(moved) < size /\ Len(moved) \in Nat
  <2>1. Current \in Buffers /\ Fits(Current)
    BY GoingFacts
  <2>2. size \in Nat /\ Len(Current.ch) < size
    BY <1>2, <2>1 DEF Buffers, Fits
  <2>3. /\ moved \in Seq(Char) /\ Len(moved) = Len(Current.ch) - yyg.yy_c_buf_p
        /\ Len(Current.ch) \in Nat /\ yyg.yy_c_buf_p \in 0..Len(Current.ch)
    BY GoingFacts, CurrentFacts
  <2> QED BY <2>1, <2>2, <2>3
<1>4. /\ yyg.yyin \in 1..Len(streams) /\ streams[yyg.yyin] \in Streams /\ left \in Seq(Char) /\ Len(left) \in Nat
      /\ streams \in Seq(Streams)
  BY <1>2, FileThere, GoingFacts
<1>5. n \in 0..Len(left)
  <2>1. room \in Nat
    BY <1>3, RoomFacts
  <2>2. PICK r \in input.readSizes : n = Min({r, room, Len(left)})
    BY <1>1
  <2>3. r \in Nat
    BY <2>2, GoingFacts, ScannerAssumption
  <2> HIDE DEF room, left
  <2>4. n \in {r, room, Len(left)} /\ n <= Len(left)
    BY <1>4, <2>1, <2>2, <2>3, MinOfThree
  <2> QED BY <1>4, <2>1, <2>3, <2>4
<1> DEFINE chars == moved \o SubSeq(left, 1, n)
           after == SubSeq(left, n + 1, Len(left))
           nb == [b EXCEPT !.ch = chars, !.yy_buf_size = Enlarged(@, Len(moved))]
<1>6. chars \in Seq(Char) /\ chars \o after = moved \o left
  <2> HIDE DEF moved, left
  <2>1. SubSeq(left, 1, n) \in Seq(Char)
    BY <1>4, <1>5, PrefixFacts
  <2>2. chars \in Seq(Char)
    BY <1>3, <2>1
  <2> QED BY <1>3, <1>4, <1>5, <2>2, Refilled
<1>7. streams'[yyg.yyin].rest = after /\ \A f \in 1..Len(streams) : f # yyg.yyin => streams'[f].rest = streams[f].rest
  <2> HIDE DEF after
  <2>1. streams' = [streams EXCEPT ![yyg.yyin].rest = after]
    BY <1>1 DEF after
  <2> QED BY <1>4, <2>1 DEF Streams
<1>8. /\ nb.text = Current.text /\ nb.yy_bs_lineno = Current.yy_bs_lineno /\ nb.yy_fill_buffer = TRUE
      /\ nb.yy_input_file = yyg.yyin /\ nb.ch = chars
  <2> DEFINE x1 == [Current EXCEPT !.yy_buffer_status = IF @ = "NEW" THEN "NORMAL" ELSE @]
             Kept(x) == /\ DOMAIN x = DOMAIN Current /\ x.text = Current.text /\ x.yy_bs_lineno = Current.yy_bs_lineno
                        /\ x.yy_fill_buffer = TRUE
             x2 == [x1 EXCEPT !.yy_input_file = yyg.yyin]
             x3 == [x2 EXCEPT !.ch = moved]
             x4 == [x3 EXCEPT !.ch = chars]
             x5 == [x4 EXCEPT !.yy_buf_size = Enlarged(@, Len(moved))]
  <2>0. DOMAIN Current = {"ch", "yy_buf_pos", "yy_buf_size", "yy_at_bol", "yy_bs_lineno", "yy_input_file",
                          "yy_fill_buffer", "yy_buffer_status", "deleted", "text"}
    BY <1>3 DEF Buffers
  <2> HIDE DEF moved, chars
  <2>1. Kept(x1)
    BY <1>2, <1>3, <2>0
  <2>2. Kept(x2) /\ x2.yy_input_file = yyg.yyin
    <3> HIDE DEF x1
    <3> QED BY <2>0, <2>1
  <2>3. Kept(x3) /\ x3.yy_input_file = yyg.yyin
    <3> HIDE DEF x2
    <3> QED BY <2>0, <2>2
  <2>4. Kept(x4) /\ x4.yy_input_file = yyg.yyin /\ x4.ch = chars
    <3> HIDE DEF x3
    <3> QED BY <2>0, <2>3
  <2>5. Kept(x5) /\ x5.yy_input_file = yyg.yyin /\ x5.ch = chars
    <3> HIDE DEF x4
    <3> QED BY <2>0, <2>4
  <2>6. nb = x5
    OBVIOUS
  <2> HIDE DEF x5, nb
  <2> QED BY <2>5, <2>6
<1>9. bufs' = [bufs EXCEPT ![yyg.current] = nb]
  BY <1>1
<1>10. yyg'.current = yyg.current /\ yyg'.yy_c_buf_p = 0 /\ sctx'.stack = sctx.stack
  BY <1>2, GoingFacts
<1> HIDE DEF nb, chars, after
<1>11. nb.ch \in Seq(Char) /\ nb.ch \o streams'[yyg.yyin].rest = Unscanned \o streams[yyg.yyin].rest
  BY <1>6, <1>7, <1>8, Zenon
<1> QED BY <1>2, <1>7, <1>8, <1>9, <1>10, <1>11, FillLines

LEMMA ReadsNothingLines == ScanInv /\ LinesInv /\ ReadsNothing => LinesInv'
<1> SUFFICES ASSUME ScanInv, LinesInv, ReadsNothing PROVE LinesInv'
  OBVIOUS
<1> DEFINE moved == Unscanned
           b == [Current EXCEPT !.ch = moved, !.yy_input_file = yyg.yyin,
                                !.yy_buf_size = IF Current.yy_buffer_status = "EOF_PENDING" THEN @
                                                ELSE Enlarged(@, Len(moved))]
           nb == IF moved = << >> THEN yyrestart(b, yyg.yyin) ELSE [b EXCEPT !.yy_buffer_status = "EOF_PENDING"]
           Fields == {"ch", "yy_buf_pos", "yy_buf_size", "yy_at_bol", "yy_bs_lineno", "yy_input_file",
                      "yy_fill_buffer", "yy_buffer_status", "deleted", "text"}
           Kept(x) == /\ DOMAIN x = Fields /\ x.text = Current.text /\ x.yy_bs_lineno = Current.yy_bs_lineno
                      /\ x.yy_fill_buffer = TRUE /\ x.ch = moved
<1>1. bufs' = [bufs EXCEPT ![yyg.current] = nb]
  BY Zenon DEF ReadsNothing
<1>2. /\ Going /\ Current.yy_fill_buffer /\ yyg' = [yyg EXCEPT !.yy_c_buf_p = 0]
      /\ sctx' = sctx /\ streams' = streams /\ matches' = matches
  BY DEF ReadsNothing, Going
<1>3. Current \in Buffers /\ moved \in Seq(Char)
  BY GoingFacts, CurrentFacts
<1>4. DOMAIN Current = Fields /\ Current.yy_fill_buffer = TRUE
  BY <1>2, <1>3 DEF Buffers
<1>5. Kept(b) /\ b.yy_input_file = yyg.yyin
  <2> DEFINE x1 == [Current EXCEPT !.ch = moved]
             x2 == [x1 EXCEPT !.yy_input_file = yyg.yyin]
             x3 == [x2 EXCEPT !.yy_buf_size = IF Current.yy_buffer_status = "EOF_PENDING" THEN @
                                              ELSE Enlarged(@, Len(moved))]
  <2> HIDE DEF moved
  <2>1. Kept(x1)
    BY <1>4
  <2>2. Kept(x2) /\ x2.yy_input_file = yyg.yyin
    <3> HIDE DEF x1
    <3> QED BY <2>1
  <2>3. Kept(x3) /\ x3.yy_input_file = yyg.yyin
    <3> HIDE DEF x2
    <3> QED BY <2>2
  <2>4. b = x3
    OBVIOUS
  <2> HIDE DEF b, x3
  <2> QED BY <2>3, <2>4
<1> HIDE DEF b
<1>6. Kept(nb) /\ nb.yy_input_file = yyg.yyin
  <2>1. CASE moved = << >>
    <3> DEFINE x1 == [b EXCEPT !.ch = << >>]
               x2 == [x1 EXCEPT !.yy_buf_pos = 0]
               x3 == [x2 EXCEPT !.yy_at_bol = TRUE]
               x4 == [x3 EXCEPT !.yy_buffer_status = "NEW"]
               x5 == [x4 EXCEPT !.yy_input_file = yyg.yyin]
               x6 == [x5 EXCEPT !.yy_fill_buffer = TRUE]
               x7 == [x6 EXCEPT !.yy_bs_lineno = x6.yy_bs_lineno]
    <3>0. nb = x7
      BY <2>1 DEF yyrestart, yy_init_buffer, yy_flush_buffer
    <3> HIDE DEF nb
    <3>1. Kept(x1)
      BY <1>5, <2>1
    <3> HIDE DEF moved
    <3>2. Kept(x2)
      <4> HIDE DEF x1
      <4> QED BY <3>1
    <3>3. Kept(x3)
      <4> HIDE DEF x2
      <4> QED BY <3>2
    <3>4. Kept(x4)
      <4> HIDE DEF x3
      <4> QED BY <3>3
    <3>5. Kept(x5) /\ x5.yy_input_file = yyg.yyin
      <4> HIDE DEF x4
      <4> QED BY <3>4
    <3>6. Kept(x6) /\ x6.yy_input_file = yyg.yyin
      <4> HIDE DEF x5
      <4> QED BY <3>5
    <3>7. Kept(x7) /\ x7.yy_input_file = yyg.yyin
      <4> HIDE DEF x6
      <4> QED BY <3>6
    <3> HIDE DEF x7
    <3> QED BY <3>0, <3>7
  <2>2. CASE moved # << >>
    <3>1. nb = [b EXCEPT !.yy_buffer_status = "EOF_PENDING"]
      BY <2>2
    <3> HIDE DEF nb, moved
    <3> QED BY <1>5, <3>1
  <2> QED BY <2>1, <2>2
<1>7. yyg'.current = yyg.current /\ yyg'.yy_c_buf_p = 0 /\ sctx'.stack = sctx.stack
  BY <1>2, GoingFacts
<1> HIDE DEF nb
<1>8. /\ nb.ch \in Seq(Char) /\ nb.ch \o streams'[yyg.yyin].rest = Unscanned \o streams[yyg.yyin].rest
      /\ \A f \in 1..Len(streams) : f # yyg.yyin => streams'[f].rest = streams[f].rest
      /\ nb.text = Current.text /\ nb.yy_bs_lineno = Current.yy_bs_lineno /\ nb.yy_fill_buffer = TRUE
      /\ nb.yy_input_file = yyg.yyin
  BY <1>2, <1>3, <1>6
<1> QED BY <1>1, <1>2, <1>7, <1>8, FillLines

\* A file is included: its buffer has the whole file ahead.
LEMMA IncludeOpensLines == ScanInv /\ LinesInv /\ IncludeOpens /\ UNCHANGED input => LinesInv'
<1> SUFFICES ASSUME ScanInv, LinesInv, IncludeOpens, UNCHANGED input PROVE LinesInv'
  OBVIOUS
<1> DEFINE c == yyg.current
           new == Len(bufs) + 1
           ms == Noted(Matched)
<1>1. PICK text \in Seq(Char) : IncludeEntered(text)
  BY IncludeOpensKeeps
<1>2. MayMatch /\ matches' = ms /\ spc' = "match"
  BY Zenon DEF IncludeOpens
<1>3. Going /\ Going'
  BY <1>2 DEF MayMatch, Going
<1>4. IsNoted(ms)
  BY <1>3, MatchNoted
<1>5. bufs \in Seq(Buffers) /\ c \in 1..Len(bufs) /\ Len(bufs) \in Nat /\ Len(streams) \in Nat /\ ContextType(sctx)
  BY GoingFacts
<1> HIDE DEF ms
<1>6. /\ MatchesTyped(ms, Len(bufs)) /\ Taken(ms, new) = 0
      /\ \A b \in 1..Len(bufs) : b # c => Taken(ms, b) = Taken(matches, b)
      /\ Taken(ms, c) \in 0..Len(Current.text)
      /\ RuleSetup(Matched).yy_bs_lineno = 1 + Newlines(SubSeq(Current.text, 1, Taken(ms, c)))
      /\ SubSeq(Current.text, Taken(ms, c) + 1, Len(Current.text))
             = SubSeq(Current.ch, yyg.yy_c_buf_p + TextEnd(Matched) + 1, Len(Current.ch)) \o RestOf(bufs, streams, c)
  <2>1. new \notin 1..Len(bufs)
    BY <1>5
  <2> HIDE DEF new
  <2> QED BY <1>4, <2>1, Zenon DEF IsNoted
<1>7. MatchesTyped(ms, Len(bufs'))
  <2>1. \A x \in 1..Len(bufs) : x \in 1..Len(bufs')
    BY <1>1, <1>5 DEF IncludeEntered
  <2> QED BY <1>6, <2>1, Zenon DEF MatchesTyped
<1>8. \A b \in 1..Len(bufs') : b \in 1..Len(bufs) \/ b = new
  BY <1>1, <1>5 DEF IncludeEntered
<1>9. /\ \A b \in 1..Len(bufs) : Counted(bufs[b], Taken(matches, b))
      /\ \A b \in 1..Len(bufs) : InUse(sctx, yyg, b) => Follows(bufs, streams, yyg, matches, b)
  BY <1>3 DEF LinesInv, LinesState
<1>10. ASSUME NEW b \in 1..Len(bufs') PROVE Counted(bufs'[b], Taken(ms, b))
  <2>1. CASE b = new
    <3>1. Len(SubSeq(bufs'[b].text, 1, 0)) = 0
      BY <1>1, <2>1 DEF IncludeEntered
    <3> DEFINE none == SubSeq(bufs'[b].text, 1, 0)
    <3> HIDE DEF none
    <3>2. Len(none) \in Nat /\ NoNewline(none, Len(none))
      BY <3>1 DEF NoNewline, none
    <3>3. Newlines(SubSeq(bufs'[b].text, 1, 0)) = 0
      BY <3>2, NoNewlines DEF none
    <3> QED BY <1>1, <1>6, <2>1, <3>3 DEF IncludeEntered, Counted
  <2>2. CASE b = c
    BY <1>1, <1>6, <2>2, Zenon DEF IncludeEntered, Counted
  <2>3. CASE b \in 1..Len(bufs) /\ b # c
    BY <1>1, <1>6, <1>9, <2>3, Zenon DEF IncludeEntered
  <2> QED BY <1>8, <2>1, <2>2, <2>3
<1>11. Follows(bufs', streams', yyg', ms, new)
  <2>1. Place(bufs', yyg', new) = 0 /\ RestOf(bufs', streams', new) = text
    BY <1>1 DEF Place, RestOf, IncludeEntered
  <2>2. bufs'[new].ch = << >> /\ bufs'[new].text = text
    BY <1>1 DEF IncludeEntered
  <2>3. Ahead(bufs', streams', yyg', new) = SubSeq(<< >>, 0 + 1, Len(<< >>)) \o text
    BY <2>1, <2>2, Zenon DEF Ahead
  <2>4. SubSeq(<< >>, 0 + 1, Len(<< >>)) \o text = text
    <3>1. SubSeq(<< >>, 0 + 1, Len(<< >>)) = << >>
      OBVIOUS
    <3> QED BY <3>1
  <2>5. SubSeq(text, 0 + 1, Len(text)) = text
    <3>1. 0 + 1 = 1
      OBVIOUS
    <3> QED BY <3>1, WholeSeq
  <2>6. 0 \in 0..Len(text)
    OBVIOUS
  <2> QED BY <1>6, <2>2, <2>3, <2>4, <2>5, <2>6, Zenon DEF Follows
<1>12. Follows(bufs', streams', yyg', ms, c)
  <2>0. c # new
    BY <1>5
  <2>1. Place(bufs', yyg', c) = yyg.yy_c_buf_p + TextEnd(Matched)
    BY <1>1, <2>0 DEF Place, IncludeEntered
  <2>2. bufs'[c].ch = Current.ch /\ bufs'[c].text = Current.text
    BY <1>1 DEF IncludeEntered
  <2>3. RestOf(bufs', streams', c) = RestOf(bufs, streams, c)
    <3>1. CASE Current.yy_fill_buffer
      <4>1. Current.yy_input_file \in 1..Len(streams)
        BY <1>3, <3>1, FileThere
      <4> QED BY <1>1, <3>1, <4>1 DEF RestOf, Current, IncludeEntered
    <3>2. CASE ~ Current.yy_fill_buffer
      BY <1>1, <3>2 DEF RestOf, Current, IncludeEntered
    <3> QED BY <3>1, <3>2
  <2>4. Ahead(bufs', streams', yyg', c)
            = SubSeq(Current.ch, yyg.yy_c_buf_p + TextEnd(Matched) + 1, Len(Current.ch)) \o RestOf(bufs, streams, c)
    BY <2>1, <2>2, <2>3, Zenon DEF Ahead
  <2> QED BY <1>6, <2>2, <2>4, Zenon DEF Follows
<1>13. ASSUME NEW b \in 1..Len(bufs), b # c, InUse(sctx', yyg', b) PROVE InUse(sctx, yyg, b)
  <2> DEFINE n == Len(sctx.stack)
  <2>1. PICK e \in Entries : e.buffer = c /\ sctx'.stack = Append(sctx.stack, e)
    BY <1>1 DEF IncludeEntered
  <2>2. sctx.stack \in Seq(Entries)
    BY <1>5 DEF ContextType, Entries
  <2>3. /\ Len(sctx'.stack) = n + 1 /\ sctx'.stack[n + 1] = e /\ n \in Nat
        /\ \A i \in 1..n : sctx'.stack[i] = sctx.stack[i]
    BY <2>1, <2>2, AppendFacts
  <2> HIDE DEF n
  <2>4. PICK i \in 1..(Len(sctx'.stack) + 1) : Level(sctx', yyg', i) = b
    BY <1>13 DEF InUse
  <2>5. yyg'.current = new
    BY <1>1 DEF IncludeEntered
  <2>6. CASE i = n + 2
    <3>1. Level(sctx', yyg', i) = new
      BY <2>3, <2>5, <2>6 DEF Level
    <3> QED BY <1>5, <2>4, <3>1
  <2>7. CASE i = n + 1
    <3>1. Level(sctx', yyg', i) = c
      BY <2>1, <2>3, <2>7 DEF Level
    <3> QED BY <1>13, <2>4, <3>1
  <2>8. CASE i \in 1..n
    <3>1. ~ (i > n) /\ ~ (i > n + 1) /\ i \in 1..(n + 1)
      BY <2>3, <2>8
    <3>2. Level(sctx', yyg', i) = Level(sctx, yyg, i)
      BY <2>3, <2>8, <3>1 DEF Level, n
    <3> QED BY <2>4, <3>1, <3>2 DEF InUse, n
  <2> QED BY <2>3, <2>6, <2>7, <2>8
<1>14. ASSUME NEW b \in 1..Len(bufs), b # c, InUse(sctx', yyg', b) PROVE Follows(bufs', streams', yyg', ms, b)
  <2>0. InUse(sctx, yyg, b)
    BY <1>13, <1>14
  <2>1. Follows(bufs, streams, yyg, matches, b) /\ Taken(ms, b) = Taken(matches, b)
    BY <1>6, <1>9, <1>14, <2>0
  <2>2. bufs'[b] = bufs[b] /\ b # new /\ yyg'.current = new
    BY <1>1, <1>5, <1>14 DEF IncludeEntered
  <2>3. Place(bufs', yyg', b) = Place(bufs, yyg, b)
    BY <1>14, <2>2 DEF Place
  <2>4. ASSUME bufs[b].yy_fill_buffer PROVE streams'[bufs[b].yy_input_file].rest = streams[bufs[b].yy_input_file].rest
    <3>1. bufs[b].yy_input_file # NoStream
      BY <2>4 DEF ScanInv, Placed, Fits
    <3>2. bufs[b].yy_input_file \in 1..Len(streams)
      BY <1>3, <1>5, <2>0, <3>1, FilesApart DEF NoStream
    <3> QED BY <1>1, <3>2 DEF IncludeEntered
  <2>5. SameAhead(bufs, streams, yyg, bufs', streams', yyg', b)
    BY <2>2, <2>3, <2>4 DEF SameAhead
  <2> QED BY <2>1, <2>5, FollowsStays, Zenon
<1>15. \A b \in 1..Len(bufs') : InUse(sctx', yyg', b) => Follows(bufs', streams', yyg', ms, b)
  BY <1>8, <1>11, <1>12, <1>14
<1>16. LinesState(bufs', streams', yyg', sctx', matches', Going')
  BY <1>2, <1>7, <1>10, <1>15 DEF LinesState
<1> QED BY <1>16, LinesPrimed

\* Back to the file with the directive.
LEMMA EndOfIncludeLines == ScanInv /\ LinesInv /\ EndOfInclude /\ UNCHANGED input => LinesInv'
<1> SUFFICES ASSUME ScanInv, LinesInv, EndOfInclude, UNCHANGED input PROVE LinesInv'
  OBVIOUS
<1>1. IncludeLeft
  BY EndOfIncludeKeeps
<1>2. Going /\ matches' = matches
  BY DEF EndOfInclude, Going
<1>3. Len(streams) \in Nat
  BY GoingFacts
<1>4. /\ MatchesTyped(matches, Len(bufs)) /\ \A b \in 1..Len(bufs) : Counted(bufs[b], Taken(matches, b))
      /\ \A b \in 1..Len(bufs) : InUse(sctx, yyg, b) => Follows(bufs, streams, yyg, matches, b)
  BY <1>2 DEF LinesInv, LinesState
<1>5. MatchesTyped(matches', Len(bufs')) /\ \A b \in 1..Len(bufs') : Counted(bufs'[b], Taken(matches', b))
  BY <1>1, <1>2, <1>4, Zenon DEF IncludeLeft, Counted
<1>6. ASSUME NEW b \in 1..Len(bufs), InUse(sctx', yyg', b) PROVE Follows(bufs', streams', yyg', matches', b)
  <2>1. InUse(sctx, yyg, b) /\ b # yyg.current
    BY <1>1, <1>6 DEF IncludeLeft
  <2>2. Follows(bufs, streams, yyg, matches, b)
    BY <1>4, <2>1
  <2>3. Place(bufs', yyg', b) = Place(bufs, yyg, b)
    BY <1>1, <2>1 DEF Place, IncludeLeft
  <2>4. ASSUME bufs[b].yy_fill_buffer PROVE streams'[bufs[b].yy_input_file].rest = streams[bufs[b].yy_input_file].rest
    <3>1. bufs[b].yy_input_file # NoStream
      BY <2>4 DEF ScanInv, Placed, Fits
    <3>2. bufs[b].yy_input_file \in 1..Len(streams)
      BY <1>2, <1>3, <2>1, <3>1, FilesApart DEF NoStream
    <3> QED BY <1>1, <3>2 DEF IncludeLeft
  <2>5. SameAhead(bufs, streams, yyg, bufs', streams', yyg', b)
    BY <1>1, <2>3, <2>4 DEF SameAhead, IncludeLeft
  <2> QED BY <1>2, <2>2, <2>5, FollowsStays, Zenon
<1>7. LinesState(bufs', streams', yyg', sctx', matches', Going')
  <2>1. Len(bufs') = Len(bufs)
    BY <1>1 DEF IncludeLeft
  <2> QED BY <1>5, <1>6, <2>1 DEF LinesState
<1> QED BY <1>7, LinesPrimed

\* Nothing of what is scanned changes.
LEMMA LinesRest ==
    ASSUME LinesInv, bufs' = bufs, streams' = streams, yyg' = yyg, sctx' = sctx, matches' = matches, Going' => Going
    PROVE  LinesInv'
<1>1. LinesState(bufs', streams', yyg', sctx', matches', Going')
  BY DEF LinesInv, LinesState
<1> QED BY <1>1, LinesPrimed

LEMMA DestroyedLines ==
    ASSUME ScanInv, LinesInv, Going, UNCHANGED input, NEW failed \in BOOLEAN, failed \/ depth = 0,
           ScannerDestroyed(failed)
    PROVE  LinesInv'
<1>1. /\ Len(bufs') = Len(bufs)
      /\ \A b \in 1..Len(bufs) : bufs'[b].text = bufs[b].text /\ bufs'[b].yy_bs_lineno = bufs[b].yy_bs_lineno
  BY DestroyedKeeps
<1>2. matches' = matches /\ spc' = "over"
  BY Zenon DEF ScannerDestroyed
<1>3. ~ Going'
  BY <1>2 DEF Going
<1>4. MatchesTyped(matches, Len(bufs)) /\ \A b \in 1..Len(bufs) : Counted(bufs[b], Taken(matches, b))
  BY DEF LinesInv, LinesState
<1>5. MatchesTyped(matches', Len(bufs')) /\ \A b \in 1..Len(bufs') : Counted(bufs'[b], Taken(matches', b))
  BY <1>1, <1>2, <1>4, Zenon DEF Counted
<1>6. LinesState(bufs', streams', yyg', sctx', matches', Going')
  BY <1>3, <1>5 DEF LinesState
<1> QED BY <1>6, LinesPrimed

LEMMA NextLines == ScanInv /\ LinesInv /\ [ScannerNext]_scannerVars => LinesInv'
<1> SUFFICES ASSUME ScanInv, LinesInv, [ScannerNext]_scannerVars PROVE LinesInv'
  OBVIOUS
<1>1. CASE ScannerNext
  <2>1. UNCHANGED input
    BY <1>1 DEF ScannerNext
  <2>2. CASE MatchRule
    BY <2>2, MatchRuleLines
  <2>3. CASE IncludeFails
    BY <2>3, IncludeFailsLines
  <2>4. CASE IncludeOpens
    BY <2>1, <2>4, IncludeOpensLines
  <2>5. CASE EndOfString
    <3>1. Going
      BY <2>5 DEF EndOfString, Going
    <3> QED BY <2>5, <3>1, LinesRest DEF EndOfString
  <2>6. CASE Refill
    BY <2>6, RefillLines
  <2>7. CASE ReadsNothing
    BY <2>7, ReadsNothingLines
  <2>8. CASE ReadFails
    <3>1. Going
      BY <2>8 DEF ReadFails, Going
    <3> QED BY <2>8, <3>1, LinesRest DEF ReadFails
  <2>9. CASE EndOfInclude
    BY <2>1, <2>9, EndOfIncludeLines
  <2>10. CASE EndOfScan
    <3>1. spc = "eof" /\ depth = 0
      BY <2>10 DEF EndOfScan
    <3>2. PICK failed \in BOOLEAN : ScannerDestroyed(failed)
      BY <2>10, Zenon DEF EndOfScan
    <3>3. Going
      BY <3>1 DEF Going
    <3> QED BY <2>1, <3>1, <3>2, <3>3, DestroyedLines
  <2>11. CASE ParserFails
    <3>1. spc = "token" /\ ScannerDestroyed(TRUE)
      BY <2>11 DEF ParserFails
    <3>2. Going
      BY <3>1 DEF Going
    <3> QED BY <2>1, <3>1, <3>2, DestroyedLines
  <2> QED BY <1>1, <2>2, <2>3, <2>4, <2>5, <2>6, <2>7, <2>8, <2>9, <2>10, <2>11, Zenon DEF ScannerNext
<1>2. CASE UNCHANGED scannerVars
  <2>1. /\ streams' = streams /\ bufs' = bufs /\ yyg' = yyg /\ sctx' = sctx /\ spc' = spc /\ matches' = matches
    BY <1>2 DEF scannerVars
  <2>2. Going' => Going
    BY <2>1 DEF Going
  <2> QED BY <2>1, <2>2, LinesRest
<1> QED BY <1>1, <1>2

\* The text is ahead of the scanner when it begins, as a file or as a string.
LEMMA InitLines == ScannerInit => LinesInv
<1> SUFFICES ASSUME ScannerInit PROVE LinesInv
  OBVIOUS
<1>1. PICK i \in Inputs : \E text \in Contents[i], source \in i.sources :
          LET file == source = "stream"
          IN  /\ streams = IF file THEN <<StreamOf(text, FALSE)>> ELSE << >>
              /\ bufs = <<[(IF file THEN yy_create_buffer(1) ELSE yy_scan_bytes(text)) EXCEPT !.text = text]>>
              /\ yyg = yy_load_buffer_state(yy_init_globals, 1, bufs[1])
              /\ matches = << >>
  BY Zenon DEF ScannerInit
<1>2. PICK text \in Contents[i] : \E source \in i.sources :
          LET file == source = "stream"
          IN  /\ streams = IF file THEN <<StreamOf(text, FALSE)>> ELSE << >>
              /\ bufs = <<[(IF file THEN yy_create_buffer(1) ELSE yy_scan_bytes(text)) EXCEPT !.text = text]>>
              /\ yyg = yy_load_buffer_state(yy_init_globals, 1, bufs[1])
              /\ matches = << >>
  BY <1>1, Zenon
<1>3. PICK source \in i.sources :
          LET file == source = "stream"
          IN  /\ streams = IF file THEN <<StreamOf(text, FALSE)>> ELSE << >>
              /\ bufs = <<[(IF file THEN yy_create_buffer(1) ELSE yy_scan_bytes(text)) EXCEPT !.text = text]>>
              /\ yyg = yy_load_buffer_state(yy_init_globals, 1, bufs[1])
              /\ matches = << >>
  BY <1>2, Zenon
<1> DEFINE file == source = "stream"
           base == IF file THEN yy_create_buffer(1) ELSE yy_scan_bytes(text)
           nb == [base EXCEPT !.text = text]
<1>4. /\ streams = IF file THEN <<StreamOf(text, FALSE)>> ELSE << >>
      /\ bufs = <<nb>>
      /\ yyg = yy_load_buffer_state(yy_init_globals, 1, bufs[1])
      /\ matches = << >>
  BY <1>3, Zenon
<1>5. text \in Seq(Char)
  BY ContentsType
<1>6. /\ nb.yy_buf_pos = 0 /\ nb.yy_bs_lineno = 1 /\ nb.text = text
      /\ nb.yy_fill_buffer => file /\ nb.ch = << >> /\ nb.yy_input_file = 1
      /\ ~ nb.yy_fill_buffer => nb.ch = text
  <2>1. CASE file
    <3>1. base = yy_create_buffer(1)
      BY <2>1
    <3> HIDE DEF base
    <3>2. 1 \in Nat /\ 1 # NoStream
      BY DEF NoStream
    <3> DEFINE made == [yy_create_buffer(1) EXCEPT !.text = text]
    <3>3. /\ made.yy_buf_pos = 0 /\ made.yy_bs_lineno = 1 /\ made.text = text
          /\ made.ch = << >> /\ made.yy_input_file = 1 /\ made.yy_fill_buffer
      BY <1>5, <3>2, NewBuffer, Zenon
    <3>4. nb = made
      BY <3>1
    <3> HIDE DEF nb, file, made
    <3> QED BY <2>1, <3>3, <3>4, Zenon
  <2>2. CASE ~ file
    <3>1. base = yy_scan_bytes(text)
      BY <2>2
    <3> HIDE DEF base
    <3> DEFINE made == [yy_scan_bytes(text) EXCEPT !.text = text]
    <3>3. /\ made.yy_buf_pos = 0 /\ made.yy_bs_lineno = 1 /\ made.text = text
          /\ made.ch = text /\ ~ made.yy_fill_buffer
      BY <1>5, StringBuffer, Zenon
    <3>4. nb = made
      BY <3>1
    <3> HIDE DEF nb, file, made
    <3> QED BY <3>3, <3>4, Zenon
  <2> QED BY <2>1, <2>2
<1> HIDE DEF nb
<1>7. Len(bufs) = 1 /\ bufs[1] = nb /\ \A b \in 1..Len(bufs) : b = 1
  BY <1>4
<1>8. yyg.current = 1 /\ yyg.yy_c_buf_p = 0
  BY <1>4, <1>6, <1>7 DEF yy_load_buffer_state, yy_init_globals
<1>9. MatchesTyped(matches, Len(bufs)) /\ Taken(matches, 1) = 0
  <2>1. Len(matches) = 0 /\ matches \in Seq(MatchRecords)
    BY <1>4
  <2>2. \A k \in 1..Len(matches) : matches[k].buffer # 1 /\ matches[k].buffer \in 1..Len(bufs)
    BY <2>1
  <2> QED BY <2>1, <2>2, TakenNone DEF MatchesTyped
<1>10. Counted(bufs[1], Taken(matches, 1))
  <2> DEFINE none == SubSeq(text, 1, 0)
  <2>1. Len(none) = 0
    BY <1>5
  <2> HIDE DEF none
  <2>2. Len(none) \in Nat /\ NoNewline(none, Len(none))
    BY <2>1 DEF NoNewline
  <2>3. Newlines(SubSeq(text, 1, 0)) = 0
    BY <2>2, NoNewlines DEF none
  <2> QED BY <1>6, <1>7, <1>9, <2>3 DEF Counted
<1>11. Ahead(bufs, streams, yyg, 1) = text
  <2>1. Place(bufs, yyg, 1) = 0
    BY <1>8 DEF Place
  <2>2. CASE nb.yy_fill_buffer
    <3>1. streams = <<StreamOf(text, FALSE)>> /\ nb.ch = << >> /\ nb.yy_input_file = 1
      BY <1>4, <1>6, <2>2
    <3>2. RestOf(bufs, streams, 1) = text
      BY <1>7, <2>2, <3>1 DEF RestOf, StreamOf
    <3>3. Ahead(bufs, streams, yyg, 1) = SubSeq(<< >>, 0 + 1, Len(<< >>)) \o text
      BY <1>7, <2>1, <3>1, <3>2, Zenon DEF Ahead
    <3>4. SubSeq(<< >>, 0 + 1, Len(<< >>)) = << >>
      OBVIOUS
    <3> QED BY <1>5, <3>3, <3>4
  <2>3. CASE ~ nb.yy_fill_buffer
    <3>1. RestOf(bufs, streams, 1) = << >> /\ nb.ch = text
      BY <1>6, <1>7, <2>3 DEF RestOf
    <3>2. Ahead(bufs, streams, yyg, 1) = SubSeq(text, 0 + 1, Len(text)) \o << >>
      BY <1>7, <2>1, <3>1, Zenon DEF Ahead
    <3>3. SubSeq(text, 0 + 1, Len(text)) = text
      BY <1>5, WholeSeq
    <3> QED BY <1>5, <3>2, <3>3
  <2> QED BY <2>2, <2>3
<1>12. Follows(bufs, streams, yyg, matches, 1)
  <2>1. SubSeq(text, 0 + 1, Len(text)) = text
    BY <1>5, WholeSeq
  <2>2. 0 \in 0..Len(text)
    BY <1>5
  <2> QED BY <1>6, <1>7, <1>9, <1>11, <2>1, <2>2, Zenon DEF Follows
<1> QED BY <1>7, <1>9, <1>10, <1>12 DEF LinesInv, LinesState

\* However the reads cut a text and wherever the scanner stops in it, the line
\* number of every buffer is the number of newlines among the characters the
\* matches took of it, and one: no text is skipped and none scanned twice when
\* a buffer is refilled or left for that of an included file.
THEOREM LinesCountedHolds == ScannerSpec => []LinesCounted
<1> DEFINE Both == ScanInv /\ LinesInv
<1>1. ScannerInit => Both
  BY InitScanInv, InitLines
<1>2. Both /\ [ScannerNext]_scannerVars => Both'
  BY NextScanInv, NextLines
<1>3. Both => LinesCounted
  <2> SUFFICES ASSUME ScanInv, LinesInv PROVE LinesCounted
    OBVIOUS
  <2>1. DOMAIN bufs = 1..Len(bufs)
    BY GoingFacts
  <2> QED BY <2>1 DEF LinesInv, LinesState, Counted, LinesCounted
<1> QED BY <1>1, <1>2, <1>3, PTL DEF ScannerSpec
=============================================================================
