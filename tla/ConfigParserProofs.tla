------------------------- MODULE ConfigParserProofs -------------------------
(***************************************************************************)
(* What holds of the parser for every input and every size of its stacks.  *)
(* The states on the stack are a path through the automaton that the       *)
(* tables of grammar.c describe; what is in a state follows from the       *)
(* symbol it was entered with.                                             *)
(***************************************************************************)
EXTENDS ConfigParser, FiniteSetTheorems, WellFoundedInduction, TLAPS

-----------------------------------------------------------------------------
(* The invariant. *)

Vals == {NoValue} \cup UNION {{t.val : t \in i.tokens} : i \in Inputs}
Tokens == [sym : Symbols, val : Vals, line : Int]
Entries == [state : States, yyval : Vals \cup {0}]

Top(stack) == stack[Len(stack)].state

\* The first state is at the bottom, and each state is on one it may be on.
Linked(stack) ==
    /\ stack \in Seq(Entries) /\ Len(stack) >= 1 /\ stack[1].state = 0
    /\ \A i \in 2..Len(stack) : stack[i - 1].state \in At(Below, stack[i].state)

\* The places of the aggregates that are open, or just ended.
Opens(stack, n) == {i \in 1..n : stack[i].state \in OpenStates}

One(condition) == IF condition THEN 1 ELSE 0

\* The lookahead is the last token read.
Ahead(sym) == yychar # << >> /\ toks[Len(toks)].sym = sym

\* A string is held by the lookahead, or by the state entered with it.
StringsHeld == strings = One(Ahead(TOK_STRING)) + One(Top(yystack) \in StringStates)

\* The tokens read open what is open on the stack, or is about to be.
NestingHeld ==
    LET n == Cardinality(Opens(yystack, Len(yystack)))
    IN  /\ Depth(toks, Len(toks)) = n - One(Top(yystack) \in CloseStates)
                                      + One(\E sym \in Opening : Ahead(sym)) - One(\E sym \in Closing : Ahead(sym))
        /\ \E k \in 0..Len(toks) : n <= Depth(toks, k)

\* Nothing is wrong but what the scanner found in the last token.
ErrorsHeld ==
    /\ \A i \in 1..Len(toks) : toks[i].sym = TOK_ERROR => i = Len(toks) /\ yychar # << >>
    /\ c.error_text = IF Ahead(TOK_ERROR) THEN "cannot open include file" ELSE "none"
    /\ Ahead(TOK_ERROR) => c.error_line = toks[Len(toks)].line
    /\ c.error_type = "NONE"

TypeOK ==
    /\ input \in Inputs
    /\ rpc \in {"called", "parsing", "read", "over"}
    /\ toks \in Seq(Tokens)
    /\ yychar # << >> => toks # << >> /\ yychar = <<toks[Len(toks)]>>
    /\ yystacksize \in Nat
    /\ DOMAIN c = DOMAIN config_t
    /\ rpc # "parsing" => yystack = << >>

ParsingInv ==
    /\ yyresult = -1
    /\ Linked(yystack) /\ Top(yystack) # YYFINAL
    /\ 2 <= yystacksize /\ Len(yystack) < yystacksize
    /\ toks = << >> => Len(yystack) = 1
    /\ StringsHeld
    /\ NestingHeld
    /\ ErrorsHeld

ParserInv ==
    /\ TypeOK
    /\ rpc = "called" => toks = << >> /\ yychar = << >> /\ strings = 0 /\ yyresult = -1
    /\ Parsing => ParsingInv
    /\ StringsFreed
    /\ FirstErrorReported
    /\ yyresult = 2 => \E k \in 0..Len(toks) : YYMAXDEPTH <= 7 + 6 * Depth(toks, k)

-----------------------------------------------------------------------------
(* Sequences, sets and symbols. *)

\* A set of natural numbers that is not empty has a least element.
LEMMA Least ==
    ASSUME NEW T, T \subseteq Nat, T # {}
    PROVE  \E n \in T : \A m \in T : n <= m
<1> DEFINE R == OpToRel(<, Nat)
<1>1. IsWellFoundedOn(R, Nat)
  BY NatLessThanWellFounded
<1>2. \A i, j \in Nat : <<i, j>> \in R <=> i < j
  BY DEF OpToRel
<1> HIDE DEF R
<1>3. PICK n \in T : \A m \in T : ~ (<<m, n>> \in R)
  BY <1>1, WFMin
<1>4. \A m \in T : ~ (m < n)
  BY <1>2, <1>3, Zenon
<1> QED BY <1>4

\* Induction, as a fact about sets of numbers.
LEMMA SetInduction ==
    ASSUME NEW T, 0 \in T, \A n \in Nat : n \in T => n + 1 \in T
    PROVE  Nat \subseteq T
<1> SUFFICES ASSUME Nat \ T # {} PROVE FALSE
  OBVIOUS
<1>1. PICK n \in Nat \ T : \A m \in Nat \ T : n <= m
  BY Least
<1>2. n # 0 /\ n - 1 \in Nat /\ n - 1 \in T
  BY <1>1
<1> QED BY <1>1, <1>2

LEMMA AppendFacts ==
    ASSUME NEW S, NEW s \in Seq(S), NEW x \in S
    PROVE  /\ Append(s, x) \in Seq(S) /\ Len(Append(s, x)) = Len(s) + 1 /\ Append(s, x)[Len(s) + 1] = x
           /\ \A i \in 1..Len(s) : Append(s, x)[i] = s[i]
OBVIOUS

LEMMA PrefixFacts ==
    ASSUME NEW S, NEW u \in Seq(S), NEW k \in 0..Len(u)
    PROVE  /\ SubSeq(u, 1, k) \in Seq(S) /\ Len(SubSeq(u, 1, k)) = k
           /\ \A i \in 1..k : SubSeq(u, 1, k)[i] = u[i]
OBVIOUS

\* The numbers of the symbols.
LEMMA SymbolFacts ==
    /\ TOK_EOF = 0 /\ TOK_BOOLEAN = 3 /\ TOK_STRING = 9 /\ TOK_ERROR = 22
    /\ Symbols = 0..22 /\ Opening = {13, 15, 18} /\ Closing = {14, 16, 19}
BY DEF TOK_EOF, TOK_BOOLEAN, TOK_STRING, TOK_ERROR, Symbols, Opening, Closing, YYTRANSLATE,
       TOK_ARRAY_START, TOK_LIST_START, TOK_GROUP_START, TOK_ARRAY_END, TOK_LIST_END, TOK_GROUP_END

LEMMA Constants ==
    /\ \A i \in Inputs : i.maxLine \in Nat /\ \A t \in i.tokens : t.sym \in Symbols
    /\ YYINITDEPTH \in Nat /\ YYINITDEPTH >= 2 /\ YYMAXDEPTH \in Nat
BY ParserAssumption, SymbolFacts

\* How many of the first n places are in a set.
LEMMA PlacesFinite ==
    ASSUME NEW n \in Nat, NEW S
    PROVE  IsFiniteSet({i \in 1..n : i \in S}) /\ Cardinality({i \in 1..n : i \in S}) \in Nat
<1>1. IsFiniteSet(1..n)
  BY FS_Interval
<1>2. {i \in 1..n : i \in S} \in SUBSET (1..n)
  OBVIOUS
<1> QED BY <1>1, <1>2, FS_Subset, FS_CardinalityType

LEMMA PlacesMore ==
    ASSUME NEW n \in Nat, NEW S
    PROVE  Cardinality({i \in 1..(n + 1) : i \in S})
               = Cardinality({i \in 1..n : i \in S}) + IF n + 1 \in S THEN 1 ELSE 0
<1> DEFINE A == {i \in 1..n : i \in S}
           B == {i \in 1..(n + 1) : i \in S}
<1>1. IsFiniteSet(A) /\ Cardinality(A) \in Nat
  BY PlacesFinite
<1>2. CASE n + 1 \in S
  <2>1. B = A \cup {n + 1} /\ n + 1 \notin A
    BY <1>2
  <2> HIDE DEF A, B
  <2>2. Cardinality(B) = Cardinality(A) + 1
    BY <1>1, <2>1, FS_AddElement
  <2> QED BY <1>2, <2>2 DEF A, B
<1>3. CASE n + 1 \notin S
  <2>1. B = A
    BY <1>3
  <2> HIDE DEF A, B
  <2>2. Cardinality(B) = Cardinality(A) + 0
    BY <1>1, <2>1
  <2> QED BY <1>3, <2>2 DEF A, B
<1> QED BY <1>2, <1>3

-----------------------------------------------------------------------------
(* The stack. *)

LEMMA OpensMore ==
    ASSUME NEW stack, NEW n \in Nat
    PROVE  /\ IsFiniteSet(Opens(stack, n)) /\ Cardinality(Opens(stack, n)) \in Nat
           /\ Cardinality(Opens(stack, n + 1))
                  = Cardinality(Opens(stack, n)) + One(stack[n + 1].state \in OpenStates)
<1> DEFINE S == {i \in Nat : stack[i].state \in OpenStates}
<1>1. /\ Opens(stack, n) = {i \in 1..n : i \in S} /\ Opens(stack, n + 1) = {i \in 1..(n + 1) : i \in S}
      /\ n + 1 \in S <=> stack[n + 1].state \in OpenStates
  BY DEF Opens
<1> HIDE DEF S
<1>2. IsFiniteSet({i \in 1..n : i \in S}) /\ Cardinality({i \in 1..n : i \in S}) \in Nat
  BY PlacesFinite
<1>3. Cardinality({i \in 1..(n + 1) : i \in S})
          = Cardinality({i \in 1..n : i \in S}) + IF n + 1 \in S THEN 1 ELSE 0
  BY PlacesMore
<1>4. (IF n + 1 \in S THEN 1 ELSE 0) = One(stack[n + 1].state \in OpenStates)
  BY <1>1 DEF One
<1> QED BY <1>1, <1>2, <1>3, <1>4

\* The same for what the tokens open and close.
LEMMA DepthMore ==
    ASSUME NEW ts, NEW n \in Nat
    PROVE  /\ Depth(ts, n) \in Int
           /\ Depth(ts, n + 1) = Depth(ts, n) + One(ts[n + 1].sym \in Opening) - One(ts[n + 1].sym \in Closing)
<1> DEFINE S == {i \in Nat : ts[i].sym \in Opening}
           T == {i \in Nat : ts[i].sym \in Closing}
           Count(m, U) == Cardinality({i \in 1..m : i \in U})
<1>1. /\ {i \in 1..n : ts[i].sym \in Opening} = {i \in 1..n : i \in S}
      /\ {i \in 1..n : ts[i].sym \in Closing} = {i \in 1..n : i \in T}
      /\ {i \in 1..(n + 1) : ts[i].sym \in Opening} = {i \in 1..(n + 1) : i \in S}
      /\ {i \in 1..(n + 1) : ts[i].sym \in Closing} = {i \in 1..(n + 1) : i \in T}
      /\ n + 1 \in S <=> ts[n + 1].sym \in Opening
      /\ n + 1 \in T <=> ts[n + 1].sym \in Closing
  OBVIOUS
<1> HIDE DEF S, T
<1>2. Depth(ts, n) = Count(n, S) - Count(n, T) /\ Depth(ts, n + 1) = Count(n + 1, S) - Count(n + 1, T)
  BY <1>1 DEF Depth
<1>3. Count(n, S) \in Nat /\ Count(n, T) \in Nat
  BY PlacesFinite
<1>4. /\ Count(n + 1, S) = Count(n, S) + IF n + 1 \in S THEN 1 ELSE 0
      /\ Count(n + 1, T) = Count(n, T) + IF n + 1 \in T THEN 1 ELSE 0
  BY PlacesMore
<1>5. /\ (IF n + 1 \in S THEN 1 ELSE 0) = One(ts[n + 1].sym \in Opening)
      /\ (IF n + 1 \in T THEN 1 ELSE 0) = One(ts[n + 1].sym \in Closing)
  BY <1>1 DEF One
<1>6. One(ts[n + 1].sym \in Opening) \in Int /\ One(ts[n + 1].sym \in Closing) \in Int
  BY DEF One
<1> HIDE DEF Count
<1> QED BY <1>2, <1>3, <1>4, <1>5, <1>6

\* What is not read does not count.
LEMMA DepthSame ==
    ASSUME NEW ts, NEW us, NEW n, \A i \in 1..n : ts[i] = us[i]
    PROVE  Depth(ts, n) = Depth(us, n)
<1>1. /\ {i \in 1..n : ts[i].sym \in Opening} = {i \in 1..n : us[i].sym \in Opening}
      /\ {i \in 1..n : ts[i].sym \in Closing} = {i \in 1..n : us[i].sym \in Closing}
  OBVIOUS
<1> QED BY <1>1 DEF Depth

\* Nothing is open where nothing is.
LEMMA NothingOpen == \A ts : Depth(ts, 0) = 0
<1> TAKE ts
<1>1. /\ {i \in 1..0 : ts[i].sym \in Opening} = {}
      /\ {i \in 1..0 : ts[i].sym \in Closing} = {}
  OBVIOUS
<1> QED BY <1>1, FS_EmptySet DEF Depth

\* The states on the stack.
LEMMA StackFacts ==
    ASSUME NEW stack, Linked(stack)
    PROVE  /\ Len(stack) \in Nat
           /\ \A i \in 1..Len(stack) : stack[i] \in Entries /\ stack[i].state \in States
           /\ Top(stack) \in States
<1>1. stack \in Seq(Entries) /\ Len(stack) >= 1 /\ Len(stack) \in Nat
  BY DEF Linked
<1>2. \A i \in 1..Len(stack) : stack[i] \in Entries
  BY <1>1
<1>3. \A e \in Entries : e.state \in States
  BY DEF Entries
<1>4. Len(stack) \in 1..Len(stack)
  BY <1>1
<1> QED BY <1>1, <1>2, <1>3, <1>4 DEF Top

\* Every place of the stack is as high as the height of its state allows.
LEMMA HeightOf ==
    ASSUME NEW stack, Linked(stack)
    PROVE  Len(stack) <= 7 + 6 * Cardinality(Opens(stack, Len(stack)))
<1> DEFINE n == Len(stack)
           O(i) == Cardinality(Opens(stack, i))
           H(i) == At(Height, stack[i].state)
           T == {i \in Nat : i + 1 <= n => i + 1 <= H(i + 1) + 6 * O(i + 1)}
<1>0. n \in Nat /\ n >= 1 /\ stack[1].state = 0
  BY StackFacts DEF Linked
<1>1. \A i \in Nat : O(i) \in Nat /\ O(i + 1) = O(i) + One(stack[i + 1].state \in OpenStates)
  BY OpensMore
<1>2. \A i \in 1..n : stack[i].state \in States /\ H(i) \in 0..7
  BY StackFacts, HeightsFit
<1>3. 0 \in T
  <2>1. H(1) = 1 /\ O(1) \in Nat
    BY <1>0, <1>1, HeightsFit
  <2> HIDE DEF H, O
  <2> QED BY <2>1
<1>4. ASSUME NEW i \in Nat, i \in T PROVE i + 1 \in T
  <2> DEFINE j == i + 1
  <2>0. j \in Nat /\ j >= 1
    OBVIOUS
  <2> SUFFICES ASSUME j + 1 <= n PROVE j + 1 <= H(j + 1) + 6 * O(j + 1)
    OBVIOUS
  <2>1. j + 1 \in 2..n /\ (j + 1) - 1 = j /\ j \in 1..n /\ j + 1 \in 1..n
    BY <1>0, <2>0
  <2>2. j <= H(j) + 6 * O(j)
    BY <1>4, <2>1
  <2>3. stack[j].state \in At(Below, stack[j + 1].state)
    BY <2>1 DEF Linked
  <2>4. H(j) + 1 <= H(j + 1) + IF stack[j + 1].state \in OpenStates THEN 6 ELSE 0
    BY <1>2, <2>1, <2>3, HeightsFit
  <2>5. O(j) \in Nat /\ O(j + 1) \in Nat /\ O(j + 1) = O(j) + One(stack[j + 1].state \in OpenStates)
    <3>1. j + 1 \in Nat
      BY <2>0
    <3> HIDE DEF O, j
    <3> QED BY <1>1, <2>0, <3>1
  <2>6. H(j) \in 0..7 /\ H(j + 1) \in 0..7
    BY <1>2, <2>1
  <2> HIDE DEF H, O, j
  <2>7. CASE stack[j + 1].state \in OpenStates
    <3>1. O(j + 1) = O(j) + 1 /\ H(j) + 1 <= H(j + 1) + 6
      BY <2>4, <2>5, <2>7 DEF One
    <3> QED BY <2>0, <2>2, <2>5, <2>6, <3>1
  <2>8. CASE stack[j + 1].state \notin OpenStates
    <3>1. O(j + 1) = O(j) /\ H(j) + 1 <= H(j + 1)
      BY <2>4, <2>5, <2>6, <2>8 DEF One
    <3> QED BY <2>0, <2>2, <2>5, <2>6, <3>1
  <2> QED BY <2>7, <2>8
<1> HIDE DEF T
<1>5. n - 1 \in T
  BY <1>0, <1>3, <1>4, SetInduction
<1>6. n <= H(n) + 6 * O(n)
  <2>1. (n - 1) + 1 = n /\ n - 1 \in Nat /\ n <= n
    BY <1>0
  <2> HIDE DEF H, O, n
  <2> QED BY <1>5, <2>1 DEF T
<1>7. H(n) \in 0..7 /\ O(n) \in Nat
  <2>1. n \in 1..n
    BY <1>0
  <2> HIDE DEF H, O, n
  <2> QED BY <1>0, <1>1, <1>2, <2>1
<1> HIDE DEF H, O
<1>8. n <= 7 + 6 * O(n)
  BY <1>0, <1>6, <1>7
<1> QED BY <1>8 DEF O

\* The states below the top are those the tables know of.
LEMMA BeneathTop ==
    ASSUME NEW stack, Linked(stack), NEW k \in 0..5, k < Len(stack)
    PROVE  stack[Len(stack) - k].state \in Beneath(Top(stack), k)
<1> DEFINE n == Len(stack)
           q == Top(stack)
           U(S) == Under(S)
<1>0. n \in Nat
  BY StackFacts
<1>1. ASSUME NEW S, NEW i \in 2..n, stack[i].state \in S PROVE stack[i - 1].state \in Under(S)
  <2>1. stack[i - 1].state \in At(Below, stack[i].state)
    BY DEF Linked
  <2> QED BY <1>1, <2>1, Zenon DEF Under
<1>2. stack[n].state \in {q}
  BY DEF Top
<1> HIDE DEF n, q
<1>3. k >= 1 => stack[n - 1].state \in Under({q})
  <2>1. k >= 1 => n \in 2..n
    BY <1>0 DEF n
  <2> QED BY <1>1, <1>2, <2>1
<1>4. k >= 2 => stack[n - 2].state \in Under(Under({q}))
  <2>1. k >= 2 => n - 1 \in 2..n /\ (n - 1) - 1 = n - 2
    BY <1>0 DEF n
  <2> QED BY <1>1, <1>3, <2>1
<1>5. k >= 3 => stack[n - 3].state \in Under(Under(Under({q})))
  <2>1. k >= 3 => n - 2 \in 2..n /\ (n - 2) - 1 = n - 3
    BY <1>0 DEF n
  <2> QED BY <1>1, <1>4, <2>1
<1>6. k >= 4 => stack[n - 4].state \in Under(Under(Under(Under({q}))))
  <2>1. k >= 4 => n - 3 \in 2..n /\ (n - 3) - 1 = n - 4
    BY <1>0 DEF n
  <2> QED BY <1>1, <1>5, <2>1
<1>7. k >= 5 => stack[n - 5].state \in Under(Under(Under(Under(Under({q})))))
  <2>1. k >= 5 => n - 4 \in 2..n /\ (n - 4) - 1 = n - 5
    BY <1>0 DEF n
  <2> QED BY <1>1, <1>6, <2>1
<1>8. CASE k = 0
  BY <1>0, <1>2, <1>8 DEF Beneath, n, q
<1>9. CASE k = 1
  BY <1>3, <1>9 DEF Beneath, n, q
<1>10. CASE k = 2
  BY <1>4, <1>10 DEF Beneath, n, q
<1>11. CASE k = 3
  BY <1>5, <1>11 DEF Beneath, n, q
<1>12. CASE k = 4
  BY <1>6, <1>12 DEF Beneath, n, q
<1>13. CASE k = 5
  BY <1>7, <1>13 DEF Beneath, n, q
<1> QED BY <1>8, <1>9, <1>10, <1>11, <1>12, <1>13

\* The symbols of a rule are there.
LEMMA SymbolsThere ==
    ASSUME NEW stack, Linked(stack), Top(stack) # YYFINAL, At(yydefact, Top(stack)) # 0
    PROVE  LET size == At(yyr2, At(yydefact, Top(stack)))
           IN  size \in 0..5 /\ size < Len(stack)
<1> DEFINE q == Top(stack)
           size == At(yyr2, At(yydefact, q))
<1>1. q \in States \ {YYFINAL} /\ Len(stack) \in Nat /\ Len(stack) >= 1 /\ stack[1].state = 0
  BY StackFacts DEF Linked
<1>2. size \in 0..5 /\ \A k \in 0..(size - 1) : 0 \notin Beneath(q, k)
  BY <1>1, ReducesFit
<1> HIDE DEF size, q
<1>3. ASSUME Len(stack) <= size PROVE FALSE
  <2> DEFINE n == Len(stack)
             k == n - 1
  <2>0. n \in Nat /\ n >= 1 /\ size \in 0..5 /\ n <= size
    BY <1>1, <1>2, <1>3
  <2>1. k \in 0..5 /\ k < Len(stack) /\ Len(stack) - k = 1 /\ k \in 0..(size - 1)
    <3> HIDE DEF n
    <3>1. k \in 0..5 /\ k < n /\ n - k = 1 /\ k \in 0..(size - 1)
      BY <2>0
    <3> QED BY <3>1 DEF n
  <2> HIDE DEF k
  <2>2. stack[Len(stack) - k].state \in Beneath(q, k)
    BY <2>1, BeneathTop DEF q
  <2> QED BY <1>1, <1>2, <2>1, <2>2
<1> QED BY <1>1, <1>2, <1>3 DEF size, q

\* Pushing a state that may be on top.
LEMMA LinkedPush ==
    ASSUME NEW stack, Linked(stack), NEW e \in Entries, Top(stack) \in At(Below, e.state)
    PROVE  LET new == Append(stack, e)
           IN  /\ Linked(new) /\ Len(new) = Len(stack) + 1 /\ Top(new) = e.state
               /\ Cardinality(Opens(new, Len(new)))
                      = Cardinality(Opens(stack, Len(stack))) + One(e.state \in OpenStates)
<1> DEFINE new == Append(stack, e)
           n == Len(stack)
<1>1. stack \in Seq(Entries) /\ n \in Nat /\ n >= 1
  BY StackFacts DEF Linked
<1>2. /\ new \in Seq(Entries) /\ Len(new) = n + 1 /\ new[n + 1] = e
      /\ \A i \in 1..n : new[i] = stack[i]
  BY <1>1, AppendFacts
<1> HIDE DEF new
<1>3. Top(new) = e.state
  BY <1>2 DEF Top
<1>4. Linked(new)
  <2>1. new[1].state = 0
    BY <1>1, <1>2 DEF Linked
  <2>2. ASSUME NEW i \in 2..Len(new) PROVE new[i - 1].state \in At(Below, new[i].state)
    <3>1. CASE i = n + 1
      <4>1. new[i - 1] = stack[n] /\ new[i] = e
        BY <1>1, <1>2, <3>1
      <4> QED BY <4>1 DEF Top
    <3>2. CASE i \in 2..n
      <4>1. new[i - 1] = stack[i - 1] /\ new[i] = stack[i]
        BY <1>1, <1>2, <3>2
      <4> QED BY <3>2, <4>1 DEF Linked
    <3> QED BY <1>1, <1>2, <3>1, <3>2
  <2> QED BY <1>1, <1>2, <2>1, <2>2 DEF Linked
<1>5. Opens(new, n) = Opens(stack, n)
  BY <1>2 DEF Opens
<1>6. Cardinality(Opens(new, n + 1)) = Cardinality(Opens(new, n)) + One(new[n + 1].state \in OpenStates)
  BY <1>1, OpensMore
<1> QED BY <1>2, <1>3, <1>4, <1>5, <1>6 DEF new

\* Taking states off it.
LEMMA LinkedPop ==
    ASSUME NEW stack, Linked(stack), NEW m \in 1..Len(stack)
    PROVE  LET rest == SubSeq(stack, 1, m)
           IN  /\ Linked(rest) /\ Len(rest) = m /\ Top(rest) = stack[m].state
               /\ Opens(rest, m) = Opens(stack, m)
<1> DEFINE rest == SubSeq(stack, 1, m)
<1>1. stack \in Seq(Entries) /\ Len(stack) \in Nat
  BY DEF Linked
<1>2. rest \in Seq(Entries) /\ Len(rest) = m /\ \A i \in 1..m : rest[i] = stack[i]
  BY <1>1, PrefixFacts
<1> HIDE DEF rest
<1>3. Top(rest) = stack[m].state /\ rest[1].state = 0
  BY <1>1, <1>2 DEF Top, Linked
<1>4. ASSUME NEW i \in 2..m PROVE rest[i - 1].state \in At(Below, rest[i].state)
  <2>1. rest[i - 1] = stack[i - 1] /\ rest[i] = stack[i] /\ i \in 2..Len(stack)
    BY <1>1, <1>2
  <2> QED BY <2>1 DEF Linked
<1>5. Linked(rest)
  BY <1>2, <1>3, <1>4 DEF Linked
<1>6. Opens(rest, m) = Opens(stack, m)
  BY <1>2 DEF Opens
<1> QED BY <1>2, <1>3, <1>5, <1>6 DEF rest

\* A reduction: the state for the left side is on top, and an aggregate that has
\* ended is no longer there.
LEMMA LinkedReduce ==
    ASSUME NEW stack, Linked(stack), Top(stack) # YYFINAL, At(yydefact, Top(stack)) # 0
    PROVE  LET rule == At(yydefact, Top(stack))
               size == At(yyr2, rule)
               rest == SubSeq(stack, 1, Len(stack) - size)
               goto == GotoFrom(rest[Len(rest)].state, rule)
               new == Append(rest, [state |-> goto, yyval |-> 0])
           IN  /\ Linked(new) /\ Len(new) <= Len(stack) + 1
               /\ Top(new) \notin {YYFINAL} \cup StringStates \cup OpenStates \cup CloseStates
               /\ Cardinality(Opens(new, Len(new)))
                      = Cardinality(Opens(stack, Len(stack))) - One(Top(stack) \in CloseStates)
<1> DEFINE q == Top(stack)
           rule == At(yydefact, q)
           size == At(yyr2, rule)
           n == Len(stack)
           m == n - size
           rest == SubSeq(stack, 1, m)
           goto == GotoFrom(rest[Len(rest)].state, rule)
           e == [state |-> goto, yyval |-> 0]
           new == Append(rest, e)
<1>1. q \in States \ {YYFINAL} /\ n \in Nat
  BY StackFacts
<1>2. size \in 0..5 /\ size < n
  BY SymbolsThere
<1>3. /\ \A k \in 0..(size - 1) : IF q \in CloseStates /\ k = 3 THEN Beneath(q, k) \subseteq OpenStates
                                  ELSE Beneath(q, k) \cap OpenStates = {}
      /\ q \in CloseStates => size = 4
      /\ \A p \in Beneath(q, size) :
             /\ GotoFrom(p, rule) \in States \ ({YYFINAL} \cup StringStates \cup OpenStates \cup CloseStates)
             /\ p \in At(Below, GotoFrom(p, rule))
  BY <1>1, ReducesFit
<1>4. \A k \in 0..size : stack[n - k].state \in Beneath(q, k)
  <2> TAKE k \in 0..size
  <2>1. k \in 0..5 /\ k < n
    BY <1>1, <1>2
  <2> QED BY <2>1, BeneathTop
<1>5. m \in 1..n
  BY <1>1, <1>2
<1> HIDE DEF size, q
<1>6. Linked(rest) /\ Len(rest) = m /\ Top(rest) = stack[m].state /\ Opens(rest, m) = Opens(stack, m)
  BY <1>5, LinkedPop
<1> HIDE DEF rest
<1>7. Top(rest) \in Beneath(q, size) /\ goto = GotoFrom(Top(rest), rule)
  <2>1. size \in 0..size
    BY <1>2
  <2> QED BY <1>4, <1>6, <2>1 DEF Top
<1> HIDE DEF goto, rule
<1>8. /\ goto \in States \ ({YYFINAL} \cup StringStates \cup OpenStates \cup CloseStates)
      /\ Top(rest) \in At(Below, goto)
  BY <1>3, <1>7
<1>9. e \in Entries /\ e.state = goto
  BY <1>8 DEF Entries
<1> HIDE DEF e
<1>10. /\ Linked(new) /\ Len(new) = Len(rest) + 1 /\ Top(new) = goto
       /\ Cardinality(Opens(new, Len(new))) = Cardinality(Opens(rest, Len(rest))) + One(goto \in OpenStates)
  BY <1>6, <1>8, <1>9, LinkedPush
<1> HIDE DEF new
<1>11. Cardinality(Opens(new, Len(new))) = Cardinality(Opens(stack, m))
  <2>1. One(goto \in OpenStates) = 0
    BY <1>8 DEF One
  <2>2. Cardinality(Opens(stack, m)) \in Nat
    BY <1>5, OpensMore
  <2> QED BY <1>6, <1>10, <2>1, <2>2
<1>12. Cardinality(Opens(stack, m)) = Cardinality(Opens(stack, n)) - One(q \in CloseStates)
  <2>0. \A i \in (m + 1)..n : n - i \in 0..(size - 1) /\ n - (n - i) = i
    BY <1>1, <1>2
  <2>1. CASE q \notin CloseStates
    <3>1. ASSUME NEW i \in (m + 1)..n PROVE stack[i].state \notin OpenStates
      <4>1. n - i \in 0..size /\ n - i \in 0..(size - 1) /\ n - (n - i) = i
        BY <1>2, <2>0
      <4> QED BY <1>3, <1>4, <2>1, <4>1
    <3>2. Opens(stack, n) = Opens(stack, m)
      BY <1>1, <1>5, <3>1 DEF Opens
    <3>3. Cardinality(Opens(stack, m)) \in Nat /\ One(q \in CloseStates) = 0
      BY <1>5, <2>1, OpensMore DEF One
    <3> QED BY <3>2, <3>3
  <2>2. CASE q \in CloseStates
    <3>0. size = 4 /\ m + 1 = n - 3 /\ m + 1 \in 1..n /\ m \in Nat
      BY <1>1, <1>3, <1>5, <2>2
    <3>1. ASSUME NEW i \in (m + 2)..n PROVE stack[i].state \notin OpenStates
      <4>1. n - i \in 0..size /\ n - i \in 0..(size - 1) /\ n - (n - i) = i /\ n - i # 3
        <5>1. n \in Nat /\ size = 4 /\ m + 2 = n - 2
          BY <1>1, <3>0
        <5>2. i \in (n - 2)..n
          BY <5>1
        <5> HIDE DEF m, n
        <5> QED BY <5>1, <5>2
      <4> QED BY <1>3, <1>4, <4>1
    <3>2. Opens(stack, n) = Opens(stack, m + 1)
      BY <1>1, <3>0, <3>1 DEF Opens
    <3>3. stack[m + 1].state \in OpenStates
      <4>1. 3 \in 0..size /\ 3 \in 0..(size - 1)
        BY <3>0
      <4> QED BY <1>3, <1>4, <2>2, <3>0, <4>1
    <3>4. One(stack[m + 1].state \in OpenStates) = 1 /\ One(q \in CloseStates) = 1
      BY <2>2, <3>3 DEF One
    <3>5. /\ Cardinality(Opens(stack, m)) \in Nat
          /\ Cardinality(Opens(stack, m + 1)) = Cardinality(Opens(stack, m)) + 1
      BY <3>0, <3>4, OpensMore
    <3> QED BY <3>2, <3>4, <3>5
  <2> QED BY <2>1, <2>2
<1>13. Len(new) <= n + 1
  BY <1>1, <1>5, <1>6, <1>10
<1> QED BY <1>8, <1>10, <1>11, <1>12, <1>13 DEF new, e, goto, rest, size, rule, q

-----------------------------------------------------------------------------
(* The steps. *)

\* A push makes the parser give up, accept, or go on with room to spare.
LEMMA PushCases ==
    ASSUME NEW stack, Len(stack) \in Nat, yystacksize \in Nat, 2 <= yystacksize,
           Len(stack) <= yystacksize, Push(stack)
    PROVE  /\ yystacksize' \in Nat
           /\ \/ YYMAXDEPTH <= Len(stack) /\ Returns(2, yyerror(c, "memory exhausted"))
              \/ Top(stack) = YYFINAL /\ Returns(0, c)
              \/ /\ Top(stack) # YYFINAL /\ yystack' = stack /\ UNCHANGED <<c, rpc, yyresult>>
                 /\ 2 <= yystacksize' /\ Len(stack) < yystacksize'
<1> DEFINE doubled == IF 2 * yystacksize > YYMAXDEPTH THEN YYMAXDEPTH ELSE 2 * yystacksize
           full == Len(stack) >= yystacksize
           size == IF full THEN doubled ELSE yystacksize
<1>1. \/ /\ full /\ YYMAXDEPTH <= yystacksize
         /\ Returns(2, yyerror(c, "memory exhausted"))
         /\ yystacksize' = yystacksize
      \/ /\ ~ (full /\ YYMAXDEPTH <= yystacksize)
         /\ yystacksize' = size
         /\ IF full /\ Len(stack) >= size THEN Returns(1, c)
            ELSE IF Top(stack) = YYFINAL THEN Returns(0, c)
            ELSE yystack' = stack /\ UNCHANGED <<c, rpc, yyresult>>
  BY Zenon DEF Push, StackFull, Top
<1>2. CASE ~ (full /\ YYMAXDEPTH <= yystacksize)
  <2>1. size \in Nat /\ 2 <= size /\ Len(stack) < size
    BY <1>2, Constants
  <2>2. ~ (Len(stack) >= size)
    BY <2>1
  <2> HIDE DEF size, full
  <2>3. yystacksize' = size
    BY <1>1, <1>2, Zenon
  <2>4. \/ Top(stack) = YYFINAL /\ Returns(0, c)
        \/ Top(stack) # YYFINAL /\ yystack' = stack /\ UNCHANGED <<c, rpc, yyresult>>
    BY <1>1, <1>2, <2>2, Zenon
  <2> QED BY <2>1, <2>3, <2>4, Zenon
<1>3. CASE full /\ YYMAXDEPTH <= yystacksize
  <2>1. YYMAXDEPTH <= Len(stack)
    BY <1>3, Constants
  <2> QED BY <1>1, <1>3, <2>1, Zenon
<1> QED BY <1>2, <1>3

LEMMA ConfigFields ==
    /\ "error_text" \in DOMAIN config_t /\ "error_line" \in DOMAIN config_t /\ "error_type" \in DOMAIN config_t
    /\ config_t.error_text = "none" /\ config_t.error_type = "NONE"
BY DEF config_t

\* An error is reported with the line of the last token, unless the scanner has
\* reported one.
LEMMA Fails ==
    ASSUME ParserInv, Parsing, toks # << >>, NEW text, text # "none", NEW result \in {1, 2},
           Returns(result, yyerror(c, text)), UNCHANGED <<input, toks>>,
           yychar' \in {<< >>, yychar}, yystacksize' \in Nat, strings' \in Nat,
           result = 2 => \E k \in 0..Len(toks) : YYMAXDEPTH <= 7 + 6 * Depth(toks, k)
    PROVE  ParserInv'
<1> DEFINE conf == yyerror(c, text)
<1>1. /\ rpc' = "read" /\ yyresult' = result /\ yystack' = << >>
      /\ c' = [conf EXCEPT !.error_type = "PARSE"] /\ result # 0
  BY DEF Returns
<1>2. TypeOK /\ ErrorsHeld
  BY DEF ParserInv, ParsingInv
<1>3. DOMAIN c = DOMAIN config_t /\ toks \in Seq(Tokens)
  BY <1>2 DEF TypeOK
<1>4. Line = toks[Len(toks)].line
  BY DEF Line
<1>5. /\ DOMAIN conf = DOMAIN config_t
      /\ conf.error_text # "none" /\ conf.error_line = toks[Len(toks)].line
      /\ Ahead(TOK_ERROR) => conf.error_text = "cannot open include file"
  <2>1. CASE c.error_text # "none"
    <3>1. conf = c
      BY <2>1 DEF yyerror
    <3> HIDE DEF conf
    <3> QED BY <1>2, <1>3, <2>1, <3>1 DEF ErrorsHeld
  <2>2. CASE c.error_text = "none"
    <3> DEFINE x1 == [c EXCEPT !.error_line = Line]
               x2 == [x1 EXCEPT !.error_text = text]
    <3>1. conf = x2 /\ ~ Ahead(TOK_ERROR)
      BY <1>2, <2>2 DEF yyerror, ErrorsHeld
    <3>2. DOMAIN x1 = DOMAIN config_t /\ x1.error_line = Line
      BY <1>3, ConfigFields
    <3> HIDE DEF x1
    <3>3. DOMAIN x2 = DOMAIN config_t /\ x2.error_line = Line /\ x2.error_text = text
      BY <3>2, ConfigFields
    <3> HIDE DEF x2, conf
    <3> QED BY <1>4, <3>1, <3>3
  <2> QED BY <2>1, <2>2
<1> HIDE DEF conf
<1>6. /\ DOMAIN c' = DOMAIN config_t /\ c'.error_type = "PARSE"
      /\ c'.error_text = conf.error_text /\ c'.error_line = conf.error_line
  BY <1>1, <1>5, ConfigFields
<1>7. FirstErrorReported'
  <2>1. (\E i \in 1..Len(toks) : toks[i].sym = TOK_ERROR) => Ahead(TOK_ERROR)
    BY <1>2, <1>3 DEF ErrorsHeld, Ahead
  <2> QED BY <1>1, <1>5, <1>6, <2>1 DEF FirstErrorReported
<1>8. TypeOK'
  <2>1. yychar' # << >> => toks' # << >> /\ yychar' = <<toks'[Len(toks')]>>
    BY <1>2 DEF TypeOK
  <2> QED BY <1>1, <1>2, <1>6, <2>1 DEF TypeOK
<1>9. StringsFreed'
  BY <1>1 DEF StringsFreed
<1>10. ~ Parsing' /\ rpc' # "called"
  BY <1>1 DEF Parsing
<1>11. yyresult' = 2 => \E k \in 0..Len(toks') : YYMAXDEPTH <= 7 + 6 * Depth(toks', k)
  BY <1>1
<1> QED BY <1>7, <1>8, <1>9, <1>10, <1>11 DEF ParserInv

\* Nothing is wrong with what is accepted.
LEMMA Accepts ==
    ASSUME ParserInv, Parsing, yychar # << >>, ~ Ahead(TOK_ERROR),
           Returns(0, c), UNCHANGED <<input, toks>>,
           yychar' = << >>, yystacksize' \in Nat, strings' = 0
    PROVE  ParserInv'
<1>1. rpc' = "read" /\ yyresult' = 0 /\ yystack' = << >> /\ c' = c
  BY DEF Returns
<1>2. TypeOK /\ ErrorsHeld
  BY DEF ParserInv, ParsingInv
<1>3. ~ \E i \in 1..Len(toks) : toks[i].sym = TOK_ERROR
  BY <1>2 DEF ErrorsHeld, Ahead
<1>4. FirstErrorReported'
  BY <1>1, <1>2, <1>3 DEF ErrorsHeld, FirstErrorReported
<1>5. TypeOK'
  BY <1>1, <1>2 DEF TypeOK
<1>6. StringsFreed'
  BY <1>1 DEF StringsFreed
<1>7. ~ Parsing' /\ rpc' # "called" /\ yyresult' # 2
  BY <1>1 DEF Parsing
<1> QED BY <1>4, <1>5, <1>6, <1>7 DEF ParserInv

\* What a step that goes on leaves alone.
LEMMA GoesOn ==
    ASSUME ParserInv, Parsing, UNCHANGED <<input, rpc, yyresult, toks>>,
           yychar' \in {<< >>, yychar}, DOMAIN c' = DOMAIN config_t, yystacksize' \in Nat, ParsingInv'
    PROVE  ParserInv'
<1>1. TypeOK /\ yyresult = -1
  BY DEF ParserInv, ParsingInv
<1>2. TypeOK'
  BY <1>1 DEF TypeOK, Parsing
<1>3. Parsing' /\ rpc' # "called" /\ rpc' # "read" /\ yyresult' = -1
  BY <1>1 DEF Parsing
<1>4. StringsFreed'
  <2>1. strings' = One(Ahead(TOK_STRING)') + One((Top(yystack) \in StringStates)')
    BY DEF ParsingInv, StringsHeld
  <2> QED BY <1>3, <2>1 DEF StringsFreed, One
<1>5. FirstErrorReported'
  BY <1>3 DEF FirstErrorReported
<1> QED BY <1>2, <1>3, <1>4, <1>5 DEF ParserInv

\* What is known while the parser decides.
LEMMA DecidedFacts ==
    ASSUME ParserInv, Decided
    PROVE  /\ Parsing /\ ParsingInv /\ TypeOK /\ toks # << >>
           /\ State = Top(yystack) /\ State \in States \ {YYFINAL}
           /\ Len(yystack) \in Nat /\ Len(yystack) < yystacksize /\ Len(toks) \in Nat
           /\ yychar # << >> => /\ yychar[1] = toks[Len(toks)] /\ yychar[1].sym \in Symbols
                                /\ yychar[1].val \in Vals
<1>1. Parsing /\ ParsingInv /\ TypeOK
  BY DEF Decided, ParserInv
<1>2. State = Top(yystack) /\ State \in States \ {YYFINAL}
  BY <1>1, StackFacts DEF ParsingInv, State, Top
<1>3. Len(yystack) \in Nat /\ Len(yystack) < yystacksize /\ Len(toks) \in Nat
  BY <1>1, StackFacts DEF ParsingInv, TypeOK
<1>4. toks # << >>
  <2> SUFFICES ASSUME toks = << >> PROVE FALSE
    OBVIOUS
  <2>1. Len(yystack) = 1 /\ yystack[1].state = 0 /\ yychar = << >>
    BY <1>1 DEF ParsingInv, Linked, TypeOK
  <2>2. DefaultState(0)
    BY <2>1 DEF Decided, IsDefault, State
  <2> QED BY <2>2, StatesDecide
<1>5. ASSUME yychar # << >>
      PROVE  yychar[1] = toks[Len(toks)] /\ yychar[1].sym \in Symbols /\ yychar[1].val \in Vals
  <2>1. yychar = <<toks[Len(toks)]>> /\ toks \in Seq(Tokens)
    BY <1>1, <1>5 DEF TypeOK
  <2>2. Len(toks) \in 1..Len(toks)
    BY <1>3, <1>4, <2>1
  <2>3. toks[Len(toks)] \in Tokens
    BY <2>1, <2>2
  <2> QED BY <2>1, <2>3 DEF Tokens
<1> QED BY <1>1, <1>2, <1>3, <1>4, <1>5

LEMMA SyntaxErrorKeeps == ParserInv /\ SyntaxError /\ UNCHANGED input => ParserInv'
<1> SUFFICES ASSUME ParserInv, SyntaxError, UNCHANGED input PROVE ParserInv'
  OBVIOUS
<1>1. /\ Decided /\ Returns(1, yyerror(c, "syntax error")) /\ UNCHANGED <<input, toks>>
      /\ yystacksize' = yystacksize /\ yychar' = yychar /\ strings' = strings
  BY DEF SyntaxError
<1>2. Parsing /\ ParsingInv /\ TypeOK /\ toks # << >>
  BY <1>1, DecidedFacts
<1>3. strings \in Nat
  BY <1>2 DEF ParsingInv, StringsHeld, One
<1>4. yystacksize \in Nat
  BY <1>2 DEF TypeOK
<1>5. "syntax error" # "none" /\ 1 \in {1, 2} /\ 1 # 2
  OBVIOUS
<1> QED BY <1>1, <1>2, <1>3, <1>4, <1>5, Fails

\* A shift of the lookahead: the state tells the symbol, and holds what it held.
LEMMA ShiftKeeps == ParserInv /\ Shift /\ UNCHANGED input => ParserInv'
<1> SUFFICES ASSUME ParserInv, Shift, UNCHANGED input PROVE ParserInv'
  OBVIOUS
<1> DEFINE tok == toks[Len(toks)]
           e == [state |-> ShiftTo, yyval |-> yychar[1].val]
           new == Append(yystack, e)
<1>1. /\ Decided /\ ShiftTo # 0 /\ Push(new)
      /\ yychar' = << >> /\ UNCHANGED <<toks, strings>>
  BY DEF Shift
<1>2. /\ Parsing /\ ParsingInv /\ TypeOK /\ toks # << >>
      /\ State = Top(yystack) /\ State \in States
      /\ Len(yystack) \in Nat /\ Len(yystack) < yystacksize /\ Len(toks) \in Nat
  BY <1>1, DecidedFacts
<1>3. ~ IsDefault /\ ~ DefaultState(State) /\ yychar # << >> /\ ShiftTo = ShiftFrom(State, yychar[1].sym)
  BY <1>1 DEF ShiftTo, Decided, IsDefault
<1>4. yychar[1] = tok /\ tok.sym \in Symbols /\ yychar[1].val \in Vals
  BY <1>1, <1>3, DecidedFacts
<1>5. /\ ShiftTo \in States /\ State \in At(Below, ShiftTo)
      /\ ShiftTo = YYFINAL <=> tok.sym = TOK_EOF
      /\ ShiftTo \in StringStates <=> tok.sym = TOK_STRING
      /\ ShiftTo \in OpenStates <=> tok.sym \in Opening
      /\ ShiftTo \in CloseStates <=> tok.sym \in Closing
      /\ tok.sym # TOK_ERROR
  <2> DEFINE q == ShiftFrom(State, tok.sym)
  <2>1. ShiftTo = q /\ q # 0
    BY <1>1, <1>3, <1>4
  <2> HIDE DEF tok
  <2>2. /\ q \in States /\ State \in At(Below, q)
        /\ q = YYFINAL <=> tok.sym = TOK_EOF
        /\ q \in StringStates <=> tok.sym = TOK_STRING
        /\ q \in OpenStates <=> tok.sym \in Opening
        /\ q \in CloseStates <=> tok.sym \in Closing
        /\ tok.sym # TOK_ERROR
    BY <1>2, <1>4, <2>1, ShiftsFit, Zenon
  <2> QED BY <2>1, <2>2, Zenon
<1>6. State \notin StringStates /\ State \notin CloseStates
  BY <1>3, StatesDecide
<1>7. e \in Entries /\ e.state = ShiftTo
  BY <1>4, <1>5 DEF Entries
<1> HIDE DEF e, tok
<1>8. Linked(yystack) /\ Top(yystack) \in At(Below, e.state) /\ yystacksize \in Nat /\ 2 <= yystacksize
  BY <1>2, <1>5, <1>7 DEF ParsingInv, TypeOK
<1>9. /\ Linked(new) /\ Len(new) = Len(yystack) + 1 /\ Top(new) = ShiftTo
      /\ Cardinality(Opens(new, Len(new)))
             = Cardinality(Opens(yystack, Len(yystack))) + One(ShiftTo \in OpenStates)
  BY <1>7, <1>8, LinkedPush
<1> DEFINE n == Cardinality(Opens(yystack, Len(yystack)))
           now == Cardinality(Opens(new, Len(new)))
<1> HIDE DEF new
<1>10. /\ Depth(toks, Len(toks)) = n + One(tok.sym \in Opening) - One(tok.sym \in Closing)
       /\ \E k \in 0..Len(toks) : n <= Depth(toks, k)
       /\ n \in Nat
  <2>1. (\E sym \in Opening : Ahead(sym)) <=> tok.sym \in Opening
    BY <1>3 DEF Ahead, tok
  <2>2. (\E sym \in Closing : Ahead(sym)) <=> tok.sym \in Closing
    BY <1>3 DEF Ahead, tok
  <2>3. One(Top(yystack) \in CloseStates) = 0
    BY <1>2, <1>6 DEF One
  <2>4. n \in Nat
    BY <1>2, OpensMore
  <2>5. /\ Depth(toks, Len(toks)) = n - One(Top(yystack) \in CloseStates)
                                      + One(\E sym \in Opening : Ahead(sym)) - One(\E sym \in Closing : Ahead(sym))
        /\ \E k \in 0..Len(toks) : n <= Depth(toks, k)
    BY <1>2 DEF ParsingInv, NestingHeld
  <2>6. /\ One(\E sym \in Opening : Ahead(sym)) = One(tok.sym \in Opening)
        /\ One(\E sym \in Closing : Ahead(sym)) = One(tok.sym \in Closing)
    BY <2>1, <2>2 DEF One
  <2> HIDE DEF n
  <2>7. n - 0 = n
    BY <2>4
  <2> QED BY <2>3, <2>4, <2>5, <2>6, <2>7
<1>11. /\ Depth(toks, Len(toks)) = now - One(ShiftTo \in CloseStates)
       /\ \E k \in 0..Len(toks) : now <= Depth(toks, k)
  <2> HIDE DEF n, now
  <2>0. now = n + One(ShiftTo \in OpenStates)
    BY <1>9 DEF n, now
  <2>1. CASE tok.sym \in Opening
    <3>1. tok.sym \notin Closing
      BY <2>1, SymbolFacts
    <3>2. now = n + 1 /\ Depth(toks, Len(toks)) = n + 1 /\ One(ShiftTo \in CloseStates) = 0
      BY <1>5, <1>10, <2>0, <2>1, <3>1 DEF One
    <3>3. Len(toks) \in 0..Len(toks)
      BY <1>2
    <3>4. now <= Depth(toks, Len(toks))
      BY <1>10, <3>2
    <3> QED BY <1>10, <3>2, <3>3, <3>4
  <2>2. CASE tok.sym \notin Opening
    <3>1. now = n /\ Depth(toks, Len(toks)) = n - One(ShiftTo \in CloseStates)
      BY <1>5, <1>10, <2>0, <2>2 DEF One
    <3> QED BY <1>10, <3>1
  <2> QED BY <2>1, <2>2
<1>12. Len(new) \in Nat /\ Len(new) <= yystacksize
  BY <1>2, <1>8, <1>9
<1>13. strings = One(ShiftTo \in StringStates)
  <2>1. Ahead(TOK_STRING) <=> ShiftTo \in StringStates
    BY <1>3, <1>5 DEF Ahead, tok
  <2>2. strings = One(Ahead(TOK_STRING)) + One(Top(yystack) \in StringStates)
    BY <1>2 DEF ParsingInv, StringsHeld
  <2> QED BY <1>2, <1>6, <2>1, <2>2 DEF One
<1>14. yychar' \in {<< >>, yychar} /\ UNCHANGED <<input, toks>> /\ strings' \in Nat /\ ~ Ahead(TOK_ERROR)
  BY <1>1, <1>5, <1>13 DEF One, Ahead, tok
<1>15. yystacksize' \in Nat
  BY <1>1, <1>8, <1>12, PushCases
<1>16. CASE YYMAXDEPTH <= Len(new) /\ Returns(2, yyerror(c, "memory exhausted"))
  <2>1. Len(new) <= 7 + 6 * now
    BY <1>9, HeightOf
  <2>2. \E k \in 0..Len(toks) : YYMAXDEPTH <= 7 + 6 * Depth(toks, k)
    <3>1. PICK k \in 0..Len(toks) : now <= Depth(toks, k)
      BY <1>11
    <3>2. Depth(toks, k) \in Int /\ now \in Nat
      BY <1>2, <1>12, DepthMore, OpensMore
    <3>3. YYMAXDEPTH <= Len(new) /\ YYMAXDEPTH \in Nat
      BY <1>16, Constants, Zenon
    <3>4. YYMAXDEPTH <= 7 + 6 * Depth(toks, k)
      <4> HIDE DEF now
      <4> QED BY <1>12, <2>1, <3>1, <3>2, <3>3
    <3> QED BY <3>4
  <2>3. "memory exhausted" # "none" /\ 2 \in {1, 2}
    OBVIOUS
  <2> QED BY <1>2, <1>14, <1>15, <1>16, <2>2, <2>3, Fails
<1>17. CASE Top(new) = YYFINAL /\ Returns(0, c)
  <2>1. tok.sym = TOK_EOF
    BY <1>5, <1>9, <1>17
  <2>2. ShiftTo \notin StringStates
    BY <1>5, <2>1, SymbolFacts
  <2>3. strings' = 0
    BY <1>1, <1>13, <2>2 DEF One
  <2> QED BY <1>1, <1>2, <1>3, <1>14, <1>15, <1>17, <2>3, Accepts
<1>18. CASE /\ Top(new) # YYFINAL /\ yystack' = new /\ UNCHANGED <<c, rpc, yyresult>>
            /\ 2 <= yystacksize' /\ Len(new) < yystacksize'
  <2>1. \A sym : ~ Ahead(sym)'
    BY <1>1 DEF Ahead
  <2>2. StringsHeld'
    BY <1>1, <1>9, <1>13, <1>18, <2>1 DEF StringsHeld, One
  <2>3. NestingHeld'
    <3>1. One((\E sym \in Opening : Ahead(sym))') = 0 /\ One((\E sym \in Closing : Ahead(sym))') = 0
      BY <2>1 DEF One
    <3>2. /\ Depth(toks, Len(toks)) = now - One(ShiftTo \in CloseStates)
          /\ now \in Nat /\ One(ShiftTo \in CloseStates) \in Nat
      BY <1>11, <1>12, OpensMore DEF One
    <3>3. Depth(toks, Len(toks)) = now - One(ShiftTo \in CloseStates) + 0 - 0
      <4> HIDE DEF now
      <4> QED BY <3>2
    <3> QED BY <1>1, <1>9, <1>11, <1>18, <3>1, <3>3 DEF NestingHeld
  <2>4. ErrorsHeld'
    <3>1. ErrorsHeld /\ ~ Ahead(TOK_ERROR)
      BY <1>2, <1>14 DEF ParsingInv
    <3>2. \A i \in 1..Len(toks) : toks[i].sym # TOK_ERROR
      BY <1>3, <3>1 DEF ErrorsHeld, Ahead
    <3> QED BY <1>1, <1>18, <2>1, <3>1, <3>2 DEF ErrorsHeld
  <2>5. ParsingInv'
    BY <1>1, <1>2, <1>9, <1>18, <2>2, <2>3, <2>4 DEF ParsingInv
  <2>6. DOMAIN c' = DOMAIN config_t
    BY <1>2, <1>18 DEF TypeOK
  <2> QED BY <1>2, <1>14, <1>15, <1>18, <2>5, <2>6, GoesOn
<1>19. \/ YYMAXDEPTH <= Len(new) /\ Returns(2, yyerror(c, "memory exhausted"))
       \/ Top(new) = YYFINAL /\ Returns(0, c)
       \/ /\ Top(new) # YYFINAL /\ yystack' = new /\ UNCHANGED <<c, rpc, yyresult>>
          /\ 2 <= yystacksize' /\ Len(new) < yystacksize'
  BY <1>1, <1>8, <1>12, PushCases
<1> QED BY <1>16, <1>17, <1>18, <1>19

\* A reduction: only the rules for strings change what is held, and only those
\* that end an aggregate what is open.
LEMMA ReduceKeeps == ParserInv /\ Reduce /\ UNCHANGED input => ParserInv'
<1> SUFFICES ASSUME ParserInv, Reduce, UNCHANGED input PROVE ParserInv'
  OBVIOUS
<1> DEFINE rule == At(yydefact, State)
           text == RuleAction(rule).error
           new == Reduced(rule)
<1>1. /\ Decided /\ rule # 0
      /\ strings' = strings - Freed(rule)
      /\ IF text # "none" THEN Returns(1, yyerror(c, text)) /\ UNCHANGED yystacksize ELSE Push(new)
      /\ UNCHANGED <<yychar, toks>>
  BY Zenon DEF Reduce
<1> HIDE DEF text
<1>2. /\ Parsing /\ ParsingInv /\ TypeOK /\ toks # << >>
      /\ State = Top(yystack) /\ State \in States \ {YYFINAL}
      /\ Len(yystack) \in Nat /\ Len(yystack) < yystacksize /\ Len(toks) \in Nat
  BY <1>1, DecidedFacts
<1>3. Linked(yystack) /\ Top(yystack) # YYFINAL /\ yystacksize \in Nat /\ 2 <= yystacksize
  BY <1>2 DEF ParsingInv, TypeOK
<1> DEFINE n == Cardinality(Opens(yystack, Len(yystack)))
           now == Cardinality(Opens(new, Len(new)))
<1>4. /\ Linked(new) /\ Len(new) <= Len(yystack) + 1
      /\ Top(new) \notin {YYFINAL} \cup StringStates \cup OpenStates \cup CloseStates
      /\ now = n - One(Top(yystack) \in CloseStates)
  BY <1>1, <1>2, <1>3, LinkedReduce DEF Reduced, Popped
<1>5. rule \in {21, 22} <=> Top(yystack) \in StringStates
  <2> HIDE DEF rule
  <2>1. rule = At(yydefact, State)
    BY DEF rule
  <2> QED BY <1>1, <1>2, <2>1, ReducesFit
<1> HIDE DEF new, rule
<1>6. strings' = One(Ahead(TOK_STRING))
  <2>1. strings = One(Ahead(TOK_STRING)) + One(Top(yystack) \in StringStates)
    BY <1>2 DEF ParsingInv, StringsHeld
  <2>2. Freed(rule) = One(Top(yystack) \in StringStates)
    BY <1>5 DEF Freed, One
  <2> QED BY <1>1, <2>1, <2>2 DEF One
<1>7. yychar' \in {<< >>, yychar} /\ UNCHANGED <<input, toks>> /\ strings' \in Nat
  BY <1>1, <1>6 DEF One
<1>8. CASE text # "none"
  <2>1. Returns(1, yyerror(c, text)) /\ yystacksize' \in Nat
    BY <1>1, <1>3, <1>8
  <2>2. 1 \in {1, 2} /\ 1 # 2
    OBVIOUS
  <2> QED BY <1>2, <1>7, <1>8, <2>1, <2>2, Fails
<1>9. CASE text = "none"
  <2>0. Push(new)
    BY <1>1, <1>9
  <2>1. Len(new) \in Nat /\ Len(new) <= yystacksize
    BY <1>2, <1>3, <1>4, StackFacts
  <2>2. yystacksize' \in Nat
    BY <1>3, <2>0, <2>1, PushCases
  <2>3. n \in Nat /\ now \in Nat
    BY <1>2, <2>1, OpensMore
  <2>4. now <= n
    <3>1. One(Top(yystack) \in CloseStates) \in Nat
      BY DEF One
    <3> HIDE DEF n, now
    <3> QED BY <1>4, <2>3, <3>1
  <2>5. PICK k \in 0..Len(toks) : n <= Depth(toks, k)
    BY <1>2 DEF ParsingInv, NestingHeld
  <2>6. Depth(toks, k) \in Int
    BY <1>2, DepthMore
  <2>7. now <= Depth(toks, k)
    <3> HIDE DEF n, now
    <3> QED BY <2>3, <2>4, <2>5, <2>6
  <2>8. CASE YYMAXDEPTH <= Len(new) /\ Returns(2, yyerror(c, "memory exhausted"))
    <3>1. Len(new) <= 7 + 6 * now
      BY <1>4, HeightOf
    <3>2. YYMAXDEPTH <= Len(new) /\ YYMAXDEPTH \in Nat
      BY <2>8, Constants, Zenon
    <3>3. YYMAXDEPTH <= 7 + 6 * Depth(toks, k)
      <4> HIDE DEF now
      <4> QED BY <2>1, <2>3, <2>6, <2>7, <3>1, <3>2
    <3>4. \E j \in 0..Len(toks) : YYMAXDEPTH <= 7 + 6 * Depth(toks, j)
      BY <3>3
    <3>5. "memory exhausted" # "none" /\ 2 \in {1, 2}
      OBVIOUS
    <3> QED BY <1>2, <1>7, <2>2, <2>8, <3>4, <3>5, Fails
  <2>9. CASE /\ Top(new) # YYFINAL /\ yystack' = new /\ UNCHANGED <<c, rpc, yyresult>>
             /\ 2 <= yystacksize' /\ Len(new) < yystacksize'
    <3>1. \A sym : Ahead(sym)' <=> Ahead(sym)
      BY <1>1 DEF Ahead
    <3>2. StringsHeld'
      <4>1. One((Top(yystack) \in StringStates)') = 0
        BY <1>4, <2>9 DEF One
      <4>2. One(Ahead(TOK_STRING)') = One(Ahead(TOK_STRING)) /\ One(Ahead(TOK_STRING)) \in Nat
        BY <3>1 DEF One
      <4> QED BY <1>6, <4>1, <4>2 DEF StringsHeld
    <3>3. NestingHeld'
      <4>1. /\ One((\E sym \in Opening : Ahead(sym))') = One(\E sym \in Opening : Ahead(sym))
            /\ One((\E sym \in Closing : Ahead(sym))') = One(\E sym \in Closing : Ahead(sym))
        BY <3>1 DEF One
      <4>2. One((Top(yystack) \in CloseStates)') = 0
        BY <1>4, <2>9 DEF One
      <4>3. Depth(toks, Len(toks)) = n - One(Top(yystack) \in CloseStates)
                                      + One(\E sym \in Opening : Ahead(sym)) - One(\E sym \in Closing : Ahead(sym))
        BY <1>2 DEF ParsingInv, NestingHeld
      <4>4. Depth(toks, Len(toks)) = now - 0
                                      + One(\E sym \in Opening : Ahead(sym)) - One(\E sym \in Closing : Ahead(sym))
        <5>1. now - 0 = n - One(Top(yystack) \in CloseStates)
          <6> HIDE DEF n, now
          <6> QED BY <1>4, <2>3
        <5> QED BY <4>3, <5>1, Zenon
      <4> QED BY <1>1, <2>7, <2>9, <4>1, <4>2, <4>4 DEF NestingHeld
    <3>4. ErrorsHeld'
      <4>1. ErrorsHeld
        BY <1>2 DEF ParsingInv
      <4> QED BY <1>1, <2>9, <3>1, <4>1 DEF ErrorsHeld
    <3>5. ParsingInv'
      BY <1>1, <1>2, <1>4, <2>9, <3>2, <3>3, <3>4 DEF ParsingInv
    <3>6. DOMAIN c' = DOMAIN config_t
      BY <1>2, <2>9 DEF TypeOK
    <3> QED BY <1>2, <1>7, <2>2, <2>9, <3>5, <3>6, GoesOn
  <2>10. Top(new) # YYFINAL
    BY <1>4
  <2> QED BY <1>3, <2>0, <2>1, <2>8, <2>9, <2>10, PushCases
<1> QED BY <1>8, <1>9

\* A token is read: what it is and what it opens is held by the lookahead.
LEMMA LexKeeps == ParserInv /\ yylex /\ UNCHANGED input => ParserInv'
<1> SUFFICES ASSUME ParserInv, yylex, UNCHANGED input PROVE ParserInv'
  OBVIOUS
<1> DEFINE all == IF Len(toks) < input.maxTokens THEN input.tokens \cup {EndOfInput} ELSE {EndOfInput}
<1>1. /\ Parsing /\ yychar = << >>
      /\ UNCHANGED <<rpc, yystack, yystacksize, yyresult>>
  BY DEF yylex
<1>2. PICK t \in all : \E line \in Line..input.maxLine :
          LET tok == [sym |-> t.sym, val |-> t.val, line |-> line]
          IN  /\ yychar' = <<tok>>
              /\ toks' = Append(toks, tok)
              /\ strings' = strings + IF t.sym = TOK_STRING THEN 1 ELSE 0
              /\ c' = IF t.sym = TOK_ERROR
                      THEN [c EXCEPT !.error_text = "cannot open include file", !.error_line = line]
                      ELSE c
  BY Zenon DEF yylex
<1>3. PICK line \in Line..input.maxLine :
          LET tok == [sym |-> t.sym, val |-> t.val, line |-> line]
          IN  /\ yychar' = <<tok>>
              /\ toks' = Append(toks, tok)
              /\ strings' = strings + IF t.sym = TOK_STRING THEN 1 ELSE 0
              /\ c' = IF t.sym = TOK_ERROR
                      THEN [c EXCEPT !.error_text = "cannot open include file", !.error_line = line]
                      ELSE c
  BY <1>2, Zenon
<1> DEFINE tok == [sym |-> t.sym, val |-> t.val, line |-> line]
           n == Len(toks)
<1>4. /\ yychar' = <<tok>> /\ toks' = Append(toks, tok)
      /\ strings' = strings + IF t.sym = TOK_STRING THEN 1 ELSE 0
      /\ c' = IF t.sym = TOK_ERROR
              THEN [c EXCEPT !.error_text = "cannot open include file", !.error_line = line]
              ELSE c
  BY <1>3
<1>5. ParsingInv /\ TypeOK
  BY <1>1 DEF ParserInv
<1>6. tok \in Tokens /\ tok.sym = t.sym /\ tok.line = line
  <2>1. input \in Inputs
    BY <1>5 DEF TypeOK
  <2>2. t.sym \in Symbols /\ t.val \in Vals
    <3>1. CASE t = EndOfInput
      BY <3>1, SymbolFacts DEF EndOfInput, Vals
    <3>2. CASE t \in input.tokens
      BY <2>1, <3>2, Constants DEF Vals
    <3> QED BY <3>1, <3>2
  <2>3. line \in Int
    OBVIOUS
  <2> QED BY <2>2, <2>3 DEF Tokens
<1> HIDE DEF tok
<1>7. /\ toks \in Seq(Tokens) /\ n \in Nat
      /\ toks' \in Seq(Tokens) /\ Len(toks') = n + 1 /\ toks'[n + 1] = tok /\ toks' # << >>
      /\ \A i \in 1..n : toks'[i] = toks[i]
  <2>1. toks \in Seq(Tokens) /\ n \in Nat
    BY <1>5 DEF TypeOK
  <2>2. /\ toks' \in Seq(Tokens) /\ Len(toks') = n + 1 /\ toks'[n + 1] = tok
        /\ \A i \in 1..n : toks'[i] = toks[i]
    BY <1>4, <1>6, <2>1, AppendFacts
  <2>3. toks' # << >>
    BY <2>1, <2>2
  <2> QED BY <2>1, <2>2, <2>3
<1> HIDE DEF n
<1>8. \A sym : Ahead(sym)' <=> tok.sym = sym
  BY <1>4, <1>7 DEF Ahead
<1>9. \A sym : ~ Ahead(sym)
  BY <1>1 DEF Ahead
<1>10. StringsHeld'
  <2>1. strings = One(Ahead(TOK_STRING)) + One(Top(yystack) \in StringStates)
    BY <1>5 DEF ParsingInv, StringsHeld
  <2>2. One(Ahead(TOK_STRING)) = 0 /\ One(Top(yystack) \in StringStates) \in Nat
    BY <1>9 DEF One
  <2>3. One(Ahead(TOK_STRING)') = IF t.sym = TOK_STRING THEN 1 ELSE 0
    BY <1>6, <1>8 DEF One
  <2> QED BY <1>1, <1>4, <2>1, <2>2, <2>3 DEF StringsHeld
<1>11. NestingHeld'
  <2> DEFINE m == Cardinality(Opens(yystack, Len(yystack)))
             closes == One(Top(yystack) \in CloseStates)
             opening == One(tok.sym \in Opening)
             closing == One(tok.sym \in Closing)
  <2>1. /\ One(\E sym \in Opening : Ahead(sym)) = 0 /\ One(\E sym \in Closing : Ahead(sym)) = 0
        /\ One((\E sym \in Opening : Ahead(sym))') = opening /\ One((\E sym \in Closing : Ahead(sym))') = closing
    BY <1>8, <1>9 DEF One
  <2>2. Depth(toks, n) = m - closes + 0 - 0 /\ \E k \in 0..n : m <= Depth(toks, k)
    BY <1>5, <2>1 DEF ParsingInv, NestingHeld, n
  <2>3. Depth(toks', n) = Depth(toks, n)
    BY <1>7, DepthSame
  <2>4. Depth(toks', n + 1) = Depth(toks', n) + One(toks'[n + 1].sym \in Opening) - One(toks'[n + 1].sym \in Closing)
    BY <1>7, DepthMore
  <2>5. Len(yystack) \in Nat /\ m \in Nat
    <3>1. Len(yystack) \in Nat
      BY <1>5, StackFacts DEF ParsingInv
    <3> QED BY <3>1, OpensMore
  <2>6. closes \in Nat /\ opening \in Nat /\ closing \in Nat
    BY DEF One
  <2>7. Depth(toks', n + 1) = m - closes + opening - closing
    <3>1. Depth(toks', n + 1) = Depth(toks', n) + opening - closing
      BY <1>7, <2>4
    <3> HIDE DEF m, closes, opening, closing
    <3> QED BY <2>2, <2>3, <2>5, <2>6, <3>1
  <2>8. \E k \in 0..(n + 1) : m <= Depth(toks', k)
    <3>1. PICK k \in 0..n : m <= Depth(toks, k)
      BY <2>2
    <3>2. Depth(toks', k) = Depth(toks, k)
      <4>1. \A i \in 1..k : toks'[i] = toks[i]
        BY <1>7
      <4> QED BY <4>1, DepthSame
    <3>3. k \in 0..(n + 1)
      BY <1>7
    <3> HIDE DEF m
    <3> QED BY <3>1, <3>2, <3>3
  <2> QED BY <1>1, <1>7, <2>1, <2>7, <2>8 DEF NestingHeld
<1>12. /\ \A i \in 1..n : toks[i].sym # TOK_ERROR
       /\ c.error_text = "none" /\ c.error_type = "NONE" /\ DOMAIN c = DOMAIN config_t
  BY <1>1, <1>5, <1>9 DEF ParsingInv, ErrorsHeld, TypeOK, n
<1>13. /\ DOMAIN c' = DOMAIN config_t /\ c'.error_type = "NONE"
       /\ c'.error_text = IF t.sym = TOK_ERROR THEN "cannot open include file" ELSE "none"
       /\ t.sym = TOK_ERROR => c'.error_line = line
  <2>1. CASE t.sym # TOK_ERROR
    BY <1>4, <1>12, <2>1
  <2>2. CASE t.sym = TOK_ERROR
    <3> DEFINE x1 == [c EXCEPT !.error_text = "cannot open include file"]
               x2 == [x1 EXCEPT !.error_line = line]
    <3>1. c' = x2
      BY <1>4, <2>2
    <3>2. DOMAIN x1 = DOMAIN config_t /\ x1.error_text = "cannot open include file" /\ x1.error_type = "NONE"
      BY <1>12, ConfigFields
    <3> HIDE DEF x1
    <3>3. /\ DOMAIN x2 = DOMAIN config_t /\ x2.error_text = "cannot open include file" /\ x2.error_type = "NONE"
          /\ x2.error_line = line
      BY <3>2, ConfigFields
    <3> HIDE DEF x2
    <3> QED BY <2>2, <3>1, <3>3
  <2> QED BY <2>1, <2>2
<1>14. ErrorsHeld'
  <2>1. \A i \in 1..(n + 1) : toks'[i].sym = TOK_ERROR => i = n + 1
    BY <1>7, <1>12
  <2>2. yychar' # << >>
    BY <1>4
  <2> QED BY <1>6, <1>7, <1>8, <1>13, <2>1, <2>2 DEF ErrorsHeld
<1>15. ParsingInv'
  BY <1>1, <1>5, <1>7, <1>10, <1>11, <1>14 DEF ParsingInv
<1>16. TypeOK'
  <2>1. yychar' = <<toks'[Len(toks')]>>
    BY <1>4, <1>7
  <2> QED BY <1>1, <1>5, <1>7, <1>13, <2>1 DEF TypeOK
<1>17. Parsing' /\ rpc' # "called" /\ rpc' # "read" /\ yyresult' = -1
  BY <1>1, <1>5 DEF Parsing, ParsingInv
<1>18. StringsFreed'
  <2>1. strings' = One(Ahead(TOK_STRING)') + One((Top(yystack) \in StringStates)')
    BY <1>10 DEF StringsHeld
  <2> QED BY <1>17, <2>1 DEF StringsFreed, One
<1>19. FirstErrorReported'
  BY <1>17 DEF FirstErrorReported
<1> QED BY <1>15, <1>16, <1>17, <1>18, <1>19 DEF ParserInv

\* The parser starts with the first state on the stack and nothing wrong.
LEMMA ReadKeeps == ParserInv /\ rpc = "called" /\ config_read /\ UNCHANGED input => ParserInv'
<1> SUFFICES ASSUME ParserInv, rpc = "called", config_read, UNCHANGED input PROVE ParserInv'
  OBVIOUS
<1> DEFINE first == [state |-> 0, yyval |-> 0]
<1>1. /\ yystack' = <<first>> /\ yystacksize' = YYINITDEPTH /\ rpc' = "parsing"
      /\ UNCHANGED <<yychar, yyresult, toks, strings>>
  BY DEF config_read
<1>2. TypeOK /\ toks = << >> /\ yychar = << >> /\ strings = 0 /\ yyresult = -1
  BY DEF ParserInv
<1>3. DOMAIN c' = DOMAIN config_t /\ c'.error_text = "none" /\ c'.error_type = "NONE"
  <2> DEFINE Fresh(x) == DOMAIN x = DOMAIN config_t /\ x.error_text = "none" /\ x.error_type = "NONE"
             x1 == [config_t EXCEPT !.destructor = c.destructor]
             x2 == [x1 EXCEPT !.include_dir = c.include_dir]
             x3 == [x2 EXCEPT !.tab_width = c.tab_width]
             x4 == [x3 EXCEPT !.options = c.options]
  <2>1. c' = x4
    BY DEF config_read, Reinitialised
  <2>2. Fresh(x1)
    BY ConfigFields
  <2> HIDE DEF x1
  <2>3. Fresh(x2)
    BY <2>2, ConfigFields
  <2> HIDE DEF x2
  <2>4. Fresh(x3)
    BY <2>3, ConfigFields
  <2> HIDE DEF x3
  <2>5. Fresh(x4)
    BY <2>4, ConfigFields
  <2> HIDE DEF x4
  <2> QED BY <2>1, <2>5
<1>4. first \in Entries /\ first.state = 0
  BY DEF Entries, States
<1> HIDE DEF first
<1>5. Len(yystack') = 1 /\ yystack'[1] = first /\ yystack' \in Seq(Entries)
  BY <1>1, <1>4
<1>6. Linked(yystack') /\ Top(yystack') = 0
  BY <1>4, <1>5 DEF Linked, Top
<1>7. 0 \notin {YYFINAL} \cup StringStates \cup OpenStates \cup CloseStates
  BY DEF YYFINAL, StringStates, OpenStates, CloseStates
<1>8. \A sym : ~ Ahead(sym)'
  BY <1>1, <1>2 DEF Ahead
<1>9. Opens(yystack', 1) = {}
  BY <1>4, <1>5, <1>7 DEF Opens
<1>10. Len(toks') = 0 /\ toks' = << >>
  BY <1>1, <1>2
<1>11. StringsHeld'
  BY <1>1, <1>2, <1>6, <1>7, <1>8 DEF StringsHeld, One
<1>12. NestingHeld'
  <2>1. Cardinality(Opens(yystack', Len(yystack'))) = 0
    BY <1>5, <1>9, FS_EmptySet
  <2>2. /\ One((Top(yystack) \in CloseStates)') = 0
        /\ One((\E sym \in Opening : Ahead(sym))') = 0 /\ One((\E sym \in Closing : Ahead(sym))') = 0
    BY <1>6, <1>7, <1>8 DEF One
  <2>3. Depth(toks', 0) = 0 /\ 0 - 0 + 0 - 0 = 0 /\ 0 \in 0..0 /\ 0 <= 0
    BY NothingOpen
  <2> QED BY <1>10, <2>1, <2>2, <2>3 DEF NestingHeld
<1>13. ErrorsHeld'
  BY <1>3, <1>8, <1>10 DEF ErrorsHeld
<1>14. ParsingInv'
  BY <1>1, <1>2, <1>5, <1>6, <1>7, <1>11, <1>12, <1>13, Constants DEF ParsingInv
<1>15. TypeOK'
  BY <1>1, <1>2, <1>3, Constants DEF TypeOK
<1>16. StringsFreed' /\ FirstErrorReported'
  BY <1>1, <1>2 DEF StringsFreed, FirstErrorReported
<1> QED BY <1>1, <1>2, <1>14, <1>15, <1>16 DEF ParserInv, Parsing

\* A file that cannot be opened: nothing has been read.
LEMMA ReadFileKeeps == ParserInv /\ config_read_file /\ UNCHANGED input => ParserInv'
<1> SUFFICES ASSUME ParserInv, config_read_file, UNCHANGED input PROVE ParserInv'
  OBVIOUS
<1> DEFINE text == "file I/O error"
<1>1. rpc = "called"
  BY Zenon DEF config_read_file
<1>2. CASE config_read
  BY <1>1, <1>2, ReadKeeps
<1>3. CASE ~ config_read
  <2>1. /\ c' = [c EXCEPT !.error_text = text, !.error_type = "FILE_IO"]
        /\ rpc' = "read" /\ yyresult' = 1
        /\ UNCHANGED <<yystack, yystacksize, yychar, toks, strings>>
    BY <1>3, Zenon DEF config_read_file
  <2>2. text # "none"
    BY Zenon
  <2> HIDE DEF text
  <2>3. TypeOK /\ toks = << >> /\ yychar = << >> /\ strings = 0
    BY <1>1 DEF ParserInv
  <2> DEFINE x1 == [c EXCEPT !.error_text = text]
             x2 == [x1 EXCEPT !.error_type = "FILE_IO"]
  <2>4. c' = x2
    BY <2>1
  <2>5. DOMAIN x1 = DOMAIN config_t /\ x1.error_text = text
    BY <2>3, ConfigFields DEF TypeOK
  <2> HIDE DEF x1
  <2>6. DOMAIN x2 = DOMAIN config_t /\ x2.error_text = text /\ x2.error_type = "FILE_IO"
    BY <2>5, ConfigFields
  <2> HIDE DEF x2
  <2>7. TypeOK'
    BY <1>1, <2>1, <2>3, <2>4, <2>6 DEF TypeOK
  <2>8. FirstErrorReported'
    <3>1. ~ \E i \in 1..Len(toks') : toks'[i].sym = TOK_ERROR
      BY <2>1, <2>3
    <3>2. c'.error_text # "none" /\ c'.error_type = "FILE_IO" /\ yyresult' = 1
      BY <2>1, <2>2, <2>4, <2>6, Zenon
    <3>3. ~ (yyresult' = 0) /\ "FILE_IO" \in {"PARSE", "FILE_IO"} /\ "FILE_IO" # "PARSE"
      BY <3>2
    <3> QED BY <3>1, <3>2, <3>3, Zenon DEF FirstErrorReported
  <2>9. StringsFreed' /\ ~ Parsing' /\ rpc' # "called" /\ yyresult' # 2
    BY <2>1, <2>3 DEF StringsFreed, Parsing
  <2> QED BY <2>7, <2>8, <2>9 DEF ParserInv
<1> QED BY <1>2, <1>3

\* Writing changes nothing of what was read.
LEMMA WriteKeeps == ParserInv /\ config_write_file /\ UNCHANGED input => ParserInv'
<1> SUFFICES ASSUME ParserInv, config_write_file, UNCHANGED input PROVE ParserInv'
  OBVIOUS
<1> DEFINE text == "file I/O error"
<1>1. /\ rpc = "read" /\ rpc' = "over" /\ yyresult = 0
      /\ UNCHANGED <<yystack, yystacksize, yychar, yyresult, toks, strings>>
      /\ \/ c' = [c EXCEPT !.error_type = "NONE"]
         \/ c' = [c EXCEPT !.error_text = text, !.error_type = "FILE_IO"]
  BY Zenon DEF config_write_file, lrVars
<1> HIDE DEF text
<1>2. TypeOK /\ StringsFreed
  BY DEF ParserInv
<1>3. DOMAIN c' = DOMAIN config_t
  BY <1>1, <1>2 DEF TypeOK
<1>4. TypeOK'
  BY <1>1, <1>2, <1>3 DEF TypeOK
<1>5. StringsFreed' /\ FirstErrorReported' /\ ~ Parsing' /\ rpc' # "called" /\ yyresult' # 2
  BY <1>1, <1>2 DEF StringsFreed, FirstErrorReported, Parsing
<1> QED BY <1>4, <1>5 DEF ParserInv

LEMMA InitParserInv == ParserInit => ParserInv
<1> SUFFICES ASSUME ParserInit PROVE ParserInv
  OBVIOUS
<1>1. /\ input \in Inputs /\ c \in input.given /\ rpc = "called"
      /\ yystack = << >> /\ yystacksize = 0 /\ yychar = << >> /\ yyresult = -1
      /\ toks = << >> /\ strings = 0
  BY DEF ParserInit
<1>2. DOMAIN c = DOMAIN config_t
  BY <1>1, ParserAssumption
<1>3. TypeOK
  BY <1>1, <1>2 DEF TypeOK
<1>4. StringsFreed /\ FirstErrorReported /\ ~ Parsing
  BY <1>1 DEF StringsFreed, FirstErrorReported, Parsing
<1> QED BY <1>1, <1>3, <1>4 DEF ParserInv

LEMMA NextParserInv == ParserInv /\ [ParserNext]_parserVars => ParserInv'
<1> SUFFICES ASSUME ParserInv, [ParserNext]_parserVars PROVE ParserInv'
  OBVIOUS
<1>1. CASE ParserNext
  <2>1. /\ UNCHANGED input
        /\ config_read_file \/ yylex \/ Shift \/ Reduce \/ SyntaxError \/ config_write_file
    BY <1>1, Zenon DEF ParserNext
  <2> QED BY <2>1, ReadFileKeeps, LexKeeps, ShiftKeeps, ReduceKeeps, SyntaxErrorKeeps, WriteKeeps
<1>2. CASE UNCHANGED parserVars
  <2>1. UNCHANGED <<input, c, rpc, yystack, yystacksize, yychar, yyresult, toks, strings>>
    BY <1>2 DEF parserVars, lrVars
  <2> QED BY <2>1 DEF ParserInv, TypeOK, ParsingInv, StringsHeld, NestingHeld, ErrorsHeld, Ahead, Parsing,
                      StringsFreed, FirstErrorReported
<1> QED BY <1>1, <1>2

-----------------------------------------------------------------------------
(* What follows. *)

\* The stack of the parser is a path through its automaton, and the strings,
\* the nesting and the errors are what the states and the lookahead say.
THEOREM ParserInvariant == ParserSpec => []ParserInv
BY InitParserInv, NextParserInv, PTL DEF ParserSpec

\* Whatever the tokens are, each string the scanner copied is freed once, and
\* none is left when the input is accepted.
THEOREM StringsFreedHolds == ParserSpec => []StringsFreed
<1>1. ParserInv => StringsFreed
  BY DEF ParserInv
<1> QED BY <1>1, ParserInvariant, PTL

\* A read that fails says why and on which line, the scanner's reason before the
\* parser's, and one that succeeds leaves no error.
THEOREM FirstErrorReportedHolds == ParserSpec => []FirstErrorReported
<1>1. ParserInv => FirstErrorReported
  BY DEF ParserInv
<1> QED BY <1>1, ParserInvariant, PTL

\* The stack is never written behind its end, whatever its first and its largest
\* size are, and is as high as the aggregates are nested: six entries for each,
\* and seven.  The parser gives up only where that is more than YYMAXDEPTH.
THEOREM StackGrowsWithNestingHolds == ParserSpec => []StackGrowsWithNesting
<1>1. ParserInv => StackGrowsWithNesting
  <2> SUFFICES ASSUME ParserInv PROVE StackGrowsWithNesting
    OBVIOUS
  <2>0. TypeOK /\ yystacksize \in Nat /\ Len(toks) \in Nat
    BY DEF ParserInv, TypeOK
  <2>1. CASE Parsing
    <3> DEFINE n == Cardinality(Opens(yystack, Len(yystack)))
    <3>1. Linked(yystack) /\ Len(yystack) < yystacksize /\ \E k \in 0..Len(toks) : n <= Depth(toks, k)
      BY <2>1 DEF ParserInv, ParsingInv, NestingHeld
    <3>2. PICK k \in 0..Len(toks) : n <= Depth(toks, k)
      BY <3>1
    <3>3. Len(yystack) <= 7 + 6 * n
      BY <3>1, HeightOf
    <3>4. Len(yystack) \in Nat /\ n \in Nat /\ Depth(toks, k) \in Int
      BY <2>0, <3>1, StackFacts, OpensMore, DepthMore
    <3> HIDE DEF n
    <3>5. Len(yystack) <= yystacksize /\ Len(yystack) <= 7 + 6 * Depth(toks, k)
      BY <2>0, <3>1, <3>2, <3>3, <3>4
    <3> QED BY <3>5 DEF StackGrowsWithNesting, ParserInv
  <2>2. CASE ~ Parsing
    <3>1. Len(yystack) = 0
      BY <2>0, <2>2 DEF TypeOK, Parsing
    <3>2. 0 \in 0..Len(toks) /\ Len(yystack) <= 7 + 6 * Depth(toks, 0)
      BY <2>0, <3>1, NothingOpen
    <3> QED BY <2>0, <3>1, <3>2 DEF StackGrowsWithNesting, ParserInv
  <2> QED BY <2>1, <2>2
<1> QED BY <1>1, ParserInvariant, PTL
=============================================================================
