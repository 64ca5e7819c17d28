-------------------------- MODULE ConfigTreeProofs --------------------------
(***************************************************************************)
(* Proofs about the settings tree of libconfig.c, for every caller and     *)
(* every size of the tree.  The heap is described part by part (Heap,      *)
(* Linked, Room, Named, Rooted); each operator that changes it is one of   *)
(* three kinds of change (Changed, Grown, Shrunk), and each part is kept   *)
(* by each kind.  Then, from what a lookup finds in such a tree, proofs    *)
(* about the two programs that take their settings from it, sntpclient and *)
(* sntpserver, for every file and every command line.                      *)
(***************************************************************************)
EXTENDS ConfigTree, ClientOptions, ServerStartup,
        FiniteSetTheorems, SequenceTheorems, WellFoundedInduction, TLAPS

-----------------------------------------------------------------------------
(* Induction, on sets of natural numbers. *)

\* A set of natural numbers that is not empty has a least element.
LEMMA Least ==
    ASSUME NEW T, T \subseteq Nat, T # {}
    PROVE  \E n \in T : \A m \in T : n <= m
<1> DEFINE R == OpToRel(<, Nat)
<1>1. IsWellFoundedOn(R, Nat)
  BY NatLessThanWellFounded
<1>2. \A i, j \in Nat : <<i, j>> \in R <=> i < j
  BY DEF OpToRel
<1> HIDE DEF R
<1>3. PICK n \in T : \A m \in T : ~ (<<m, n>> \in R)
  BY <1>1, WFMin
<1>4. \A m \in T : ~ (m < n)
  BY <1>2, <1>3, Zenon
<1> QED BY <1>4

\* Induction over the natural numbers, for a property given as a set.
LEMMA SetInduction ==
    ASSUME NEW T, 0 \in T, \A n \in Nat : n \in T => n + 1 \in T
    PROVE  Nat \subseteq T
<1> SUFFICES ASSUME Nat \ T # {} PROVE FALSE
  OBVIOUS
<1>1. PICK n \in Nat \ T : \A m \in Nat \ T : n <= m
  BY Least
<1>2. n # 0 /\ n - 1 \in Nat /\ n - 1 \in T
  BY <1>1
<1> QED BY <1>1, <1>2

LEMMA InductionUpTo ==
    ASSUME NEW n \in Nat, NEW T, 0 \in T, \A k \in 0..(n - 1) : k \in T => k + 1 \in T
    PROVE  0..n \subseteq T
<1> DEFINE U == {k \in Nat : k <= n => k \in T}
<1>1. 0 \in U
  OBVIOUS
<1>2. ASSUME NEW k \in Nat, k \in U PROVE k + 1 \in U
  BY <1>2
<1> HIDE DEF U
<1>3. Nat \subseteq U
  BY <1>1, <1>2, SetInduction
<1> QED BY <1>3 DEF U

-----------------------------------------------------------------------------
(* The parts of the invariant. *)

\* A record with the fields of config_setting_t.
Shape(s) ==
    s = [name |-> s.name, type |-> s.type, format |-> s.format, value |-> s.value,
         sval |-> s.sval, list |-> s.list, capacity |-> s.capacity,
         parent |-> s.parent, hook |-> s.hook, line |-> s.line, file |-> s.file]

IsSetting(s) ==
    /\ Shape(s)
    /\ s.list \in Seq(Nat)
    /\ s.capacity \in Nat
    /\ s.hook \in Nat

\* Finitely many settings at addresses other than NULL.
Heap(H) ==
    /\ H = [s \in DOMAIN H |-> H[s]]
    /\ IsFiniteSet(DOMAIN H)
    /\ DOMAIN H \subseteq Nat \ {0}
    /\ \A s \in DOMAIN H : IsSetting(H[s])

\* The room of a list is a whole number of chunks, and the list fits into it.
Room(H) ==
    \A s \in DOMAIN H :
        /\ H[s].capacity % CHUNK_SIZE = 0
        /\ Len(H[s].list) <= H[s].capacity

\* Lists hold settings that exist, each once, with the owner as their parent.
Linked(H) ==
    \A s \in DOMAIN H :
        /\ \A i \in 1..Len(H[s].list) :
               /\ H[s].list[i] \in DOMAIN H
               /\ H[H[s].list[i]].parent = s
        /\ \A i, j \in 1..Len(H[s].list) : H[s].list[i] = H[s].list[j] => i = j
        /\ H[s].list # << >> => H[s].type \in Aggregates
-----------------------------------------------------------------------------
(* The kinds of change. *)

\* A setting before and after its value, type, format or hook is set.
Kept(s, r) ==
    /\ IsSetting(r)
    /\ r.list = s.list
    /\ r.capacity = s.capacity
    /\ r.parent = s.parent
    /\ r.name = s.name
    /\ s.type \in Aggregates => r.type = s.type

\* One setting, or none, has a new value, type, format or hook.
Changed(H, G) ==
    /\ Heap(G)
    /\ DOMAIN G = DOMAIN H
    /\ \A s \in DOMAIN H : Kept(H[s], G[s])

\* A name for a new element of p: one that no element has in a group, and none
\* elsewhere.
NameFits(H, p, name) ==
    IF H[p].type = "GROUP"
    THEN /\ name \in Seq(STRING) /\ Len(name) = 1
         /\ \A e \in Elements(H[p]) : H[e].name # name
    ELSE name = << >>

\* The setting a is new, the last element of p.
Grown(H, G, p, a, name, type) ==
    /\ p \in DOMAIN H
    /\ a \in Nat \ {0}
    /\ a \notin DOMAIN H
    /\ H[p].type \in Aggregates
    /\ NameFits(H, p, name)
    /\ Heap(G)
    /\ DOMAIN G = DOMAIN H \cup {a}
    /\ G[a] = config_setting_t(p, name, type)
    /\ G[p] = config_list_add(H[p], a)
    /\ \A s \in DOMAIN H \ {p} : G[s] = H[s]

\* The heap without the i-th element in the list of p.
Unlinked(H, p, i) == [H EXCEPT ![p] = config_list_remove(@, i - 1)]

\* The i-th element of p has gone with all below it.
Shrunk(H, G, p, i) ==
    /\ p \in DOMAIN H
    /\ i \in 1..Len(H[p].list)
    /\ G = config_setting_destroy(Unlinked(H, p, i), H[p].list[i]).h
-----------------------------------------------------------------------------
(* The operators make such changes. *)

LEMMA FreshIsNew ==
    ASSUME NEW H, Heap(H)
    PROVE  FreshAddress(H) \in Nat \ {0} /\ FreshAddress(H) \notin DOMAIN H
<1> DEFINE n == Cardinality(DOMAIN H)
<1>1. n \in Nat
  BY FS_CardinalityType DEF Heap
<1>2. Cardinality(1..(n + 1)) = n + 1
  BY <1>1, FS_Interval
<1>3. ~ (1..(n + 1) \subseteq DOMAIN H)
  BY <1>1, <1>2, FS_Subset DEF Heap
<1>4. \E k \in 1..(n + 1) : k \notin DOMAIN H
  BY <1>3
<1>5. FreshAddress(H) \in 1..(n + 1) /\ FreshAddress(H) \notin DOMAIN H
  BY <1>4 DEF FreshAddress
<1> QED BY <1>1, <1>5

\* Setting fields of a setting keeps its shape.
LEMMA ShapeKept ==
    ASSUME NEW s, Shape(s), NEW x
    PROVE  /\ Shape([s EXCEPT !.type = x])
           /\ Shape([s EXCEPT !.format = x])
           /\ Shape([s EXCEPT !.value = x])
           /\ Shape([s EXCEPT !.sval = x])
           /\ Shape([s EXCEPT !.list = x])
           /\ Shape([s EXCEPT !.capacity = x])
           /\ Shape([s EXCEPT !.hook = x])
<1>1. Shape([s EXCEPT !.type = x])
  BY DEF Shape
<1>2. Shape([s EXCEPT !.format = x])
  BY DEF Shape
<1>3. Shape([s EXCEPT !.value = x])
  BY DEF Shape
<1>4. Shape([s EXCEPT !.sval = x])
  BY DEF Shape
<1>5. Shape([s EXCEPT !.list = x])
  BY DEF Shape
<1>6. Shape([s EXCEPT !.capacity = x])
  BY DEF Shape
<1>7. Shape([s EXCEPT !.hook = x])
  BY DEF Shape
<1> QED BY <1>1, <1>2, <1>3, <1>4, <1>5, <1>6, <1>7

\* A list with an element more.
LEMMA ListAdd ==
    ASSUME NEW s, IsSetting(s), NEW a \in Nat
    PROVE  LET r == config_list_add(s, a)
           IN  /\ IsSetting(r)
               /\ r.list = Append(s.list, a)
               /\ r.capacity = IF Len(s.list) % CHUNK_SIZE = 0
                               THEN Len(s.list) + CHUNK_SIZE ELSE s.capacity
               /\ r.parent = s.parent /\ r.name = s.name /\ r.type = s.type /\ r.hook = s.hook
<1> DEFINE room == IF Len(s.list) % CHUNK_SIZE = 0 THEN Len(s.list) + CHUNK_SIZE ELSE s.capacity
           longer == Append(s.list, a)
           r == [s EXCEPT !.capacity = room, !.list = longer]
<1>1. Len(s.list) \in Nat /\ CHUNK_SIZE \in Nat
  BY SettingAssumption DEF IsSetting
<1>2. room \in Nat /\ longer \in Seq(Nat)
  <2>1. Len(s.list) + CHUNK_SIZE \in Nat
    BY <1>1
  <2>3. s.capacity \in Nat
    BY DEF IsSetting
  <2>2. longer \in Seq(Nat)
    BY DEF IsSetting
  <2> QED BY <2>1, <2>2, <2>3, Zenon
<1>3. config_list_add(s, a) = r
  <2>1. [s EXCEPT !.capacity = room].list = s.list
    <3> HIDE DEF room
    <3> QED BY DEF IsSetting, Shape
  <2> QED BY <2>1 DEF config_list_add
<1> HIDE DEF room, longer
<1>4. /\ r.list = longer
      /\ r.capacity = room
      /\ r.parent = s.parent /\ r.name = s.name /\ r.type = s.type /\ r.hook = s.hook
  BY DEF IsSetting, Shape
<1>5. Shape(r)
  BY ShapeKept DEF IsSetting
<1> HIDE DEF r
<1>6. IsSetting(r)
  BY <1>2, <1>4, <1>5 DEF IsSetting
<1> QED BY <1>3, <1>4, <1>6 DEF room, longer

LEMMA CreateGrows ==
    ASSUME NEW H, Heap(H), NEW p \in DOMAIN H, NEW name, NEW type,
           H[p].type \in Aggregates, NameFits(H, p, name)
    PROVE  LET made == config_setting_create(H, p, name, type)
           IN  Grown(H, made.h, p, made.ret, name, type)
<1> DEFINE a == FreshAddress(H)
           G == [m \in DOMAIN H \cup {a} |->
                     CASE m = a  -> config_setting_t(p, name, type)
                       [] m = p  -> config_list_add(H[p], a)
                       [] OTHER -> H[m]]
<1>1. config_setting_create(H, p, name, type) = [h |-> G, ret |-> a]
  BY DEF config_setting_create
<1>2. a \in Nat \ {0} /\ a \notin DOMAIN H
  BY FreshIsNew
<1>3. /\ DOMAIN G = DOMAIN H \cup {a}
      /\ G[a] = config_setting_t(p, name, type)
      /\ G[p] = config_list_add(H[p], a)
      /\ \A s \in DOMAIN H \ {p} : G[s] = H[s]
      /\ G = [s \in DOMAIN G |-> G[s]]
  BY <1>2
<1>4. IsFiniteSet(DOMAIN H \cup {a})
  BY FS_AddElement DEF Heap
<1>5. IsSetting(config_setting_t(p, name, type))
  BY DEF IsSetting, Shape, config_setting_t, NULL
<1>6. IsSetting(config_list_add(H[p], a))
  BY <1>2, ListAdd DEF Heap
<1>7. Heap(G)
  <2> HIDE DEF G, a
  <2> QED BY <1>2, <1>3, <1>4, <1>5, <1>6 DEF Heap
<1> QED BY <1>1, <1>2, <1>3, <1>7 DEF Grown

\* Setting a value, a format and a hook.
LEMMA SetKeeps ==
    ASSUME NEW s, IsSetting(s), NEW type \in Scalars, NEW v, NEW cfg
    PROVE  Kept(s, SetValue(s, type, v, cfg).s)
<1>1. Kept(s, s)
  BY DEF Kept
<1>2. ASSUME s.type \notin Aggregates, NEW t, NEW x PROVE Kept(s, Stored(s, t, x).s)
  <2> DEFINE r == [s EXCEPT !.type = t, !.value = x]
  <2>1. Shape(r)
    BY ShapeKept DEF IsSetting
  <2>2. /\ r.list = s.list /\ r.capacity = s.capacity /\ r.parent = s.parent
        /\ r.name = s.name /\ r.hook = s.hook
    BY DEF IsSetting, Shape
  <2>3. Stored(s, t, x).s = r
    BY DEF Stored
  <2> HIDE DEF r
  <2> QED BY <1>2, <2>1, <2>2, <2>3 DEF Kept, IsSetting
<1>3. ASSUME s.type \notin Aggregates
      PROVE  Kept(s, [s EXCEPT !.type = "STRING", !.sval = v])
  <2> DEFINE r == [s EXCEPT !.type = "STRING", !.sval = v]
  <2>1. Shape(r)
    BY ShapeKept DEF IsSetting
  <2>2. /\ r.list = s.list /\ r.capacity = s.capacity /\ r.parent = s.parent
        /\ r.name = s.name /\ r.hook = s.hook
    BY DEF IsSetting, Shape
  <2>3. Kept(s, r)
    <3> HIDE DEF r
    <3> QED BY <1>3, <2>1, <2>2 DEF Kept, IsSetting
  <2> QED BY <2>3
<1>4. s.type \in {"NONE", "INT", "INT64", "FLOAT", "BOOL", "STRING"} => s.type \notin Aggregates
  BY DEF Aggregates
<1>5. CASE type = "INT"
  BY <1>1, <1>2, <1>4, <1>5 DEF SetValue, config_setting_set_int, Refused
<1>6. CASE type = "INT64"
  BY <1>1, <1>2, <1>4, <1>6 DEF SetValue, config_setting_set_int64, Refused
<1>7. CASE type = "FLOAT"
  BY <1>1, <1>2, <1>4, <1>7 DEF SetValue, config_setting_set_float, Refused
<1>8. CASE type = "BOOL"
  BY <1>1, <1>2, <1>4, <1>8 DEF SetValue, config_setting_set_bool, Refused
<1>9. CASE type = "STRING"
  BY <1>1, <1>3, <1>4, <1>9 DEF SetValue, config_setting_set_string, Refused
<1> QED BY <1>5, <1>6, <1>7, <1>8, <1>9 DEF Scalars, Numbers

LEMMA FormatKeeps ==
    ASSUME NEW s, IsSetting(s), NEW format
    PROVE  Kept(s, config_setting_set_format(s, format).s)
<1>1. Kept(s, s)
  BY DEF Kept
<1>2. Kept(s, [s EXCEPT !.format = format])
  <2> DEFINE r == [s EXCEPT !.format = format]
  <2>1. Shape(r)
    BY ShapeKept DEF IsSetting
  <2>2. /\ r.list = s.list /\ r.capacity = s.capacity /\ r.parent = s.parent
        /\ r.name = s.name /\ r.hook = s.hook /\ r.type = s.type
    BY DEF IsSetting, Shape
  <2>3. Kept(s, r)
    <3> HIDE DEF r
    <3> QED BY <2>1, <2>2 DEF Kept, IsSetting
  <2> QED BY <2>3
<1> QED BY <1>1, <1>2 DEF config_setting_set_format, Refused

LEMMA HookKeeps ==
    ASSUME NEW s, IsSetting(s), NEW k \in Nat
    PROVE  Kept(s, [s EXCEPT !.hook = k])
<1> DEFINE r == [s EXCEPT !.hook = k]
<1>1. Shape(r)
  BY ShapeKept DEF IsSetting
<1>2. /\ r.list = s.list /\ r.capacity = s.capacity /\ r.parent = s.parent
      /\ r.name = s.name /\ r.hook = k /\ r.type = s.type
  BY DEF IsSetting, Shape
<1>3. Kept(s, r)
  <2> HIDE DEF r
  <2> QED BY <1>1, <1>2 DEF Kept, IsSetting
<1> QED BY <1>3

LEMMA UpdateChanges ==
    ASSUME NEW H, Heap(H), NEW s \in DOMAIN H, NEW r, Kept(H[s], r)
    PROVE  Changed(H, [H EXCEPT ![s] = r])
<1>1. \A m \in DOMAIN H : Kept(H[m], H[m])
  BY DEF Heap, Kept
<1> DEFINE G == [H EXCEPT ![s] = r]
<1>2. DOMAIN G = DOMAIN H /\ G = [m \in DOMAIN H |-> G[m]]
  OBVIOUS
<1>3. \A m \in DOMAIN H : Kept(H[m], G[m])
  BY <1>1
<1>4. Heap(G)
  <2> HIDE DEF G
  <2> QED BY <1>2, <1>3 DEF Heap, Kept
<1> QED BY <1>2, <1>3, <1>4 DEF Changed

\* Taking the i-th element out of a sequence.
LEMMA SequenceRemove ==
    ASSUME NEW q \in Seq(Nat), NEW i \in 1..Len(q)
    PROVE  LET r == SubSeq(q, 1, i - 1) \o SubSeq(q, i + 1, Len(q))
           IN  /\ r \in Seq(Nat)
               /\ Len(r) = Len(q) - 1
               /\ \A j \in 1..Len(r) : r[j] = IF j < i THEN q[j] ELSE q[j + 1]
<1> DEFINE front == SubSeq(q, 1, i - 1)
           back == SubSeq(q, i + 1, Len(q))
<1>1. Len(q) \in Nat /\ i \in Nat
  OBVIOUS
<1>2. front \in Seq(Nat) /\ Len(front) = i - 1 /\ \A j \in 1..(i - 1) : front[j] = q[j]
  BY <1>1
<1>3. back \in Seq(Nat) /\ Len(back) = Len(q) - i /\ \A j \in 1..(Len(q) - i) : back[j] = q[i + j]
  BY <1>1
<1> HIDE DEF front, back
<1>0. /\ front \o back \in Seq(Nat)
      /\ Len(front \o back) = Len(front) + Len(back)
      /\ \A j \in 1..(Len(front) + Len(back)) :
             (front \o back)[j] = IF j <= Len(front) THEN front[j] ELSE back[j - Len(front)]
  BY <1>2, <1>3, ConcatProperties
<1>4. front \o back \in Seq(Nat) /\ Len(front \o back) = Len(q) - 1
  BY <1>0, <1>1, <1>2, <1>3
<1>5. ASSUME NEW j \in 1..(Len(q) - 1)
      PROVE  (front \o back)[j] = IF j < i THEN q[j] ELSE q[j + 1]
  <2>1. CASE j < i
    BY <1>0, <1>1, <1>2, <1>3, <2>1
  <2>2. CASE ~ (j < i)
    <3>1. j - (i - 1) \in 1..(Len(q) - i)
      BY <1>1, <2>2
    <3>4. j \in 1..(Len(front) + Len(back)) /\ ~ (j <= Len(front))
      BY <1>1, <1>2, <1>3, <2>2
    <3>2. (front \o back)[j] = back[j - (i - 1)]
      BY <1>0, <1>2, <3>4
    <3>3. i + (j - (i - 1)) = j + 1
      BY <1>1
    <3> QED BY <1>3, <2>2, <3>1, <3>2, <3>3
  <2> QED BY <2>1, <2>2
<1> QED BY <1>4, <1>5 DEF front, back

LEMMA ListRemove ==
    ASSUME NEW s, IsSetting(s), NEW i \in 1..Len(s.list)
    PROVE  LET r == config_list_remove(s, i - 1)
           IN  /\ IsSetting(r)
               /\ Len(r.list) = Len(s.list) - 1
               /\ \A j \in 1..Len(r.list) :
                      r.list[j] = IF j < i THEN s.list[j] ELSE s.list[j + 1]
               /\ r.capacity = s.capacity
               /\ r.parent = s.parent /\ r.name = s.name /\ r.type = s.type /\ r.hook = s.hook
<1> DEFINE shorter == SubSeq(s.list, 1, i - 1) \o SubSeq(s.list, i + 1, Len(s.list))
           r == [s EXCEPT !.list = shorter]
<1>1. /\ shorter \in Seq(Nat)
      /\ Len(shorter) = Len(s.list) - 1
      /\ \A j \in 1..Len(shorter) : shorter[j] = IF j < i THEN s.list[j] ELSE s.list[j + 1]
  BY SequenceRemove DEF IsSetting
<1>2. config_list_remove(s, i - 1) = r
  <2>1. i - 1 + 2 = i + 1
    BY DEF IsSetting
  <2> QED BY <2>1 DEF config_list_remove
<1> HIDE DEF shorter
<1>3. /\ r.list = shorter
      /\ r.capacity = s.capacity
      /\ r.parent = s.parent /\ r.name = s.name /\ r.type = s.type /\ r.hook = s.hook
  BY DEF IsSetting, Shape
<1>4. Shape(r)
  BY ShapeKept DEF IsSetting
<1> HIDE DEF r
<1>5. IsSetting(r)
  BY <1>1, <1>3, <1>4 DEF IsSetting
<1> QED BY <1>1, <1>2, <1>3, <1>5

\* What taking an element out of a list does to the heap.
LEMMA UnlinkedFacts ==
    ASSUME NEW H, Heap(H), NEW p \in DOMAIN H, NEW i \in 1..Len(H[p].list)
    PROVE  LET g == Unlinked(H, p, i)
           IN  /\ Heap(g)
               /\ DOMAIN g = DOMAIN H
               /\ \A m \in DOMAIN H \ {p} : g[m] = H[m]
               /\ Len(g[p].list) = Len(H[p].list) - 1
               /\ \A j \in 1..Len(g[p].list) :
                      g[p].list[j] = IF j < i THEN H[p].list[j] ELSE H[p].list[j + 1]
               /\ \A m \in DOMAIN H :
                      /\ g[m].capacity = H[m].capacity
                      /\ g[m].parent = H[m].parent
                      /\ g[m].name = H[m].name
                      /\ g[m].type = H[m].type
                      /\ g[m].hook = H[m].hook
<1> DEFINE g == Unlinked(H, p, i)
<1>1. /\ DOMAIN g = DOMAIN H
      /\ g = [m \in DOMAIN g |-> g[m]]
      /\ g[p] = config_list_remove(H[p], i - 1)
      /\ \A m \in DOMAIN H \ {p} : g[m] = H[m]
  BY DEF Unlinked
<1>2. IsSetting(H[p])
  BY DEF Heap
<1>3. /\ IsSetting(g[p])
      /\ Len(g[p].list) = Len(H[p].list) - 1
      /\ \A j \in 1..Len(g[p].list) :
             g[p].list[j] = IF j < i THEN H[p].list[j] ELSE H[p].list[j + 1]
      /\ g[p].capacity = H[p].capacity
      /\ g[p].parent = H[p].parent /\ g[p].name = H[p].name
      /\ g[p].type = H[p].type /\ g[p].hook = H[p].hook
  <2> HIDE DEF g
  <2> QED BY <1>1, <1>2, ListRemove
<1> HIDE DEF g
<1>4. Heap(g)
  BY <1>1, <1>3 DEF Heap
<1>5. \A m \in DOMAIN H :
          /\ g[m].capacity = H[m].capacity
          /\ g[m].parent = H[m].parent
          /\ g[m].name = H[m].name
          /\ g[m].type = H[m].type
          /\ g[m].hook = H[m].hook
  BY <1>1, <1>3
<1> QED BY <1>1, <1>3, <1>4, <1>5 DEF g

\* What destroying a setting leaves.
LEMMA DestroyFacts ==
    ASSUME NEW H, Heap(H), NEW s
    PROVE  LET G == config_setting_destroy(H, s).h
           IN  /\ Heap(G)
               /\ DOMAIN G = DOMAIN H \ Subtree(H, s)
               /\ \A m \in DOMAIN G : G[m] = H[m]
<1> DEFINE G == [m \in DOMAIN H \ Subtree(H, s) |-> H[m]]
<1>1. config_setting_destroy(H, s).h = G
  BY DEF config_setting_destroy
<1>2. IsFiniteSet(DOMAIN H \ Subtree(H, s))
  BY FS_Subset DEF Heap
<1>3. Heap(G)
  BY <1>2 DEF Heap
<1> QED BY <1>1, <1>3
-----------------------------------------------------------------------------
(* ListFits: the room of the lists. *)

LEMMA ChunkMultiple ==
    ASSUME NEW n \in Nat, n % CHUNK_SIZE = 0
    PROVE  (n + CHUNK_SIZE) % CHUNK_SIZE = 0
<1> DEFINE m == n + CHUNK_SIZE
           q == n \div CHUNK_SIZE
           k == m \div CHUNK_SIZE
           x == m % CHUNK_SIZE
<1>1. CHUNK_SIZE \in Nat \ {0} /\ m \in Nat
  BY SettingAssumption
<1>2. ASSUME NEW a \in Nat
      PROVE  /\ a \div CHUNK_SIZE \in Int
             /\ a % CHUNK_SIZE \in 0..(CHUNK_SIZE - 1)
             /\ a = CHUNK_SIZE * (a \div CHUNK_SIZE) + (a % CHUNK_SIZE)
  BY <1>1
<1>3. q \in Int /\ n = CHUNK_SIZE * q
  BY <1>1, <1>2
<1>4. k \in Int /\ x \in 0..(CHUNK_SIZE - 1) /\ m = CHUNK_SIZE * k + x
  BY <1>1, <1>2
<1>5. m = n + CHUNK_SIZE
  OBVIOUS
<1> HIDE DEF m, q, k, x
<1>6. CHUNK_SIZE * (q + 1 - k) = x
  BY <1>1, <1>3, <1>4, <1>5
<1>7. ~ (q + 1 - k >= 1)
  <2>1. ASSUME q + 1 - k >= 1 PROVE CHUNK_SIZE * (q - k) \in Nat
    BY <2>1, <1>1, <1>3, <1>4
  <2>2. CHUNK_SIZE * (q + 1 - k) = CHUNK_SIZE * (q - k) + CHUNK_SIZE
    BY <1>1, <1>3, <1>4
  <2> QED BY <2>1, <2>2, <1>1, <1>4, <1>6
<1>8. ~ (q + 1 - k <= -1)
  <2>1. ASSUME q + 1 - k <= -1 PROVE CHUNK_SIZE * (k - q - 2) \in Nat
    BY <2>1, <1>1, <1>3, <1>4
  <2>2. CHUNK_SIZE * (q + 1 - k) = - (CHUNK_SIZE * (k - q - 2)) - CHUNK_SIZE
    BY <1>1, <1>3, <1>4
  <2> QED BY <2>1, <2>2, <1>1, <1>4, <1>6
<1>9. q + 1 - k = 0
  BY <1>3, <1>4, <1>7, <1>8
<1>10. x = 0
  BY <1>1, <1>6, <1>9
<1> QED BY <1>10 DEF x, m

LEMMA RoomChanged ==
    ASSUME NEW H, NEW G, Room(H), Changed(H, G)
    PROVE  Room(G)
  BY DEF Room, Changed, Kept

LEMMA RoomGrown ==
    ASSUME NEW H, NEW G, NEW p, NEW a, NEW name, NEW type,
           Heap(H), Room(H), Grown(H, G, p, a, name, type)
    PROVE  Room(G)
<1> SUFFICES ASSUME NEW s \in DOMAIN G
             PROVE  G[s].capacity % CHUNK_SIZE = 0 /\ Len(G[s].list) <= G[s].capacity
  BY DEF Room
<1>1. CASE s = a
  <2>1. G[a].capacity = 0 /\ G[a].list = << >>
    BY DEF Grown, config_setting_t
  <2> QED BY <1>1, <2>1, SettingAssumption
<1>2. CASE s = p
  <2> DEFINE n == Len(H[p].list)
             r == config_list_add(H[p], a)
  <2>1. p \in DOMAIN H /\ IsSetting(H[p]) /\ G[p] = r /\ a \in Nat
    BY DEF Grown, Heap
  <2>2. /\ r.list = Append(H[p].list, a)
        /\ r.capacity = IF n % CHUNK_SIZE = 0 THEN n + CHUNK_SIZE ELSE H[p].capacity
    BY <2>1, ListAdd
  <2>3. n \in Nat /\ Len(r.list) = n + 1
    BY <2>1, <2>2 DEF IsSetting
  <2>4. H[p].capacity \in Nat /\ H[p].capacity % CHUNK_SIZE = 0 /\ n <= H[p].capacity
    BY <2>1 DEF Room, IsSetting
  <2> HIDE DEF n, r
  <2>5. CASE n % CHUNK_SIZE = 0
    <3>1. r.capacity = n + CHUNK_SIZE /\ CHUNK_SIZE \in Nat \ {0}
      BY <2>2, <2>5, SettingAssumption
    <3>2. r.capacity % CHUNK_SIZE = 0
      BY <2>3, <2>5, <3>1, ChunkMultiple
    <3>3. Len(r.list) <= r.capacity
      BY <2>3, <3>1
    <3> QED BY <1>2, <2>1, <3>2, <3>3
  <2>6. CASE n % CHUNK_SIZE # 0
    <3>1. r.capacity = H[p].capacity /\ n # H[p].capacity
      BY <2>2, <2>4, <2>6
    <3> QED BY <1>2, <2>1, <2>3, <2>4, <3>1
  <2> QED BY <2>5, <2>6
<1>3. CASE s \notin {a, p}
  BY <1>3 DEF Grown, Room
<1> QED BY <1>1, <1>2, <1>3

LEMMA RoomShrunk ==
    ASSUME NEW H, NEW G, NEW p, NEW i, Heap(H), Room(H), Shrunk(H, G, p, i)
    PROVE  Room(G)
<1> DEFINE g == Unlinked(H, p, i)
<1>1. /\ Heap(g) /\ DOMAIN g = DOMAIN H
      /\ \A m \in DOMAIN H \ {p} : g[m] = H[m]
      /\ Len(g[p].list) = Len(H[p].list) - 1
      /\ \A m \in DOMAIN H : g[m].capacity = H[m].capacity
  BY UnlinkedFacts DEF Shrunk
<1>2. p \in DOMAIN H /\ Len(H[p].list) \in Nat /\ H[p].capacity \in Nat
  BY DEF Shrunk, Heap, IsSetting
<1> HIDE DEF g
<1>3. Room(g)
  BY <1>1, <1>2 DEF Room
<1>4. DOMAIN G \subseteq DOMAIN g /\ \A m \in DOMAIN G : G[m] = g[m]
  BY <1>1, DestroyFacts DEF Shrunk, g
<1> QED BY <1>3, <1>4 DEF Room
-----------------------------------------------------------------------------
(* Subtree: the least set that has s and the elements of what it has. *)

\* X and the elements of its members.
WithElements(H, X) == X \cup UNION {Elements(H[m]) : m \in X}

Closed(H, X) == \A m \in X : Elements(H[m]) \subseteq X

\* The first n sets that are computed on the way to Subtree.
Reaches(H, s, n, f) ==
    f = [k \in 0..n |-> IF k = 0 THEN {s} ELSE WithElements(H, f[k - 1])]

\* What they are, set by set.
Rounds(H, s, n, f) == f[0] = {s} /\ \A k \in 1..n : f[k] = WithElements(H, f[k - 1])

LEMMA ReachesEach ==
    ASSUME NEW H, NEW s, NEW n \in Nat, NEW f, Reaches(H, s, n, f)
    PROVE  Rounds(H, s, n, f)
<1> DEFINE B(k) == IF k = 0 THEN {s} ELSE WithElements(H, f[k - 1])
<1>1. f = [k \in 0..n |-> B(k)]
  BY DEF Reaches
<1>2. \A k \in 0..n : f[k] = B(k)
  <2> HIDE DEF B
  <2> QED BY <1>1, Zenon
<1>3. ASSUME NEW k \in 1..n PROVE k \in 0..n /\ k # 0
  OBVIOUS
<1>4. 0 \in 0..n
  OBVIOUS
<1>5. f[0] = {s}
  BY <1>2, <1>4, Zenon
<1> QED BY <1>2, <1>3, <1>5, Zenon DEF Rounds

LEMMA ReachedExists ==
    ASSUME NEW H, NEW s, NEW n \in Nat
    PROVE  \E f : Reaches(H, s, n, f)
<1> DEFINE T == {k \in Nat : \E f : Reaches(H, s, k, f)}
<1>1. 0 \in T
  <2> DEFINE f == [k \in 0..0 |-> {s}]
  <2>1. f = [k \in 0..0 |-> IF k = 0 THEN {s} ELSE WithElements(H, f[k - 1])]
    OBVIOUS
  <2> HIDE DEF f
  <2> QED BY <2>1 DEF Reaches
<1>2. ASSUME NEW k \in Nat, k \in T PROVE k + 1 \in T
  <2>1. PICK f : Reaches(H, s, k, f)
    BY <1>2
  <2>0. f[0] = {s} /\ \A j \in 1..k : f[j] = WithElements(H, f[j - 1])
    BY <2>1, ReachesEach DEF Rounds
  <2> DEFINE g == [j \in 0..(k + 1) |-> IF j <= k THEN f[j] ELSE WithElements(H, f[k])]
  <2>2. \A j \in 0..k : g[j] = f[j]
    OBVIOUS
  <2>3. ASSUME NEW j \in 0..(k + 1)
        PROVE  g[j] = IF j = 0 THEN {s} ELSE WithElements(H, g[j - 1])
    <3>1. CASE j = k + 1
      <4>1. g[j] = WithElements(H, f[k]) /\ g[k] = f[k] /\ j - 1 = k /\ j # 0
        BY <3>1
      <4> HIDE DEF g
      <4> QED BY <4>1
    <3>2. CASE j = 0
      BY <2>0, <3>2
    <3>3. CASE j \in 1..k
      <4>1. f[j] = WithElements(H, f[j - 1])
        BY <2>0, <3>3, Zenon
      <4>2. g[j] = f[j] /\ g[j - 1] = f[j - 1] /\ j # 0
        BY <3>3
      <4> HIDE DEF g
      <4> QED BY <4>1, <4>2
    <3> QED BY <3>1, <3>2, <3>3
  <2>4. g = [j \in 0..(k + 1) |-> g[j]]
    OBVIOUS
  <2> HIDE DEF g
  <2>5. Reaches(H, s, k + 1, g)
    BY <2>3, <2>4 DEF Reaches
  <2> QED BY <2>5
<1> HIDE DEF T
<1>3. Nat \subseteq T
  BY <1>1, <1>2, SetInduction
<1> QED BY <1>3 DEF T

LEMMA SubtreeReached ==
    ASSUME NEW H, Heap(H), NEW s
    PROVE  \E f : /\ f[0] = {s}
                  /\ \A k \in 1..Cardinality(DOMAIN H) : f[k] = WithElements(H, f[k - 1])
                  /\ Subtree(H, s) = f[Cardinality(DOMAIN H)]
<1> DEFINE n == Cardinality(DOMAIN H)
           f == CHOOSE f : Reaches(H, s, n, f)
<1>1. n \in Nat
  BY FS_CardinalityType DEF Heap
<1>2. Reaches(H, s, n, f)
  <2> HIDE DEF n
  <2> QED BY <1>1, ReachedExists
<1>3. Subtree(H, s) = f[n]
  BY DEF Subtree, Reaches, WithElements
<1> HIDE DEF f, n
<1>4. Rounds(H, s, n, f)
  BY <1>1, <1>2, ReachesEach
<1> QED BY <1>3, <1>4 DEF n, Rounds

LEMMA SubtreeFacts ==
    ASSUME NEW H, Heap(H), Closed(H, DOMAIN H), NEW s \in DOMAIN H
    PROVE  LET D == Subtree(H, s)
           IN  /\ s \in D
               /\ D \subseteq DOMAIN H
               /\ Closed(H, D)
               /\ \A X : s \in X /\ Closed(H, X) => D \subseteq X
<1> DEFINE n == Cardinality(DOMAIN H)
           D == Subtree(H, s)
<1>0. n \in Nat
  BY FS_CardinalityType DEF Heap
<1>1. PICK f : /\ f[0] = {s}
               /\ \A k \in 1..n : f[k] = WithElements(H, f[k - 1])
               /\ D = f[n]
  BY SubtreeReached
<1> HIDE DEF n, D
<1>2. \A k \in 0..(n - 1) : f[k + 1] = WithElements(H, f[k])
  <2>1. ASSUME NEW k \in 0..(n - 1) PROVE k + 1 \in 1..n /\ (k + 1) - 1 = k
    BY <1>0
  <2> QED BY <1>1, <2>1
<1>3. ASSUME NEW X, s \in X, Closed(H, X) PROVE \A k \in 0..n : f[k] \subseteq X
  <2> DEFINE T == {k \in Nat : f[k] \subseteq X}
  <2>1. 0 \in T
    BY <1>1, <1>3
  <2>2. ASSUME NEW k \in 0..(n - 1), k \in T PROVE k + 1 \in T
    <3>1. WithElements(H, f[k]) \subseteq X
      BY <1>3, <2>2 DEF WithElements, Closed
    <3> QED BY <1>0, <1>2, <3>1
  <2> HIDE DEF T
  <2>3. 0..n \subseteq T
    BY <1>0, <2>1, <2>2, InductionUpTo
  <2> QED BY <2>3 DEF T
<1>4. \A k \in 0..n : f[k] \subseteq DOMAIN H
  BY <1>3
<1>5. \A k \in 0..(n - 1) : f[k] \subseteq f[k + 1]
  BY <1>2 DEF WithElements
<1>6. \A k \in 0..n : s \in f[k]
  <2> DEFINE T == {k \in Nat : s \in f[k]}
  <2>1. 0 \in T
    BY <1>1
  <2>2. ASSUME NEW k \in 0..(n - 1), k \in T PROVE k + 1 \in T
    BY <1>0, <1>5, <2>2
  <2> HIDE DEF T
  <2>3. 0..n \subseteq T
    BY <1>0, <2>1, <2>2, InductionUpTo
  <2> QED BY <2>3 DEF T
<1>7. \A k \in 0..n : Closed(H, f[k]) \/ Cardinality(f[k]) >= k + 1
  <2> DEFINE T == {k \in Nat : Closed(H, f[k]) \/ Cardinality(f[k]) >= k + 1}
  <2>1. 0 \in T
    <3>1. Cardinality({s}) = 1
      BY FS_Singleton, Zenon
    <3>2. Cardinality(f[0]) = 1
      BY <1>1, <3>1
    <3>3. Cardinality(f[0]) >= 0 + 1
      BY <3>2
    <3> QED BY <3>3
  <2>2. ASSUME NEW k \in 0..(n - 1), k \in T PROVE k + 1 \in T
    <3>1. CASE Closed(H, f[k])
      <4>1. f[k + 1] = f[k]
        <5>1. WithElements(H, f[k]) = f[k]
          BY <3>1 DEF WithElements, Closed
        <5> QED BY <1>2, <5>1
      <4> QED BY <1>0, <3>1, <4>1
    <3>2. CASE ~ Closed(H, f[k])
      <4>1. f[k + 1] # f[k]
        BY <1>2, <3>2 DEF WithElements, Closed
      <4>2. k \in 0..n /\ k + 1 \in 0..n /\ k \in Nat /\ k + 1 \in Nat
        BY <1>0
      <4>3. IsFiniteSet(f[k + 1]) /\ f[k] \subseteq f[k + 1]
        BY <1>4, <1>5, <4>2, FS_Subset DEF Heap
      <4>4. /\ IsFiniteSet(f[k])
            /\ Cardinality(f[k]) <= Cardinality(f[k + 1])
            /\ Cardinality(f[k]) # Cardinality(f[k + 1])
        BY <4>1, <4>3, FS_Subset
      <4>5. Cardinality(f[k]) \in Nat /\ Cardinality(f[k + 1]) \in Nat
        BY <4>3, <4>4, FS_CardinalityType
      <4>6. Cardinality(f[k]) >= k + 1
        BY <2>2, <3>2
      <4>7. Cardinality(f[k + 1]) >= (k + 1) + 1
        BY <4>2, <4>4, <4>5, <4>6
      <4> QED BY <4>2, <4>7
    <3> QED BY <3>1, <3>2
  <2> HIDE DEF T
  <2>3. 0..n \subseteq T
    BY <1>0, <2>1, <2>2, InductionUpTo
  <2> QED BY <2>3 DEF T
<1>8. Closed(H, D)
  <2>1. n \in 0..n
    BY <1>0
  <2>2. Cardinality(f[n]) <= n /\ Cardinality(f[n]) \in Nat
    BY <1>4, <2>1, FS_Subset, FS_CardinalityType DEF Heap, n
  <2> QED BY <1>0, <1>1, <1>7, <2>1, <2>2
<1>9. n \in 0..n
  BY <1>0
<1> QED BY <1>1, <1>3, <1>4, <1>6, <1>8, <1>9 DEF D
-----------------------------------------------------------------------------
(* Lists and parents. *)

LEMMA ElementsOf ==
    ASSUME NEW s, NEW e
    PROVE  e \in Elements(s) <=> \E i \in 1..Len(s.list) : s.list[i] = e
  BY DEF Elements

LEMMA LinkedClosed ==
    ASSUME NEW H, Linked(H)
    PROVE  Closed(H, DOMAIN H)
  BY ElementsOf DEF Linked, Closed

LEMMA LinkedParents ==
    ASSUME NEW H, Linked(H), NEW s \in DOMAIN H, NEW e \in Elements(H[s])
    PROVE  e \in DOMAIN H /\ H[e].parent = s
  BY ElementsOf DEF Linked

LEMMA LinkedChanged ==
    ASSUME NEW H, NEW G, Linked(H), Changed(H, G)
    PROVE  Linked(G)
  BY DEF Linked, Changed, Kept

\* The fields of the settings in a heap that has grown.
LEMMA GrownFacts ==
    ASSUME NEW H, NEW G, NEW p, NEW a, NEW name, NEW type,
           Heap(H), Grown(H, G, p, a, name, type)
    PROVE  /\ G[p].list = Append(H[p].list, a)
           /\ G[p].type \in Aggregates
           /\ G[a].list = << >> /\ G[a].parent = p /\ G[a].hook = NULL
           /\ G[a].type = type
           /\ G[a].name = name
           /\ \A s \in DOMAIN H : /\ G[s].parent = H[s].parent
                                  /\ G[s].name = H[s].name
                                  /\ G[s].hook = H[s].hook
                                  /\ G[s].type = H[s].type
           /\ \A s \in DOMAIN H \ {p} : G[s].list = H[s].list
<1>1. p \in DOMAIN H /\ IsSetting(H[p]) /\ a \in Nat /\ G[p] = config_list_add(H[p], a)
  BY DEF Grown, Heap
<1>2. /\ G[p].list = Append(H[p].list, a)
      /\ G[p].parent = H[p].parent /\ G[p].name = H[p].name
      /\ G[p].type = H[p].type /\ G[p].hook = H[p].hook
  BY <1>1, ListAdd
<1>3. /\ G[a].list = << >> /\ G[a].parent = p /\ G[a].hook = NULL
      /\ G[a].type = type /\ G[a].name = name
  BY DEF Grown, config_setting_t
<1> QED BY <1>1, <1>2, <1>3 DEF Grown

LEMMA GrownElements ==
    ASSUME NEW H, NEW G, NEW p, NEW a, NEW name, NEW type,
           Heap(H), Grown(H, G, p, a, name, type)
    PROVE  /\ Elements(G[p]) = Elements(H[p]) \cup {a}
           /\ Elements(G[a]) = {}
           /\ \A s \in DOMAIN H \ {p} : Elements(G[s]) = Elements(H[s])
<1> DEFINE q == H[p].list
<1>1. /\ G[p].list = Append(q, a) /\ G[a].list = << >>
      /\ \A s \in DOMAIN H \ {p} : G[s].list = H[s].list
  BY GrownFacts
<1>2. q \in Seq(Nat) /\ a \in Nat
  BY DEF Grown, Heap, IsSetting
<1> HIDE DEF q
<1>3. /\ Len(Append(q, a)) = Len(q) + 1 /\ Len(q) \in Nat
      /\ \A i \in 1..Len(q) : Append(q, a)[i] = q[i]
      /\ Append(q, a)[Len(q) + 1] = a
  BY <1>2
<1>4. Elements(G[p]) = Elements(H[p]) \cup {a}
  <2> DEFINE r == Append(q, a)
  <2>1. /\ \A e : e \in Elements(G[p]) <=> \E i \in 1..Len(r) : r[i] = e
        /\ \A e : e \in Elements(H[p]) <=> \E i \in 1..Len(q) : q[i] = e
    <3>1. G[p].list = r /\ H[p].list = q
      BY <1>1 DEF q
    <3> HIDE DEF r
    <3> QED BY <3>1, ElementsOf, Zenon
  <2>2. Len(r) = Len(q) + 1 /\ r[Len(q) + 1] = a /\ \A i \in 1..Len(q) : r[i] = q[i]
    BY <1>3
  <2> HIDE DEF r
  <2>3. \A e : (\E i \in 1..Len(r) : r[i] = e) <=> e = a \/ \E i \in 1..Len(q) : q[i] = e
    BY <1>3, <2>2
  <2> QED BY <2>1, <2>3
<1>5. Elements(G[a]) = {}
  BY <1>1 DEF Elements
<1> QED BY <1>1, <1>4, <1>5 DEF Elements

LEMMA LinkedGrown ==
    ASSUME NEW H, NEW G, NEW p, NEW a, NEW name, NEW type,
           Heap(H), Linked(H), Grown(H, G, p, a, name, type)
    PROVE  Linked(G)
<1> SUFFICES ASSUME NEW s \in DOMAIN G
             PROVE  /\ \A i \in 1..Len(G[s].list) :
                           /\ G[s].list[i] \in DOMAIN G
                           /\ G[G[s].list[i]].parent = s
                    /\ \A i, j \in 1..Len(G[s].list) : G[s].list[i] = G[s].list[j] => i = j
                    /\ G[s].list # << >> => G[s].type \in Aggregates
  BY DEF Linked
<1>1. /\ p \in DOMAIN H /\ a \in Nat /\ a \notin DOMAIN H /\ DOMAIN G = DOMAIN H \cup {a}
      /\ \A m \in DOMAIN H \ {p} : G[m] = H[m]
  BY DEF Grown
<1>2. /\ G[p].list = Append(H[p].list, a)
      /\ G[p].type \in Aggregates
      /\ G[a].list = << >> /\ G[a].parent = p
      /\ \A m \in DOMAIN H : G[m].parent = H[m].parent
  BY GrownFacts
<1>3. CASE s = a
  BY <1>2, <1>3
<1>4. CASE s = p
  <2> DEFINE q == H[p].list
  <2>1. q \in Seq(Nat)
    BY <1>1 DEF Heap, IsSetting
  <2>2. /\ Len(G[p].list) = Len(q) + 1 /\ Len(q) \in Nat
        /\ \A i \in 1..Len(q) : G[p].list[i] = q[i]
        /\ G[p].list[Len(q) + 1] = a
    BY <1>1, <1>2, <2>1
  <2>3. /\ \A i \in 1..Len(q) : q[i] \in DOMAIN H /\ H[q[i]].parent = p
        /\ \A i, j \in 1..Len(q) : q[i] = q[j] => i = j
    BY <1>1 DEF Linked
  <2> HIDE DEF q
  <2>4. \A i \in 1..Len(G[p].list) : i \in 1..Len(q) \/ i = Len(q) + 1
    BY <2>2
  <2>5. ASSUME NEW i \in 1..Len(G[p].list)
        PROVE  G[p].list[i] \in DOMAIN G /\ G[G[p].list[i]].parent = p
    BY <1>1, <1>2, <2>2, <2>3, <2>4
  <2>6. ASSUME NEW i \in 1..Len(G[p].list), NEW j \in 1..Len(G[p].list),
               G[p].list[i] = G[p].list[j]
        PROVE  i = j
    BY <1>1, <2>2, <2>3, <2>4, <2>6
  <2> QED BY <1>2, <1>4, <2>5, <2>6
<1>5. CASE s \in DOMAIN H \ {p}
  BY <1>1, <1>2, <1>5 DEF Linked
<1> QED BY <1>1, <1>3, <1>4, <1>5

\* Taking the i-th element out of the list of p takes that element from the
\* elements of p, and nothing else from anyone.
LEMMA UnlinkedElements ==
    ASSUME NEW H, Heap(H), Linked(H), NEW p \in DOMAIN H, NEW i \in 1..Len(H[p].list)
    PROVE  LET g == Unlinked(H, p, i)
           IN  /\ Elements(g[p]) = Elements(H[p]) \ {H[p].list[i]}
               /\ \A m \in DOMAIN H \ {p} : Elements(g[m]) = Elements(H[m])
<1> DEFINE g == Unlinked(H, p, i)
           q == H[p].list
           r == g[p].list
<1>1. /\ \A m \in DOMAIN H \ {p} : g[m] = H[m]
      /\ Len(r) = Len(q) - 1
      /\ \A j \in 1..Len(r) : r[j] = IF j < i THEN q[j] ELSE q[j + 1]
  BY UnlinkedFacts
<1>2. q \in Seq(Nat) /\ Len(q) \in Nat /\ i \in 1..Len(q)
  BY DEF Heap, IsSetting
<1>3. \A j, k \in 1..Len(q) : q[j] = q[k] => j = k
  BY DEF Linked
<1>4. /\ \A e : e \in Elements(g[p]) <=> \E j \in 1..Len(r) : r[j] = e
      /\ \A e : e \in Elements(H[p]) <=> \E j \in 1..Len(q) : q[j] = e
  BY ElementsOf
<1> HIDE DEF r, q
<1>5. ASSUME NEW j \in 1..Len(r)
      PROVE  \E k \in 1..Len(q) : k # i /\ r[j] = q[k]
  <2>1. CASE j < i
    <3>1. j \in 1..Len(q) /\ j # i
      BY <1>1, <1>2, <2>1
    <3>2. r[j] = q[j]
      BY <1>1, <2>1
    <3> QED BY <3>1, <3>2
  <2>2. CASE ~ (j < i)
    <3>1. j + 1 \in 1..Len(q) /\ j + 1 # i /\ r[j] = q[j + 1]
      BY <1>1, <1>2, <2>2
    <3> QED BY <3>1
  <2> QED BY <2>1, <2>2
<1>6. ASSUME NEW k \in 1..Len(q), k # i
      PROVE  \E j \in 1..Len(r) : r[j] = q[k]
  <2>1. CASE k < i
    <3>1. k \in 1..Len(r)
      BY <1>1, <1>2, <2>1
    <3>2. r[k] = q[k]
      BY <1>1, <2>1, <3>1
    <3> QED BY <3>1, <3>2
  <2>2. CASE k > i
    <3>1. k - 1 \in 1..Len(r) /\ ~ (k - 1 < i) /\ (k - 1) + 1 = k
      BY <1>1, <1>2, <2>2
    <3>2. r[k - 1] = q[k]
      BY <1>1, <3>1
    <3> QED BY <3>1, <3>2
  <2> QED BY <1>2, <1>6, <2>1, <2>2
<1>7. \A e : e \in Elements(g[p]) <=> e \in Elements(H[p]) /\ e # q[i]
  <2>1. ASSUME NEW j \in 1..Len(r)
        PROVE  r[j] # q[i] /\ \E k \in 1..Len(q) : r[j] = q[k]
    BY <1>2, <1>3, <1>5
  <2>2. ASSUME NEW k \in 1..Len(q), q[k] # q[i] PROVE \E j \in 1..Len(r) : r[j] = q[k]
    BY <1>6, <2>2
  <2> QED BY <1>4, <2>1, <2>2, Zenon
<1>8. Elements(g[p]) = Elements(H[p]) \ {q[i]}
  BY <1>7
<1>9. \A m \in DOMAIN H \ {p} : Elements(g[m]) = Elements(H[m])
  BY <1>1
<1> QED BY <1>8, <1>9 DEF q

LEMMA LinkedUnlinked ==
    ASSUME NEW H, Heap(H), Linked(H), NEW p \in DOMAIN H, NEW i \in 1..Len(H[p].list)
    PROVE  Linked(Unlinked(H, p, i))
<1> DEFINE g == Unlinked(H, p, i)
<1>1. /\ DOMAIN g = DOMAIN H
      /\ \A m \in DOMAIN H \ {p} : g[m] = H[m]
      /\ Len(g[p].list) = Len(H[p].list) - 1
      /\ \A j \in 1..Len(g[p].list) :
             g[p].list[j] = IF j < i THEN H[p].list[j] ELSE H[p].list[j + 1]
      /\ \A m \in DOMAIN H : g[m].parent = H[m].parent /\ g[m].type = H[m].type
  BY UnlinkedFacts
<1>2. Len(H[p].list) \in Nat /\ i \in Nat
  BY DEF Heap, IsSetting
<1> HIDE DEF g
<1>3. ASSUME NEW s \in DOMAIN g, s # p
      PROVE  /\ \A j \in 1..Len(g[s].list) :
                    g[s].list[j] \in DOMAIN g /\ g[g[s].list[j]].parent = s
             /\ \A j, k \in 1..Len(g[s].list) : g[s].list[j] = g[s].list[k] => j = k
             /\ g[s].list # << >> => g[s].type \in Aggregates
  BY <1>1, <1>3 DEF Linked
<1>4. /\ \A j \in 1..Len(g[p].list) :
             g[p].list[j] \in DOMAIN g /\ g[g[p].list[j]].parent = p
      /\ \A j, k \in 1..Len(g[p].list) : g[p].list[j] = g[p].list[k] => j = k
      /\ g[p].type \in Aggregates
  <2> DEFINE q == H[p].list
             r == g[p].list
  <2>1. /\ \A j \in 1..Len(q) : q[j] \in DOMAIN H /\ H[q[j]].parent = p
        /\ \A j, k \in 1..Len(q) : q[j] = q[k] => j = k
        /\ q # << >> => H[p].type \in Aggregates
    BY DEF Linked
  <2>2. q # << >>
    BY <1>2
  <2>3. /\ Len(r) = Len(q) - 1 /\ Len(q) \in Nat /\ i \in 1..Len(q)
        /\ \A j \in 1..Len(r) : r[j] = IF j < i THEN q[j] ELSE q[j + 1]
    BY <1>1, <1>2
  <2> HIDE DEF q, r
  <2>4. ASSUME NEW j \in 1..Len(r)
        PROVE  LET k == IF j < i THEN j ELSE j + 1
               IN  k \in 1..Len(q) /\ r[j] = q[k]
    BY <2>3
  <2>5. ASSUME NEW j \in 1..Len(r) PROVE r[j] \in DOMAIN g /\ g[r[j]].parent = p
    <3>1. PICK k \in 1..Len(q) : r[j] = q[k]
      BY <2>4
    <3>2. q[k] \in DOMAIN H /\ H[q[k]].parent = p
      BY <2>1
    <3> QED BY <1>1, <3>1, <3>2
  <2>6. ASSUME NEW j \in 1..Len(r), NEW k \in 1..Len(r), r[j] = r[k] PROVE j = k
    <3>1. (IF j < i THEN j ELSE j + 1) = (IF k < i THEN k ELSE k + 1)
      BY <2>1, <2>4, <2>6
    <3> QED BY <2>3, <3>1
  <2> QED BY <1>1, <2>1, <2>2, <2>5, <2>6 DEF q, r
<1>5. Linked(g)
  BY <1>1, <1>3, <1>4 DEF Linked
<1> QED BY <1>5 DEF g

\* Nothing outside of a subtree leads into it, but for its top, when nothing
\* leads there.
LEMMA SubtreeCutOff ==
    ASSUME NEW H, Heap(H), Linked(H), NEW s \in DOMAIN H,
           \A m \in DOMAIN H : s \notin Elements(H[m]),
           NEW m \in DOMAIN H \ Subtree(H, s), NEW e \in Elements(H[m])
    PROVE  e \notin Subtree(H, s)
<1> DEFINE D == Subtree(H, s)
<1>1. /\ s \in D /\ D \subseteq DOMAIN H /\ Closed(H, D)
      /\ \A X : s \in X /\ Closed(H, X) => D \subseteq X
  BY LinkedClosed, SubtreeFacts
<1>2. e # s /\ m \notin D /\ m \in DOMAIN H
  OBVIOUS
<1> HIDE DEF D
<1>3. Closed(H, D \ {e})
  <2> SUFFICES ASSUME NEW n \in D \ {e}, NEW x \in Elements(H[n]) PROVE x \in D \ {e}
    BY DEF Closed
  <2>1. x \in D
    BY <1>1 DEF Closed
  <2>2. H[x].parent = n /\ H[e].parent = m
    BY <1>1, <1>2, LinkedParents
  <2> QED BY <1>2, <2>1, <2>2
<1>4. D \subseteq D \ {e}
  BY <1>1, <1>2, <1>3
<1> QED BY <1>4 DEF D

\* G is what is left of H after the setting s and all below it, D, are gone; in
\* g, s is only taken out of the list of its parent p.
CutOff(H, G, p, g, s, D) ==
    /\ Heap(g) /\ Linked(g) /\ DOMAIN g = DOMAIN H
    /\ s \in DOMAIN H /\ H[s].parent = p
    /\ \A m \in DOMAIN H : s \notin Elements(g[m])
    /\ \A m \in DOMAIN H : Elements(H[m]) \subseteq Elements(g[m]) \cup {s}
    /\ D = Subtree(g, s)
    /\ s \in D /\ D \subseteq DOMAIN H /\ Closed(g, D)
    /\ \A X : s \in X /\ Closed(g, X) => D \subseteq X
    /\ Heap(G) /\ DOMAIN G = DOMAIN H \ D
    /\ \A m \in DOMAIN G : G[m] = g[m]

LEMMA ShrunkFacts ==
    ASSUME NEW H, NEW G, NEW p, NEW i, Heap(H), Linked(H), Shrunk(H, G, p, i)
    PROVE  LET g == Unlinked(H, p, i)
               s == H[p].list[i]
           IN  CutOff(H, G, p, g, s, Subtree(g, s))
<1> DEFINE g == Unlinked(H, p, i)
           s == H[p].list[i]
           D == Subtree(g, s)
<1>1. p \in DOMAIN H /\ i \in 1..Len(H[p].list) /\ G = config_setting_destroy(g, s).h
  BY DEF Shrunk
<1>2. Heap(g) /\ DOMAIN g = DOMAIN H
  BY <1>1, UnlinkedFacts
<1>3. Linked(g)
  BY <1>1, LinkedUnlinked
<1>4. s \in DOMAIN H /\ H[s].parent = p
  BY <1>1 DEF Linked
<1>5. /\ Elements(g[p]) = Elements(H[p]) \ {s}
      /\ \A m \in DOMAIN H \ {p} : Elements(g[m]) = Elements(H[m])
  BY <1>1, UnlinkedElements
<1> HIDE DEF g, s
<1>6. \A m \in DOMAIN H : s \notin Elements(g[m])
  <2>1. ASSUME NEW m \in DOMAIN H \ {p}, s \in Elements(H[m]) PROVE FALSE
    BY <1>4, <2>1, LinkedParents
  <2> QED BY <1>5, <2>1
<1>7. \A m \in DOMAIN H : Elements(H[m]) \subseteq Elements(g[m]) \cup {s}
  BY <1>5
<1>8. /\ s \in D /\ D \subseteq DOMAIN H /\ Closed(g, D)
      /\ \A X : s \in X /\ Closed(g, X) => D \subseteq X
  BY <1>2, <1>3, <1>4, LinkedClosed, SubtreeFacts
<1>9. Heap(G) /\ DOMAIN G = DOMAIN H \ D /\ \A m \in DOMAIN G : G[m] = g[m]
  BY <1>1, <1>2, DestroyFacts
<1>10. CutOff(H, G, p, g, s, D)
  <2>1. D = Subtree(g, s)
    OBVIOUS
  <2> HIDE DEF D
  <2> QED BY <1>2, <1>3, <1>4, <1>6, <1>7, <1>8, <1>9, <2>1 DEF CutOff
<1> QED BY <1>10 DEF g, s

LEMMA LinkedShrunk ==
    ASSUME NEW H, NEW G, NEW p, NEW i, Heap(H), Linked(H), Shrunk(H, G, p, i)
    PROVE  Linked(G)
<1> DEFINE g == Unlinked(H, p, i)
           s == H[p].list[i]
           D == Subtree(g, s)
<1>0. CutOff(H, G, p, g, s, D)
  BY ShrunkFacts
<1> HIDE DEF g, s
<1>1. /\ Heap(g) /\ Linked(g) /\ s \in DOMAIN g
      /\ \A m \in DOMAIN g : s \notin Elements(g[m])
      /\ DOMAIN G = DOMAIN g \ D
      /\ \A m \in DOMAIN G : G[m] = g[m]
  <2> HIDE DEF D
  <2> QED BY <1>0 DEF CutOff
<1>2. ASSUME NEW m \in DOMAIN G, NEW e \in Elements(g[m]) PROVE e \in DOMAIN G
  BY <1>1, SubtreeCutOff, LinkedParents
<1> HIDE DEF D
<1>3. ASSUME NEW m \in DOMAIN G, NEW j \in 1..Len(g[m].list)
      PROVE  /\ g[m].list[j] \in DOMAIN G
             /\ g[g[m].list[j]].parent = m
  <2>1. g[m].list[j] \in Elements(g[m])
    BY ElementsOf
  <2> QED BY <1>1, <1>2, <2>1, LinkedParents
<1>4. ASSUME NEW m \in DOMAIN G
      PROVE  /\ \A j, k \in 1..Len(g[m].list) : g[m].list[j] = g[m].list[k] => j = k
             /\ g[m].list # << >> => g[m].type \in Aggregates
  BY <1>1 DEF Linked
<1> QED BY <1>1, <1>3, <1>4 DEF Linked
-----------------------------------------------------------------------------
(* IsTree: everything is reached from the root. *)

Rooted(H, r) ==
    /\ r \in DOMAIN H
    /\ H[r].parent = NULL
    /\ H[r].type = "GROUP"
    /\ \A X \in SUBSET DOMAIN H : r \in X /\ Closed(H, X) => X = DOMAIN H

LEMMA RootedChanged ==
    ASSUME NEW H, NEW G, NEW r, Rooted(H, r), Changed(H, G)
    PROVE  Rooted(G, r)
<1>1. DOMAIN G = DOMAIN H /\ G[r].parent = H[r].parent /\ G[r].type = "GROUP"
  BY DEF Rooted, Changed, Kept, Aggregates
<1>2. \A m \in DOMAIN H : Elements(G[m]) = Elements(H[m])
  BY DEF Changed, Kept, Elements
<1>3. ASSUME NEW X \in SUBSET DOMAIN H, Closed(G, X) PROVE Closed(H, X)
  BY <1>2, <1>3 DEF Closed
<1> QED BY <1>1, <1>3 DEF Rooted

LEMMA RootedGrown ==
    ASSUME NEW H, NEW G, NEW p, NEW a, NEW name, NEW type, NEW r,
           Heap(H), Linked(H), Rooted(H, r), Grown(H, G, p, a, name, type)
    PROVE  Rooted(G, r)
<1>1. p \in DOMAIN H /\ a \notin DOMAIN H /\ DOMAIN G = DOMAIN H \cup {a}
  BY DEF Grown
<1>2. r \in DOMAIN G /\ G[r].parent = NULL /\ G[r].type = "GROUP"
  BY <1>1, GrownFacts DEF Rooted
<1>3. /\ Elements(G[p]) = Elements(H[p]) \cup {a}
      /\ \A s \in DOMAIN H \ {p} : Elements(G[s]) = Elements(H[s])
  BY GrownElements
<1>4. ASSUME NEW X \in SUBSET DOMAIN G, r \in X, Closed(G, X) PROVE X = DOMAIN G
  <2> DEFINE Y == X \cap DOMAIN H
  <2>1. \A m \in DOMAIN H : Elements(H[m]) \subseteq DOMAIN H
    BY LinkedClosed DEF Closed
  <2>2. ASSUME NEW m \in Y PROVE Elements(H[m]) \subseteq Y
    <3>1. Elements(H[m]) \subseteq Elements(G[m])
      BY <1>3
    <3>2. Elements(G[m]) \subseteq X
      BY <1>4 DEF Closed
    <3> QED BY <2>1, <3>1, <3>2
  <2>3. Y \in SUBSET DOMAIN H /\ r \in Y
    BY <1>4 DEF Rooted
  <2> HIDE DEF Y
  <2>4. Y = DOMAIN H
    BY <2>2, <2>3 DEF Rooted, Closed
  <2>5. DOMAIN H \subseteq X
    BY <2>4 DEF Y
  <2>6. a \in X
    BY <1>1, <1>3, <1>4, <2>5 DEF Closed
  <2> QED BY <1>1, <2>5, <2>6
<1> QED BY <1>2, <1>4 DEF Rooted

LEMMA RootedShrunk ==
    ASSUME NEW H, NEW G, NEW p, NEW i, NEW r,
           Heap(H), Linked(H), Rooted(H, r), Shrunk(H, G, p, i)
    PROVE  Rooted(G, r)
<1> DEFINE g == Unlinked(H, p, i)
           s == H[p].list[i]
           D == Subtree(g, s)
<1>0. CutOff(H, G, p, g, s, D)
  BY ShrunkFacts
<1>2. p \in DOMAIN H /\ p # NULL /\ \A m \in DOMAIN H : m # NULL
  BY DEF Shrunk, Heap, NULL
<1>3. \A m \in DOMAIN H : g[m].parent = H[m].parent /\ g[m].type = H[m].type
  BY UnlinkedFacts DEF Shrunk
<1> HIDE DEF g, s, D
<1>1. /\ Heap(g) /\ Linked(g) /\ DOMAIN g = DOMAIN H
      /\ s \in DOMAIN H /\ H[s].parent = p
      /\ \A m \in DOMAIN H : Elements(H[m]) \subseteq Elements(g[m]) \cup {s}
      /\ s \in D /\ D \subseteq DOMAIN H /\ Closed(g, D)
      /\ \A X : s \in X /\ Closed(g, X) => D \subseteq X
      /\ DOMAIN G = DOMAIN H \ D
      /\ \A m \in DOMAIN G : G[m] = g[m]
  BY <1>0 DEF CutOff
<1>4. r \in DOMAIN H /\ H[r].parent = NULL /\ H[r].type = "GROUP"
  BY DEF Rooted
<1>5. r \notin D
  <2>1. r # s
    BY <1>1, <1>2, <1>4
  <2>2. ASSUME NEW m \in D \ {r}, NEW e \in Elements(g[m]) PROVE e \in D \ {r}
    <3>1. g[e].parent = m /\ e \in DOMAIN H /\ m \in DOMAIN H
      BY <1>1, <2>2, LinkedParents
    <3>2. e # r
      BY <1>2, <1>3, <1>4, <3>1
    <3> QED BY <1>1, <2>2, <3>2 DEF Closed
  <2>3. Closed(g, D \ {r})
    BY <2>2 DEF Closed
  <2> QED BY <1>1, <2>1, <2>3
<1>6. r \in DOMAIN G /\ G[r].parent = NULL /\ G[r].type = "GROUP"
  BY <1>1, <1>3, <1>4, <1>5
<1>7. ASSUME NEW X \in SUBSET DOMAIN G, r \in X, Closed(G, X) PROVE X = DOMAIN G
  <2>1. ASSUME NEW m \in X \cup D PROVE Elements(H[m]) \subseteq X \cup D
    <3>1. m \in DOMAIN H /\ Elements(H[m]) \subseteq Elements(g[m]) \cup {s} /\ s \in D
      BY <1>1
    <3>2. CASE m \in D
      BY <1>1, <3>1, <3>2 DEF Closed
    <3>3. CASE m \in X
      <4>1. G[m] = g[m]
        BY <1>1, <3>3
      <4>2. Elements(g[m]) \subseteq X
        BY <1>7, <3>3, <4>1 DEF Closed
      <4> QED BY <3>1, <4>2
    <3> QED BY <3>2, <3>3
  <2>2. Closed(H, X \cup D) /\ X \cup D \in SUBSET DOMAIN H /\ r \in X \cup D
    BY <1>1, <1>7, <2>1 DEF Closed
  <2>3. X \cup D = DOMAIN H
    BY <2>2 DEF Rooted
  <2> QED BY <1>1, <2>3
<1> QED BY <1>6, <1>7 DEF Rooted

LEMMA RootedSubtree ==
    ASSUME NEW H, NEW r, Heap(H), Linked(H), Rooted(H, r)
    PROVE  DOMAIN H = Subtree(H, r)
<1>1. /\ r \in Subtree(H, r)
      /\ Subtree(H, r) \subseteq DOMAIN H
      /\ Closed(H, Subtree(H, r))
  BY LinkedClosed, SubtreeFacts DEF Rooted
<1> QED BY <1>1 DEF Rooted

\* As many elements as the list is long.
LEMMA ElementsCount ==
    ASSUME NEW H, Heap(H), Linked(H), NEW s \in DOMAIN H
    PROVE  Cardinality(Elements(H[s])) = config_setting_length(H, s)
<1> DEFINE q == H[s].list
           n == Len(q)
           S == Elements(H[s])
<1>1. q \in Seq(Nat) /\ n \in Nat
  BY DEF Heap, IsSetting
<1>2. CASE H[s].type \in Aggregates
  <2>1. \A j, k \in 1..n : q[j] = q[k] => j = k
    BY DEF Linked
  <2>2. S = {q[j] : j \in 1..n}
    BY DEF Elements
  <2> HIDE DEF q, S
  <2> DEFINE f == [j \in 1..n |-> q[j]]
  <2>3. f \in Bijection(1..n, S)
    BY <2>1, <2>2 DEF Bijection, Injection, Surjection, IsInjective
  <2>4. Cardinality(S) = n
    <3> HIDE DEF f, n
    <3> QED BY <1>1, <2>3, FS_CountingElements DEF ExistsBijection
  <2> QED BY <1>2, <2>4 DEF config_setting_length, S, q
<1>3. CASE H[s].type \notin Aggregates
  <2>1. q = << >>
    BY <1>3 DEF Linked
  <2>2. S = {}
    BY <2>1 DEF Elements
  <2> QED BY <1>3, <2>2, FS_EmptySet DEF config_setting_length
<1> QED BY <1>2, <1>3
-----------------------------------------------------------------------------
(* Names. *)

\* The elements of a group have names of one part, each its own; those of arrays
\* and lists have none.
Named(H) ==
    \A s \in DOMAIN H :
        /\ \A e \in Elements(H[s]) :
               IF H[s].type = "GROUP"
               THEN H[e].name \in Seq(STRING) /\ Len(H[e].name) = 1
               ELSE H[e].name = << >>
        /\ \A e, f \in Elements(H[s]) :
               H[s].type = "GROUP" /\ H[e].name = H[f].name => e = f

LEMMA NamedChanged ==
    ASSUME NEW H, NEW G, Linked(H), Named(H), Changed(H, G)
    PROVE  Named(G)
<1>1. DOMAIN G = DOMAIN H /\ \A s \in DOMAIN H : Kept(H[s], G[s])
  BY DEF Changed
<1>2. ASSUME NEW s \in DOMAIN H
      PROVE  /\ Elements(G[s]) = Elements(H[s])
             /\ Elements(H[s]) \subseteq DOMAIN H
             /\ Elements(H[s]) # {} => G[s].type = H[s].type
             /\ \A e \in Elements(H[s]) : G[e].name = H[e].name
  <2>1. Elements(G[s]) = Elements(H[s])
    BY <1>1 DEF Kept, Elements
  <2>2. Elements(H[s]) \subseteq DOMAIN H
    BY LinkedClosed DEF Closed
  <2>3. ASSUME Elements(H[s]) # {} PROVE G[s].type = H[s].type
    <3>1. H[s].list # << >>
      BY <2>3 DEF Elements
    <3> QED BY <1>1, <3>1 DEF Linked, Kept
  <2> QED BY <1>1, <2>1, <2>2, <2>3 DEF Kept
<1> QED BY <1>1, <1>2 DEF Named

LEMMA NamedGrown ==
    ASSUME NEW H, NEW G, NEW p, NEW a, NEW name, NEW type,
           Heap(H), Linked(H), Named(H), Grown(H, G, p, a, name, type)
    PROVE  Named(G)
<1>1. p \in DOMAIN H /\ a \notin DOMAIN H /\ DOMAIN G = DOMAIN H \cup {a} /\ NameFits(H, p, name)
  BY DEF Grown
<1>2. G[a].name = name /\ \A s \in DOMAIN H : G[s].name = H[s].name /\ G[s].type = H[s].type
  BY GrownFacts
<1>3. /\ Elements(G[p]) = Elements(H[p]) \cup {a}
      /\ Elements(G[a]) = {}
      /\ \A s \in DOMAIN H \ {p} : Elements(G[s]) = Elements(H[s])
  BY GrownElements
<1>4. \A s \in DOMAIN H : Elements(H[s]) \subseteq DOMAIN H
  BY LinkedClosed DEF Closed
<1> SUFFICES ASSUME NEW s \in DOMAIN G
             PROVE  /\ \A e \in Elements(G[s]) :
                           IF G[s].type = "GROUP"
                           THEN G[e].name \in Seq(STRING) /\ Len(G[e].name) = 1
                           ELSE G[e].name = << >>
                    /\ \A e, f \in Elements(G[s]) :
                           G[s].type = "GROUP" /\ G[e].name = G[f].name => e = f
  BY DEF Named
<1>5. CASE s = a
  BY <1>3, <1>5
<1>6. CASE s \in DOMAIN H \ {p}
  BY <1>2, <1>3, <1>4, <1>6 DEF Named
<1>7. CASE s = p
  <2>1. \A e \in Elements(H[p]) :
            /\ G[e].name = H[e].name
            /\ IF H[p].type = "GROUP"
               THEN H[e].name \in Seq(STRING) /\ Len(H[e].name) = 1
               ELSE H[e].name = << >>
    BY <1>1, <1>2, <1>4 DEF Named
  <2>2. IF H[p].type = "GROUP"
        THEN /\ name \in Seq(STRING) /\ Len(name) = 1
             /\ \A e \in Elements(H[p]) : H[e].name # name
        ELSE name = << >>
    BY <1>1 DEF NameFits
  <2>3. \A e, f \in Elements(H[p]) :
            H[p].type = "GROUP" /\ H[e].name = H[f].name => e = f
    BY <1>1 DEF Named
  <2>4. G[p].type = H[p].type
    BY <1>1, <1>2
  <2>5. ASSUME NEW e \in Elements(G[p])
        PROVE  IF G[p].type = "GROUP"
               THEN G[e].name \in Seq(STRING) /\ Len(G[e].name) = 1
               ELSE G[e].name = << >>
    BY <1>2, <1>3, <2>1, <2>2, <2>4
  <2>6. ASSUME NEW e \in Elements(G[p]), NEW f \in Elements(G[p]),
               G[p].type = "GROUP", G[e].name = G[f].name
        PROVE  e = f
    BY <1>2, <1>3, <2>1, <2>2, <2>3, <2>4, <2>6
  <2> QED BY <1>7, <2>5, <2>6
<1> QED BY <1>1, <1>5, <1>6, <1>7

LEMMA NamedShrunk ==
    ASSUME NEW H, NEW G, NEW p, NEW i, Heap(H), Linked(H), Named(H), Shrunk(H, G, p, i)
    PROVE  Named(G)
<1> DEFINE g == Unlinked(H, p, i)
           s == H[p].list[i]
           D == Subtree(g, s)
<1>1. CutOff(H, G, p, g, s, D)
  BY ShrunkFacts
<1>2. /\ \A m \in DOMAIN H : g[m].name = H[m].name /\ g[m].type = H[m].type
      /\ \A m \in DOMAIN H : Elements(g[m]) \subseteq Elements(H[m])
  <2>1. p \in DOMAIN H /\ i \in 1..Len(H[p].list)
    BY DEF Shrunk
  <2>2. \A m \in DOMAIN H : g[m].name = H[m].name /\ g[m].type = H[m].type
    BY <2>1, UnlinkedFacts
  <2>3. /\ Elements(g[p]) = Elements(H[p]) \ {s}
        /\ \A m \in DOMAIN H \ {p} : Elements(g[m]) = Elements(H[m])
    BY <2>1, UnlinkedElements
  <2> HIDE DEF g, s, D
  <2> QED BY <2>2, <2>3
<1> HIDE DEF g, s, D
<1>3. DOMAIN G \subseteq DOMAIN H /\ \A m \in DOMAIN G : G[m] = g[m]
  BY <1>1 DEF CutOff
<1>4. Closed(G, DOMAIN G)
  BY LinkedShrunk, LinkedClosed
<1>5. ASSUME NEW m \in DOMAIN G
      PROVE  /\ Elements(G[m]) \subseteq Elements(H[m])
             /\ G[m].type = H[m].type
             /\ \A e \in Elements(G[m]) : G[e].name = H[e].name
  BY <1>2, <1>3, <1>4 DEF Closed
<1> QED BY <1>3, <1>5 DEF Named

\* The member that is found is an element.
LEMMA MemberIsElement ==
    ASSUME NEW H, NEW p, NEW name, Len(H[p].list) \in Nat,
           config_setting_get_member(H, p, name) # NULL
    PROVE  \E i \in 1..Len(H[p].list) : H[p].list[i] = config_setting_get_member(H, p, name)
<1> DEFINE q == H[p].list
           found == {i \in 1..Len(q) : /\ H[q[i]].name # << >>
                                       /\ config_name_compare(name, H[q[i]].name)}
           first == CHOOSE i \in found : \A j \in found : i <= j
<1>1. /\ found # {}
      /\ config_setting_get_member(H, p, name) = q[first]
  BY DEF config_setting_get_member, config_list_search
<1>2. found \subseteq 1..Len(q) /\ found \subseteq Nat
  OBVIOUS
<1> HIDE DEF found
<1>3. \E i \in found : \A j \in found : i <= j
  BY <1>1, <1>2, Least
<1>4. first \in found
  BY <1>3
<1> QED BY <1>1, <1>2, <1>4

\* A name of one part.
LEMMA NameOfOne ==
    ASSUME NEW name \in Seq(STRING), Len(name) = 1
    PROVE  name # << >> /\ name = <<name[1]>>
  OBVIOUS

\* Where no member is found, none has the name.
LEMMA MemberAbsent ==
    ASSUME NEW H, Heap(H), Linked(H), Named(H), NEW p \in DOMAIN H,
           NEW name \in Seq(STRING), H[p].type = "GROUP",
           config_setting_get_member(H, p, name) = NULL
    PROVE  \A e \in Elements(H[p]) : H[e].name # name
<1> DEFINE q == H[p].list
           found == {i \in 1..Len(q) : /\ H[q[i]].name # << >>
                                       /\ config_name_compare(name, H[q[i]].name)}
           first == CHOOSE i \in found : \A j \in found : i <= j
<1>1. IF found = {} THEN TRUE ELSE q[first] = NULL
  BY DEF config_setting_get_member, config_list_search
<1>2. found \subseteq 1..Len(q) /\ found \subseteq Nat
  BY DEF Heap, IsSetting
<1>3. found = {}
  <2> HIDE DEF found
  <2>1. ASSUME found # {} PROVE FALSE
    <3>1. first \in found
      BY <1>2, <2>1, Least
    <3>2. q[first] \in DOMAIN H
      BY <1>2, <3>1 DEF Linked
    <3> QED BY <1>1, <2>1, <3>2 DEF Heap, NULL
  <2> QED BY <2>1
<1>4. ASSUME NEW i \in 1..Len(q), H[q[i]].name = name PROVE FALSE
  <2>1. q[i] \in Elements(H[p])
    BY ElementsOf
  <2>2. H[q[i]].name \in Seq(STRING) /\ Len(H[q[i]].name) = 1
    BY <2>1 DEF Named
  <2>3. H[q[i]].name # << >>
    BY <2>2, NameOfOne
  <2>4. config_name_compare(name, H[q[i]].name)
    BY <1>4 DEF config_name_compare
  <2> QED BY <1>3, <2>3, <2>4
<1> QED BY <1>4, ElementsOf
-----------------------------------------------------------------------------
(* What the functions do to the heap. *)

\* A function that adds settings or sets something in them, from H to G.
Extends(H, G) ==
    \/ G = H
    \/ Changed(H, G)
    \/ \E p, a, name, type : Grown(H, G, p, a, name, type)
    \/ \E p, a, name, type, K : Grown(H, K, p, a, name, type) /\ Changed(K, G)

\* A function that removes settings, and says with which hooks.
Removes(H, removed) ==
    /\ \/ removed.h = H
       \/ \E p, i : Shrunk(H, removed.h, p, i)
    /\ DOMAIN removed.h \subseteq DOMAIN H
    /\ removed.hooks = {H[m].hook : m \in DOMAIN H \ DOMAIN removed.h} \ {NULL}

\* The parts that hold at any address.
Sound(H) == Heap(H) /\ Linked(H) /\ Room(H) /\ Named(H)

LEMMA AddExtends ==
    ASSUME NEW H, Heap(H), Linked(H), Named(H), NEW p \in DOMAIN H,
           NEW name \in Seq(STRING) \ {<< >>}, NEW type
    PROVE  Extends(H, config_setting_add(H, p, name, type).h)
<1> DEFINE used == IF H[p].type \in {"ARRAY", "LIST"} THEN << >> ELSE name
           made == config_setting_create(H, p, used, type)
           added == config_setting_add(H, p, name, type)
           refused == \/ p = NULL
                      \/ used # << >> /\ ~ config_validate_name(used)
                      \/ config_setting_get_member(H, p, used) # NULL
<1>1. Extends(H, H)
  BY DEF Extends
<1>2. CASE refused
  <2>1. added.h = H
    BY <1>2 DEF config_setting_add
  <2> QED BY <1>1, <2>1
<1>3. CASE ~ refused /\ H[p].type \notin Aggregates
  <2>1. added = made
    BY <1>3 DEF config_setting_add
  <2>2. made.h = H
    BY <1>3 DEF config_setting_create
  <2> HIDE DEF made, added
  <2>3. added.h = H
    BY <2>1, <2>2
  <2> QED BY <1>1, <2>3 DEF added
<1>4. CASE ~ refused /\ H[p].type \in Aggregates
  <2>1. added = made
    BY <1>4 DEF config_setting_add
  <2>2. NameFits(H, p, used)
    <3>1. CASE H[p].type = "GROUP"
      <4>1. used = name
        BY <3>1
      <4>2. Len(name) = 1 /\ config_setting_get_member(H, p, name) = NULL
        BY <1>4, <4>1 DEF config_validate_name
      <4>3. \A e \in Elements(H[p]) : H[e].name # name
        BY <3>1, <4>2, MemberAbsent
      <4> HIDE DEF used
      <4> QED BY <3>1, <4>1, <4>2, <4>3 DEF NameFits
    <3>2. CASE H[p].type # "GROUP"
      BY <1>4, <3>2 DEF NameFits, Aggregates
    <3> QED BY <3>1, <3>2
  <2>3. Grown(H, made.h, p, made.ret, used, type)
    <3> HIDE DEF used
    <3> QED BY <1>4, <2>2, CreateGrows
  <2> HIDE DEF made, added, used
  <2>4. Extends(H, made.h)
    BY <2>3 DEF Extends
  <2> QED BY <2>1, <2>4 DEF added
<1> QED BY <1>2, <1>3, <1>4

LEMMA UpdateExtends ==
    ASSUME NEW H, Heap(H), NEW s \in DOMAIN H, NEW r, Kept(H[s], r)
    PROVE  Extends(H, [H EXCEPT ![s] = r])
  BY UpdateChanges DEF Extends

LEMMA SetElemExtends ==
    ASSUME NEW H, Heap(H), Linked(H), NEW p \in DOMAIN H, NEW idx \in Int,
           NEW type \in Scalars, NEW v, NEW cfg
    PROVE  Extends(H, SetElem(H, p, idx, type, v, cfg).h)
<1> DEFINE made == IF idx < 0 THEN config_setting_create(H, p, << >>, type)
                   ELSE [h |-> H, ret |-> config_setting_get_elem(H, p, idx)]
           set == SetValue(made.h[made.ret], type, v, cfg)
           G == [made.h EXCEPT ![made.ret] = set.s]
<1>1. CASE \/ H[p].type \notin {"ARRAY", "LIST"}
           \/ idx < 0 /\ ~ config_vector_checktype(H, p, type)
           \/ made.ret = NULL
  <2>1. SetElem(H, p, idx, type, v, cfg).h = H
    BY <1>1 DEF SetElem
  <2> QED BY <2>1 DEF Extends
<1>2. CASE ~ (\/ H[p].type \notin {"ARRAY", "LIST"}
              \/ idx < 0 /\ ~ config_vector_checktype(H, p, type)
              \/ made.ret = NULL)
  <2>1. SetElem(H, p, idx, type, v, cfg).h = G
    BY <1>2 DEF SetElem
  <2>2. H[p].type \in Aggregates
    BY <1>2 DEF Aggregates
  <2>3. CASE idx < 0
    <3>1. made = config_setting_create(H, p, << >>, type)
      BY <2>3
    <3>n. NameFits(H, p, << >>)
      BY <1>2 DEF NameFits
    <3>2. Grown(H, made.h, p, made.ret, << >>, type)
      BY <2>2, <3>n, <3>1, CreateGrows
    <3> HIDE DEF made
    <3>3. Heap(made.h) /\ made.ret \in DOMAIN made.h
      BY <3>2 DEF Grown
    <3>4. Kept(made.h[made.ret], set.s)
      BY <3>3, SetKeeps DEF Heap
    <3>5. Changed(made.h, G)
      <4> HIDE DEF set
      <4> QED BY <3>3, <3>4, UpdateChanges
    <3> HIDE DEF G
    <3> QED BY <2>1, <3>2, <3>5 DEF Extends
  <2>4. CASE ~ (idx < 0)
    <3>1. made.h = H /\ made.ret = config_setting_get_elem(H, p, idx) /\ made.ret # NULL
      BY <1>2, <2>4
    <3> HIDE DEF made
    <3>2. made.ret = H[p].list[idx + 1] /\ idx \in 0..(Len(H[p].list) - 1)
      BY <3>1 DEF config_setting_get_elem
    <3>3. idx + 1 \in 1..Len(H[p].list)
      <4>1. Len(H[p].list) \in Nat
        BY DEF Heap, IsSetting
      <4> QED BY <3>2, <4>1
    <3>4. made.ret \in DOMAIN H
      BY <3>2, <3>3 DEF Linked
    <3>5. Kept(H[made.ret], set.s)
      BY <3>1, <3>4, SetKeeps DEF Heap
    <3>6. Changed(H, G)
      <4> HIDE DEF set
      <4> QED BY <3>1, <3>4, <3>5, UpdateChanges
    <3> HIDE DEF G
    <3> QED BY <2>1, <3>6 DEF Extends
  <2> QED BY <2>3, <2>4
<1> QED BY <1>1, <1>2

LEMMA SetElemOfExtends ==
    ASSUME NEW H, Heap(H), Linked(H), NEW p \in DOMAIN H, NEW idx \in Int,
           NEW type \in Scalars, NEW v, NEW cfg
    PROVE  Extends(H, SetElemOf(H, p, idx, type, v, cfg).h)
<1>1. SetElemOf(H, p, idx, type, v, cfg) = SetElem(H, p, idx, type, v, cfg)
  BY DEF SetElemOf, Scalars, Numbers, config_setting_set_int_elem, config_setting_set_int64_elem,
         config_setting_set_float_elem, config_setting_set_bool_elem, config_setting_set_string_elem
<1> QED BY <1>1, SetElemExtends

\* A removal as the functions compute it.
LEMMA CutRemoves ==
    ASSUME NEW H, Heap(H), Linked(H), NEW p \in DOMAIN H, NEW i \in 1..Len(H[p].list),
           NEW removed, NEW ret,
           LET gone == config_setting_destroy(Unlinked(H, p, i), H[p].list[i])
           IN  removed = [h |-> gone.h, hooks |-> gone.hooks, ret |-> ret]
    PROVE  Removes(H, removed)
<1> DEFINE g == Unlinked(H, p, i)
           s == H[p].list[i]
           D == Subtree(g, s)
           G == removed.h
<1>1. G = config_setting_destroy(g, s).h /\ removed.hooks = config_setting_destroy(g, s).hooks
  OBVIOUS
<1>2. Shrunk(H, G, p, i)
  BY <1>1 DEF Shrunk
<1>3. CutOff(H, G, p, g, s, D)
  BY <1>2, ShrunkFacts
<1>4. removed.hooks = {g[m].hook : m \in D} \ {NULL}
  BY <1>1 DEF config_setting_destroy
<1>5. \A m \in DOMAIN H : g[m].hook = H[m].hook
  BY UnlinkedFacts
<1> HIDE DEF g, s, D, G
<1>6. D = DOMAIN H \ DOMAIN G /\ DOMAIN G \subseteq DOMAIN H
  BY <1>3 DEF CutOff
<1>7. removed.hooks = {H[m].hook : m \in DOMAIN H \ DOMAIN G} \ {NULL}
  BY <1>4, <1>5, <1>6
<1> QED BY <1>2, <1>6, <1>7 DEF Removes, G

LEMMA NothingRemoves ==
    ASSUME NEW H, NEW removed, removed.h = H, removed.hooks = {}
    PROVE  Removes(H, removed)
  BY DEF Removes

LEMMA RemoveRemoves ==
    ASSUME NEW H, Heap(H), Linked(H), NEW p \in DOMAIN H, NEW name
    PROVE  Removes(H, config_setting_remove(H, p, name))
<1> DEFINE s == config_setting_get_member(H, p, name)
           i == IndexOf(H[p].list, s)
           g == [H EXCEPT ![p] = config_list_remove(@, IndexOf(@.list, s) - 1)]
           gone == config_setting_destroy(g, s)
           removed == config_setting_remove(H, p, name)
<1>1. CASE s = NULL
  <2>1. removed.h = H /\ removed.hooks = {}
    BY <1>1 DEF config_setting_remove
  <2> QED BY <2>1, NothingRemoves
<1>2. CASE s # NULL
  <2>1. Len(H[p].list) \in Nat
    BY DEF Heap, IsSetting
  <2>2. \E j \in 1..Len(H[p].list) : H[p].list[j] = s
    BY <1>2, <2>1, MemberIsElement
  <2>3. i \in 1..Len(H[p].list) /\ H[p].list[i] = s
    BY <2>2 DEF IndexOf
  <2>4. g = Unlinked(H, p, i)
    BY DEF Unlinked
  <2>5. removed = [h |-> gone.h, hooks |-> gone.hooks, ret |-> TRUE]
    <3> HIDE DEF s
    <3> QED BY <1>2 DEF config_setting_remove, s
  <2> HIDE DEF s, i, g, removed
  <2>6. LET gone2 == config_setting_destroy(Unlinked(H, p, i), H[p].list[i])
        IN  removed = [h |-> gone2.h, hooks |-> gone2.hooks, ret |-> TRUE]
    BY <2>3, <2>4, <2>5
  <2>7. Removes(H, removed)
    BY <2>3, <2>6, CutRemoves
  <2> QED BY <2>7 DEF removed
<1> QED BY <1>1, <1>2

LEMMA RemoveElemRemoves ==
    ASSUME NEW H, Heap(H), Linked(H), NEW p \in DOMAIN H, NEW idx \in Int
    PROVE  Removes(H, config_setting_remove_elem(H, p, idx))
<1> DEFINE s == config_setting_get_elem(H, p, idx)
           g == [H EXCEPT ![p] = config_list_remove(@, idx)]
           gone == config_setting_destroy(g, s)
           removed == config_setting_remove_elem(H, p, idx)
<1>1. CASE s = NULL
  <2>1. removed.h = H /\ removed.hooks = {}
    BY <1>1 DEF config_setting_remove_elem
  <2> QED BY <2>1, NothingRemoves
<1>2. CASE s # NULL
  <2>1. Len(H[p].list) \in Nat
    BY DEF Heap, IsSetting
  <2>2. idx \in 0..(Len(H[p].list) - 1) /\ s = H[p].list[idx + 1]
    BY <1>2 DEF config_setting_get_elem
  <2>3. idx + 1 \in 1..Len(H[p].list) /\ (idx + 1) - 1 = idx
    BY <2>1, <2>2
  <2>4. g = Unlinked(H, p, idx + 1)
    BY <2>3 DEF Unlinked
  <2>5. removed = [h |-> gone.h, hooks |-> gone.hooks, ret |-> TRUE]
    <3> HIDE DEF s
    <3> QED BY <1>2 DEF config_setting_remove_elem, s
  <2> HIDE DEF s, g, removed
  <2>6. LET gone2 == config_setting_destroy(Unlinked(H, p, idx + 1), H[p].list[idx + 1])
        IN  removed = [h |-> gone2.h, hooks |-> gone2.hooks, ret |-> TRUE]
    BY <2>2, <2>4, <2>5
  <2>7. Removes(H, removed)
    BY <2>3, <2>6, CutRemoves
  <2> QED BY <2>7 DEF removed
<1> QED BY <1>1, <1>2

LEMMA ExtendsKeeps ==
    ASSUME NEW H, NEW G, Sound(H), Extends(H, G)
    PROVE  /\ Sound(G)
           /\ DOMAIN H \subseteq DOMAIN G
           /\ \A r : Rooted(H, r) => Rooted(G, r)
<1>1. ASSUME NEW K, NEW L, Sound(K), Changed(K, L)
      PROVE  Sound(L) /\ DOMAIN K \subseteq DOMAIN L /\ \A r : Rooted(K, r) => Rooted(L, r)
  <2>1. Heap(L) /\ DOMAIN K \subseteq DOMAIN L
    BY <1>1 DEF Changed
  <2>2. Linked(L) /\ Room(L) /\ Named(L)
    BY <1>1, LinkedChanged, RoomChanged, NamedChanged DEF Sound
  <2> QED BY <1>1, <2>1, <2>2, RootedChanged DEF Sound
<1>2. ASSUME NEW L, NEW p, NEW a, NEW name, NEW type, Grown(H, L, p, a, name, type)
      PROVE  Sound(L) /\ DOMAIN H \subseteq DOMAIN L /\ \A r : Rooted(H, r) => Rooted(L, r)
  <2>1. Heap(L) /\ DOMAIN H \subseteq DOMAIN L
    BY <1>2 DEF Grown
  <2>2. Linked(L) /\ Room(L) /\ Named(L)
    BY <1>2, LinkedGrown, RoomGrown, NamedGrown DEF Sound
  <2> QED BY <1>2, <2>1, <2>2, RootedGrown DEF Sound
<1>3. CASE G = H
  BY <1>3
<1>4. CASE Changed(H, G)
  BY <1>1, <1>4
<1>5. CASE \E p, a, name, type : Grown(H, G, p, a, name, type)
  BY <1>2, <1>5
<1>6. CASE \E p, a, name, type, K : Grown(H, K, p, a, name, type) /\ Changed(K, G)
  <2>1. PICK p, a, name, type, K : Grown(H, K, p, a, name, type) /\ Changed(K, G)
    BY <1>6
  <2>2. Sound(K) /\ DOMAIN H \subseteq DOMAIN K /\ \A r : Rooted(H, r) => Rooted(K, r)
    BY <1>2, <2>1
  <2>3. Sound(G) /\ DOMAIN K \subseteq DOMAIN G /\ \A r : Rooted(K, r) => Rooted(G, r)
    BY <1>1, <2>1, <2>2
  <2> QED BY <2>2, <2>3
<1> QED BY <1>3, <1>4, <1>5, <1>6 DEF Extends

LEMMA RemovesKeeps ==
    ASSUME NEW H, NEW removed, Sound(H), Removes(H, removed)
    PROVE  /\ Sound(removed.h)
           /\ \A r : Rooted(H, r) => Rooted(removed.h, r)
<1>1. CASE removed.h = H
  BY <1>1
<1>2. CASE \E p, i : Shrunk(H, removed.h, p, i)
  <2>1. PICK p, i : Shrunk(H, removed.h, p, i)
    BY <1>2
  <2>2. Heap(removed.h)
    <3>1. CutOff(H, removed.h, p, Unlinked(H, p, i), H[p].list[i],
                 Subtree(Unlinked(H, p, i), H[p].list[i]))
      BY <2>1, ShrunkFacts DEF Sound
    <3> QED BY <3>1 DEF CutOff
  <2>3. Linked(removed.h) /\ Room(removed.h) /\ Named(removed.h)
    BY <2>1, LinkedShrunk, RoomShrunk, NamedShrunk DEF Sound
  <2> QED BY <2>1, <2>2, <2>3, RootedShrunk DEF Sound
<1> QED BY <1>1, <1>2 DEF Removes
-----------------------------------------------------------------------------
(* The invariant of a program that uses a configuration. *)

\* The config_t; the functions of this module leave most of its fields alone.
ConfigRecord ==
    [root : Nat, options : SUBSET Options, default_format : {"DEFAULT"}, tab_width : Nat,
     include_dir : {<< >>}, destructor : BOOLEAN,
     error_text : {"none"}, error_line : {0}, error_type : {"NONE"}]

\* Without a configuration there are no settings and no destructor.
HasRoot == IF c.root = NULL THEN DOMAIN h = {} /\ c.destructor = FALSE ELSE Rooted(h, c.root)

TreeInv ==
    /\ program \in Programs
    /\ c \in ConfigRecord
    /\ hooks \in Nat
    /\ fired \in [1..program.maxHooks -> Nat]
    /\ Sound(h)
    /\ HasRoot

\* What a step may do: add to the settings or change them, or remove some and
\* hand over their hooks.
Adding == Extends(h, h') /\ c' = c /\ hooks' \in Nat /\ fired' = fired

Removing(removed) ==
    /\ Removes(h, removed)
    /\ h' = removed.h
    /\ CallDestructor(removed.hooks)
    /\ c' = c /\ hooks' = hooks

LEMMA InitialSound ==
    Sound(InitialSettings) /\ Rooted(InitialSettings, 1)
<1> DEFINE r == config_setting_t(NULL, << >>, "GROUP")
<1>1. DOMAIN InitialSettings = {1} /\ InitialSettings[1] = r
  BY DEF InitialSettings
<1>2. InitialSettings = [s \in DOMAIN InitialSettings |-> InitialSettings[s]]
  BY DEF InitialSettings
<1>3. IsSetting(r)
  BY DEF config_setting_t, IsSetting, Shape, NULL
<1>4. /\ r.list = << >> /\ r.capacity = 0 /\ r.parent = NULL
      /\ r.name = << >> /\ r.type = "GROUP"
  BY DEF config_setting_t
<1> HIDE DEF r
<1>5. Heap(InitialSettings)
  BY <1>1, <1>2, <1>3, FS_Singleton DEF Heap
<1>6. Linked(InitialSettings)
  BY <1>1, <1>4 DEF Linked
<1>7. Room(InitialSettings)
  BY <1>1, <1>4, SettingAssumption DEF Room
<1>8. Rooted(InitialSettings, 1)
  BY <1>1, <1>4 DEF Rooted
<1>9. Named(InitialSettings)
  BY <1>1, <1>4 DEF Named, Elements
<1> QED BY <1>5, <1>6, <1>7, <1>8, <1>9 DEF Sound

LEMMA ConfigRecords == config_t \in ConfigRecord /\ ZeroedConfig \in ConfigRecord
<1> DEFINE initial == {"SEMICOLON_SEPARATORS", "COLON_ASSIGNMENT_FOR_GROUPS",
                       "OPEN_BRACE_ON_SEPARATE_LINE"}
<1>1. initial \in SUBSET Options /\ {} \in SUBSET Options
  BY DEF Options
<1>2. config_t = [root |-> 1, options |-> initial, default_format |-> "DEFAULT",
                  tab_width |-> 2, include_dir |-> << >>, destructor |-> FALSE,
                  error_text |-> "none", error_line |-> 0, error_type |-> "NONE"]
  BY DEF config_t
<1> HIDE DEF initial
<1>3. config_t \in ConfigRecord
  BY <1>1, <1>2 DEF ConfigRecord
<1>4. /\ [config_t EXCEPT !.root = NULL] \in ConfigRecord
      /\ \A x \in ConfigRecord : [x EXCEPT !.options = {}] \in ConfigRecord
      /\ \A x \in ConfigRecord : [x EXCEPT !.tab_width = 0] \in ConfigRecord
  BY <1>1, <1>3 DEF ConfigRecord, NULL
<1>5. ZeroedConfig = [[[config_t EXCEPT !.root = NULL] EXCEPT !.options = {}] EXCEPT !.tab_width = 0]
  BY DEF ZeroedConfig
<1>6. ZeroedConfig \in ConfigRecord
  BY <1>4, <1>5, Zenon
<1> QED BY <1>3, <1>6

LEMMA TreeInvInit == TreeInit => TreeInv
<1> SUFFICES ASSUME TreeInit PROVE TreeInv
  OBVIOUS
<1>1. program \in Programs /\ hooks \in Nat /\ fired \in [1..program.maxHooks -> Nat]
  BY DEF TreeInit
<1>2. c \in ConfigRecord /\ c.root = 1
  BY ConfigRecords DEF TreeInit, config_t
<1>3. Sound(h) /\ Rooted(h, 1)
  BY InitialSound DEF TreeInit
<1> QED BY <1>1, <1>2, <1>3 DEF TreeInv, HasRoot, NULL

LEMMA SettingsStep ==
    ASSUME TreeInv, ChangeSettings
    PROVE  Adding \/ \E removed : Removing(removed)
<1> USE DEF TreeInv, Sound
<1>1. PICK s \in DOMAIN h :
          \/ \E n \in program.names, t \in program.addTypes : Add(s, n, t)
          \/ \E n \in program.names : Remove(s, n)
          \/ \E i \in 0..(program.maxSettings - 1) : RemoveElem(s, i)
          \/ \E t \in Scalars : \E v \in program.values[t] : Set(s, t, v)
          \/ \E i \in (-1)..(program.maxSettings - 1), t \in Scalars :
                 \E v \in program.values[t] : SetAt(s, i, t, v)
          \/ \E f \in {"DEFAULT", "HEX"} : SetFormat(s, f)
          \/ config_setting_set_hook(s)
  BY DEF ChangeSettings
<1>0. program.maxSettings \in Nat /\ IsSetting(h[s])
  BY TreeAssumption DEF Heap
<1>2. CASE \E n \in program.names, t \in program.addTypes : Add(s, n, t)
  <2>1. PICK n \in program.names, t \in program.addTypes : Add(s, n, t)
    BY <1>2
  <2>2. n \in Seq(STRING) \ {<< >>}
    BY TreeAssumption
  <2> QED BY <2>1, <2>2, AddExtends DEF Add, Adding
<1>3. CASE \E n \in program.names : Remove(s, n)
  <2>1. PICK n \in program.names : Remove(s, n)
    BY <1>3
  <2>2. Removing(config_setting_remove(h, s, n))
    BY <2>1, RemoveRemoves DEF Remove, Removing
  <2> QED BY <2>2
<1>4. CASE \E i \in 0..(program.maxSettings - 1) : RemoveElem(s, i)
  <2>1. PICK i \in 0..(program.maxSettings - 1) : RemoveElem(s, i)
    BY <1>4
  <2>2. i \in Int
    BY <1>0
  <2>3. Removing(config_setting_remove_elem(h, s, i))
    BY <2>1, <2>2, RemoveElemRemoves DEF RemoveElem, Removing
  <2> QED BY <2>3
<1>5. CASE \E t \in Scalars : \E v \in program.values[t] : Set(s, t, v)
  <2>1. PICK t \in Scalars : \E v \in program.values[t] : Set(s, t, v)
    BY <1>5
  <2>2. PICK v \in program.values[t] : Set(s, t, v)
    BY <2>1
  <2>3. Kept(h[s], SetValue(h[s], t, v, c).s)
    BY <1>0, SetKeeps
  <2>4. Extends(h, [h EXCEPT ![s] = SetValue(h[s], t, v, c).s])
    BY <2>3, UpdateExtends
  <2> QED BY <2>2, <2>4 DEF Set, Adding
<1>6. CASE \E i \in (-1)..(program.maxSettings - 1), t \in Scalars :
               \E v \in program.values[t] : SetAt(s, i, t, v)
  <2>1. PICK i \in (-1)..(program.maxSettings - 1), t \in Scalars :
            \E v \in program.values[t] : SetAt(s, i, t, v)
    BY <1>6
  <2>2. PICK v \in program.values[t] : SetAt(s, i, t, v)
    BY <2>1
  <2>3. i \in Int
    BY <1>0
  <2>4. Extends(h, SetElemOf(h, s, i, t, v, c).h)
    BY <2>3, SetElemOfExtends
  <2> QED BY <2>2, <2>4 DEF SetAt, Adding
<1>7. CASE \E f \in {"DEFAULT", "HEX"} : SetFormat(s, f)
  <2>1. PICK f \in {"DEFAULT", "HEX"} : SetFormat(s, f)
    BY <1>7
  <2>2. Extends(h, [h EXCEPT ![s] = config_setting_set_format(h[s], f).s])
    BY <1>0, FormatKeeps, UpdateExtends
  <2> QED BY <2>1, <2>2 DEF SetFormat, Adding
<1>8. CASE config_setting_set_hook(s)
  <2>1. Extends(h, [h EXCEPT ![s] = [h[s] EXCEPT !.hook = hooks + 1]])
    BY <1>0, HookKeeps, UpdateExtends
  <2> QED BY <1>8, <2>1 DEF config_setting_set_hook, Adding
<1> QED BY <1>1, <1>2, <1>3, <1>4, <1>5, <1>6, <1>7, <1>8

\* The hooks that go with the settings of a step are handed over once.
LEMMA HandedOver ==
    ASSUME TreeInv, NEW handed, CallDestructor(handed),
           handed = {h[m].hook : m \in DOMAIN h \ DOMAIN h'} \ {NULL}
    PROVE  /\ fired' \in [1..program.maxHooks -> Nat]
           /\ \A k \in DOMAIN fired :
                  fired'[k] - fired[k] =
                      IF c.destructor /\ \E s \in DOMAIN h \ DOMAIN h' : h[s].hook = k
                      THEN 1 ELSE 0
<1> DEFINE N == 1..program.maxHooks
<1>1. fired \in [N -> Nat] /\ DOMAIN fired = N /\ \A k \in N : k # NULL
  BY TreeAssumption DEF TreeInv, NULL
<1>2. \A k \in N : k \in handed <=> \E s \in DOMAIN h \ DOMAIN h' : h[s].hook = k
  BY <1>1
<1> HIDE DEF N
<1>3. CASE c.destructor
  <2>1. fired' = [k \in N |-> fired[k] + IF k \in handed THEN 1 ELSE 0]
    BY <1>1, <1>3 DEF CallDestructor
  <2>2. fired' \in [N -> Nat]
    BY <1>1, <2>1
  <2>3. ASSUME NEW k \in N PROVE fired'[k] - fired[k] = IF k \in handed THEN 1 ELSE 0
    BY <1>1, <2>1
  <2> QED BY <1>1, <1>2, <1>3, <2>2, <2>3 DEF N
<1>4. CASE ~ c.destructor
  <2>1. fired' = fired
    BY <1>4 DEF CallDestructor
  <2> QED BY <1>1, <1>4, <2>1 DEF N
<1> QED BY <1>3, <1>4

\* Where no setting goes and no hook is handed over.
LEMMA NoneGone ==
    ASSUME TreeInv, fired' = fired, DOMAIN h \subseteq DOMAIN h' \/ ~ c.destructor
    PROVE  \A k \in DOMAIN fired :
               fired'[k] - fired[k] =
                   IF c.destructor /\ \E s \in DOMAIN h \ DOMAIN h' : h[s].hook = k
                   THEN 1 ELSE 0
<1>1. \A k \in DOMAIN fired : fired[k] \in Nat
  BY DEF TreeInv
<1> QED BY <1>1

\* Destroying a configuration leaves no setting, and hands over all hooks.
LEMMA DestroyAll ==
    ASSUME TreeInv, c.root # NULL, config_destroy
    PROVE  /\ Sound(h') /\ DOMAIN h' = {}
           /\ CallDestructor({h[m].hook : m \in DOMAIN h \ DOMAIN h'} \ {NULL})
           /\ c' = ZeroedConfig /\ hooks' = hooks
<1> DEFINE destroyed == config_setting_destroy(h, c.root)
<1>1. Heap(h) /\ Linked(h) /\ Rooted(h, c.root)
  BY DEF TreeInv, Sound, HasRoot
<1>2. DOMAIN h = Subtree(h, c.root)
  BY <1>1, RootedSubtree
<1>3. Heap(destroyed.h) /\ DOMAIN destroyed.h = {}
  BY <1>1, <1>2, DestroyFacts
<1>4. destroyed.hooks = {h[m].hook : m \in DOMAIN h} \ {NULL}
  BY <1>2 DEF config_setting_destroy
<1>5. h' = destroyed.h /\ CallDestructor(destroyed.hooks) /\ c' = ZeroedConfig /\ hooks' = hooks
  BY DEF config_destroy
<1> HIDE DEF destroyed
<1>6. Sound(h')
  BY <1>3, <1>5 DEF Sound, Linked, Room, Named
<1>7. DOMAIN h \ DOMAIN h' = DOMAIN h
  BY <1>3, <1>5
<1> QED BY <1>3, <1>4, <1>5, <1>6, <1>7

\* What every step that calls a function keeps.
LEMMA TreeStep ==
    ASSUME TreeInv, TreeNext
    PROVE  /\ TreeInv'
           /\ \A k \in DOMAIN fired :
                  fired'[k] - fired[k] =
                      IF c.destructor /\ \E s \in DOMAIN h \ DOMAIN h' : h[s].hook = k
                      THEN 1 ELSE 0
<1> DEFINE Over ==
        \A k \in DOMAIN fired :
            fired'[k] - fired[k] =
                IF c.destructor /\ \E s \in DOMAIN h \ DOMAIN h' : h[s].hook = k THEN 1 ELSE 0
<1>0. /\ program' = program /\ program \in Programs /\ c \in ConfigRecord /\ hooks \in Nat
      /\ fired \in [1..program.maxHooks -> Nat] /\ Sound(h)
  BY DEF TreeInv, TreeNext
<1>1. CASE c.root # NULL /\ ChangeSettings
  <2>1. Rooted(h, c.root)
    BY <1>1 DEF TreeInv, HasRoot
  <2>2. CASE Adding
    <3>1. Sound(h') /\ DOMAIN h \subseteq DOMAIN h' /\ Rooted(h', c.root)
      BY <1>0, <2>1, <2>2, ExtendsKeeps DEF Adding
    <3>2. TreeInv'
      BY <1>0, <1>1, <2>2, <3>1 DEF Adding, TreeInv, HasRoot
    <3> QED BY <2>2, <3>1, <3>2, NoneGone DEF Adding
  <2>3. CASE \E removed : Removing(removed)
    <3>1. PICK removed : Removing(removed)
      BY <2>3
    <3>2. Sound(h') /\ Rooted(h', c.root)
      BY <1>0, <2>1, <3>1, RemovesKeeps DEF Removing
    <3>3. /\ CallDestructor(removed.hooks)
          /\ removed.hooks = {h[m].hook : m \in DOMAIN h \ DOMAIN h'} \ {NULL}
      BY <3>1 DEF Removing, Removes
    <3>4. fired' \in [1..program.maxHooks -> Nat] /\ Over
      BY <3>3, HandedOver
    <3>5. TreeInv'
      BY <1>0, <1>1, <3>1, <3>2, <3>4 DEF Removing, TreeInv, HasRoot
    <3> QED BY <3>4, <3>5
  <2> QED BY <1>1, <2>2, <2>3, SettingsStep
<1>2. CASE c.root # NULL /\ (config_set_destructor \/ config_set_options \/ config_set_auto_convert)
  <2>1. Rooted(h, c.root)
    BY <1>2 DEF TreeInv, HasRoot
  <2>2. /\ \A set \in BOOLEAN : LET d == [c EXCEPT !.destructor = set]
                                IN  d \in ConfigRecord /\ d.root = c.root
        /\ \A options \in SUBSET Options : LET d == [c EXCEPT !.options = options]
                                           IN  d \in ConfigRecord /\ d.root = c.root
    BY <1>0 DEF ConfigRecord
  <2>3. h' = h /\ hooks' = hooks /\ fired' = fired
    BY <1>2 DEF config_set_destructor, config_set_options, config_set_auto_convert, SetConfig
  <2>4. c' \in ConfigRecord /\ c'.root = c.root
    <3>1. CASE config_set_destructor
      BY <2>2, <3>1 DEF config_set_destructor, SetConfig
    <3>2. CASE config_set_options
      <4>1. program.optionSets \subseteq SUBSET Options
        BY <1>0, TreeAssumption
      <4> QED BY <2>2, <3>2, <4>1 DEF config_set_options, SetConfig
    <3>3. CASE config_set_auto_convert
      <4>1. c.options \in SUBSET Options
        BY <1>0 DEF ConfigRecord
      <4>2. \A flag \in program.convertFlags :
                (IF flag THEN c.options \cup {"AUTOCONVERT"} ELSE c.options \ {"AUTOCONVERT"})
                    \in SUBSET Options
        BY <4>1 DEF Options
      <4> QED BY <2>2, <3>3, <4>2 DEF config_set_auto_convert, SetConfig
    <3> QED BY <1>2, <3>1, <3>2, <3>3
  <2>5. TreeInv'
    BY <1>0, <1>2, <2>1, <2>3, <2>4 DEF TreeInv, HasRoot
  <2> QED BY <2>3, <2>5, NoneGone
<1>3. CASE c.root # NULL /\ config_destroy
  <2>1. /\ Sound(h') /\ DOMAIN h' = {}
        /\ CallDestructor({h[m].hook : m \in DOMAIN h \ DOMAIN h'} \ {NULL})
        /\ c' = ZeroedConfig /\ hooks' = hooks
    BY <1>3, DestroyAll
  <2>2. fired' \in [1..program.maxHooks -> Nat] /\ Over
    BY <2>1, HandedOver
  <2>3. ZeroedConfig \in ConfigRecord /\ ZeroedConfig.root = NULL /\ ZeroedConfig.destructor = FALSE
    BY ConfigRecords DEF ZeroedConfig, config_t
  <2>4. TreeInv'
    BY <1>0, <2>1, <2>2, <2>3 DEF TreeInv, HasRoot
  <2> QED BY <2>2, <2>4
<1>4. CASE c.root = NULL /\ config_init
  <2>1. h' = InitialSettings /\ c' = config_t /\ hooks' = hooks /\ fired' = fired
    BY <1>4 DEF config_init
  <2>2. config_t \in ConfigRecord /\ config_t.root = 1
    BY ConfigRecords DEF config_t
  <2>3. ~ c.destructor
    BY <1>4 DEF TreeInv, HasRoot
  <2>4. TreeInv'
    BY <1>0, <2>1, <2>2, InitialSound DEF TreeInv, HasRoot, NULL
  <2> QED BY <2>1, <2>3, <2>4, NoneGone
<1> QED BY <1>1, <1>2, <1>3, <1>4 DEF TreeNext

LEMMA TreeInvariant == TreeSpec => []TreeInv
<1>1. ASSUME TreeInv, UNCHANGED treeVars PROVE TreeInv'
  BY <1>1 DEF TreeInv, treeVars, HasRoot
<1> QED BY <1>1, TreeInvInit, TreeStep, PTL DEF TreeSpec

\* The settings are a tree under the root after any sequence of calls, however
\* large: lists and parents agree, every setting is in one list at most and
\* reached from the root, and destroying a setting or the configuration frees all
\* below it and nothing else (libconfig.c, __config_setting_destroy).
THEOREM IsTreeHolds == TreeSpec => []IsTree
<1>1. ASSUME TreeInv PROVE IsTree
  <2>1. Heap(h) /\ Linked(h)
    BY <1>1 DEF TreeInv, Sound
  <2>2. ASSUME NEW s \in DOMAIN h
        PROVE  /\ Elements(h[s]) \subseteq DOMAIN h
               /\ Cardinality(Elements(h[s])) = config_setting_length(h, s)
               /\ \A e \in Elements(h[s]) : h[e].parent = s
               /\ h[s].list # << >> => h[s].type \in Aggregates
    <3>1. \A e \in Elements(h[s]) : e \in DOMAIN h /\ h[e].parent = s
      BY <2>1, LinkedParents
    <3>2. Cardinality(Elements(h[s])) = config_setting_length(h, s)
      BY <2>1, ElementsCount
    <3>3. h[s].list # << >> => h[s].type \in Aggregates
      BY <2>1 DEF Linked
    <3> QED BY <3>1, <3>2, <3>3
  <2>3. DOMAIN h = IF c.root = NULL THEN {} ELSE Subtree(h, c.root)
    BY <1>1, <2>1, RootedSubtree DEF TreeInv, HasRoot
  <2> QED BY <2>2, <2>3 DEF IsTree
<1> QED BY <1>1, TreeInvariant, PTL

\* No call writes an element behind the end of its list (libconfig.c,
\* __config_list_add), for every CHUNK_SIZE: the room is a multiple of it, and a
\* list that is as long as its room makes the next call reallocate.
THEOREM ListFitsHolds == TreeSpec => []ListFits
<1>1. TreeInv => ListFits
  BY DEF TreeInv, Sound, Room, ListFits
<1> QED BY <1>1, TreeInvariant, PTL

\* Every hook is handed to the destructor exactly once, when its setting goes,
\* also with the group it is in or the configuration (libconfig.c,
\* __config_setting_destroy), and never while the setting stays.
THEOREM HookHandedOverHolds == TreeSpec => HookHandedOver
<1> DEFINE Over ==
        \A k \in DOMAIN fired :
            fired'[k] - fired[k] =
                IF c.destructor /\ \E s \in DOMAIN h \ DOMAIN h' : h[s].hook = k THEN 1 ELSE 0
<1>1. TreeInv /\ [TreeNext]_treeVars => [Over]_treeVars
  BY TreeStep
<1>2. HookHandedOver <=> [][Over]_treeVars
  BY DEF HookHandedOver
<1> QED BY <1>1, <1>2, TreeInvariant, PTL DEF TreeSpec
-----------------------------------------------------------------------------
(* AcceptedIsReadBack: the conversions between the types of numbers. *)

\* The table that Spacing computes, up to n.
Spacings(precision, n, f) ==
    f = [k \in 0..n |-> IF k <= precision THEN 1 ELSE 2 * f[(k + 1) \div 2]]

LEMMA SpacingsEach ==
    ASSUME NEW P \in Nat \ {0}, NEW n \in Nat, NEW f, Spacings(P, n, f), NEW k \in 0..n
    PROVE  f[k] = IF k <= P THEN 1 ELSE 2 * f[(k + 1) \div 2]
<1> DEFINE B(j) == IF j <= P THEN 1 ELSE 2 * f[(j + 1) \div 2]
<1>1. f = [j \in 0..n |-> B(j)]
  BY DEF Spacings
<1>2. f[k] = B(k)
  <2> HIDE DEF B
  <2> QED BY <1>1, Zenon
<1> QED BY <1>2

\* Half of a number that is no less than 2, rounded up, is less.
LEMMA HalfIsLess ==
    ASSUME NEW P \in Nat \ {0}, NEW k \in Nat, k > P
    PROVE  (k + 1) \div 2 \in 0..(k - 1)
OBVIOUS

LEMMA SpacingsExist ==
    ASSUME NEW P \in Nat \ {0}, NEW n \in Nat
    PROVE  \E f : Spacings(P, n, f)
<1> DEFINE T == {k \in Nat : \E f : Spacings(P, k, f)}
<1>1. 0 \in T
  <2> DEFINE f == [k \in 0..0 |-> 1]
  <2>1. f = [k \in 0..0 |-> IF k <= P THEN 1 ELSE 2 * f[(k + 1) \div 2]]
    OBVIOUS
  <2> HIDE DEF f
  <2> QED BY <2>1 DEF Spacings
<1>2. ASSUME NEW k \in Nat, k \in T PROVE k + 1 \in T
  <2>1. PICK f : Spacings(P, k, f)
    BY <1>2
  <2> DEFINE g == [j \in 0..(k + 1) |-> IF j <= k THEN f[j]
                                        ELSE IF j <= P THEN 1 ELSE 2 * f[(j + 1) \div 2]]
  <2>2. \A j \in 0..k : g[j] = f[j]
    OBVIOUS
  <2>3. g[k + 1] = IF k + 1 <= P THEN 1 ELSE 2 * f[(k + 2) \div 2]
    OBVIOUS
  <2>4. g = [j \in 0..(k + 1) |-> g[j]]
    OBVIOUS
  <2> HIDE DEF g
  <2>5. ASSUME NEW j \in 0..(k + 1)
        PROVE  g[j] = IF j <= P THEN 1 ELSE 2 * g[(j + 1) \div 2]
    <3>1. j \in Nat /\ (j > P => (j + 1) \div 2 \in 0..(j - 1))
      BY HalfIsLess
    <3>2. j > P => g[(j + 1) \div 2] = f[(j + 1) \div 2]
      BY <2>2, <3>1
    <3>3. CASE j = k + 1
      BY <2>3, <3>2, <3>3
    <3>4. CASE j \in 0..k
      <4>1. f[j] = IF j <= P THEN 1 ELSE 2 * f[(j + 1) \div 2]
        BY <2>1, <3>4, SpacingsEach
      <4> QED BY <2>2, <3>1, <3>2, <3>4, <4>1
    <3> QED BY <3>3, <3>4
  <2>6. Spacings(P, k + 1, g)
    BY <2>4, <2>5 DEF Spacings
  <2> QED BY <2>6
<1> HIDE DEF T
<1>3. Nat \subseteq T
  BY <1>1, <1>2, SetInduction
<1> QED BY <1>3 DEF T

\* The tables agree wherever they are defined.
LEMMA SpacingsAgree ==
    ASSUME NEW P \in Nat \ {0}, NEW n \in Nat, NEW m \in Nat, NEW f, NEW g,
           Spacings(P, n, f), Spacings(P, m, g), NEW k \in 0..n, k \in 0..m
    PROVE  f[k] = g[k]
<1> DEFINE T == {j \in Nat : j <= n /\ j <= m /\ f[j] # g[j]}
<1> SUFFICES ASSUME T # {} PROVE FALSE
  OBVIOUS
<1>1. PICK j \in T : \A i \in T : j <= i
  <2> HIDE DEF T
  <2>1. T \subseteq Nat
    BY DEF T
  <2> QED BY <2>1, Least
<1>2. /\ f[j] = IF j <= P THEN 1 ELSE 2 * f[(j + 1) \div 2]
      /\ g[j] = IF j <= P THEN 1 ELSE 2 * g[(j + 1) \div 2]
  BY SpacingsEach
<1>3. j > P => (j + 1) \div 2 \in 0..(j - 1)
  BY HalfIsLess
<1>4. j > P => f[(j + 1) \div 2] = g[(j + 1) \div 2]
  BY <1>1, <1>3
<1> QED BY <1>2, <1>4

LEMMA SpacingStep ==
    ASSUME NEW P \in Nat \ {0}, NEW m \in Nat
    PROVE  Spacing(m, P) = IF m <= P THEN 1 ELSE 2 * Spacing((m + 1) \div 2, P)
<1> DEFINE Table(n) == CHOOSE f : Spacings(P, n, f)
<1>1. \A n \in Nat : Spacings(P, n, Table(n))
  BY SpacingsExist
<1>2. \A n \in Nat : Spacing(n, P) = Table(n)[n]
  BY DEF Spacing, Spacings
<1> HIDE DEF Table
<1>3. Table(m)[m] = IF m <= P THEN 1 ELSE 2 * Table(m)[(m + 1) \div 2]
  BY <1>1, SpacingsEach
<1>4. CASE m <= P
  BY <1>2, <1>3, <1>4
<1>5. CASE m > P
  <2> DEFINE k == (m + 1) \div 2
  <2>1. k \in 0..(m - 1)
    BY <1>5, HalfIsLess
  <2> HIDE DEF k
  <2>2. k \in Nat /\ k \in 0..m /\ k \in 0..k
    BY <2>1
  <2>3. Spacings(P, m, Table(m)) /\ Spacings(P, k, Table(k))
    BY <1>1, <2>2
  <2>4. Table(m)[k] = Table(k)[k]
    BY <2>2, <2>3, SpacingsAgree
  <2>5. Spacing(k, P) = Table(k)[k] /\ Spacing(m, P) = Table(m)[m]
    BY <1>2, <2>2
  <2> QED BY <1>3, <1>5, <2>4, <2>5 DEF k
<1> QED BY <1>4, <1>5

\* A number of a given size needs no wider spacing than this, and half of it would
\* be too narrow.
LEMMA SpacingFacts ==
    ASSUME NEW P \in Nat \ {0}, NEW m \in Nat
    PROVE  /\ Spacing(m, P) \in Nat \ {0}
           /\ m <= P * Spacing(m, P)
           /\ \/ Spacing(m, P) = 1
              \/ \E w \in Nat \ {0} : Spacing(m, P) = 2 * w /\ P * w < m
<1> DEFINE Right(n) == /\ Spacing(n, P) \in Nat \ {0}
                       /\ n <= P * Spacing(n, P)
                       /\ \/ Spacing(n, P) = 1
                          \/ \E w \in Nat \ {0} : Spacing(n, P) = 2 * w /\ P * w < n
           T == {n \in Nat : ~ Right(n)}
<1> SUFFICES ASSUME T # {} PROVE FALSE
  OBVIOUS
<1>1. PICK n \in T : \A i \in T : n <= i
  <2> HIDE DEF T
  <2>1. T \subseteq Nat
    BY DEF T
  <2> QED BY <2>1, Least
<1>2. n \in Nat /\ ~ Right(n)
  OBVIOUS
<1>3. CASE n <= P
  <2>1. Spacing(n, P) = 1
    BY <1>2, <1>3, SpacingStep
  <2> QED BY <1>2, <1>3, <2>1
<1>4. CASE n > P
  <2> DEFINE k == (n + 1) \div 2
             u == Spacing(k, P)
  <2>1. k \in 0..(n - 1) /\ n <= 2 * k /\ 2 * k <= n + 1
    BY <1>2, <1>4, HalfIsLess
  <2>2. Spacing(n, P) = 2 * u
    BY <1>2, <1>4, SpacingStep
  <2>3. k \notin T
    <3> HIDE DEF T, k
    <3> QED BY <1>1, <1>2, <2>1
  <2>4. Right(k)
    <3> HIDE DEF Right, k
    <3> QED BY <2>1, <2>3
  <2>5. /\ u \in Nat \ {0} /\ k <= P * u
        /\ u = 1 \/ \E w \in Nat \ {0} : u = 2 * w /\ P * w < k
    BY <2>4
  <2> HIDE DEF k, u, T
  <2>6. P * u < n
    <3>1. CASE u = 1
      BY <1>2, <1>4, <3>1
    <3>2. ASSUME NEW w \in Nat \ {0}, u = 2 * w, P * w < k PROVE P * u < n
      <4>1. P * u = 2 * (P * w) /\ P * w \in Nat
        BY <3>2
      <4> QED BY <1>2, <2>1, <3>2, <4>1
    <3> QED BY <2>5, <3>1, <3>2
  <2>7. P * (2 * u) = 2 * (P * u) /\ P * u \in Nat
    BY <2>5
  <2>8. n <= P * (2 * u)
    BY <1>2, <2>1, <2>5, <2>7
  <2>9. Right(n)
    BY <2>2, <2>5, <2>6, <2>8
  <2> QED BY <1>2, <2>9
<1> QED BY <1>2, <1>3, <1>4

LEMMA Division ==
    ASSUME NEW m \in Nat, NEW u \in Nat \ {0}
    PROVE  m \div u \in Nat /\ m % u \in 0..(u - 1) /\ m = u * (m \div u) + (m % u)
OBVIOUS

\* A rounded integer is exact as far as the precision, and off by at most one part
\* in it.
LEMMA RoundedFacts ==
    ASSUME NEW P \in Nat \ {0}, NEW n \in Int
    PROVE  /\ Rounded(n, P) \in Int
           /\ Magnitude(n) <= P => Rounded(n, P) = n
           /\ P * Magnitude(Rounded(n, P) - n) <= Magnitude(n)
<1> DEFINE m == Magnitude(n)
           u == Spacing(m, P)
           q == m \div u
           r == m % u
           up == 2 * r > u \/ (2 * r = u /\ q % 2 = 1)
           near == u * (q + (IF up THEN 1 ELSE 0))
<1>1. m \in Nat /\ n = (IF n < 0 THEN -m ELSE m)
  BY DEF Magnitude
<1>2. Rounded(n, P) = IF n < 0 THEN -near ELSE near
  BY DEF Rounded, WithSignOf, Nearest, AboveHalf
<1>3. u \in Nat \ {0} /\ (u = 1 \/ \E w \in Nat \ {0} : u = 2 * w /\ P * w < m)
  <2> HIDE DEF m
  <2> QED BY <1>1, SpacingFacts
<1>4. m <= P => u = 1
  <2> HIDE DEF m
  <2> QED BY <1>1, SpacingStep
<1> HIDE DEF m, u
<1>5. q \in Nat /\ r \in 0..(u - 1) /\ m = u * q + r
  BY <1>1, <1>3, Division
<1> HIDE DEF q, r
<1>6. near = (IF up THEN u * q + u ELSE u * q) /\ u * q \in Nat
  BY <1>3, <1>5
<1> DEFINE d == Magnitude(near - m)
<1>7. near \in Int /\ d \in Nat /\ 2 * d <= u
  <2>1. CASE up
    <3>1. 2 * r >= u
      BY <2>1, <1>3, <1>5
    <3>2. near - m = u - r
      BY <2>1, <1>3, <1>5, <1>6
    <3> QED BY <1>1, <1>3, <1>5, <1>6, <3>1, <3>2 DEF Magnitude
  <2>2. CASE ~ up
    <3>1. 2 * r <= u
      BY <2>2, <1>3, <1>5
    <3>2. near - m = -r
      BY <2>2, <1>3, <1>5, <1>6
    <3> QED BY <1>1, <1>3, <1>5, <1>6, <3>1, <3>2 DEF Magnitude
  <2> QED BY <2>1, <2>2
<1> HIDE DEF near
<1>8. u = 1 => near = m
  BY <1>1, <1>7 DEF Magnitude
<1>9. P * d <= m
  <2>1. CASE u = 1
    BY <1>1, <1>7, <2>1
  <2>2. ASSUME NEW w \in Nat \ {0}, u = 2 * w, P * w < m PROVE P * d <= m
    <3>1. d <= w
      BY <1>7, <2>2
    <3> HIDE DEF d
    <3>2. P * d <= P * w /\ P * d \in Nat /\ P * w \in Nat
      BY <1>7, <2>2, <3>1
    <3> QED BY <1>1, <2>2, <3>2
  <2> QED BY <1>3, <2>1, <2>2
<1>10. Magnitude(Rounded(n, P) - n) = d
  BY <1>1, <1>2, <1>7 DEF Magnitude
<1>11. Magnitude(n) = m
  BY DEF m
<1>12. Rounded(n, P) \in Int
  BY <1>2, <1>7
<1>13. Magnitude(n) <= P => Rounded(n, P) = n
  BY <1>1, <1>2, <1>4, <1>8, <1>11
<1> HIDE DEF d
<1> QED BY <1>9, <1>10, <1>11, <1>12, <1>13

\* What the property asks of a double that becomes an integer.
LEMMA Truncated ==
    ASSUME NEW f \in Int
    PROVE  /\ Truncate(f) \in Int
           /\ Magnitude(Truncate(f)) <= Magnitude(f)
           /\ Widen(Truncate(f)) = WithoutFraction(f)
           /\ Truncate(Widen(f)) = f
           /\ \A max \in Nat : f \in (-2 * max - 3)..(2 * max + 1) =>
                  Truncate(f) \in (-max - 1)..max
  BY DEF Truncate, Magnitude, Widen, WithoutFraction

\* A double without its fraction is a double.
LEMMA TruncatedDouble ==
    ASSUME NEW f \in Int, IsDouble(f)
    PROVE  IsDouble(Truncate(f))
<1> DEFINE P == DBL_PRECISION
           m == Magnitude(f)
           u == Spacing(m, P)
<1>0. P \in Nat \ {0} /\ m \in Nat /\ f = (IF f < 0 THEN -m ELSE m)
  BY NumberAssumption DEF Magnitude
<1>1. CASE m <= P
  <2>1. Truncate(f) \in Int /\ Magnitude(Truncate(f)) <= m
    BY Truncated
  <2>2. Magnitude(Truncate(f)) <= P
    BY <1>0, <1>1, <2>1 DEF Truncate, Magnitude
  <2> QED BY <1>0, <2>1, <2>2, RoundedFacts DEF IsDouble
<1>2. CASE m > P
  <2> DEFINE q == m \div u
             r == m % u
             up == 2 * r > u \/ (2 * r = u /\ q % 2 = 1)
             near == u * (q + (IF up THEN 1 ELSE 0))
             v == Spacing((m + 1) \div 2, P)
  <2>1. u = 2 * v
    <3> HIDE DEF P, m
    <3> QED BY <1>0, <1>2, SpacingStep
  <2>2. (m + 1) \div 2 \in Nat
    BY <1>0
  <2>3. v \in Nat \ {0}
    <3> HIDE DEF P, m
    <3> QED BY <1>0, <2>2, SpacingFacts
  <2>4. f = IF f < 0 THEN -near ELSE near
    BY DEF IsDouble, Rounded, WithSignOf, Nearest, AboveHalf
  <2> HIDE DEF m, u, v, P
  <2>5. u \in Nat \ {0}
    BY <2>1, <2>3
  <2>6. q \in Nat /\ r \in 0..(u - 1) /\ m = u * q + r
    BY <1>0, <2>5, Division
  <2> HIDE DEF q, r
  <2>7. near = (IF up THEN u * q + u ELSE u * q) /\ u * q \in Nat
    BY <2>5, <2>6
  <2>8. near = m
    <3> HIDE DEF near
    <3>1. near \in Int
      BY <2>5, <2>7
    <3> QED BY <1>0, <2>4, <3>1
  <2>9. r = 0
    BY <2>5, <2>6, <2>7, <2>8
  <2> HIDE DEF near, up
  <2>10. m = 2 * (v * q) /\ v * q \in Nat
    BY <2>1, <2>3, <2>6, <2>9
  <2> DEFINE k == v * q
  <2>11. k \in Nat /\ m = 2 * k
    BY <2>10
  <2> HIDE DEF k
  <2>12. (m + 1) \div 2 = k /\ Truncate(f) = IF f < 0 THEN -k ELSE k
    BY <1>0, <2>11 DEF Truncate
  <2>13. Spacing(k, P) = v
    BY <2>12 DEF v
  <2>14. k \div v = q /\ k % v = 0
    <3>1. k \div v \in Nat /\ k % v \in 0..(v - 1) /\ k = v * (k \div v) + (k % v)
      BY <2>3, <2>11, Division
    <3> DEFINE a == k \div v
               b == k % v
    <3>2. a \in Nat /\ b \in 0..(v - 1) /\ v * q = v * a + b
      BY <3>1 DEF k
    <3> HIDE DEF a, b
    <3>3. a = q
      <4>1. CASE a < q
        <5>1. v * (a + 1) <= v * q
          BY <2>3, <2>6, <3>2, <4>1
        <5> QED BY <2>3, <2>6, <3>2, <5>1
      <4>2. CASE a > q
        <5>1. v * (q + 1) <= v * a
          BY <2>3, <2>6, <3>2, <4>2
        <5> QED BY <2>3, <2>6, <3>2, <5>1
      <4> QED BY <2>6, <3>2, <4>1, <4>2
    <3>4. b = 0
      BY <2>3, <2>6, <3>2, <3>3
    <3> QED BY <3>3, <3>4 DEF a, b
  <2>15. Magnitude(Truncate(f)) = k
    BY <2>11, <2>12 DEF Magnitude
  <2>16. Truncate(f) < 0 => f < 0
    BY <2>11, <2>12
  <2>17. Truncate(f) >= 0 => f >= 0 \/ k = 0
    BY <2>11, <2>12
  <2>18. Nearest(k, v) = v * q
    <3>1. ~ AboveHalf(q, 0, v)
      BY <2>3 DEF AboveHalf
    <3>2. q + 0 = q
      BY <2>6
    <3> QED BY <2>14, <3>1, <3>2 DEF Nearest
  <2>19. Rounded(Truncate(f), P) = IF Truncate(f) < 0 THEN -(v * q) ELSE v * q
    BY <2>13, <2>15, <2>18 DEF Rounded, WithSignOf
  <2> QED BY <2>11, <2>12, <2>16, <2>17, <2>19 DEF IsDouble, k, P
<1> QED BY <1>0, <1>1, <1>2

\* What a caller reads back under the options cfg, and whether that is what the
\* call stored.
ReadWith(type, s, cfg) ==
    CASE type = "INT"    -> config_setting_get_int(s, cfg)
      [] type = "INT64"  -> config_setting_get_int64(s, cfg)
      [] type = "FLOAT"  -> config_setting_get_float(s, cfg)
      [] type = "BOOL"   -> config_setting_get_bool(s)
      [] type = "STRING" -> config_setting_get_string(s)

ReadBack(type, v, s, cfg) == Preserved(type, v, s.type, ReadWith(type, s, cfg))

\* The values a caller of config_setting_set_<type> has.
IsValue(type, v) ==
    /\ type = "INT" => v \in INT32_MIN..INT32_MAX
    /\ type = "INT64" => v \in (-INT64_MAX - 1)..INT64_MAX
    /\ type = "FLOAT" => v \in Int /\ IsDouble(v)

\* An integer stored as a float and cast back.
LEMMA FloatPreserved ==
    ASSUME NEW type \in {"INT", "INT64"}, NEW v, IsValue(type, v)
    PROVE  Preserved(type, v, "FLOAT", Cast(FloatOf(v), LargestOf(type)))
<1> DEFINE max == LargestOf(type)
           P == FLT_PRECISION
           R == Rounded(v, P)
           read == Cast(FloatOf(v), max)
<1>1. /\ v \in Int /\ max \in Nat /\ Magnitude(v) <= max + 1 /\ v \in (-max - 1)..max
      /\ P \in Nat \ {0}
  BY SettingAssumption, NumberAssumption DEF IsValue, LargestOf, Magnitude, INT32_MIN
<1>2. R \in Int /\ (Magnitude(v) <= P => R = v) /\ P * Magnitude(R - v) <= Magnitude(v)
  <2> HIDE DEF P
  <2> QED BY <1>1, RoundedFacts
<1>3. Truncate(FloatOf(v)) = R
  BY <1>2, Truncated DEF FloatOf
<1>4. R \in (-max - 1)..max => read = R
  BY <1>3 DEF Cast, InRange
<1> HIDE DEF R, max, read, P
<1>5. Magnitude(v) \in Nat /\ Magnitude(R - v) \in Nat
  BY <1>1, <1>2 DEF Magnitude
<1>6. CASE R \in (-max - 1)..max
  <2>1. Magnitude(v) <= P => read = v
    BY <1>2, <1>4, <1>6
  <2>2. P * Magnitude(read - v) <= Magnitude(v)
    BY <1>2, <1>4, <1>6
  <2> QED BY <2>1, <2>2 DEF Preserved, read, max, P
<1>7. CASE R \notin (-max - 1)..max
  <2>1. ~ (Magnitude(v) <= P)
    BY <1>1, <1>2, <1>7
  <2>2. max - Magnitude(v) < Magnitude(R - v)
    BY <1>1, <1>2, <1>7 DEF Magnitude
  <2> DEFINE a == max - Magnitude(v)
             b == Magnitude(R - v)
  <2>3. a \in Int /\ b \in Nat /\ a < b
    BY <1>1, <1>5, <2>2
  <2> HIDE DEF a, b
  <2>4. P * a < P * b
    BY <1>1, <2>3
  <2>5. P * a \in Int /\ P * b \in Int /\ P * b <= Magnitude(v)
    BY <1>1, <1>2, <2>3 DEF b
  <2>6. P * a < Magnitude(v)
    BY <1>5, <2>4, <2>5
  <2> QED BY <2>1, <2>6 DEF Preserved, max, P, a
<1> QED BY <1>6, <1>7

\* A double stored in an integer setting and read as a double again.
LEMMA CastPreserved ==
    ASSUME NEW type \in {"INT", "INT64"}, NEW v, IsValue("FLOAT", v), NEW read,
           read = IF type = "INT" THEN Widen(IntOf(v)) ELSE DoubleOf(Int64Of(v))
    PROVE  Preserved("FLOAT", v, type, read)
<1> DEFINE max == LargestOf(type)
<1>0. v \in Int /\ IsDouble(v)
  BY DEF IsValue
<1> SUFFICES ASSUME v \in (-2 * max - 3)..(2 * max + 1) PROVE read = WithoutFraction(v)
  BY DEF Preserved
<1>1. max \in Nat
  BY SettingAssumption, NumberAssumption DEF LargestOf
<1>2. Truncate(v) \in (-max - 1)..max /\ Widen(Truncate(v)) = WithoutFraction(v)
  <2> HIDE DEF max
  <2> QED BY <1>0, <1>1, Truncated
<1>3. Cast(v, max) = Truncate(v)
  BY <1>2 DEF Cast, InRange
<1>4. DoubleOf(Truncate(v)) = Widen(Truncate(v))
  BY <1>0, TruncatedDouble DEF DoubleOf, IsDouble
<1>5. CASE type = "INT"
  BY <1>2, <1>3, <1>5 DEF IntOf, LargestOf
<1>6. CASE type = "INT64"
  BY <1>2, <1>3, <1>4, <1>6 DEF Int64Of, LargestOf
<1> QED BY <1>5, <1>6

LEMMA SetReadBack ==
    ASSUME NEW s, IsSetting(s), NEW type \in Scalars, NEW v, IsValue(type, v),
           NEW cfg, SetValue(s, type, v, cfg).ret
    PROVE  ReadBack(type, v, SetValue(s, type, v, cfg).s, cfg)
<1> DEFINE set == SetValue(s, type, v, cfg)
<1>0. ASSUME NEW t, NEW x
      PROVE  Stored(s, t, x).s.type = t /\ Stored(s, t, x).s.value = x
  <2>1. [s EXCEPT !.type = t, !.value = x].type = t
    BY DEF IsSetting, Shape
  <2>2. [s EXCEPT !.type = t, !.value = x].value = x
    BY DEF IsSetting, Shape
  <2> QED BY <2>1, <2>2 DEF Stored
<1>r. Refused(s).ret = FALSE
  BY DEF Refused
<1>s. ASSUME set.s.type = type, ReadWith(type, set.s, cfg) = v
      PROVE  ReadBack(type, v, set.s, cfg)
  <2>1. Preserved(type, v, type, v)
    BY DEF Preserved
  <2> HIDE DEF set
  <2> QED BY <1>s, <2>1 DEF ReadBack
<1>1. CASE type = "INT"
  <2>0. set.ret /\ set = config_setting_set_int(s, v, cfg)
    BY <1>1 DEF SetValue
  <2>1. \/ set = Stored(s, "INT", v)
        \/ config_get_auto_convert(cfg) /\ set = Stored(s, "FLOAT", FloatOf(v))
    BY <1>r, <2>0 DEF config_setting_set_int
  <2> HIDE DEF set
  <2>2. CASE set = Stored(s, "INT", v)
    <3>1. set.s.type = "INT" /\ set.s.value = v
      BY <1>0, <2>2
    <3>2. ReadWith("INT", set.s, cfg) = v
      BY <3>1 DEF ReadWith, config_setting_get_int, get_int, OrElse
    <3> QED BY <1>1, <1>s, <3>1, <3>2 DEF set
  <2>3. CASE config_get_auto_convert(cfg) /\ set = Stored(s, "FLOAT", FloatOf(v))
    <3>1. set.s.type = "FLOAT" /\ set.s.value = FloatOf(v)
      BY <1>0, <2>3
    <3>2. ReadWith("INT", set.s, cfg) = IntOf(FloatOf(v))
      BY <2>3, <3>1 DEF ReadWith, config_setting_get_int, get_int, OrElse
    <3>3. IntOf(FloatOf(v)) = Cast(FloatOf(v), LargestOf("INT"))
      BY DEF IntOf, LargestOf
    <3>4. Preserved("INT", v, "FLOAT", Cast(FloatOf(v), LargestOf("INT")))
      BY <1>1, FloatPreserved
    <3> QED BY <1>1, <3>1, <3>2, <3>3, <3>4 DEF ReadBack, set
  <2> QED BY <2>1, <2>2, <2>3
<1>2. CASE type = "INT64"
  <2>0. set.ret /\ set = config_setting_set_int64(s, v, cfg)
    BY <1>2 DEF SetValue
  <2>1. \/ set = Stored(s, "INT64", v)
        \/ set = Stored(s, "INT", Narrow(v))
        \/ config_get_auto_convert(cfg) /\ set = Stored(s, "FLOAT", FloatOf(v))
    BY <1>r, <2>0 DEF config_setting_set_int64
  <2> HIDE DEF set
  <2>2. CASE set = Stored(s, "INT64", v)
    <3>1. set.s.type = "INT64" /\ set.s.value = v
      BY <1>0, <2>2
    <3>2. ReadWith("INT64", set.s, cfg) = v
      BY <3>1 DEF ReadWith, config_setting_get_int64, get_int64, OrElse
    <3> QED BY <1>2, <1>s, <3>1, <3>2 DEF set
  <2>3. CASE set = Stored(s, "INT", Narrow(v))
    <3>1. set.s.type = "INT" /\ set.s.value = Narrow(v)
      BY <1>0, <2>3
    <3>2. ReadWith("INT64", set.s, cfg) = Narrow(v)
      BY <3>1 DEF ReadWith, config_setting_get_int64, get_int64, OrElse
    <3>3. Preserved("INT64", v, "INT", Narrow(v))
      BY DEF Preserved, Narrow
    <3> QED BY <1>2, <3>1, <3>2, <3>3 DEF ReadBack, set
  <2>4. CASE config_get_auto_convert(cfg) /\ set = Stored(s, "FLOAT", FloatOf(v))
    <3>1. set.s.type = "FLOAT" /\ set.s.value = FloatOf(v)
      BY <1>0, <2>4
    <3>2. ReadWith("INT64", set.s, cfg) = Int64Of(FloatOf(v))
      BY <2>4, <3>1 DEF ReadWith, config_setting_get_int64, get_int64, OrElse
    <3>3. Int64Of(FloatOf(v)) = Cast(FloatOf(v), LargestOf("INT64"))
      BY DEF Int64Of, LargestOf
    <3>4. Preserved("INT64", v, "FLOAT", Cast(FloatOf(v), LargestOf("INT64")))
      BY <1>2, FloatPreserved
    <3> QED BY <1>2, <3>1, <3>2, <3>3, <3>4 DEF ReadBack, set
  <2> QED BY <2>1, <2>2, <2>3, <2>4
<1>3. CASE type = "FLOAT"
  <2>0. set.ret /\ set = config_setting_set_float(s, v, cfg)
    BY <1>3 DEF SetValue
  <2>1. \/ set = Stored(s, "FLOAT", v)
        \/ config_get_auto_convert(cfg) /\ set = Stored(s, "INT", IntOf(v))
        \/ config_get_auto_convert(cfg) /\ set = Stored(s, "INT64", Int64Of(v))
    BY <1>r, <2>0 DEF config_setting_set_float
  <2> HIDE DEF set
  <2>2. CASE set = Stored(s, "FLOAT", v)
    <3>1. set.s.type = "FLOAT" /\ set.s.value = v
      BY <1>0, <2>2
    <3>2. ReadWith("FLOAT", set.s, cfg) = v
      BY <3>1 DEF ReadWith, config_setting_get_float, get_float, OrElse
    <3> QED BY <1>3, <1>s, <3>1, <3>2 DEF set
  <2>3. CASE config_get_auto_convert(cfg) /\ set = Stored(s, "INT", IntOf(v))
    <3>1. set.s.type = "INT" /\ set.s.value = IntOf(v)
      BY <1>0, <2>3
    <3>2. ReadWith("FLOAT", set.s, cfg) = Widen(IntOf(v))
      BY <2>3, <3>1 DEF ReadWith, config_setting_get_float, get_float, OrElse
    <3>3. Preserved("FLOAT", v, "INT", Widen(IntOf(v)))
      BY <1>3, CastPreserved
    <3> QED BY <1>3, <3>1, <3>2, <3>3 DEF ReadBack, set
  <2>4. CASE config_get_auto_convert(cfg) /\ set = Stored(s, "INT64", Int64Of(v))
    <3>1. set.s.type = "INT64" /\ set.s.value = Int64Of(v)
      BY <1>0, <2>4
    <3>2. ReadWith("FLOAT", set.s, cfg) = DoubleOf(Int64Of(v))
      BY <2>4, <3>1 DEF ReadWith, config_setting_get_float, get_float, OrElse
    <3>3. Preserved("FLOAT", v, "INT64", DoubleOf(Int64Of(v)))
      BY <1>3, CastPreserved
    <3> QED BY <1>3, <3>1, <3>2, <3>3 DEF ReadBack, set
  <2> QED BY <2>1, <2>2, <2>3, <2>4
<1>4. CASE type = "BOOL"
  <2>1. set.ret /\ set = config_setting_set_bool(s, v)
    BY <1>4 DEF SetValue
  <2>2. set = Stored(s, "BOOL", v)
    BY <1>r, <2>1 DEF config_setting_set_bool
  <2> HIDE DEF set
  <2>3. set.s.type = "BOOL" /\ set.s.value = v
    BY <1>0, <2>2
  <2>4. ReadWith("BOOL", set.s, cfg) = v
    BY <2>3 DEF ReadWith, config_setting_get_bool
  <2> QED BY <1>4, <1>s, <2>3, <2>4 DEF set
<1>5. CASE type = "STRING"
  <2>1. set.ret /\ set = config_setting_set_string(s, v)
    BY <1>5 DEF SetValue
  <2>2. set.s = [s EXCEPT !.type = "STRING", !.sval = v]
    BY <1>r, <2>1 DEF config_setting_set_string
  <2>3. [s EXCEPT !.type = "STRING", !.sval = v].type = "STRING"
    BY DEF IsSetting, Shape
  <2>4. [s EXCEPT !.type = "STRING", !.sval = v].sval = v
    BY DEF IsSetting, Shape
  <2>5. set.s.type = "STRING" /\ set.s.sval = v
    BY <2>2, <2>3, <2>4
  <2> HIDE DEF set
  <2>6. ReadWith("STRING", set.s, cfg) = v
    BY <2>5 DEF ReadWith, config_setting_get_string
  <2> QED BY <1>5, <1>s, <2>5, <2>6 DEF set
<1> QED BY <1>1, <1>2, <1>3, <1>4, <1>5 DEF Scalars, Numbers

\* Only config_setting_set_<type> leaves a call of the kind "set" behind.
LEMMA LastSet ==
    ASSUME TreeInv, TreeNext, last'.call = "set"
    PROVE  \E s \in DOMAIN h, t \in Scalars :
               \E v \in program.values[t] : Set(s, t, v)
<1>1. last' # NoCall
  BY DEF NoCall
<1>2. ChangeSettings
  BY <1>1 DEF TreeNext, config_set_destructor, config_set_options, config_set_auto_convert,
              SetConfig, config_destroy, config_init
<1>3. ASSUME NEW s, NEW i, NEW t, NEW v, SetAt(s, i, t, v) PROVE FALSE
  BY <1>3 DEF SetAt
<1>4. ASSUME NEW s PROVE /\ \A n, t : ~ Add(s, n, t)
                         /\ \A n : ~ Remove(s, n)
                         /\ \A i : ~ RemoveElem(s, i)
                         /\ \A f : ~ SetFormat(s, f)
                         /\ ~ config_setting_set_hook(s)
  BY <1>1 DEF Add, Remove, RemoveElem, SetFormat, config_setting_set_hook
<1> QED BY <1>2, <1>3, <1>4 DEF ChangeSettings

\* A value that config_setting_set_<type> accepted is read back with
\* config_setting_get_<type>, for all numbers, precisions and options, and whatever
\* the build makes of a cast out of range: but for the losses that Preserved lists.
THEOREM AcceptedIsReadBackHolds == TreeSpec => []AcceptedIsReadBack
<1>0. AcceptedIsReadBack <=>
          (last.call = "set" /\ last.ret => ReadBack(last.type, last.v, h[last.s], c))
  BY DEF AcceptedIsReadBack, ReadBack, ReadWith, ReadAs
<1>1. TreeInit => AcceptedIsReadBack
  BY DEF TreeInit, NoCall, AcceptedIsReadBack
<1>2. ASSUME TreeInv, AcceptedIsReadBack, [TreeNext]_treeVars PROVE AcceptedIsReadBack'
  <2>1. CASE UNCHANGED treeVars
    BY <1>2, <2>1 DEF treeVars, AcceptedIsReadBack, ReadAs
  <2>2. CASE TreeNext
    <3> SUFFICES ASSUME last'.call = "set", last'.ret
                 PROVE  ReadBack(last'.type, last'.v, h'[last'.s], c')
      BY DEF AcceptedIsReadBack, ReadBack, ReadWith, ReadAs
    <3>1. PICK s \in DOMAIN h, t \in Scalars : \E v \in program.values[t] : Set(s, t, v)
      BY <1>2, <2>2, LastSet
    <3>2. PICK v \in program.values[t] : Set(s, t, v)
      BY <3>1
    <3> DEFINE set == SetValue(h[s], t, v, c)
    <3>3. /\ h' = [h EXCEPT ![s] = set.s] /\ c' = c
          /\ last' = [call |-> "set", s |-> s, type |-> t, v |-> v, ret |-> set.ret]
      BY <3>2 DEF Set
    <3>4. IsValue(t, v)
      BY <1>2, TreeAssumption DEF TreeInv, IsValue
    <3>5. IsSetting(h[s])
      BY <1>2 DEF TreeInv, Sound, Heap
    <3>6. set.ret
      BY <3>3
    <3>7. ReadBack(t, v, set.s, c)
      BY <3>4, <3>5, <3>6, SetReadBack
    <3> HIDE DEF set
    <3>8. h'[last'.s] = set.s /\ last'.type = t /\ last'.v = v
      BY <3>3
    <3> QED BY <3>3, <3>7, <3>8
  <2> QED BY <1>2, <2>1, <2>2
<1> QED BY <1>1, <1>2, TreeInvariant, PTL DEF TreeSpec
-----------------------------------------------------------------------------
(* SetElemKeepsArray: the type of the elements of an array. *)

\* Homogeneous without counting.
OneType(H, s) ==
    /\ \A e \in Elements(H[s]) : H[e].type \in Scalars
    /\ \A e, f \in Elements(H[s]) : H[e].type = H[f].type

LEMMA HomogeneousOne ==
    ASSUME NEW H, Heap(H), NEW s \in DOMAIN H
    PROVE  Homogeneous(H, s) <=> OneType(H, s)
<1> DEFINE S == Elements(H[s])
           T == {H[e].type : e \in S}
           q == H[s].list
           n == Len(q)
<1>1. n \in Nat /\ S = {q[i] : i \in 1..n}
  BY DEF Heap, IsSetting, Elements
<1>2. IsFiniteSet(T)
  <2> DEFINE f == [i \in 1..n |-> H[q[i]].type]
  <2> HIDE DEF q, n, S
  <2>1. f \in Surjection(1..n, T)
    BY <1>1 DEF Surjection
  <2> HIDE DEF f
  <2>2. IsFiniteSet(1..n)
    BY <1>1, FS_Interval
  <2> QED BY <2>1, <2>2, FS_Surjection
<1> HIDE DEF S
<1>3. ASSUME Cardinality(T) <= 1, NEW e \in S, NEW f \in S PROVE H[e].type = H[f].type
  <2> DEFINE x == H[e].type
             y == H[f].type
  <2>1. x \in T /\ y \in T
    OBVIOUS
  <2> HIDE DEF T, x, y
  <2>2. Cardinality({x}) = 1 /\ IsFiniteSet({x})
    BY FS_Singleton
  <2>3. ASSUME x # y PROVE FALSE
    <3>1. Cardinality({x} \cup {y}) = 2
      <4>1. y \notin {x}
        BY <2>3
      <4>2. Cardinality({x} \cup {y}) = Cardinality({x}) + 1
        BY <2>2, <4>1, FS_AddElement
      <4> QED BY <2>2, <4>2
    <3>2. Cardinality({x} \cup {y}) <= Cardinality(T) /\ Cardinality(T) \in Nat
      BY <1>2, <2>1, FS_Subset, FS_CardinalityType
    <3> QED BY <1>3, <3>1, <3>2
  <2> QED BY <2>3 DEF x, y
<1>4. ASSUME \A e, f \in S : H[e].type = H[f].type PROVE Cardinality(T) <= 1
  <2>1. CASE S = {}
    BY <2>1, FS_EmptySet
  <2>2. CASE S # {}
    <3>1. PICK e \in S : TRUE
      BY <2>2
    <3>2. T = {H[e].type}
      BY <1>4, <3>1
    <3>3. Cardinality({H[e].type}) = 1
      BY FS_Singleton
    <3> HIDE DEF T
    <3> QED BY <3>2, <3>3
  <2> QED BY <2>1, <2>2
<1>5. Homogeneous(H, s) <=> (\A e \in S : H[e].type \in Scalars) /\ Cardinality(T) <= 1
  BY DEF Homogeneous, S
<1>6. OneType(H, s) <=> /\ \A e \in S : H[e].type \in Scalars
                        /\ \A e, f \in S : H[e].type = H[f].type
  BY DEF OneType, S
<1> HIDE DEF T
<1> QED BY <1>3, <1>4, <1>5, <1>6

\* A setting that has a type keeps it.
LEMMA SetKeepsType ==
    ASSUME NEW s, IsSetting(s), s.type \in Scalars, NEW type \in Scalars, NEW v, NEW cfg
    PROVE  SetValue(s, type, v, cfg).s.type = s.type
<1>0. ASSUME NEW t, NEW x PROVE Stored(s, t, x).s.type = t
  <2>1. [s EXCEPT !.type = t, !.value = x].type = t
    BY DEF IsSetting, Shape
  <2> QED BY <2>1 DEF Stored
<1>r. Refused(s).s = s /\ s.type # "NONE"
  BY DEF Refused, Scalars, Numbers
<1>1. CASE type = "INT"
  BY <1>0, <1>r, <1>1 DEF SetValue, config_setting_set_int
<1>2. CASE type = "INT64"
  BY <1>0, <1>r, <1>2 DEF SetValue, config_setting_set_int64
<1>3. CASE type = "FLOAT"
  BY <1>0, <1>r, <1>3 DEF SetValue, config_setting_set_float
<1>4. CASE type = "BOOL"
  BY <1>0, <1>r, <1>4 DEF SetValue, config_setting_set_bool
<1>5. CASE type = "STRING"
  <2>1. [s EXCEPT !.type = "STRING", !.sval = v].type = "STRING"
    BY DEF IsSetting, Shape
  <2> QED BY <1>r, <1>5, <2>1 DEF SetValue, config_setting_set_string
<1> QED BY <1>1, <1>2, <1>3, <1>4, <1>5 DEF Scalars, Numbers

\* Setting the value of one element.
LEMMA OneTypeUpdated ==
    ASSUME NEW H, Heap(H), NEW s \in DOMAIN H, OneType(H, s), Closed(H, DOMAIN H),
           NEW e \in DOMAIN H, NEW type \in Scalars, NEW v, NEW cfg
    PROVE  OneType([H EXCEPT ![e] = SetValue(H[e], type, v, cfg).s], s)
<1> DEFINE r == SetValue(H[e], type, v, cfg).s
           G == [H EXCEPT ![e] = r]
<1>1. IsSetting(H[e])
  BY DEF Heap
<1>2. Kept(H[e], r) /\ (H[e].type \in Scalars => r.type = H[e].type)
  BY <1>1, SetKeeps, SetKeepsType
<1> HIDE DEF r
<1>3. \A m \in DOMAIN H : G[m] = IF m = e THEN r ELSE H[m]
  OBVIOUS
<1>4. G[s].list = H[s].list
  BY <1>2, <1>3 DEF Kept
<1> HIDE DEF G
<1>5. Elements(G[s]) = Elements(H[s]) /\ Elements(H[s]) \subseteq DOMAIN H
  BY <1>4 DEF Elements, Closed
<1>6. \A m \in Elements(H[s]) : G[m].type = H[m].type
  BY <1>2, <1>3, <1>5 DEF OneType
<1>7. OneType(G, s)
  BY <1>5, <1>6 DEF OneType
<1> QED BY <1>7 DEF G, r

\* Adding an element, of the type of the first one.
LEMMA OneTypeGrown ==
    ASSUME NEW H, NEW G, NEW p, NEW a, NEW type \in Scalars, NEW s \in DOMAIN H,
           Heap(H), Linked(H), Grown(H, G, p, a, << >>, type),
           config_vector_checktype(H, p, type), H[s].type = "ARRAY", OneType(H, s)
    PROVE  OneType(G, s)
<1>1. /\ p \in DOMAIN H /\ a \notin DOMAIN H
      /\ \A m \in DOMAIN H \ {p} : G[m] = H[m]
  BY DEF Grown
<1>2. G[a].type = type /\ \A m \in DOMAIN H : G[m].type = H[m].type
  BY GrownFacts
<1>3. /\ Elements(G[p]) = Elements(H[p]) \cup {a}
      /\ \A m \in DOMAIN H \ {p} : Elements(G[m]) = Elements(H[m])
  BY GrownElements
<1>4. Elements(H[s]) \subseteq DOMAIN H
  BY LinkedClosed DEF Closed
<1>5. \A m \in Elements(H[s]) : G[m].type = H[m].type /\ G[m].type \in Scalars
  BY <1>2, <1>4 DEF OneType
<1>6. CASE s # p
  BY <1>3, <1>5, <1>6 DEF OneType
<1>7. CASE s = p
  <2>1. \A m \in Elements(H[p]) : H[m].type = type
    <3>1. CASE H[p].list = << >>
      <4>1. Elements(H[p]) = {}
        BY <3>1 DEF Elements
      <4> QED BY <4>1
    <3>2. CASE H[p].list # << >>
      <4>1. H[H[p].list[1]].type = type
        BY <1>7, <3>2 DEF config_vector_checktype
      <4>2. H[p].list[1] \in Elements(H[p])
        <5>1. H[p].list \in Seq(Nat)
          BY <1>1 DEF Heap, IsSetting
        <5>2. 1 \in 1..Len(H[p].list)
          BY <3>2, <5>1
        <5> QED BY <5>2, ElementsOf
      <4> QED BY <1>7, <4>1, <4>2 DEF OneType
    <3> QED BY <3>1, <3>2
  <2> QED BY <1>2, <1>3, <1>5, <1>7, <2>1 DEF OneType
<1> QED BY <1>6, <1>7

LEMMA SetElemOneType ==
    ASSUME NEW H, Heap(H), Linked(H), NEW p \in DOMAIN H, NEW idx \in Int,
           NEW type \in Scalars, NEW v, NEW cfg,
           NEW s \in DOMAIN H, H[s].type = "ARRAY", OneType(H, s)
    PROVE  OneType(SetElem(H, p, idx, type, v, cfg).h, s)
<1> DEFINE made == IF idx < 0 THEN config_setting_create(H, p, << >>, type)
                   ELSE [h |-> H, ret |-> config_setting_get_elem(H, p, idx)]
           set == SetValue(made.h[made.ret], type, v, cfg)
           G == [made.h EXCEPT ![made.ret] = set.s]
<1>1. CASE \/ H[p].type \notin {"ARRAY", "LIST"}
           \/ idx < 0 /\ ~ config_vector_checktype(H, p, type)
           \/ made.ret = NULL
  <2>1. SetElem(H, p, idx, type, v, cfg).h = H
    BY <1>1 DEF SetElem
  <2> QED BY <2>1
<1>2. CASE ~ (\/ H[p].type \notin {"ARRAY", "LIST"}
              \/ idx < 0 /\ ~ config_vector_checktype(H, p, type)
              \/ made.ret = NULL)
  <2>1. SetElem(H, p, idx, type, v, cfg).h = G
    BY <1>2 DEF SetElem
  <2>2. H[p].type \in Aggregates
    BY <1>2 DEF Aggregates
  <2>3. CASE idx < 0
    <3>1. made = config_setting_create(H, p, << >>, type) /\ config_vector_checktype(H, p, type)
      BY <1>2, <2>3
    <3>n. NameFits(H, p, << >>)
      BY <1>2 DEF NameFits
    <3>2. Grown(H, made.h, p, made.ret, << >>, type)
      BY <2>2, <3>n, <3>1, CreateGrows
    <3> HIDE DEF made
    <3>3. Heap(made.h) /\ made.ret \in DOMAIN made.h /\ s \in DOMAIN made.h
      BY <3>2 DEF Grown
    <3>4. OneType(made.h, s)
      BY <3>1, <3>2, OneTypeGrown
    <3>5. Closed(made.h, DOMAIN made.h)
      BY <3>2, LinkedGrown, LinkedClosed
    <3> QED BY <2>1, <3>3, <3>4, <3>5, OneTypeUpdated
  <2>4. CASE ~ (idx < 0)
    <3>1. made.h = H /\ made.ret = config_setting_get_elem(H, p, idx) /\ made.ret # NULL
      BY <1>2, <2>4
    <3> HIDE DEF made
    <3>2. made.ret = H[p].list[idx + 1] /\ idx \in 0..(Len(H[p].list) - 1)
      BY <3>1 DEF config_setting_get_elem
    <3>3. idx + 1 \in 1..Len(H[p].list)
      <4>1. Len(H[p].list) \in Nat
        BY DEF Heap, IsSetting
      <4> QED BY <3>2, <4>1
    <3>4. made.ret \in DOMAIN H
      BY <3>2, <3>3 DEF Linked
    <3> QED BY <2>1, <3>1, <3>4, LinkedClosed, OneTypeUpdated
  <2> QED BY <2>3, <2>4
<1> QED BY <1>1, <1>2

\* Only config_setting_set_<type>_elem leaves a call of the kind "set_elem".
LEMMA LastSetElem ==
    ASSUME TreeNext, last'.call = "set_elem"
    PROVE  \E s \in DOMAIN h, i \in (-1)..(program.maxSettings - 1), t \in Scalars :
               \E v \in program.values[t] : SetAt(s, i, t, v)
<1>1. last' # NoCall
  BY DEF NoCall
<1>2. ChangeSettings
  BY <1>1 DEF TreeNext, config_set_destructor, config_set_options, config_set_auto_convert,
              SetConfig, config_destroy, config_init
<1>3. ASSUME NEW s, NEW t, NEW v, Set(s, t, v) PROVE FALSE
  BY <1>3 DEF Set
<1>4. ASSUME NEW s PROVE /\ \A n, t : ~ Add(s, n, t)
                         /\ \A n : ~ Remove(s, n)
                         /\ \A i : ~ RemoveElem(s, i)
                         /\ \A f : ~ SetFormat(s, f)
                         /\ ~ config_setting_set_hook(s)
  BY <1>1 DEF Add, Remove, RemoveElem, SetFormat, config_setting_set_hook
<1> QED BY <1>2, <1>3, <1>4 DEF ChangeSettings

\* config_setting_set_<type>_elem leaves an array of one scalar type such an
\* array, whichever array or list it is called for: an element keeps its type, and
\* a new one has that of the first (libconfig.c, __config_vector_checktype).
THEOREM SetElemKeepsArrayHolds == TreeSpec => SetElemKeepsArray
<1> DEFINE Keeps ==
        last'.call = "set_elem" =>
            \A s \in DOMAIN h : h[s].type = "ARRAY" /\ Homogeneous(h, s) => Homogeneous(h', s)
<1>1. ASSUME TreeInv, TreeNext PROVE Keeps
  <2> SUFFICES ASSUME last'.call = "set_elem", NEW s \in DOMAIN h, h[s].type = "ARRAY",
                      Homogeneous(h, s)
               PROVE  Homogeneous(h', s)
    OBVIOUS
  <2>1. PICK p \in DOMAIN h, i \in (-1)..(program.maxSettings - 1), t \in Scalars :
            \E v \in program.values[t] : SetAt(p, i, t, v)
    BY <1>1, LastSetElem
  <2>2. PICK v \in program.values[t] : SetAt(p, i, t, v)
    BY <2>1
  <2>3. i \in Int /\ Heap(h) /\ Linked(h)
    BY <1>1, TreeAssumption DEF TreeInv, Sound
  <2>4. SetElemOf(h, p, i, t, v, c) = SetElem(h, p, i, t, v, c)
    BY DEF SetElemOf, Scalars, Numbers, config_setting_set_int_elem,
           config_setting_set_int64_elem, config_setting_set_float_elem,
           config_setting_set_bool_elem, config_setting_set_string_elem
  <2>5. h' = SetElem(h, p, i, t, v, c).h
    BY <2>2, <2>4 DEF SetAt
  <2>6. OneType(h, s)
    BY <2>3, HomogeneousOne
  <2>7. OneType(h', s)
    BY <2>3, <2>5, <2>6, SetElemOneType
  <2>8. Heap(h') /\ s \in DOMAIN h'
    <3>1. Extends(h, h')
      BY <2>3, <2>5, SetElemExtends
    <3> QED BY <1>1, <3>1, ExtendsKeeps DEF TreeInv, Sound
  <2> QED BY <2>7, <2>8, HomogeneousOne
<1>2. TreeInv /\ [TreeNext]_treeVars => [Keeps]_treeVars
  BY <1>1
<1>3. SetElemKeepsArray <=> [][Keeps]_treeVars
  BY DEF SetElemKeepsArray
<1> QED BY <1>2, <1>3, TreeInvariant, PTL DEF TreeSpec
-----------------------------------------------------------------------------
(* PathFindsSetting: up the parents to the root, and down again by the names. *)

\* The elements of the lists are all there is next to the root.
LEMMA ParentsInHeap ==
    ASSUME NEW H, NEW r, Linked(H), Rooted(H, r), NEW m \in DOMAIN H, m # r
    PROVE  H[m].parent \in DOMAIN H /\ m \in Elements(H[H[m].parent])
<1> DEFINE Good(e) == H[e].parent \in DOMAIN H /\ e \in Elements(H[H[e].parent])
           X == {r} \cup {e \in DOMAIN H : Good(e)}
<1>1. X \in SUBSET DOMAIN H /\ r \in X
  BY DEF Rooted
<1>2. ASSUME NEW q \in X, NEW e \in Elements(H[q]) PROVE e \in X
  <2>1. q \in DOMAIN H
    BY <1>1
  <2>2. e \in DOMAIN H /\ H[e].parent = q
    BY <1>2, <2>1, LinkedParents
  <2> QED BY <1>2, <2>1, <2>2
<1>3. Closed(H, X)
  <2> HIDE DEF X
  <2> QED BY <1>2 DEF Closed
<1>4. X = DOMAIN H
  <2> HIDE DEF X
  <2> QED BY <1>1, <1>3 DEF Rooted
<1> QED BY <1>4

\* An element is found by its index in the list of its parent.
LEMMA FoundByIndex ==
    ASSUME NEW H, Heap(H), Linked(H), NEW q \in DOMAIN H, NEW m \in Elements(H[q])
    PROVE  config_setting_get_elem(H, q, config_setting_index(H, m)) = m
<1> DEFINE list == H[q].list
           i == IndexOf(list, m)
<1>1. H[m].parent = q /\ m \in DOMAIN H /\ q # NULL
  BY LinkedParents DEF Heap, NULL
<1>2. \E k \in 1..Len(list) : list[k] = m
  BY ElementsOf
<1>3. i \in 1..Len(list) /\ list[i] = m
  BY <1>2 DEF IndexOf
<1>4. list \in Seq(Nat) /\ Len(list) \in Nat
  BY DEF Heap, IsSetting
<1>5. list # << >>
  BY <1>3, <1>4
<1>6. H[q].type \in Aggregates
  BY <1>5 DEF Linked
<1>7. config_setting_index(H, m) = i - 1
  BY <1>1 DEF config_setting_index
<1> HIDE DEF i
<1>8. i - 1 \in 0..(Len(list) - 1) /\ (i - 1) + 1 = i
  BY <1>3, <1>4
<1> QED BY <1>3, <1>6, <1>7, <1>8 DEF config_setting_get_elem

\* An element of a group is found by its name.
LEMMA FoundByName ==
    ASSUME NEW H, Heap(H), Linked(H), Named(H), NEW q \in DOMAIN H, H[q].type = "GROUP",
           NEW m \in Elements(H[q])
    PROVE  config_setting_get_member(H, q, H[m].name) = m
<1> DEFINE list == H[q].list
           name == H[m].name
           found == {i \in 1..Len(list) : /\ H[list[i]].name # << >>
                                          /\ config_name_compare(name, H[list[i]].name)}
           first == CHOOSE i \in found : \A j \in found : i <= j
<1>1. config_setting_get_member(H, q, name) = IF found = {} THEN NULL ELSE list[first]
  BY DEF config_setting_get_member, config_list_search
<1>2. \A e \in Elements(H[q]) : H[e].name \in Seq(STRING) /\ Len(H[e].name) = 1
  BY DEF Named
<1>3. PICK k \in 1..Len(list) : list[k] = m
  BY ElementsOf
<1>4. name # << >> /\ config_name_compare(name, name)
  BY <1>2, NameOfOne DEF config_name_compare
<1>5. k \in found
  BY <1>3, <1>4
<1>6. found \subseteq Nat
  BY DEF Heap, IsSetting
<1>7. ASSUME NEW i \in found PROVE list[i] = m
  <2>1. i \in 1..Len(list) /\ name[1] = H[list[i]].name[1]
    BY <1>7 DEF config_name_compare
  <2>2. list[i] \in Elements(H[q])
    BY <2>1, ElementsOf
  <2>3. H[list[i]].name = <<H[list[i]].name[1]>> /\ name = <<name[1]>>
    BY <1>2, <2>2, NameOfOne
  <2>4. H[list[i]].name = name
    BY <2>1, <2>3
  <2> QED BY <2>2, <2>4 DEF Named
<1> HIDE DEF found
<1>8. first \in found
  BY <1>5, <1>6, Least
<1> QED BY <1>1, <1>5, <1>7, <1>8

\* A part of a path, and the step it stands for.
PartOf(H, m) ==
    IF H[m].name # << >> THEN <<"name", H[m].name[1]>> ELSE <<"[", config_setting_index(H, m)>>

StepTo(H, at, part) ==
    IF at = NULL THEN NULL
    ELSE IF part[1] = "[" THEN config_setting_get_elem(H, at, part[2])
    ELSE config_setting_get_member(H, at, <<part[2]>>)

LEMMA StepFinds ==
    ASSUME NEW H, Heap(H), Linked(H), Named(H), NEW q \in DOMAIN H, NEW m \in Elements(H[q])
    PROVE  StepTo(H, q, PartOf(H, m)) = m
<1>1. q # NULL
  BY DEF Heap, NULL
<1>2. CASE H[q].type = "GROUP"
  <2>1. H[m].name \in Seq(STRING) /\ Len(H[m].name) = 1
    BY <1>2 DEF Named
  <2>2. H[m].name # << >> /\ H[m].name = <<H[m].name[1]>>
    BY <2>1, NameOfOne
  <2>3. PartOf(H, m)[1] # "[" /\ PartOf(H, m)[2] = H[m].name[1]
    BY <2>2 DEF PartOf
  <2>4. <<PartOf(H, m)[2]>> = H[m].name
    BY <2>2, <2>3
  <2>5. config_setting_get_member(H, q, <<PartOf(H, m)[2]>>) = m
    BY <1>2, <2>4, FoundByName
  <2> QED BY <1>1, <2>3, <2>5 DEF StepTo
<1>3. CASE H[q].type # "GROUP"
  <2>1. H[m].name = << >>
    BY <1>3 DEF Named
  <2>2. PartOf(H, m)[1] = "[" /\ PartOf(H, m)[2] = config_setting_index(H, m)
    BY <2>1 DEF PartOf
  <2> QED BY <1>1, <2>2, FoundByIndex DEF StepTo
<1> QED BY <1>2, <1>3

\* The settings from s up, n times to the parent.
ParentOf(H, m) == IF m = NULL THEN NULL ELSE H[m].parent

Climbs(H, s, n, u) == u = [k \in 0..n |-> IF k = 0 THEN s ELSE ParentOf(H, u[k - 1])]

LEMMA ClimbsEach ==
    ASSUME NEW H, NEW s, NEW n \in Nat, NEW u, Climbs(H, s, n, u)
    PROVE  DOMAIN u = 0..n /\ u[0] = s /\ \A k \in 1..n : u[k] = ParentOf(H, u[k - 1])
<1> DEFINE B(k) == IF k = 0 THEN s ELSE ParentOf(H, u[k - 1])
<1>1. u = [k \in 0..n |-> B(k)]
  BY DEF Climbs
<1>2. DOMAIN u = 0..n /\ \A k \in 0..n : u[k] = B(k)
  <2> HIDE DEF B
  <2> QED BY <1>1, Zenon
<1>3. ASSUME NEW k \in 1..n PROVE k \in 0..n /\ k # 0
  OBVIOUS
<1>4. 0 \in 0..n
  OBVIOUS
<1>5. u[0] = s
  BY <1>2, <1>4, Zenon
<1> QED BY <1>2, <1>3, <1>5, Zenon

LEMMA ClimbsExists ==
    ASSUME NEW H, NEW s, NEW n \in Nat
    PROVE  \E u : Climbs(H, s, n, u)
<1> DEFINE T == {k \in Nat : \E u : Climbs(H, s, k, u)}
<1>1. 0 \in T
  <2> DEFINE u == [k \in 0..0 |-> s]
  <2>1. u = [k \in 0..0 |-> IF k = 0 THEN s ELSE ParentOf(H, u[k - 1])]
    OBVIOUS
  <2> HIDE DEF u
  <2> QED BY <2>1 DEF Climbs
<1>2. ASSUME NEW k \in Nat, k \in T PROVE k + 1 \in T
  <2>1. PICK u : Climbs(H, s, k, u)
    BY <1>2
  <2>2. u[0] = s /\ \A j \in 1..k : u[j] = ParentOf(H, u[j - 1])
    BY <2>1, ClimbsEach
  <2> DEFINE w == [j \in 0..(k + 1) |-> IF j <= k THEN u[j] ELSE ParentOf(H, u[k])]
  <2>3. ASSUME NEW j \in 0..(k + 1)
        PROVE  w[j] = IF j = 0 THEN s ELSE ParentOf(H, w[j - 1])
    <3>1. CASE j = k + 1
      <4>1. w[j] = ParentOf(H, u[k]) /\ w[k] = u[k] /\ j - 1 = k /\ j # 0
        BY <3>1
      <4> HIDE DEF w
      <4> QED BY <4>1
    <3>2. CASE j = 0
      BY <2>2, <3>2
    <3>3. CASE j \in 1..k
      <4>1. u[j] = ParentOf(H, u[j - 1])
        BY <2>2, <3>3, Zenon
      <4>2. w[j] = u[j] /\ w[j - 1] = u[j - 1] /\ j # 0
        BY <3>3
      <4> HIDE DEF w
      <4> QED BY <4>1, <4>2
    <3> QED BY <3>1, <3>2, <3>3
  <2>4. w = [j \in 0..(k + 1) |-> w[j]]
    OBVIOUS
  <2> HIDE DEF w
  <2>5. Climbs(H, s, k + 1, w)
    BY <2>3, <2>4 DEF Climbs
  <2> QED BY <2>5
<1> HIDE DEF T
<1>3. Nat \subseteq T
  BY <1>1, <1>2, SetInduction
<1> QED BY <1>3 DEF T

\* A setting that is reached in k steps down is at most k steps from the root.
LEMMA RootAbove ==
    ASSUME NEW H, NEW r, Heap(H), Linked(H), Rooted(H, r), NEW s \in DOMAIN H,
           NEW u, u[0] = s,
           \A k \in 1..Cardinality(DOMAIN H) : u[k] = ParentOf(H, u[k - 1])
    PROVE  \E d \in 0..Cardinality(DOMAIN H) : u[d] = r
<1> DEFINE n == Cardinality(DOMAIN H)
<1>0. n \in Nat
  BY FS_CardinalityType DEF Heap
<1>1. PICK f : /\ f[0] = {r}
               /\ \A k \in 1..n : f[k] = WithElements(H, f[k - 1])
               /\ Subtree(H, r) = f[n]
  BY SubtreeReached
<1>2. s \in f[n]
  BY <1>1, RootedSubtree
<1>3. \A k \in 1..n : u[k] = ParentOf(H, u[k - 1])
  OBVIOUS
<1> HIDE DEF n
<1>4. \A k \in 0..(n - 1) : f[k + 1] = WithElements(H, f[k]) /\ u[k + 1] = ParentOf(H, u[k])
  <2>1. ASSUME NEW k \in 0..(n - 1) PROVE k + 1 \in 1..n /\ (k + 1) - 1 = k
    BY <1>0
  <2> QED BY <1>1, <1>3, <2>1
<1> DEFINE Below(k) == f[k] \subseteq DOMAIN H /\ \A m \in f[k + 1] : m = r \/ ParentOf(H, m) \in f[k]
<1>5. \A k \in 0..(n - 1) : Below(k)
  <2> DEFINE T == {k \in Nat : k \in 0..(n - 1) => Below(k)}
  <2>0. \A m \in DOMAIN H : m # NULL
    BY DEF Heap, NULL
  <2>1. ASSUME NEW k \in 0..(n - 1), f[k] \subseteq DOMAIN H,
               NEW m \in f[k + 1], m \notin f[k]
        PROVE  ParentOf(H, m) \in f[k] /\ m \in DOMAIN H
    <3>1. PICK q \in f[k] : m \in Elements(H[q])
      BY <1>4, <2>1 DEF WithElements
    <3>2. H[m].parent = q /\ m \in DOMAIN H
      BY <2>1, <3>1, LinkedParents
    <3> QED BY <2>0, <3>1, <3>2 DEF ParentOf
  <2>2. 0 \in T
    <3>1. f[0] \subseteq DOMAIN H
      BY <1>1 DEF Rooted
    <3>2. ASSUME 0 \in 0..(n - 1), NEW m \in f[0 + 1] PROVE m = r \/ ParentOf(H, m) \in f[0]
      <4>1. CASE m \in f[0]
        BY <1>1, <4>1
      <4>2. CASE m \notin f[0]
        BY <2>1, <3>1, <3>2, <4>2
      <4> QED BY <4>1, <4>2
    <3> QED BY <3>1, <3>2
  <2>3. ASSUME NEW k \in 0..(n - 1), k \in T PROVE k + 1 \in T
    <3>1. Below(k) /\ k \in Nat /\ k + 1 \in Nat
      BY <1>0, <2>3
    <3>2. f[k + 1] \subseteq DOMAIN H
      <4>1. ASSUME NEW m \in f[k + 1] PROVE m \in DOMAIN H
        BY <2>1, <3>1, <4>1
      <4> QED BY <4>1
    <3>3. f[k] \subseteq f[k + 1]
      BY <1>4 DEF WithElements
    <3>4. ASSUME k + 1 \in 0..(n - 1), NEW m \in f[(k + 1) + 1]
          PROVE  m = r \/ ParentOf(H, m) \in f[k + 1]
      <4>1. CASE m \in f[k + 1]
        BY <3>1, <3>3, <4>1
      <4>2. CASE m \notin f[k + 1]
        BY <2>1, <3>2, <3>4, <4>2
      <4> QED BY <4>1, <4>2
    <3> QED BY <3>1, <3>2, <3>4
  <2> HIDE DEF T, Below
  <2>4. CASE n = 0
    BY <2>4
  <2>5. CASE n # 0
    <3>1. n - 1 \in Nat /\ \A k \in 0..((n - 1) - 1) : k \in 0..(n - 1)
      BY <1>0, <2>5
    <3>2. 0..(n - 1) \subseteq T
      BY <2>2, <2>3, <3>1, InductionUpTo
    <3> QED BY <3>2 DEF T
  <2> QED BY <2>4, <2>5
<1>6. SUFFICES ASSUME \A d \in 0..n : u[d] # r PROVE FALSE
  BY DEF n
<1> DEFINE U == {j \in Nat : u[j] \in f[n - j]}
<1>7. 0 \in U
  BY <1>0, <1>2
<1>8. ASSUME NEW j \in 0..(n - 1), j \in U PROVE j + 1 \in U
  <2> DEFINE k == n - (j + 1)
  <2>1. k \in 0..(n - 1) /\ k + 1 = n - j /\ j \in 0..n /\ j + 1 \in Nat
    BY <1>0
  <2> HIDE DEF k
  <2>2. u[j] \in f[k + 1]
    BY <1>8, <2>1
  <2>3. ParentOf(H, u[j]) \in f[k]
    BY <1>5, <1>6, <2>1, <2>2
  <2>4. u[j + 1] \in f[k]
    BY <1>4, <2>3
  <2> QED BY <2>1, <2>4 DEF k
<1> HIDE DEF U
<1>9. n \in U
  BY <1>0, <1>7, <1>8, InductionUpTo
<1>10. u[n] \in f[0]
  BY <1>0, <1>9 DEF U
<1> QED BY <1>0, <1>1, <1>6, <1>10

\* Down again from the root, by the parts of the path.
Descends(H, r, path, n, f) ==
    f = [k \in 0..n |-> IF k = 0 THEN r ELSE StepTo(H, f[k - 1], path[k])]

\* What the settings on the way are, one by one.
Steps(H, r, path, n, f) == f[0] = r /\ \A k \in 1..n : f[k] = StepTo(H, f[k - 1], path[k])

LEMMA DescendsEach ==
    ASSUME NEW H, NEW r, NEW path, NEW n \in Nat, NEW f, Descends(H, r, path, n, f)
    PROVE  Steps(H, r, path, n, f)
<1> DEFINE B(k) == IF k = 0 THEN r ELSE StepTo(H, f[k - 1], path[k])
<1>1. f = [k \in 0..n |-> B(k)]
  BY DEF Descends
<1>2. \A k \in 0..n : f[k] = B(k)
  <2> HIDE DEF B
  <2> QED BY <1>1, Zenon
<1>3. ASSUME NEW k \in 1..n PROVE k \in 0..n /\ k # 0
  OBVIOUS
<1>4. 0 \in 0..n
  OBVIOUS
<1>5. f[0] = r
  BY <1>2, <1>4, Zenon
<1> QED BY <1>2, <1>3, <1>5, Zenon DEF Steps

LEMMA WayBack ==
    ASSUME NEW H, NEW r, Heap(H), Linked(H), Named(H), Rooted(H, r),
           NEW u, NEW d \in Nat, u[0] \in DOMAIN H, u[d] = r,
           \A k \in 1..d : u[k] = ParentOf(H, u[k - 1])
    PROVE  config_setting_lookup(H, r, [k \in 1..d |-> PartOf(H, u[d - k])]) = u[0]
<1> DEFINE path == [k \in 1..d |-> PartOf(H, u[d - k])]
           back == [k \in 0..d |-> u[d - k]]
           at == CHOOSE f : Descends(H, r, path, d, f)
<1>1. Len(path) = d
  <2> HIDE DEF PartOf
  <2> QED OBVIOUS
<1>2. \A k \in 1..d : path[k] = PartOf(H, u[d - k])
  <2> HIDE DEF PartOf
  <2> QED OBVIOUS
<1>3. \A m \in DOMAIN H : m # NULL
  BY DEF Heap, NULL
<1>4. r \in DOMAIN H /\ H[r].parent = NULL
  BY DEF Rooted
<1>5. ASSUME NEW j \in 1..d, u[j] \in DOMAIN H, u[j - 1] # NULL => u[j - 1] \in DOMAIN H
      PROVE  u[j - 1] \in DOMAIN H /\ u[j - 1] \in Elements(H[u[j]])
  <2>1. u[j] = ParentOf(H, u[j - 1])
    OBVIOUS
  <2>2. u[j - 1] # NULL
    BY <1>3, <1>5, <2>1 DEF ParentOf
  <2>3. u[j - 1] \in DOMAIN H /\ u[j] = H[u[j - 1]].parent
    BY <1>5, <2>1, <2>2 DEF ParentOf
  <2>4. u[j - 1] # r
    BY <1>3, <1>4, <1>5, <2>3
  <2> QED BY <2>3, <2>4, ParentsInHeap
<1>6. \A j \in 0..d : u[j] # NULL => u[j] \in DOMAIN H
  <2> DEFINE T == {j \in Nat : u[j] # NULL => u[j] \in DOMAIN H}
  <2>1. 0 \in T
    OBVIOUS
  <2>2. ASSUME NEW j \in 0..(d - 1), j \in T PROVE j + 1 \in T
    <3>1. u[j + 1] = ParentOf(H, u[j]) /\ j + 1 \in Nat
      BY <2>2
    <3>2. CASE u[j] = NULL
      BY <3>1, <3>2 DEF ParentOf
    <3>3. CASE u[j] # NULL
      <4>1. u[j] \in DOMAIN H /\ u[j + 1] = H[u[j]].parent
        BY <2>2, <3>1, <3>3 DEF ParentOf
      <4> QED BY <1>4, <3>1, <4>1, ParentsInHeap
    <3> QED BY <3>2, <3>3
  <2> HIDE DEF T
  <2>3. 0..d \subseteq T
    BY <2>1, <2>2, InductionUpTo
  <2> QED BY <2>3 DEF T
<1>7. \A k \in 0..d : u[d - k] \in DOMAIN H
  <2> DEFINE T == {k \in Nat : u[d - k] \in DOMAIN H}
  <2>1. 0 \in T
    BY <1>4
  <2>2. ASSUME NEW k \in 0..(d - 1), k \in T PROVE k + 1 \in T
    <3>1. /\ d - k \in 1..d /\ (d - k) - 1 = d - (k + 1) /\ (d - k) - 1 \in 0..d
          /\ k + 1 \in Nat
      OBVIOUS
    <3>2. u[d - (k + 1)] \in DOMAIN H
      BY <1>5, <1>6, <2>2, <3>1
    <3> QED BY <3>1, <3>2
  <2> HIDE DEF T
  <2>3. 0..d \subseteq T
    BY <2>1, <2>2, InductionUpTo
  <2> QED BY <2>3 DEF T
<1>8. ASSUME NEW k \in 1..d PROVE StepTo(H, u[d - (k - 1)], path[k]) = u[d - k]
  <2>1. /\ d - (k - 1) \in 1..d /\ (d - (k - 1)) - 1 = d - k
        /\ k - 1 \in 0..d /\ k \in 0..d
    OBVIOUS
  <2>2. u[d - (k - 1)] \in DOMAIN H /\ u[d - k] \in DOMAIN H
    BY <1>7, <2>1
  <2>3. u[d - k] \in Elements(H[u[d - (k - 1)]])
    BY <1>5, <2>1, <2>2
  <2>4. path[k] = PartOf(H, u[d - k])
    BY <1>2
  <2> HIDE DEF path
  <2> QED BY <2>2, <2>3, <2>4, StepFinds
<1> HIDE DEF path
<1>9. Descends(H, r, path, d, back)
  <2>1. ASSUME NEW k \in 0..d
        PROVE  u[d - k] = IF k = 0 THEN r ELSE StepTo(H, back[k - 1], path[k])
    <3>1. CASE k = 0
      BY <3>1
    <3>2. CASE k # 0
      <4>1. k \in 1..d /\ back[k - 1] = u[d - (k - 1)]
        BY <3>2
      <4> HIDE DEF back
      <4> QED BY <1>8, <3>2, <4>1
    <3> QED BY <3>1, <3>2
  <2>2. back = [k \in 0..d |-> IF k = 0 THEN r ELSE StepTo(H, back[k - 1], path[k])]
    <3> DEFINE B(k) == IF k = 0 THEN r ELSE StepTo(H, back[k - 1], path[k])
    <3>1. \A k \in 0..d : u[d - k] = B(k)
      BY <2>1
    <3> HIDE DEF B
    <3>2. back = [k \in 0..d |-> B(k)]
      BY <3>1
    <3> QED BY <3>2 DEF B
  <2> HIDE DEF back
  <2> QED BY <2>2 DEF Descends
<1>10. Descends(H, r, path, d, at)
  <2> HIDE DEF back
  <2> QED BY <1>9
<1>11. config_setting_lookup(H, r, path) = at[d]
  BY <1>1 DEF config_setting_lookup, Descends, StepTo
<1> HIDE DEF at
<1>12. at[0] = r /\ \A k \in 1..d : at[k] = StepTo(H, at[k - 1], path[k])
  <2>1. Steps(H, r, path, d, at)
    BY <1>10, DescendsEach
  <2> QED BY <2>1 DEF Steps
<1>13. \A k \in 0..d : at[k] = u[d - k]
  <2> DEFINE T == {k \in Nat : at[k] = u[d - k]}
  <2>1. 0 \in T
    BY <1>12
  <2>2. ASSUME NEW k \in 0..(d - 1), k \in T PROVE k + 1 \in T
    <3>1. k + 1 \in 1..d /\ (k + 1) - 1 = k /\ k + 1 \in Nat
      OBVIOUS
    <3>2. at[k + 1] = StepTo(H, at[k], path[k + 1])
      BY <1>12, <3>1
    <3>3. StepTo(H, u[d - k], path[k + 1]) = u[d - (k + 1)]
      BY <1>8, <3>1
    <3>4. at[k] = u[d - k]
      BY <2>2
    <3> QED BY <3>1, <3>2, <3>3, <3>4
  <2> HIDE DEF T
  <2>3. 0..d \subseteq T
    BY <2>1, <2>2, InductionUpTo
  <2> QED BY <2>3 DEF T
<1> QED BY <1>11, <1>13 DEF path

LEMMA LiveTree ==
    ASSUME TreeInv, NEW s \in DOMAIN h
    PROVE  Heap(h) /\ Linked(h) /\ Named(h) /\ Rooted(h, c.root)
  BY DEF TreeInv, HasRoot, Sound

LEMMA PathFound ==
    ASSUME TreeInv, NEW s \in DOMAIN h
    PROVE  config_lookup(h, c, PathTo(s)) = s
<1> DEFINE n == Cardinality(DOMAIN h)
           u == CHOOSE u : Climbs(h, s, n, u)
           d == CHOOSE k \in DOMAIN u : u[k] = c.root
<1>1. Heap(h) /\ Linked(h) /\ Named(h) /\ Rooted(h, c.root)
  BY LiveTree
<1>2. n \in Nat
  BY <1>1, FS_CardinalityType DEF Heap
<1>3. Climbs(h, s, n, u)
  <2> HIDE DEF n
  <2> QED BY <1>2, ClimbsExists
<1>4. PathTo(s) = [k \in 1..d |-> PartOf(h, u[d - k])]
  BY DEF PathTo, Climbs, ParentOf, PartOf
<1> HIDE DEF u
<1>5. DOMAIN u = 0..n /\ u[0] = s /\ \A k \in 1..n : u[k] = ParentOf(h, u[k - 1])
  <2> HIDE DEF n
  <2> QED BY <1>2, <1>3, ClimbsEach
<1>6. \E k \in 0..n : u[k] = c.root
  <2>1. u[0] = s /\ \A k \in 1..Cardinality(DOMAIN h) : u[k] = ParentOf(h, u[k - 1])
    BY <1>5
  <2> HIDE DEF n
  <2>2. \E k \in 0..Cardinality(DOMAIN h) : u[k] = c.root
    BY <1>1, <2>1, RootAbove
  <2> QED BY <2>2 DEF n
<1>7. d \in 0..n /\ u[d] = c.root
  BY <1>5, <1>6
<1> HIDE DEF d, n
<1>8. d \in Nat /\ \A k \in 1..d : u[k] = ParentOf(h, u[k - 1])
  BY <1>2, <1>5, <1>7
<1>9. config_setting_lookup(h, c.root, [k \in 1..d |-> PartOf(h, u[d - k])]) = u[0]
  BY <1>1, <1>5, <1>7, <1>8, WayBack
<1> QED BY <1>4, <1>5, <1>9 DEF config_lookup

(***************************************************************************)
(* config_lookup finds every setting under the path made of the names and  *)
(* indices of its ancestors, after any calls that add and remove settings. *)
(***************************************************************************)
THEOREM PathFindsSettingHolds == TreeSpec => []PathFindsSetting
<1>1. TreeInv => PathFindsSetting
  BY PathFound DEF PathFindsSetting
<1> QED BY <1>1, TreeInvariant, PTL
-----------------------------------------------------------------------------
(* WaysOfAskingAgree. *)

LEMMA AsElement ==
    ASSUME NEW H, NEW q, NEW i, NEW m, config_setting_get_elem(H, q, i) = m, m # NULL, NEW cfg
    PROVE  /\ config_setting_get_int_elem(H, q, i, cfg) = config_setting_get_int(H[m], cfg)
           /\ config_setting_get_int64_elem(H, q, i, cfg) = config_setting_get_int64(H[m], cfg)
           /\ config_setting_get_float_elem(H, q, i, cfg) = config_setting_get_float(H[m], cfg)
           /\ config_setting_get_bool_elem(H, q, i) = config_setting_get_bool(H[m])
           /\ config_setting_get_string_elem(H, q, i) = config_setting_get_string(H[m])
  BY DEF config_setting_get_int_elem, config_setting_get_int64_elem,
         config_setting_get_float_elem, config_setting_get_bool_elem,
         config_setting_get_string_elem, ElemOr

LEMMA AsPath ==
    ASSUME NEW H, NEW cfg, NEW path, NEW m, config_lookup(H, cfg, path) = m, m # NULL
    PROVE  /\ config_lookup_int(H, cfg, path) = get_int(H[m], cfg)
           /\ config_lookup_int64(H, cfg, path) = get_int64(H[m], cfg)
           /\ config_lookup_float(H, cfg, path) = get_float(H[m], cfg)
           /\ config_lookup_bool(H, cfg, path) = get_bool(H[m])
           /\ config_lookup_string(H, cfg, path) = get_string(H[m])
  BY DEF config_lookup_int, config_lookup_int64, config_lookup_float,
         config_lookup_bool, config_lookup_string, Found

LEMMA AsMember ==
    ASSUME NEW H, NEW q, NEW name, NEW m, config_setting_get_member(H, q, name) = m, m # NULL,
           NEW cfg
    PROVE  /\ config_setting_lookup_int(H, q, name, cfg) = get_int(H[m], cfg)
           /\ config_setting_lookup_int64(H, q, name, cfg) = get_int64(H[m], cfg)
           /\ config_setting_lookup_float(H, q, name, cfg) = get_float(H[m], cfg)
           /\ config_setting_lookup_bool(H, q, name) = get_bool(H[m])
           /\ config_setting_lookup_string(H, q, name) = get_string(H[m])
  BY DEF config_setting_lookup_int, config_setting_lookup_int64,
         config_setting_lookup_float, config_setting_lookup_bool,
         config_setting_lookup_string, Found

(***************************************************************************)
(* The three families of functions that read a value, config_setting_get_* *)
(* by index, config_lookup_* by path and config_setting_lookup_* by name,  *)
(* come to the same setting and so give the same value.                    *)
(***************************************************************************)
THEOREM WaysOfAskingAgreeHolds == TreeSpec => []WaysOfAskingAgree
<1>1. ASSUME TreeInv PROVE WaysOfAskingAgree
  <2> SUFFICES ASSUME NEW s \in DOMAIN h, h[s].type \in Scalars
               PROVE  LET e == h[s]  p == e.parent  i == config_setting_index(h, s)
                      IN  /\ config_setting_get_int_elem(h, p, i, c) = config_setting_get_int(e, c)
                          /\ config_setting_get_int64_elem(h, p, i, c) = config_setting_get_int64(e, c)
                          /\ config_setting_get_float_elem(h, p, i, c) = config_setting_get_float(e, c)
                          /\ config_setting_get_bool_elem(h, p, i) = config_setting_get_bool(e)
                          /\ config_setting_get_string_elem(h, p, i) = config_setting_get_string(e)
                          /\ config_lookup_int(h, c, PathTo(s)) = get_int(e, c)
                          /\ config_lookup_int64(h, c, PathTo(s)) = get_int64(e, c)
                          /\ config_lookup_float(h, c, PathTo(s)) = get_float(e, c)
                          /\ config_lookup_bool(h, c, PathTo(s)) = get_bool(e)
                          /\ config_lookup_string(h, c, PathTo(s)) = get_string(e)
                          /\ h[p].type = "GROUP" =>
                                 /\ config_setting_lookup_int(h, p, e.name, c) = get_int(e, c)
                                 /\ config_setting_lookup_int64(h, p, e.name, c) = get_int64(e, c)
                                 /\ config_setting_lookup_float(h, p, e.name, c) = get_float(e, c)
                                 /\ config_setting_lookup_bool(h, p, e.name) = get_bool(e)
                                 /\ config_setting_lookup_string(h, p, e.name) = get_string(e)
    BY DEF WaysOfAskingAgree
  <2> DEFINE p == h[s].parent
             i == config_setting_index(h, s)
  <2>1. Heap(h) /\ Linked(h) /\ Named(h) /\ Rooted(h, c.root)
    BY <1>1, LiveTree
  <2>2. s # NULL
    BY <2>1 DEF Heap, NULL
  <2>3. s # c.root
    BY <2>1 DEF Rooted, Scalars, Numbers
  <2>4. p \in DOMAIN h /\ s \in Elements(h[p])
    BY <2>1, <2>3, ParentsInHeap
  <2>5. config_setting_get_elem(h, p, i) = s
    BY <2>1, <2>4, FoundByIndex
  <2>6. config_lookup(h, c, PathTo(s)) = s
    BY <1>1, PathFound
  <2>7. h[p].type = "GROUP" => config_setting_get_member(h, p, h[s].name) = s
    BY <2>1, <2>4, FoundByName
  <2> HIDE DEF p, i
  <2>8. /\ config_setting_get_int_elem(h, p, i, c) = config_setting_get_int(h[s], c)
        /\ config_setting_get_int64_elem(h, p, i, c) = config_setting_get_int64(h[s], c)
        /\ config_setting_get_float_elem(h, p, i, c) = config_setting_get_float(h[s], c)
        /\ config_setting_get_bool_elem(h, p, i) = config_setting_get_bool(h[s])
        /\ config_setting_get_string_elem(h, p, i) = config_setting_get_string(h[s])
    BY <2>2, <2>5, AsElement
  <2>9. /\ config_lookup_int(h, c, PathTo(s)) = get_int(h[s], c)
        /\ config_lookup_int64(h, c, PathTo(s)) = get_int64(h[s], c)
        /\ config_lookup_float(h, c, PathTo(s)) = get_float(h[s], c)
        /\ config_lookup_bool(h, c, PathTo(s)) = get_bool(h[s])
        /\ config_lookup_string(h, c, PathTo(s)) = get_string(h[s])
    BY <2>2, <2>6, AsPath
  <2>10. h[p].type = "GROUP" =>
           /\ config_setting_lookup_int(h, p, h[s].name, c) = get_int(h[s], c)
           /\ config_setting_lookup_int64(h, p, h[s].name, c) = get_int64(h[s], c)
           /\ config_setting_lookup_float(h, p, h[s].name, c) = get_float(h[s], c)
           /\ config_setting_lookup_bool(h, p, h[s].name) = get_bool(h[s])
           /\ config_setting_lookup_string(h, p, h[s].name) = get_string(h[s])
    BY <2>2, <2>7, AsMember
  <2> QED BY <2>8, <2>9, <2>10 DEF p, i
<1> QED BY <1>1, TreeInvariant, PTL
-----------------------------------------------------------------------------
(* The configuration file, as the programs read it. *)

\* A file that can be read, and where a name is in it.
GoodFile == file \in Files /\ file.state = "good"

Places(name) == {i \in 1..Len(file.settings) : file.settings[i].name = name}

LEMMA GoodFileFacts ==
    ASSUME GoodFile
    PROVE  /\ file.settings \in Seq([name : STRING, type : Types, value : Int, sval : Seq(STRING)])
           /\ Len(file.settings) \in Nat
           /\ \A i \in 1..Len(file.settings) :
                  /\ file.settings[i] \in [name : STRING, type : Types, value : Int, sval : Seq(STRING)]
                  /\ file.settings[i].type = "BOOL" => file.settings[i].value \in {0, 1}
                  /\ file.settings[i].type = "INT" => file.settings[i].value \in INT32_MIN..INT32_MAX
           /\ \A i, j \in 1..Len(file.settings) : file.settings[i].name = file.settings[j].name => i = j
<1> DEFINE R == [name : STRING, type : Types, value : Int, sval : Seq(STRING)]
<1>1. file \notin {NoFile, BadFile}
  BY DEF GoodFile, NoFile, BadFile
<1>2. /\ file.settings \in Seq(R)
      /\ \A i \in 1..Len(file.settings) :
             /\ file.settings[i].type = "BOOL" => file.settings[i].value \in {0, 1}
             /\ file.settings[i].type = "INT" => file.settings[i].value \in INT32_MIN..INT32_MAX
      /\ \A i, j \in 1..Len(file.settings) : file.settings[i].name = file.settings[j].name => i = j
  BY <1>1, FilesAssumption, Zenon DEF GoodFile
<1>3. Len(file.settings) \in Nat /\ \A i \in 1..Len(file.settings) : file.settings[i] \in R
  <2> HIDE DEF R
  <2> QED BY <1>2
<1> QED BY <1>2, <1>3

\* Without a good file there are no settings.
LEMMA NoSettings ==
    ASSUME file \in Files, file.state # "good", NEW name
    PROVE  SettingsNamed(name) = {}
<1>1. file.settings = << >>
  BY FilesAssumption DEF NoFile, BadFile, FileOf
<1> QED BY <1>1 DEF SettingsNamed

\* The root of the parsed file and its members.
LEMMA ParsedFileFacts ==
    ASSUME GoodFile
    PROVE  /\ ParsedFile[1].type = "GROUP"
           /\ ParsedFile[1].list = [i \in 1..Len(file.settings) |-> i + 1]
           /\ \A i \in 1..Len(file.settings) :
                  /\ ParsedFile[i + 1].name = <<file.settings[i].name>>
                  /\ ParsedFile[i + 1].type = file.settings[i].type
                  /\ ParsedFile[i + 1].value = file.settings[i].value
                  /\ ParsedFile[i + 1].sval = file.settings[i].sval
<1> DEFINE n == Len(file.settings)
           root == [config_setting_t(NULL, << >>, "GROUP") EXCEPT !.list = [i \in 1..n |-> i + 1]]
           member(r) == [config_setting_t(1, <<r.name>>, r.type) EXCEPT !.value = r.value, !.sval = r.sval]
<1>1. n \in Nat
  BY GoodFileFacts
<1>2. ParsedFile = [s \in 1..(n + 1) |-> IF s = 1 THEN root ELSE member(file.settings[s - 1])]
  BY DEF ParsedFile
<1>3. root.type = "GROUP" /\ root.list = [i \in 1..n |-> i + 1]
  BY DEF config_setting_t
<1>4. ASSUME NEW r
      PROVE  /\ member(r).name = <<r.name>> /\ member(r).type = r.type
             /\ member(r).value = r.value /\ member(r).sval = r.sval
  BY DEF config_setting_t
<1> HIDE DEF root, member, n
<1>5. ParsedFile[1] = root
  BY <1>1, <1>2
<1>6. ASSUME NEW i \in 1..n PROVE ParsedFile[i + 1] = member(file.settings[i])
  <2>1. i + 1 \in 1..(n + 1) /\ i + 1 # 1 /\ (i + 1) - 1 = i
    BY <1>1
  <2> QED BY <1>2, <2>1
<1> QED BY <1>3, <1>4, <1>5, <1>6 DEF n

\* The member of the root that a name leads to.
LEMMA NameFinds ==
    ASSUME GoodFile, NEW name
    PROVE  /\ Places(name) = {} => config_setting_get_member(ParsedFile, 1, <<name>>) = NULL
           /\ \A i \in Places(name) : config_setting_get_member(ParsedFile, 1, <<name>>) = i + 1
<1> DEFINE n == Len(file.settings)
           list == ParsedFile[1].list
           found == {i \in 1..Len(list) : /\ ParsedFile[list[i]].name # << >>
                                          /\ config_name_compare(<<name>>, ParsedFile[list[i]].name)}
           first == CHOOSE i \in found : \A j \in found : i <= j
<1>1. n \in Nat /\ list = [i \in 1..n |-> i + 1]
  BY GoodFileFacts, ParsedFileFacts
<1>2. Len(list) = n /\ \A i \in 1..n : list[i] = i + 1
  BY <1>1
<1>3. config_setting_get_member(ParsedFile, 1, <<name>>) = IF found = {} THEN NULL ELSE list[first]
  BY ParsedFileFacts DEF config_setting_get_member, config_list_search
<1>4. found = Places(name)
  <2>1. ASSUME NEW i \in 1..n
        PROVE  /\ ParsedFile[list[i]].name # << >>
               /\ config_name_compare(<<name>>, ParsedFile[list[i]].name) <=> file.settings[i].name = name
    <3>1. ParsedFile[list[i]].name = <<file.settings[i].name>>
      BY <1>2, ParsedFileFacts
    <3> QED BY <3>1 DEF config_name_compare
  <2> QED BY <1>2, <2>1 DEF Places
<1> HIDE DEF found, list
<1>5. ASSUME NEW i \in Places(name) PROVE config_setting_get_member(ParsedFile, 1, <<name>>) = i + 1
  <2>1. \A j \in Places(name) : j = i
    BY <1>5, GoodFileFacts DEF Places
  <2>2. i \in found /\ i \in Nat /\ i \in 1..n
    BY <1>1, <1>4 DEF Places
  <2>3. first \in found
    <3>1. i <= i /\ \A j \in found : i <= j
      BY <1>4, <2>1, <2>2
    <3> QED BY <2>2, <3>1
  <2>4. first = i
    BY <1>4, <2>1, <2>3
  <2> QED BY <1>2, <1>3, <2>2, <2>4
<1> QED BY <1>3, <1>4, <1>5

LEMMA OnePartPath ==
    ASSUME NEW H, NEW r, NEW part
    PROVE  config_setting_lookup(H, r, <<part>>) = StepTo(H, r, part)
<1> DEFINE path == <<part>>
           at == CHOOSE f : Descends(H, r, path, 1, f)
           down == [k \in 0..1 |-> IF k = 0 THEN r ELSE StepTo(H, r, part)]
<1>1. Len(path) = 1 /\ path[1] = part
  OBVIOUS
<1>2. config_setting_lookup(H, r, path) = at[1]
  BY <1>1 DEF config_setting_lookup, Descends, StepTo
<1> HIDE DEF path
<1>3. Descends(H, r, path, 1, down)
  <2> DEFINE B(k) == IF k = 0 THEN r ELSE StepTo(H, down[k - 1], path[k])
  <2>1. down[0] = r /\ down[1] = StepTo(H, r, part)
    OBVIOUS
  <2>2. ASSUME NEW k \in 0..1 PROVE down[k] = B(k)
    <3>1. k = 0 \/ k = 1
      OBVIOUS
    <3>2. 1 - 1 = 0 /\ 1 # 0
      OBVIOUS
    <3> HIDE DEF down
    <3> QED BY <1>1, <2>1, <3>1, <3>2
  <2>3. down = [k \in 0..1 |-> down[k]]
    OBVIOUS
  <2> HIDE DEF down, B
  <2>4. down = [k \in 0..1 |-> B(k)]
    BY <2>2, <2>3
  <2> QED BY <2>4 DEF B, Descends
<1>4. Descends(H, r, path, 1, at)
  <2> HIDE DEF down
  <2> QED BY <1>3
<1> HIDE DEF at
<1>5. at[0] = r /\ \A k \in 1..1 : at[k] = StepTo(H, at[k - 1], path[k])
  BY <1>4, DescendsEach DEF Steps
<1>6. at[1] = StepTo(H, r, part)
  <2>1. 1 \in 1..1 /\ 1 - 1 = 0
    OBVIOUS
  <2> QED BY <1>1, <1>5, <2>1
<1> QED BY <1>2, <1>6 DEF path

\* Looking a name up in the file finds the setting of that name.
LEMMA LookupFinds ==
    ASSUME GoodFile, NEW name, NEW cfg \in DanglingConfigs
    PROVE  /\ Places(name) = {} => config_lookup(ParsedFile, cfg, <<<<"name", name>>>>) = NULL
           /\ \A i \in Places(name) : config_lookup(ParsedFile, cfg, <<<<"name", name>>>>) = i + 1
<1> DEFINE part == <<"name", name>>
<1>1. cfg.root = 1
  BY DEF DanglingConfigs
<1>2. part[1] # "[" /\ part[2] = name
  OBVIOUS
<1> HIDE DEF part
<1>3. config_lookup(ParsedFile, cfg, <<part>>) = StepTo(ParsedFile, 1, part)
  BY <1>1, OnePartPath DEF config_lookup
<1>4. StepTo(ParsedFile, 1, part) = config_setting_get_member(ParsedFile, 1, <<name>>)
  BY <1>2 DEF StepTo, NULL
<1>5. /\ Places(name) = {} => config_lookup(ParsedFile, cfg, <<part>>) = NULL
      /\ \A i \in Places(name) : config_lookup(ParsedFile, cfg, <<part>>) = i + 1
  BY <1>3, <1>4, NameFinds
<1> QED BY <1>5 DEF part

\* What the three lookups leave in a variable.
LEMMA IntRead ==
    ASSUME GoodFile, NEW name, NEW old, NEW v \in LookupInt(name, old)
    PROVE  /\ Places(name) = {} => v = old
           /\ \A i \in Places(name) : v \in ReadAsInt(file.settings[i], old)
<1> DEFINE path == <<<<"name", name>>>>
<1>1. PICK cfg \in DanglingConfigs : v = OrElse(config_lookup_int(ParsedFile, cfg, path), old)
  BY DEF LookupInt
<1> HIDE DEF path
<1>2. ASSUME Places(name) = {} PROVE v = old
  <2>1. config_lookup(ParsedFile, cfg, path) = NULL
    BY <1>2, LookupFinds DEF path
  <2>2. config_lookup_int(ParsedFile, cfg, path) = << >>
    BY <2>1 DEF config_lookup_int, Found
  <2> QED BY <1>1, <2>2 DEF OrElse
<1>3. ASSUME NEW i \in Places(name) PROVE v \in ReadAsInt(file.settings[i], old)
  <2> DEFINE m == ParsedFile[i + 1]
             s == file.settings[i]
  <2>1. config_lookup(ParsedFile, cfg, path) = i + 1 /\ i + 1 # NULL /\ i \in 1..Len(file.settings)
    BY LookupFinds, GoodFileFacts DEF path, NULL, Places
  <2>2. config_lookup_int(ParsedFile, cfg, path) = get_int(m, cfg)
    BY <2>1, AsPath
  <2>3. /\ m.type = s.type /\ m.value = s.value
        /\ s.type = "INT" => s.value \in INT32_MIN..INT32_MAX
    BY <2>1, ParsedFileFacts, GoodFileFacts
  <2>4. v = OrElse(get_int(m, cfg), old)
    BY <1>1, <2>2
  <2> HIDE DEF m, s
  <2>5. v \in ReadAsInt(s, old)
    <3>1. CASE s.type = "INT"
      BY <2>3, <2>4, <3>1 DEF get_int, OrElse, ReadAsInt
    <3>2. CASE s.type = "INT64"
      BY <2>3, <2>4, <3>2 DEF get_int, OrElse, ReadAsInt, Narrow
    <3>3. CASE s.type = "FLOAT"
      BY <2>3, <2>4, <3>3 DEF get_int, OrElse, ReadAsInt
    <3>4. CASE s.type \notin Numbers
      <4>1. get_int(m, cfg) = << >>
        BY <2>3, <3>4 DEF get_int, Numbers
      <4>2. ReadAsInt(s, old) = {old}
        BY <3>4 DEF ReadAsInt, Numbers
      <4> QED BY <2>4, <4>1, <4>2 DEF OrElse
    <3> QED BY <3>1, <3>2, <3>3, <3>4 DEF Numbers
  <2> QED BY <2>5 DEF s
<1> QED BY <1>2, <1>3

LEMMA BoolRead ==
    ASSUME GoodFile, NEW name, NEW old, NEW v \in LookupBool(name, old)
    PROVE  /\ Places(name) = {} => v = old
           /\ \A i \in Places(name) :
                  v = IF file.settings[i].type = "BOOL" THEN file.settings[i].value ELSE old
<1> DEFINE path == <<<<"name", name>>>>
<1>1. PICK cfg \in DanglingConfigs : v = OrElse(config_lookup_bool(ParsedFile, cfg, path), old)
  BY DEF LookupBool
<1> HIDE DEF path
<1>2. ASSUME Places(name) = {} PROVE v = old
  <2>1. config_lookup(ParsedFile, cfg, path) = NULL
    BY <1>2, LookupFinds DEF path
  <2>2. config_lookup_bool(ParsedFile, cfg, path) = << >>
    BY <2>1 DEF config_lookup_bool, Found
  <2> QED BY <1>1, <2>2 DEF OrElse
<1>3. ASSUME NEW i \in Places(name)
      PROVE  v = IF file.settings[i].type = "BOOL" THEN file.settings[i].value ELSE old
  <2>1. config_lookup(ParsedFile, cfg, path) = i + 1 /\ i + 1 # NULL /\ i \in 1..Len(file.settings)
    BY LookupFinds, GoodFileFacts DEF path, NULL, Places
  <2>2. config_lookup_bool(ParsedFile, cfg, path) = get_bool(ParsedFile[i + 1])
    BY <2>1, AsPath
  <2> QED BY <1>1, <2>1, <2>2, ParsedFileFacts DEF get_bool, OrElse
<1> QED BY <1>2, <1>3

LEMMA StringRead ==
    ASSUME GoodFile, NEW name, NEW old, NEW v \in LookupString(name, old)
    PROVE  /\ Places(name) = {} => v = old
           /\ \A i \in Places(name) :
                  v = IF file.settings[i].type = "STRING" THEN file.settings[i].sval ELSE old
<1> DEFINE path == <<<<"name", name>>>>
<1>1. PICK cfg \in DanglingConfigs : v = OrElse(config_lookup_string(ParsedFile, cfg, path), old)
  BY DEF LookupString
<1> HIDE DEF path
<1>2. ASSUME Places(name) = {} PROVE v = old
  <2>1. config_lookup(ParsedFile, cfg, path) = NULL
    BY <1>2, LookupFinds DEF path
  <2>2. config_lookup_string(ParsedFile, cfg, path) = << >>
    BY <2>1 DEF config_lookup_string, Found
  <2> QED BY <1>1, <2>2 DEF OrElse
<1>3. ASSUME NEW i \in Places(name)
      PROVE  v = IF file.settings[i].type = "STRING" THEN file.settings[i].sval ELSE old
  <2>1. config_lookup(ParsedFile, cfg, path) = i + 1 /\ i + 1 # NULL /\ i \in 1..Len(file.settings)
    BY LookupFinds, GoodFileFacts DEF path, NULL, Places
  <2>2. config_lookup_string(ParsedFile, cfg, path) = get_string(ParsedFile[i + 1])
    BY <2>1, AsPath
  <2> QED BY <1>1, <2>1, <2>2, ParsedFileFacts DEF get_string, OrElse
<1> QED BY <1>2, <1>3

\* The settings of a name are those at its places, at most one.
LEMMA NamedPlaces ==
    ASSUME GoodFile, NEW name
    PROVE  /\ SettingsNamed(name) = {file.settings[i] : i \in Places(name)}
           /\ \A i, j \in Places(name) : i = j
  BY GoodFileFacts DEF SettingsNamed, Places

-----------------------------------------------------------------------------
(* GroupsAsConfigured: what the server does before its loop. *)

\* What the file asks for.
Wanted == 1 \in ValuesNamed("manycast_enabled", "BOOL")

GroupAsked ==
    IF ValuesNamed("manycast_address", "STRING") = {} THEN {DEFAULT_MANYCAST_ADDRESS}
    ELSE ValuesNamed("manycast_address", "STRING")

\* The settings hold what the file asks for from the time it is read, and the
\* group is only joined in the last step.
StartupInv ==
    /\ file \in Files
    /\ spc = "config" => s_set = server_settings
    /\ spc \in {"socket", "manycast", "serving"} =>
           /\ s_set.manycast_enabled # 0 <=> Wanted
           /\ Wanted => GroupAsked = {s_set.manycast_address}
    /\ spc \in {"config", "socket", "manycast"} => joined = {}
    /\ spc = "manycast" => Wanted
    /\ spc = "serving" => joined = IF Wanted THEN GroupAsked ELSE {}

\* The two values in terms of the places of their names.
LEMMA ValuesAtPlaces ==
    ASSUME GoodFile, NEW name
    PROVE  /\ Places(name) = {} => \A t : ValuesNamed(name, t) = {}
           /\ \A i \in Places(name) :
                  /\ ValuesNamed(name, "BOOL") =
                         IF file.settings[i].type = "BOOL" THEN {file.settings[i].value} ELSE {}
                  /\ ValuesNamed(name, "STRING") =
                         IF file.settings[i].type = "STRING" THEN {file.settings[i].sval} ELSE {}
<1>1. /\ SettingsNamed(name) = {file.settings[i] : i \in Places(name)}
      /\ \A i, j \in Places(name) : i = j
  BY NamedPlaces
<1>2. ASSUME Places(name) = {}, NEW t PROVE ValuesNamed(name, t) = {}
  BY <1>1, <1>2 DEF ValuesNamed
<1>3. ASSUME NEW i \in Places(name)
      PROVE  /\ ValuesNamed(name, "BOOL") =
                    IF file.settings[i].type = "BOOL" THEN {file.settings[i].value} ELSE {}
             /\ ValuesNamed(name, "STRING") =
                    IF file.settings[i].type = "STRING" THEN {file.settings[i].sval} ELSE {}
  <2>1. SettingsNamed(name) = {file.settings[i]}
    BY <1>1
  <2> HIDE DEF Places
  <2>2. \A t : {m \in SettingsNamed(name) : m.type = t} =
                   IF file.settings[i].type = t THEN {file.settings[i]} ELSE {}
    BY <2>1
  <2> QED BY <2>2 DEF ValuesNamed
<1> QED BY <1>2, <1>3

\* The file is read as it asks to be.
LEMMA ServerFileRead ==
    ASSUME GoodFile, NEW s \in parse_server_config_file(server_settings)
    PROVE  /\ s.manycast_enabled # 0 <=> Wanted
           /\ Wanted => GroupAsked = {s.manycast_address}
<1>1. PICK m \in LookupBool("manycast_enabled", server_settings.manycast_enabled) :
          \E a \in GroupAddresses(server_settings, m) :
              s.manycast_enabled = m /\ s.manycast_address = a
  BY DEF parse_server_config_file
<1>2. server_settings.manycast_enabled = 0 /\ server_settings.manycast_address = DEFAULT_MANYCAST_ADDRESS
  BY DEF server_settings, DEFAULT_MANYCAST_ENABLED
<1>3. m # 0 <=> Wanted
  <2>1. CASE Places("manycast_enabled") = {}
    BY <1>2, <2>1, BoolRead, ValuesAtPlaces DEF Wanted
  <2>2. ASSUME NEW i \in Places("manycast_enabled") PROVE m # 0 <=> Wanted
    <3>1. m = IF file.settings[i].type = "BOOL" THEN file.settings[i].value ELSE 0
      BY <1>2, BoolRead
    <3>2. file.settings[i].type = "BOOL" => file.settings[i].value \in {0, 1}
      BY GoodFileFacts DEF Places
    <3>3. ValuesNamed("manycast_enabled", "BOOL") =
              IF file.settings[i].type = "BOOL" THEN {file.settings[i].value} ELSE {}
      BY ValuesAtPlaces
    <3> QED BY <3>1, <3>2, <3>3 DEF Wanted
  <2> QED BY <2>1, <2>2
<1>4. ASSUME Wanted PROVE GroupAsked = {s.manycast_address}
  <2>1. s.manycast_address \in LookupString("manycast_address", DEFAULT_MANYCAST_ADDRESS)
    BY <1>1, <1>2, <1>3, <1>4 DEF GroupAddresses
  <2>2. CASE Places("manycast_address") = {}
    BY <2>1, <2>2, StringRead, ValuesAtPlaces DEF GroupAsked
  <2>3. ASSUME NEW i \in Places("manycast_address") PROVE GroupAsked = {s.manycast_address}
    <3>1. s.manycast_address =
              IF file.settings[i].type = "STRING" THEN file.settings[i].sval ELSE DEFAULT_MANYCAST_ADDRESS
      BY <2>1, StringRead
    <3>2. ValuesNamed("manycast_address", "STRING") =
              IF file.settings[i].type = "STRING" THEN {file.settings[i].sval} ELSE {}
      BY ValuesAtPlaces
    <3> QED BY <3>1, <3>2 DEF GroupAsked
  <2> QED BY <2>2, <2>3
<1> QED BY <1>1, <1>3, <1>4

LEMMA NothingAsked ==
    ASSUME file \in Files, file.state # "good"
    PROVE  ~ Wanted
  BY NoSettings DEF Wanted, ValuesNamed

LEMMA StartupInvariant == StartupSpec => []StartupInv
<1>1. StartupInit => StartupInv
  BY DEF StartupInit, StartupInv
<1>2. StartupInv /\ [StartupNext]_startupVars => StartupInv'
  <2> SUFFICES ASSUME StartupInv, [StartupNext]_startupVars PROVE StartupInv'
    OBVIOUS
  <2>1. file' = file
    BY DEF StartupNext, startupVars, get_server_settings, initialise_server, setup_manycast
  <2>2. (Wanted' <=> Wanted) /\ GroupAsked' = GroupAsked
    BY <2>1 DEF Wanted, GroupAsked, ValuesNamed, SettingsNamed
  <2>3. CASE get_server_settings
    <3>1. CASE file.state = "good"
      <4>1. /\ spc = "config" /\ spc' = "socket" /\ joined' = joined
            /\ s_set' \in parse_server_config_file(server_settings)
        BY <2>3, <3>1 DEF get_server_settings, StartupInv
      <4>2. /\ s_set'.manycast_enabled # 0 <=> Wanted
            /\ Wanted => GroupAsked = {s_set'.manycast_address}
        BY <3>1, <4>1, ServerFileRead DEF GoodFile, StartupInv
      <4> QED BY <2>1, <2>2, <4>1, <4>2 DEF StartupInv
    <3>2. CASE file.state # "good"
      <4>1. /\ spc = "config" /\ spc' \in {"socket", "exited"} /\ joined' = joined
            /\ s_set' = server_settings /\ ~ Wanted
        BY <2>3, <3>2, NothingAsked DEF get_server_settings, StartupInv
      <4> QED BY <2>1, <2>2, <4>1
              DEF StartupInv, server_settings, DEFAULT_MANYCAST_ENABLED
    <3> QED BY <3>1, <3>2
  <2>4. CASE initialise_server
    BY <2>1, <2>2, <2>4 DEF initialise_server, StartupInv
  <2>5. CASE setup_manycast
    BY <2>1, <2>2, <2>5 DEF setup_manycast, MembershipRefused, StartupInv
  <2>6. CASE UNCHANGED startupVars
    BY <2>1, <2>2, <2>6 DEF startupVars, StartupInv
  <2> QED BY <2>3, <2>4, <2>5, <2>6 DEF StartupNext
<1> QED BY <1>1, <1>2, PTL DEF StartupSpec

(***************************************************************************)
(* A server that serves is a member of exactly the groups its file asks    *)
(* for, whatever else the file holds, whatever types its settings have and *)
(* whichever options the dangling config_t shows.                          *)
(***************************************************************************)
THEOREM GroupsAsConfiguredHolds == StartupSpec => []GroupsAsConfigured
<1>1. StartupInv => GroupsAsConfigured
  BY DEF StartupInv, GroupsAsConfigured, Wanted, GroupAsked
<1> QED BY <1>1, StartupInvariant, PTL

-----------------------------------------------------------------------------
(* OptionPrecedence: the options, one after the other. *)

Letters == {"u", "m", "p", "d", "r"}

IsLine(line) ==
    /\ Len(line) \in Nat /\ line = [i \in 1..Len(line) |-> line[i]]
    /\ \A i \in 1..Len(line) : line[i].opt \in Letters \cup {"?", "operand"}

IsClientSettings(s) ==
    s = [server_host |-> s.server_host, server_port |-> s.server_port, debug |-> s.debug,
         recv_uni_timeout |-> s.recv_uni_timeout, max_unicast_retries |-> s.max_unicast_retries,
         poll_wait |-> s.poll_wait,
         timed_repeat_updates_enabled |-> s.timed_repeat_updates_enabled,
         timed_repeat_updates_limit |-> s.timed_repeat_updates_limit,
         manycast_enabled |-> s.manycast_enabled, manycast_wait_time |-> s.manycast_wait_time,
         manycast_address |-> s.manycast_address]

\* The option o is not among the first n arguments, or i is the last place where it is.
NoneIn(line, o, n) == \A i \in 1..n : line[i].opt # o
LastIn(line, o, n, i) == i \in 1..n /\ line[i].opt = o /\ \A j \in (i + 1)..n : line[j].opt # o

\* The settings s and the modes g are what the file and the first n arguments say.
SaidBy(s, g, line, n) ==
    /\ TakenFromFile(s)
    /\ NoneIn(line, "p", n) => s.server_port \in IntInFile("server_port", DEFAULT_SERVER_PORT)
    /\ \A i : LastIn(line, "p", n, i) => s.server_port = line[i].arg
    /\ \A i : LastIn(line, "r", n, i) => /\ s.timed_repeat_updates_enabled = 1
                                         /\ s.timed_repeat_updates_limit = line[i].arg
    /\ ~ NoneIn(line, "d", n) => s.debug = 1
    /\ \A i : LastIn(line, "u", n, i) => s.server_host = line[i].arg
    /\ ~ NoneIn(line, "m", n) => s.manycast_enabled = 1
    /\ \A o \in {"u", "m"} : o \in g <=> ~ NoneIn(line, o, n)

\* Only operands are left, and some are: getopt has nothing more to give.
Stuck == NextOptions = {} /\ optind <= Len(argv)

OptionsInv ==
    /\ file \in Files
    /\ IsLine(argv)
    /\ optind \in 1..(Len(argv) + 1)
    /\ given \subseteq {"u", "m"}
    /\ IsClientSettings(settings)
    /\ opc = "config" => optind = 1 /\ given = {} /\ \E leftover : settings = client_settings(leftover)
    /\ opc = "options" => Stuck \/ SaidBy(settings, given, argv, optind - 1)
    /\ opc = "done" => SaidBy(settings, given, argv, Len(argv)) /\ given # {"u", "m"}

\* The next option decides what is said of its letter, and of no other.
LEMMA NextSaid ==
    ASSUME NEW line, IsLine(line), NEW m \in Nat, NEW i \in (m + 1)..Len(line),
           \A j \in (m + 1)..(i - 1) : line[j].opt = "operand",
           NEW o \in Letters
    PROVE  /\ line[i].opt # o => /\ NoneIn(line, o, i) <=> NoneIn(line, o, m)
                                 /\ \A k : LastIn(line, o, i, k) => LastIn(line, o, m, k)
           /\ line[i].opt = o => /\ ~ NoneIn(line, o, i)
                                 /\ \A k : LastIn(line, o, i, k) => k = i
<1>1. i \in Nat /\ 1..m \subseteq 1..i /\ o # "operand" /\ Len(line) \in Nat
  BY DEF IsLine, Letters
<1>2. \A j \in 1..i : j \in 1..m \/ j = i \/ line[j].opt = "operand"
  OBVIOUS
<1>3. ASSUME line[i].opt # o PROVE NoneIn(line, o, i) <=> NoneIn(line, o, m)
  BY <1>1, <1>2, <1>3 DEF NoneIn
<1>4. ASSUME line[i].opt # o, NEW k, LastIn(line, o, i, k) PROVE LastIn(line, o, m, k)
  <2>1. k \in 1..i /\ line[k].opt = o /\ \A j \in (k + 1)..i : line[j].opt # o
    BY <1>4 DEF LastIn
  <2>2. k \in 1..m
    BY <1>1, <1>2, <1>4, <2>1
  <2>3. \A j \in (k + 1)..m : j \in (k + 1)..i
    BY <1>1, <2>2
  <2> QED BY <2>1, <2>2, <2>3 DEF LastIn
<1>5. ASSUME line[i].opt = o PROVE ~ NoneIn(line, o, i)
  <2>1. i \in 1..i
    BY <1>1
  <2> QED BY <1>5, <2>1 DEF NoneIn
<1>6. ASSUME line[i].opt = o, NEW k, LastIn(line, o, i, k) PROVE k = i
  <2>1. k \in 1..i /\ \A j \in (k + 1)..i : line[j].opt # o
    BY <1>6 DEF LastIn
  <2>2. k # i => i \in (k + 1)..i
    BY <1>1, <2>1
  <2> QED BY <1>6, <2>1, <2>2
<1> QED BY <1>3, <1>4, <1>5, <1>6

\* An option that is given is given a last time.
LEMMA GivenLast ==
    ASSUME NEW line, NEW o, NEW n \in Nat, ~ NoneIn(line, o, n)
    PROVE  \E i : LastIn(line, o, n, i)
<1> DEFINE T == {k \in Nat : k < n /\ line[n - k].opt = o}
<1>1. PICK i \in 1..n : line[i].opt = o
  BY DEF NoneIn
<1>2. n - i \in T
  <2>1. n - i \in Nat /\ n - i < n /\ n - (n - i) = i
    OBVIOUS
  <2> QED BY <1>1, <2>1
<1>3. PICK k \in T : \A m \in T : k <= m
  <2> HIDE DEF T
  <2>1. T \subseteq Nat
    BY DEF T
  <2> QED BY <1>2, <2>1, Least
<1>4. k \in Nat /\ n - k \in 1..n /\ line[n - k].opt = o
  BY <1>3
<1>5. ASSUME NEW j \in (n - k + 1)..n PROVE line[j].opt # o
  <2>1. n - j \in Nat /\ n - j < n /\ n - (n - j) = j /\ ~ (k <= n - j)
    BY <1>4
  <2>2. line[n - (n - j)].opt = o => n - j \in T
    BY <2>1
  <2> QED BY <1>3, <2>1, <2>2
<1> QED BY <1>4, <1>5 DEF LastIn

\* The function that Among is defined with.
With(line, b, e, i) == IF IsOption(line[i]) <=> b THEN Append(e, line[i]) ELSE e

Gathers(line, b, n, f) ==
    f = [i \in 0..n |-> IF i = 0 THEN << >> ELSE With(line, b, f[i - 1], i)]

LEMMA GathersEach ==
    ASSUME NEW line, NEW b, NEW n \in Nat, NEW f, Gathers(line, b, n, f)
    PROVE  f[0] = << >> /\ \A i \in 1..n : f[i] = With(line, b, f[i - 1], i)
<1> DEFINE B(i) == IF i = 0 THEN << >> ELSE With(line, b, f[i - 1], i)
<1>1. f = [i \in 0..n |-> B(i)]
  BY DEF Gathers
<1>2. \A i \in 0..n : f[i] = B(i)
  <2> HIDE DEF B
  <2> QED BY <1>1, Zenon
<1>3. 0 \in 0..n /\ \A i \in 1..n : i \in 0..n /\ i # 0
  OBVIOUS
<1>4. f[0] = << >>
  BY <1>2, <1>3, Zenon
<1>5. ASSUME NEW i \in 1..n PROVE f[i] = With(line, b, f[i - 1], i)
  BY <1>2, <1>3, Zenon
<1> QED BY <1>4, <1>5

LEMMA GathersExists ==
    ASSUME NEW line, NEW b, NEW n \in Nat
    PROVE  \E f : Gathers(line, b, n, f)
<1> DEFINE T == {k \in Nat : \E f : Gathers(line, b, k, f)}
<1>1. 0 \in T
  <2> DEFINE f == [i \in 0..0 |-> << >>]
  <2>1. f = [i \in 0..0 |-> IF i = 0 THEN << >> ELSE With(line, b, f[i - 1], i)]
    OBVIOUS
  <2> HIDE DEF f
  <2> QED BY <2>1 DEF Gathers
<1>2. ASSUME NEW k \in Nat, k \in T PROVE k + 1 \in T
  <2>1. PICK f : Gathers(line, b, k, f)
    BY <1>2
  <2>2. f[0] = << >> /\ \A i \in 1..k : f[i] = With(line, b, f[i - 1], i)
    BY <2>1, GathersEach
  <2> DEFINE w == [i \in 0..(k + 1) |-> IF i <= k THEN f[i] ELSE With(line, b, f[k], k + 1)]
  <2>3. ASSUME NEW i \in 0..(k + 1)
        PROVE  w[i] = IF i = 0 THEN << >> ELSE With(line, b, w[i - 1], i)
    <3>1. CASE i = k + 1
      <4>1. w[i] = With(line, b, f[k], k + 1) /\ w[k] = f[k] /\ i - 1 = k /\ i # 0
        BY <3>1
      <4> HIDE DEF w
      <4> QED BY <3>1, <4>1
    <3>2. CASE i = 0
      BY <2>2, <3>2
    <3>3. CASE i \in 1..k
      <4>1. f[i] = With(line, b, f[i - 1], i)
        BY <2>2, <3>3, Zenon
      <4>2. w[i] = f[i] /\ w[i - 1] = f[i - 1] /\ i # 0
        BY <3>3
      <4> HIDE DEF w
      <4> QED BY <4>1, <4>2
    <3> QED BY <3>1, <3>2, <3>3
  <2>4. w = [i \in 0..(k + 1) |-> w[i]]
    OBVIOUS
  <2> HIDE DEF w
  <2>5. w = [i \in 0..(k + 1) |-> IF i = 0 THEN << >> ELSE With(line, b, w[i - 1], i)]
    BY <2>3, <2>4
  <2>6. Gathers(line, b, k + 1, w)
    BY <2>5 DEF Gathers
  <2> QED BY <2>6
<1> HIDE DEF T
<1>3. Nat \subseteq T
  BY <1>1, <1>2, SetInduction
<1> QED BY <1>3 DEF T

LEMMA SeqFacts ==
    ASSUME NEW A, NEW B, A \subseteq B, NEW s \in Seq(A)
    PROVE  /\ s \in Seq(B) /\ Len(s) \in Nat /\ s = [i \in 1..Len(s) |-> s[i]]
           /\ \A i \in 1..Len(s) : s[i] \in A
           /\ s # << >> => Len(s) # 0
  OBVIOUS

LEMMA ConcatFacts ==
    ASSUME NEW A, NEW s \in Seq(A), NEW t \in Seq(A)
    PROVE  /\ s \o t \in Seq(A) /\ Len(s \o t) = Len(s) + Len(t)
           /\ \A i \in (Len(s) + 1)..Len(s \o t) : (s \o t)[i] = t[i - Len(s)]
  OBVIOUS

\* What Among gathers: arguments of the line of the one kind, and some if there are some.
Kind(line, b) == {a \in {line[i] : i \in 1..Len(line)} : IsOption(a) <=> b}

LEMMA AmongFacts ==
    ASSUME NEW line, IsLine(line), NEW b \in BOOLEAN
    PROVE  /\ Among(line, b) \in Seq(Kind(line, b))
           /\ Kind(line, b) # {} => Among(line, b) # << >>
<1> DEFINE n == Len(line)
           f == CHOOSE f : Gathers(line, b, n, f)
           K == Kind(line, b)
           T == {k \in Nat : /\ f[k] \in Seq(K)
                             /\ \A i \in 1..k : (IsOption(line[i]) <=> b) => f[k] # << >>}
<1>1. n \in Nat
  BY DEF IsLine
<1>2. Among(line, b) = f[n]
  BY DEF Among, Gathers, With
<1>3. Gathers(line, b, n, f)
  <2> HIDE DEF n
  <2> QED BY <1>1, GathersExists
<1> HIDE DEF f
<1>4. f[0] = << >> /\ \A i \in 1..n : f[i] = With(line, b, f[i - 1], i)
  <2> HIDE DEF n, T, K
  <2>1. \A g : Gathers(line, b, n, g) =>
                  g[0] = << >> /\ \A i \in 1..n : g[i] = With(line, b, g[i - 1], i)
    BY <1>1, GathersEach
  <2> QED BY <1>3, <2>1
<1>5. 0 \in T
  <2>1. << >> \in Seq(K) /\ 1..0 = {}
    <3> HIDE DEF K
    <3> QED OBVIOUS
  <2> HIDE DEF K
  <2> QED BY <1>4, <2>1
<1>6. ASSUME NEW k \in 0..(n - 1), k \in T PROVE k + 1 \in T
  <2>1. k + 1 \in 1..n /\ (k + 1) - 1 = k /\ k + 1 \in Nat
    BY <1>1
  <2>2. f[k + 1] = IF IsOption(line[k + 1]) <=> b THEN Append(f[k], line[k + 1]) ELSE f[k]
    BY <1>4, <2>1 DEF With
  <2>3. f[k] \in Seq(K) /\ \A i \in 1..k : (IsOption(line[i]) <=> b) => f[k] # << >>
    BY <1>6
  <2> HIDE DEF K
  <2>4. CASE IsOption(line[k + 1]) <=> b
    <3>1. f[k + 1] = Append(f[k], line[k + 1])
      BY <2>2, <2>4
    <3>2. line[k + 1] \in K
      BY <2>1, <2>4 DEF K, Kind
    <3>3. f[k + 1] \in Seq(K) /\ f[k + 1] # << >>
      BY <2>3, <3>1, <3>2
    <3> QED BY <2>1, <3>3
  <2>5. CASE ~ (IsOption(line[k + 1]) <=> b)
    <3>1. f[k + 1] = f[k]
      BY <2>2, <2>5
    <3>2. \A i \in 1..(k + 1) : i \in 1..k \/ i = k + 1
      BY <2>1
    <3>3. \A i \in 1..(k + 1) : (IsOption(line[i]) <=> b) => f[k] # << >>
      BY <2>3, <2>5, <3>2
    <3> QED BY <2>1, <2>3, <3>1, <3>3
  <2> QED BY <2>4, <2>5
<1> HIDE DEF T
<1>7. 0..n \subseteq T
  <2> HIDE DEF n
  <2> QED BY <1>1, <1>5, <1>6, InductionUpTo
<1>8. n \in T
  BY <1>1, <1>7
<1>9. f[n] \in Seq(K) /\ \A i \in 1..n : (IsOption(line[i]) <=> b) => f[n] # << >>
  BY <1>8 DEF T
<1>10. ASSUME K # {} PROVE f[n] # << >>
  <2>1. PICK i \in 1..n : IsOption(line[i]) <=> b
    BY <1>10 DEF Kind
  <2> QED BY <1>9, <2>1
<1> QED BY <1>2, <1>9, <1>10

\* getopt puts the operands last, and then has nothing more to give.
LEMMA OperandsLast ==
    ASSUME NEW line, IsLine(line), NEW k \in 1..Len(line), ~ IsOption(line[k])
    PROVE  LET a == Among(line, TRUE)
               turned == a \o Among(line, FALSE)
           IN  /\ IsLine(turned)
               /\ Len(a) + 1 \in 1..Len(turned)
               /\ \A i \in (Len(a) + 1)..Len(turned) : ~ IsOption(turned[i])
<1> DEFINE a == Among(line, TRUE)
           z == Among(line, FALSE)
           turned == a \o z
           S == {line[i] : i \in 1..Len(line)}
<1>1. a \in Seq(S) /\ z \in Seq(S) /\ z \in Seq(Kind(line, FALSE))
  <2>1. a \in Seq(Kind(line, TRUE)) /\ z \in Seq(Kind(line, FALSE))
    BY AmongFacts
  <2>2. Kind(line, TRUE) \subseteq S /\ Kind(line, FALSE) \subseteq S
    BY DEF Kind
  <2> HIDE DEF a, z, S
  <2> QED BY <2>1, <2>2, SeqFacts
<1>2. z # << >>
  <2>1. Kind(line, FALSE) # {}
    BY DEF Kind
  <2> QED BY <2>1, AmongFacts
<1>3. \A x \in S : x.opt \in Letters \cup {"?", "operand"}
  BY DEF IsLine
<1> HIDE DEF a, z, S
<1>4. /\ Len(a) \in Nat /\ Len(z) \in Nat /\ Len(z) # 0
      /\ \A i \in 1..Len(z) : z[i] \in Kind(line, FALSE)
  BY <1>1, <1>2, SeqFacts
<1>5. /\ turned \in Seq(S) /\ Len(turned) = Len(a) + Len(z)
      /\ \A i \in (Len(a) + 1)..Len(turned) : turned[i] = z[i - Len(a)]
  BY <1>1, ConcatFacts
<1> HIDE DEF turned
<1>6. IsLine(turned)
  <2>1. Len(turned) \in Nat /\ turned = [i \in 1..Len(turned) |-> turned[i]]
    BY <1>5, SeqFacts
  <2>2. \A i \in 1..Len(turned) : turned[i] \in S
    BY <1>5, SeqFacts
  <2> QED BY <1>3, <2>1, <2>2 DEF IsLine
<1>7. ASSUME NEW i \in (Len(a) + 1)..Len(turned) PROVE ~ IsOption(turned[i])
  <2>1. i - Len(a) \in 1..Len(z)
    BY <1>4, <1>5
  <2>2. turned[i] \in Kind(line, FALSE)
    BY <1>4, <1>5, <2>1
  <2> QED BY <2>2 DEF Kind
<1>8. Len(a) + 1 \in 1..Len(turned)
  BY <1>4, <1>5
<1> QED BY <1>6, <1>7, <1>8 DEF a, z, turned

\* The settings after the file: only what the file is asked for has changed.
Updated(s, v, w, p, t, r, i) ==
    [s EXCEPT !.manycast_address = v, !.manycast_wait_time = w, !.server_port = p,
              !.recv_uni_timeout = t, !.max_unicast_retries = r, !.poll_wait = i]

\* The file is good and v is what a lookup in it makes of old, or v is old.
IntLookedUp(name, old, v) ==
    \/ file.state # "good" /\ v = old
    \/ file.state = "good" /\ v \in LookupInt(name, old)
StringLookedUp(name, old, v) ==
    \/ file.state # "good" /\ v = old
    \/ file.state = "good" /\ v \in LookupString(name, old)

LEMMA IntTaken ==
    ASSUME file \in Files, NEW name, NEW old, NEW v, IntLookedUp(name, old, v)
    PROVE  v \in IntInFile(name, old)
<1>1. CASE file.state # "good"
  <2>1. SettingsNamed(name) = {}
    BY <1>1, NoSettings
  <2> QED BY <1>1, <2>1 DEF IntInFile, IntLookedUp
<1>2. CASE file.state = "good"
  <2>1. v \in LookupInt(name, old) /\ GoodFile
    BY <1>2 DEF GoodFile, IntLookedUp
  <2>2. SettingsNamed(name) = {file.settings[i] : i \in Places(name)}
    BY <2>1, NamedPlaces
  <2>3. CASE Places(name) = {}
    BY <2>1, <2>2, <2>3, IntRead DEF IntInFile
  <2>4. ASSUME NEW i \in Places(name) PROVE v \in IntInFile(name, old)
    <3>1. v \in ReadAsInt(file.settings[i], old)
      BY <2>1, IntRead
    <3>2. file.settings[i] \in SettingsNamed(name)
      BY <2>2
    <3> QED BY <3>1, <3>2 DEF IntInFile
  <2> QED BY <2>3, <2>4
<1> QED BY <1>1, <1>2

LEMMA StringTaken ==
    ASSUME file \in Files, NEW name, NEW old, NEW v, StringLookedUp(name, old, v)
    PROVE  v \in ValueInFile(name, "STRING", old)
<1>1. CASE file.state # "good"
  <2>1. ValuesNamed(name, "STRING") = {}
    BY <1>1, NoSettings DEF ValuesNamed
  <2> QED BY <1>1, <2>1 DEF ValueInFile, StringLookedUp
<1>2. CASE file.state = "good"
  <2>1. v \in LookupString(name, old) /\ GoodFile
    BY <1>2 DEF GoodFile, StringLookedUp
  <2>2. CASE Places(name) = {}
    BY <2>1, <2>2, StringRead, ValuesAtPlaces DEF ValueInFile
  <2>3. ASSUME NEW i \in Places(name) PROVE v \in ValueInFile(name, "STRING", old)
    <3>1. v = IF file.settings[i].type = "STRING" THEN file.settings[i].sval ELSE old
      BY <2>1, StringRead
    <3>2. ValuesNamed(name, "STRING") =
              IF file.settings[i].type = "STRING" THEN {file.settings[i].sval} ELSE {}
      BY <2>1, ValuesAtPlaces
    <3> QED BY <3>1, <3>2 DEF ValueInFile
  <2> QED BY <2>2, <2>3
<1> QED BY <1>1, <1>2

\* Reading the file, or finding none, leaves s of the settings d.
FileRead(d, s) ==
    \E v, w, p, t, r, i :
        /\ s = Updated(d, v, w, p, t, r, i)
        /\ StringLookedUp("manycast_address", d.manycast_address, v)
        /\ IntLookedUp("manycast_wait_time", d.manycast_wait_time, w)
        /\ IntLookedUp("server_port", d.server_port, p)
        /\ IntLookedUp("recv_uni_timeout", d.recv_uni_timeout, t)
        /\ IntLookedUp("max_unicast_retries", d.max_unicast_retries, r)
        /\ IntLookedUp("poll_wait", d.poll_wait, i)

LEMMA FileUpdates ==
    ASSUME IsClientSettings(settings),
           \/ file.state # "good" /\ settings' = settings
           \/ file.state = "good" /\ parse_config_file
    PROVE  FileRead(settings, settings')
<1>1. CASE file.state # "good" /\ settings' = settings
  <2> DEFINE d == settings
  <2>1. d = Updated(d, d.manycast_address, d.manycast_wait_time, d.server_port,
                    d.recv_uni_timeout, d.max_unicast_retries, d.poll_wait)
    BY DEF Updated, IsClientSettings
  <2> QED BY <1>1, <2>1 DEF FileRead, StringLookedUp, IntLookedUp
<1>2. CASE file.state = "good" /\ parse_config_file
  <2>1. PICK v \in LookupString("manycast_address", settings.manycast_address),
             w \in LookupInt("manycast_wait_time", settings.manycast_wait_time),
             p \in LookupInt("server_port", settings.server_port),
             t \in LookupInt("recv_uni_timeout", settings.recv_uni_timeout),
             r \in LookupInt("max_unicast_retries", settings.max_unicast_retries),
             i \in LookupInt("poll_wait", settings.poll_wait) :
                 settings' = [settings EXCEPT !.manycast_address = v, !.manycast_wait_time = w,
                                              !.server_port = p, !.recv_uni_timeout = t,
                                              !.max_unicast_retries = r, !.poll_wait = i]
    BY <1>2, Zenon DEF parse_config_file
  <2>2. settings' = Updated(settings, v, w, p, t, r, i)
    BY <2>1 DEF Updated
  <2>3. /\ StringLookedUp("manycast_address", settings.manycast_address, v)
        /\ IntLookedUp("manycast_wait_time", settings.manycast_wait_time, w)
        /\ IntLookedUp("server_port", settings.server_port, p)
        /\ IntLookedUp("recv_uni_timeout", settings.recv_uni_timeout, t)
        /\ IntLookedUp("max_unicast_retries", settings.max_unicast_retries, r)
        /\ IntLookedUp("poll_wait", settings.poll_wait, i)
    BY <1>2 DEF StringLookedUp, IntLookedUp
  <2> HIDE <2>1
  <2> QED BY <2>2, <2>3, Zenon DEF FileRead
<1> QED BY <1>1, <1>2

\* Before the first option, what the file says stands.
LEMMA FileSaid ==
    ASSUME file \in Files, NEW leftover, NEW s, NEW line, FileRead(client_settings(leftover), s)
    PROVE  IsClientSettings(s) /\ SaidBy(s, {}, line, 0)
<1> DEFINE d == client_settings(leftover)
<1>1. /\ IsClientSettings(d)
      /\ d.server_port = DEFAULT_SERVER_PORT
      /\ d.recv_uni_timeout = DEFAULT_RECV_TIMEOUT
      /\ d.max_unicast_retries = DEFAULT_MAX_UNICAST_RETRY_LIMIT
      /\ d.poll_wait = DEFAULT_MIN_POLL_WAIT
      /\ d.manycast_wait_time = DEFAULT_MANYCAST_WAIT_TIME
      /\ d.manycast_address = DEFAULT_MANYCAST_ADDRESS
  BY DEF client_settings, IsClientSettings
<1> HIDE DEF d
<1>2. PICK v, w, p, t, r, i :
          /\ s = Updated(d, v, w, p, t, r, i)
          /\ StringLookedUp("manycast_address", d.manycast_address, v)
          /\ IntLookedUp("manycast_wait_time", d.manycast_wait_time, w)
          /\ IntLookedUp("server_port", d.server_port, p)
          /\ IntLookedUp("recv_uni_timeout", d.recv_uni_timeout, t)
          /\ IntLookedUp("max_unicast_retries", d.max_unicast_retries, r)
          /\ IntLookedUp("poll_wait", d.poll_wait, i)
  BY Zenon DEF FileRead, d
<1>3. /\ IsClientSettings(s)
      /\ s.manycast_address = v /\ s.manycast_wait_time = w /\ s.server_port = p
      /\ s.recv_uni_timeout = t /\ s.max_unicast_retries = r /\ s.poll_wait = i
  BY <1>1, <1>2 DEF IsClientSettings, Updated
<1>4. TakenFromFile(s)
  BY <1>1, <1>2, <1>3, IntTaken, StringTaken DEF TakenFromFile
<1>5. s.server_port \in IntInFile("server_port", DEFAULT_SERVER_PORT)
  BY <1>1, <1>2, <1>3, IntTaken
<1>6. \A o : NoneIn(line, o, 0) /\ \A k : ~ LastIn(line, o, 0, k)
  BY DEF NoneIn, LastIn
<1> QED BY <1>3, <1>4, <1>5, <1>6 DEF SaidBy

\* An option that the switch knows changes the settings as it says.
LEMMA OptionSaid ==
    ASSUME NEW line, IsLine(line), NEW m \in Nat, NEW i \in (m + 1)..Len(line),
           \A j \in (m + 1)..(i - 1) : line[j].opt = "operand",
           line[i].opt \in Letters,
           NEW s, IsClientSettings(s), NEW g, SaidBy(s, g, line, m)
    PROVE  LET t == Applied(s, line[i])
           IN  /\ IsClientSettings(t)
               /\ SaidBy(t, g \cup ({line[i].opt} \cap {"u", "m"}), line, i)
<1> DEFINE a == line[i]
           t == Applied(s, a)
           q == g \cup ({a.opt} \cap {"u", "m"})
<1>1. \A o \in Letters :
          /\ a.opt # o => /\ NoneIn(line, o, i) <=> NoneIn(line, o, m)
                          /\ \A k : LastIn(line, o, i, k) => LastIn(line, o, m, k)
          /\ a.opt = o => /\ ~ NoneIn(line, o, i)
                          /\ \A k : LastIn(line, o, i, k) => k = i
  BY NextSaid
<1>2. "u" \in Letters /\ "m" \in Letters /\ "p" \in Letters /\ "d" \in Letters /\ "r" \in Letters
  BY DEF Letters
<1>3. /\ IsClientSettings(t)
      /\ t.server_host = IF a.opt = "u" THEN a.arg ELSE s.server_host
      /\ t.manycast_enabled = IF a.opt = "m" THEN 1 ELSE s.manycast_enabled
      /\ t.server_port = IF a.opt = "p" THEN a.arg ELSE s.server_port
      /\ t.debug = IF a.opt = "d" THEN 1 ELSE s.debug
      /\ t.timed_repeat_updates_enabled = IF a.opt = "r" THEN 1 ELSE s.timed_repeat_updates_enabled
      /\ t.timed_repeat_updates_limit = IF a.opt = "r" THEN a.arg ELSE s.timed_repeat_updates_limit
      /\ t.recv_uni_timeout = s.recv_uni_timeout /\ t.max_unicast_retries = s.max_unicast_retries
      /\ t.poll_wait = s.poll_wait /\ t.manycast_wait_time = s.manycast_wait_time
      /\ t.manycast_address = s.manycast_address
  <2> HIDE DEF a
  <2>1. a.opt \in {"u", "m", "p", "d", "r"}
    BY DEF a, Letters
  <2>2. CASE a.opt = "u"
    BY <2>2 DEF Applied, IsClientSettings
  <2>3. CASE a.opt = "m"
    BY <2>3 DEF Applied, IsClientSettings
  <2>4. CASE a.opt = "p"
    BY <2>4 DEF Applied, IsClientSettings
  <2>5. CASE a.opt = "d"
    BY <2>5 DEF Applied, IsClientSettings
  <2>6. CASE a.opt = "r"
    BY <2>6 DEF Applied, IsClientSettings
  <2> QED BY <2>1, <2>2, <2>3, <2>4, <2>5, <2>6
<1>4. \A o \in {"u", "m"} : o \in q <=> (o \in g \/ a.opt = o)
  OBVIOUS
<1> HIDE DEF t, q
<1>5. SaidBy(t, q, line, i)
  <2>1. /\ NoneIn(line, "p", i) => t.server_port \in IntInFile("server_port", DEFAULT_SERVER_PORT)
        /\ \A k : LastIn(line, "p", i, k) => t.server_port = line[k].arg
    BY <1>1, <1>2, <1>3 DEF SaidBy
  <2>2. \A k : LastIn(line, "r", i, k) => /\ t.timed_repeat_updates_enabled = 1
                                          /\ t.timed_repeat_updates_limit = line[k].arg
    BY <1>1, <1>2, <1>3 DEF SaidBy
  <2>3. ~ NoneIn(line, "d", i) => t.debug = 1
    BY <1>1, <1>2, <1>3 DEF SaidBy
  <2>4. \A k : LastIn(line, "u", i, k) => t.server_host = line[k].arg
    BY <1>1, <1>2, <1>3 DEF SaidBy
  <2>5. ~ NoneIn(line, "m", i) => t.manycast_enabled = 1
    BY <1>1, <1>2, <1>3 DEF SaidBy
  <2>6. \A o \in {"u", "m"} : o \in q <=> ~ NoneIn(line, o, i)
    BY <1>1, <1>2, <1>4 DEF SaidBy
  <2>7. TakenFromFile(t)
    BY <1>3 DEF SaidBy, TakenFromFile
  <2> QED BY <2>1, <2>2, <2>3, <2>4, <2>5, <2>6, <2>7 DEF SaidBy
<1> QED BY <1>3, <1>5 DEF t, q

LEMMA OptionsInvariant == OptionsSpec => []OptionsInv
<1>1. OptionsInit => OptionsInv
  <2> SUFFICES ASSUME OptionsInit PROVE OptionsInv
    OBVIOUS
  <2>1. IsLine(argv)
    BY OptionsAssumption DEF OptionsInit, IsLine, Letters
  <2>2. PICK leftover \in Leftovers : settings = client_settings(leftover)
    BY DEF OptionsInit
  <2>3. IsClientSettings(settings)
    BY <2>2 DEF client_settings, IsClientSettings
  <2>4. optind \in 1..(Len(argv) + 1)
    BY <2>1 DEF OptionsInit, IsLine
  <2> QED BY <2>1, <2>2, <2>3, <2>4 DEF OptionsInit, OptionsInv
<1>2. OptionsInv /\ [OptionsNext]_optionVars => OptionsInv'
  <2> SUFFICES ASSUME OptionsInv, [OptionsNext]_optionVars PROVE OptionsInv'
    OBVIOUS
  <2>1. file' = file
    BY DEF OptionsNext, optionVars, ReadConfigFile, TakeOption, SpinOnOperands, OptionsOver
  <2>0. /\ UNCHANGED IntInFile("server_port", DEFAULT_SERVER_PORT)
        /\ UNCHANGED IntInFile("recv_uni_timeout", DEFAULT_RECV_TIMEOUT)
        /\ UNCHANGED IntInFile("max_unicast_retries", DEFAULT_MAX_UNICAST_RETRY_LIMIT)
        /\ UNCHANGED IntInFile("poll_wait", DEFAULT_MIN_POLL_WAIT)
        /\ UNCHANGED IntInFile("manycast_wait_time", DEFAULT_MANYCAST_WAIT_TIME)
        /\ UNCHANGED ValueInFile("manycast_address", "STRING", DEFAULT_MANYCAST_ADDRESS)
    BY <2>1 DEF IntInFile, ValueInFile, ValuesNamed, SettingsNamed
  <2>2. CASE ReadConfigFile
    <3>1. PICK leftover : settings = client_settings(leftover)
      BY <2>2 DEF ReadConfigFile, OptionsInv
    <3>2. /\ \/ file.state # "good" /\ settings' = settings
             \/ file.state = "good" /\ parse_config_file
          /\ opc = "config" /\ opc' \in {"options", "exited"}
          /\ UNCHANGED <<argv, optind, given>>
      BY <2>2 DEF ReadConfigFile
    <3>3. IsClientSettings(settings') /\ SaidBy(settings', {}, argv, 0)
      <4>1. file \in Files /\ IsClientSettings(settings)
        BY DEF OptionsInv
      <4>2. FileRead(client_settings(leftover), settings')
        BY <3>1, <3>2, <4>1, FileUpdates
      <4> QED BY <4>1, <4>2, FileSaid
    <3>4. given = {} /\ optind - 1 = 0
      BY <3>2 DEF OptionsInv
    <3>5. SaidBy(settings, given, argv, optind - 1)'
      BY <2>0, <3>2, <3>3, <3>4 DEF SaidBy, TakenFromFile
    <3> QED BY <2>1, <3>2, <3>3, <3>5 DEF OptionsInv
  <2>3. CASE TakeOption
    <3> DEFINE i == CHOOSE j \in NextOptions : \A k \in NextOptions : j <= k
               a == argv[i]
    <3>1. optind \in Nat /\ Len(argv) \in Nat /\ optind \in 1..(Len(argv) + 1)
      BY DEF OptionsInv, IsLine
    <3>2. /\ opc = "options" /\ NextOptions # {} /\ optind' = i + 1 /\ argv' = argv
          /\ a.opt = "?" => opc' \in {"exited", "aborted"} /\ settings' = settings /\ given' = given
          /\ a.opt # "?" => /\ settings' = Applied(settings, a) /\ opc' = opc
                            /\ given' = given \cup ({a.opt} \cap {"u", "m"})
      BY <2>3 DEF TakeOption
    <3>3. i \in NextOptions /\ \A k \in NextOptions : i <= k
      <4>1. NextOptions \subseteq Nat
        BY <3>1 DEF NextOptions
      <4>2. \E j \in NextOptions : \A k \in NextOptions : j <= k
        BY <3>2, <4>1, Least
      <4> QED BY <4>2
    <3> HIDE DEF i
    <3>4. i \in optind..Len(argv) /\ IsOption(a) /\ i \in Nat
      BY <3>1, <3>3 DEF NextOptions
    <3>5. optind' \in 1..(Len(argv') + 1) /\ optind' - 1 = i
      BY <3>1, <3>2, <3>4
    <3>6. CASE a.opt = "?"
      BY <2>1, <3>2, <3>5, <3>6 DEF OptionsInv
    <3>7. CASE a.opt # "?"
      <4> DEFINE m == optind - 1
      <4>1. m \in Nat /\ m + 1 = optind /\ i \in (m + 1)..Len(argv)
        BY <3>1, <3>4
      <4>2. a.opt \in Letters
        BY <3>1, <3>4, <3>7 DEF OptionsInv, IsLine, IsOption
      <4>3. \A j \in (m + 1)..(i - 1) : argv[j].opt = "operand"
        <5> SUFFICES ASSUME NEW j \in (m + 1)..(i - 1) PROVE argv[j].opt = "operand"
          OBVIOUS
        <5>1. j \in optind..Len(argv) /\ ~ (i <= j)
          BY <3>1, <3>4, <4>1
        <5>2. j \notin NextOptions
          BY <3>3, <5>1
        <5> QED BY <5>1, <5>2 DEF NextOptions, IsOption
      <4>4. SaidBy(settings, given, argv, m)
        BY <3>2 DEF OptionsInv, Stuck
      <4> HIDE DEF m
      <4>5. /\ IsClientSettings(Applied(settings, a))
            /\ SaidBy(Applied(settings, a), given \cup ({a.opt} \cap {"u", "m"}), argv, i)
        BY <4>1, <4>2, <4>3, <4>4, OptionSaid DEF OptionsInv
      <4>6. IsClientSettings(settings') /\ SaidBy(settings, given, argv, optind - 1)'
        BY <2>0, <3>2, <3>5, <3>7, <4>5 DEF SaidBy, TakenFromFile
      <4>7. given' \subseteq {"u", "m"}
        BY <3>2, <3>7 DEF OptionsInv
      <4> QED BY <2>1, <3>2, <3>5, <3>7, <4>6, <4>7 DEF OptionsInv
    <3> QED BY <3>6, <3>7
  <2>4. CASE SpinOnOperands
    <3>1. /\ opc = "options" /\ NextOptions = {} /\ optind <= Len(argv)
          /\ argv' = Among(argv, TRUE) \o Among(argv, FALSE)
          /\ optind' = Len(Among(argv, TRUE)) + 1
          /\ UNCHANGED <<settings, given, opc>>
      BY <2>4 DEF SpinOnOperands
    <3>2. IsLine(argv) /\ optind \in 1..Len(argv) /\ ~ IsOption(argv[optind])
      BY <3>1 DEF OptionsInv, IsLine, NextOptions
    <3>3. /\ IsLine(argv') /\ optind' \in 1..Len(argv')
          /\ \A i \in optind'..Len(argv') : ~ IsOption(argv'[i])
      BY <3>1, <3>2, OperandsLast
    <3>4. /\ Stuck' /\ IsLine(argv)' /\ optind' \in 1..(Len(argv') + 1)
      BY <3>3 DEF Stuck, NextOptions, IsLine, IsOption
    <3> QED BY <2>1, <3>1, <3>4 DEF OptionsInv
  <2>5. CASE OptionsOver
    <3>1. /\ opc = "options" /\ optind > Len(argv)
          /\ opc' = IF given = {"u", "m"} THEN "exited" ELSE "done"
          /\ UNCHANGED <<argv, optind, file, settings, given>>
      BY <2>5 DEF OptionsOver, AllTaken, ModesClash
    <3>2. optind - 1 = Len(argv) /\ ~ Stuck
      BY <3>1 DEF OptionsInv, IsLine, Stuck
    <3>3. SaidBy(settings, given, argv, Len(argv))
      BY <3>1, <3>2 DEF OptionsInv
    <3>4. SaidBy(settings, given, argv, Len(argv))'
      BY <2>0, <3>1, <3>3 DEF SaidBy, TakenFromFile
    <3> QED BY <2>1, <3>1, <3>4 DEF OptionsInv
  <2>6. CASE UNCHANGED optionVars
    <3>1. UNCHANGED <<argv, optind, settings, given, opc>>
      BY <2>6 DEF optionVars
    <3>2. /\ Stuck' <=> Stuck
          /\ \A n : SaidBy(settings, given, argv, n)' <=> SaidBy(settings, given, argv, n)
      BY <2>0, <3>1 DEF Stuck, NextOptions, SaidBy, TakenFromFile
    <3> QED BY <2>1, <3>1, <3>2 DEF OptionsInv, SaidBy, Stuck, NextOptions
  <2> QED BY <2>2, <2>3, <2>4, <2>5, <2>6 DEF OptionsNext
<1> QED BY <1>1, <1>2, PTL DEF OptionsSpec

\* The argument of the last option of a letter is the one LastOf chooses.
LEMMA LastChosen ==
    ASSUME NEW o, Len(argv) \in Nat, Given(o)
    PROVE  \E i : LastIn(argv, o, Len(argv), i) /\ LastOf(o) = argv[i].arg
<1> DEFINE i == CHOOSE i \in 1..Len(argv) :
                    argv[i].opt = o /\ \A j \in (i + 1)..Len(argv) : argv[j].opt # o
<1>1. ~ NoneIn(argv, o, Len(argv))
  BY DEF Given, NoneIn
<1>2. \E k \in 1..Len(argv) : argv[k].opt = o /\ \A j \in (k + 1)..Len(argv) : argv[j].opt # o
  BY <1>1, GivenLast DEF LastIn
<1>3. i \in 1..Len(argv) /\ argv[i].opt = o /\ \A j \in (i + 1)..Len(argv) : argv[j].opt # o
  BY <1>2
<1>4. LastOf(o) = argv[i].arg
  BY DEF LastOf
<1> HIDE DEF i
<1> QED BY <1>3, <1>4 DEF LastIn

(***************************************************************************)
(* A client that goes on to poll has the port of the last -p, else of the  *)
(* file, else the default; the settings that no option gives, of the file, *)
(* else the default; and what -r, -d, -u and -m told it: for every command *)
(* line, however long, and every file.  That the repeat mode and debug are *)
(* also taken from the file, as the comment of get_client_settings has it, *)
(* is not so, and not claimed: see DocumentedPrecedence.                   *)
(***************************************************************************)
THEOREM OptionPrecedenceHolds == OptionsSpec => []OptionPrecedence
<1>1. OptionsInv => OptionPrecedence
  <2> SUFFICES ASSUME OptionsInv, opc = "done" PROVE OptionPrecedence
    BY DEF OptionPrecedence
  <2> DEFINE n == Len(argv)
  <2>1. n \in Nat /\ SaidBy(settings, given, argv, n) /\ given # {"u", "m"} /\ given \subseteq {"u", "m"}
    BY DEF OptionsInv, IsLine
  <2>2. \A o : Given(o) <=> ~ NoneIn(argv, o, n)
    BY DEF Given, NoneIn
  <2>3. \A o : Given(o) => \E i : LastIn(argv, o, n, i) /\ LastOf(o) = argv[i].arg
    BY <2>1, LastChosen
  <2> HIDE DEF n
  <2>4. settings.server_port \in
            IF Given("p") THEN {LastOf("p")} ELSE IntInFile("server_port", DEFAULT_SERVER_PORT)
    BY <2>1, <2>2, <2>3 DEF SaidBy
  <2>5. Given("r") => /\ settings.timed_repeat_updates_enabled = 1
                      /\ settings.timed_repeat_updates_limit = LastOf("r")
    BY <2>1, <2>2, <2>3 DEF SaidBy
  <2>6. TakenFromFile(settings) /\ (Given("d") => settings.debug = 1)
    BY <2>1, <2>2 DEF SaidBy
  <2>7. ~ (Given("u") /\ Given("m"))
    <3>1. ~ ("u" \in given /\ "m" \in given)
      BY <2>1
    <3> QED BY <2>1, <2>2, <3>1 DEF SaidBy
  <2>8. (Given("u") => settings.server_host = LastOf("u")) /\ (Given("m") => settings.manycast_enabled = 1)
    BY <2>1, <2>2, <2>3 DEF SaidBy
  <2> QED BY <2>4, <2>5, <2>6, <2>7, <2>8 DEF OptionPrecedence
<1> QED BY <1>1, OptionsInvariant, PTL
=============================================================================
