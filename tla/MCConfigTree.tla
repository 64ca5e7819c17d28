---------------------------- MODULE MCConfigTree ----------------------------
(***************************************************************************)
(* An instance of ConfigTree for TLC: three callers.                       *)
(***************************************************************************)
EXTENDS ConfigTree

OneEach == [t \in Scalars |-> CASE t \in {"INT", "FLOAT"} -> {1} [] t = "STRING" -> {<<"x">>} [] OTHER -> {}]
NoValues == [t \in Scalars |-> {}]

\* With FLT_PRECISION = 4, DBL_PRECISION = 8, INT32_MAX = 7 and INT64_MAX = 31:
\* 5 and 7 are no floats, and 7 is rounded to 8, which is no int; -11 is no int,
\* float or double; -3 is -1.5, and 40 is 20.0, which is no int.
ManyNumbers ==
    [t \in Scalars |-> CASE t = "INT" -> {5, 7} [] t = "INT64" -> {-11, 2}
                         [] t = "FLOAT" -> {-3, 40} [] t = "BOOL" -> {1}
                         [] t = "STRING" -> {<<"x">>}]

\* The cast of x86-64.
Indefinite(f, max) == -max - 1

\* Groups and lists of groups and lists, with a hook on one of them.
BuildsTree ==
    [names |-> {<<"a">>, <<"b">>, <<"c">>}, addTypes |-> {"GROUP", "LIST"}, values |-> NoValues,
     optionSets |-> {}, convertFlags |-> {}, maxSettings |-> 4, maxHooks |-> 1]

\* Two settings of any type, given values of any type.
StoresValues ==
    [names |-> {<<"a">>}, addTypes |-> Types \ {"GROUP"}, values |-> ManyNumbers,
     optionSets |-> {{}, {"AUTOCONVERT"}}, convertFlags |-> BOOLEAN,
     maxSettings |-> 3, maxHooks |-> 0]

\* An array of two elements.
FillsArray ==
    [names |-> {<<"a">>}, addTypes |-> {"ARRAY", "INT"}, values |-> OneEach,
     optionSets |-> {}, convertFlags |-> BOOLEAN, maxSettings |-> 4, maxHooks |-> 0]

MCPrograms == {BuildsTree, StoresValues, FillsArray}
=============================================================================
