----------------------------- MODULE ConfigTree -----------------------------
(***************************************************************************)
(* A program that builds, changes and reads a configuration through the    *)
(* functions of libconfig.c.  One action per function that changes state,  *)
(* called with any arguments the caller could have: a setting it got from  *)
(* the library and that still exists.                                      *)
(***************************************************************************)
EXTENDS ConfigValue

CONSTANT
    Programs    \* the callers: what each of them calls the functions with

\* What a caller calls with, and how much of it: names (sequences of parts of a
\* path) and types of the settings it adds, values it stores by type, arguments
\* of config_set_options and of config_set_auto_convert, and the bounds
\* maxSettings (settings at a time, with the root) and maxHooks.
ASSUME TreeAssumption ==
    \A p \in Programs :
        /\ p.names \subseteq Seq(STRING) \ {<< >>}
        /\ p.addTypes \subseteq Types
        /\ Scalars \subseteq DOMAIN p.values
        /\ p.values["INT"] \subseteq INT32_MIN..INT32_MAX
        /\ p.values["INT64"] \subseteq (-INT64_MAX - 1)..INT64_MAX
        /\ \A f \in p.values["FLOAT"] : f \in Int /\ IsDouble(f)
        /\ p.optionSets \subseteq SUBSET Options
        /\ p.convertFlags \subseteq BOOLEAN
        /\ p.maxSettings \in Nat /\ p.maxHooks \in Nat

VARIABLES
    program,    \* the caller, one of Programs
    h,          \* the settings, by address
    c,          \* the config_t
    last,       \* the last call: what it was given and what it returned
    hooks,      \* history: hooks attached so far, each one new
    fired       \* history: hooks handed to the destructor, with how often

treeVars == <<program, h, c, last, hooks, fired>>

NoCall == [call |-> "none"]

TreeInit ==
    /\ program \in Programs
    /\ h = InitialSettings
    /\ c = config_t
    /\ last = NoCall
    /\ hooks = 0
    /\ fired = [k \in 1..program.maxHooks |-> 0]

\* Fault: the hook of a setting is forgotten with it.
CallDestructor_never(given) == UNCHANGED fired

\* The destructor is called with every hook in the set, if there is one.
CallDestructor(given) ==
    fired' = IF c.destructor
             THEN [k \in DOMAIN fired |-> fired[k] + IF k \in given THEN 1 ELSE 0] ELSE fired

Add(parent, name, type) ==
    LET added == config_setting_add(h, parent, name, type)
    IN  /\ Cardinality(DOMAIN h) < program.maxSettings
        /\ h' = added.h
        /\ last' = NoCall
        /\ UNCHANGED <<c, hooks, fired>>

Remove(parent, name) ==
    LET removed == config_setting_remove(h, parent, name)
    IN  /\ h' = removed.h
        /\ CallDestructor(removed.hooks)
        /\ last' = NoCall
        /\ UNCHANGED <<c, hooks>>

RemoveElem(parent, idx) ==
    LET removed == config_setting_remove_elem(h, parent, idx)
    IN  /\ h' = removed.h
        /\ CallDestructor(removed.hooks)
        /\ last' = NoCall
        /\ UNCHANGED <<c, hooks>>

Set(s, type, v) ==
    LET set == SetValue(h[s], type, v, c)
    IN  /\ h' = [h EXCEPT ![s] = set.s]
        /\ last' = [call |-> "set", s |-> s, type |-> type, v |-> v, ret |-> set.ret]
        /\ UNCHANGED <<c, hooks, fired>>

SetAt(vector, idx, type, v) ==
    LET set == SetElemOf(h, vector, idx, type, v, c)
    IN  /\ idx < 0 => Cardinality(DOMAIN h) < program.maxSettings
        /\ h' = set.h
        /\ last' = [call |-> "set_elem", s |-> vector, type |-> type, v |-> v, ret |-> set.ret # NULL]
        /\ UNCHANGED <<c, hooks, fired>>

SetFormat(s, format) ==
    LET set == config_setting_set_format(h[s], format)
    IN  /\ h' = [h EXCEPT ![s] = set.s]
        /\ last' = NoCall
        /\ UNCHANGED <<c, hooks, fired>>

config_setting_set_hook(s) ==
    /\ hooks < program.maxHooks
    /\ hooks' = hooks + 1
    /\ h' = [h EXCEPT ![s].hook = hooks + 1]
    /\ last' = NoCall
    /\ UNCHANGED <<c, fired>>

\* The functions that only change the config_t.
SetConfig(new) == c' = new /\ last' = NoCall /\ UNCHANGED <<h, hooks, fired>>

config_set_destructor == \E set \in BOOLEAN : SetConfig([c EXCEPT !.destructor = set])

config_set_options == \E options \in program.optionSets : SetConfig([c EXCEPT !.options = options])

config_set_auto_convert ==
    \E flag \in program.convertFlags :
        SetConfig([c EXCEPT !.options = IF flag THEN @ \cup {"AUTOCONVERT"} ELSE @ \ {"AUTOCONVERT"}])

config_destroy ==
    LET destroyed == config_setting_destroy(h, c.root)
    IN  /\ h' = destroyed.h
        /\ CallDestructor(destroyed.hooks)
        /\ c' = ZeroedConfig
        /\ last' = NoCall
        /\ UNCHANGED hooks

config_init ==
    /\ h' = InitialSettings
    /\ c' = config_t
    /\ last' = NoCall
    /\ UNCHANGED <<hooks, fired>>

\* The settings of a live configuration, changed by any of the calls.  A group
\* is never asked for a null name.
ChangeSettings ==
    \E s \in DOMAIN h :
        \/ \E n \in program.names, t \in program.addTypes : Add(s, n, t)
        \/ \E n \in program.names : Remove(s, n)
        \/ \E i \in 0..(program.maxSettings - 1) : RemoveElem(s, i)
        \/ \E t \in Scalars : \E v \in program.values[t] : Set(s, t, v)
        \/ \E i \in (-1)..(program.maxSettings - 1), t \in Scalars : \E v \in program.values[t] : SetAt(s, i, t, v)
        \/ \E f \in {"DEFAULT", "HEX"} : SetFormat(s, f)
        \/ config_setting_set_hook(s)

TreeNext ==
    /\ UNCHANGED program
    /\ \/ c.root # NULL /\ ChangeSettings
       \/ c.root # NULL /\ (config_set_destructor \/ config_set_options \/ config_set_auto_convert)
       \/ c.root # NULL /\ config_destroy
       \/ c.root = NULL /\ config_init

TreeSpec == TreeInit /\ [][TreeNext]_treeVars
-----------------------------------------------------------------------------
\* The path a caller would write for s: names where there are some, indices
\* elsewhere, from the root.
PathTo(s) ==
    LET up[k \in 0..Cardinality(DOMAIN h)] ==
            IF k = 0 THEN s ELSE IF up[k - 1] = NULL THEN NULL ELSE h[up[k - 1]].parent
        depth == CHOOSE k \in DOMAIN up : up[k] = c.root
        Part(m) == IF h[m].name # << >> THEN <<"name", h[m].name[1]>>
                   ELSE <<"[", config_setting_index(h, m)>>
    IN  [k \in 1..depth |-> Part(up[depth - k])]

\* The settings are a tree: every list holds settings that exist, each once,
\* that have the owner of the list as their parent; all can be reached from the
\* root, and nothing is left when the configuration is destroyed.
IsTree ==
    /\ \A s \in DOMAIN h :
           /\ Elements(h[s]) \subseteq DOMAIN h
           /\ Cardinality(Elements(h[s])) = config_setting_length(h, s)
           /\ \A e \in Elements(h[s]) : h[e].parent = s
           /\ h[s].list # << >> => h[s].type \in Aggregates
    /\ DOMAIN h = IF c.root = NULL THEN {} ELSE Subtree(h, c.root)

\* No element is written behind the end of its list, however elements come
\* and go between the reallocations.
ListFits == \A s \in DOMAIN h : Len(h[s].list) <= h[s].capacity

\* Every setting is found under its path, and only it: names stay unique in a
\* group whatever is added and removed, and indices are those of the list.
PathFindsSetting ==
    IsTree => \A s \in DOMAIN h : config_lookup(h, c, PathTo(s)) = s

\* A hook reaches the destructor exactly when a setting that has it goes while
\* there is a destructor, once, also when it goes with the group it is in or with
\* the configuration; and never while its setting stays.
HookHandedOver ==
    [][\A k \in DOMAIN fired :
           fired'[k] - fired[k] =
               IF c.destructor /\ \E s \in DOMAIN h \ DOMAIN h' : h[s].hook = k THEN 1 ELSE 0]_treeVars

\* What a caller reads back with the function of a value's type.
ReadAs(type, s) ==
    CASE type = "INT"    -> config_setting_get_int(s, c)
      [] type = "INT64"  -> config_setting_get_int64(s, c)
      [] type = "FLOAT"  -> config_setting_get_float(s, c)
      [] type = "BOOL"   -> config_setting_get_bool(s)
      [] type = "STRING" -> config_setting_get_string(s)

LargestOf(type) == IF type = "INT" THEN INT32_MAX ELSE INT64_MAX

\* Half units without their fraction.
WithoutFraction(f) == IF f % 2 = 0 THEN f ELSE IF f > 0 THEN f - 1 ELSE f + 1

\* What v, a value of the type given, may read back as from a setting of the type
\* kept.  An integer in a FLOAT setting is exact as far as the precision of a
\* float, beyond it off by at most one part in that precision; at the very end of
\* its type's range it may be rounded out of it, and then anything can come back.
\* An integer that does not fit an INT setting is 0.  A double in an integer
\* setting loses its fraction, and what one that does not fit becomes is
\* undefined.
Preserved(given, v, kept, read) ==
    CASE given \in {"INT", "INT64"} /\ kept = "FLOAT" ->
             IF Magnitude(v) <= FLT_PRECISION THEN read = v
             ELSE \/ FLT_PRECISION * Magnitude(read - v) <= Magnitude(v)
                  \/ FLT_PRECISION * (LargestOf(given) - Magnitude(v)) < Magnitude(v)
      [] given = "INT64" /\ kept = "INT" ->
             read = IF v \in INT32_MIN..INT32_MAX THEN v ELSE 0
      [] given = "FLOAT" /\ kept \in {"INT", "INT64"} ->
             v \in (-2 * LargestOf(kept) - 3)..(2 * LargestOf(kept) + 1) => read = WithoutFraction(v)
      [] OTHER -> read = v

\* A value that was accepted is read back with the function of its type, as far
\* as the type the setting keeps can hold it: the losses above are all there are.
AcceptedIsReadBack ==
    last.call = "set" /\ last.ret =>
        LET s == h[last.s] IN Preserved(last.type, last.v, s.type, ReadAs(last.type, s))

\* A value is the same whichever way it is asked for: by setting, by path from
\* the root, by name in its group, by index in its parent.
WaysOfAskingAgree ==
    IsTree => \A s \in {k \in DOMAIN h : h[k].type \in Scalars} :
        LET e == h[s]  p == e.parent  i == config_setting_index(h, s)
        IN  /\ config_setting_get_int_elem(h, p, i, c) = config_setting_get_int(e, c)
            /\ config_setting_get_int64_elem(h, p, i, c) = config_setting_get_int64(e, c)
            /\ config_setting_get_float_elem(h, p, i, c) = config_setting_get_float(e, c)
            /\ config_setting_get_bool_elem(h, p, i) = config_setting_get_bool(e)
            /\ config_setting_get_string_elem(h, p, i) = config_setting_get_string(e)
            /\ config_lookup_int(h, c, PathTo(s)) = get_int(e, c)
            /\ config_lookup_int64(h, c, PathTo(s)) = get_int64(e, c)
            /\ config_lookup_float(h, c, PathTo(s)) = get_float(e, c)
            /\ config_lookup_bool(h, c, PathTo(s)) = get_bool(e)
            /\ config_lookup_string(h, c, PathTo(s)) = get_string(e)
            /\ h[p].type = "GROUP" =>
                   /\ config_setting_lookup_int(h, p, e.name, c) = get_int(e, c)
                   /\ config_setting_lookup_int64(h, p, e.name, c) = get_int64(e, c)
                   /\ config_setting_lookup_float(h, p, e.name, c) = get_float(e, c)
                   /\ config_setting_lookup_bool(h, p, e.name) = get_bool(e)
                   /\ config_setting_lookup_string(h, p, e.name) = get_string(e)

Homogeneous(settings, s) ==
    /\ \A e \in Elements(settings[s]) : settings[e].type \in Scalars
    /\ Cardinality({settings[e].type : e \in Elements(settings[s])}) <= 1

\* Setting elements by index, the last way to add some, leaves an array whose
\* elements have one scalar type such an array.
SetElemKeepsArray ==
    [][last'.call = "set_elem" =>
           \A s \in DOMAIN h : h[s].type = "ARRAY" /\ Homogeneous(h, s) => Homogeneous(h', s)]_treeVars
=============================================================================
