--------------------------- MODULE ConfigSetting ----------------------------
(***************************************************************************)
(* libconfig.c: the settings of a configuration and the functions on them. *)
(* The C functions follow and change pointers; here they are operators     *)
(* that take the heap of settings h, and return the heap they leave next   *)
(* to their result where they change it.  NULL stands for a null pointer.  *)
(*                                                                         *)
(* A number is an integer; a value of type FLOAT counts halves, so that    *)
(* the conversions to and from an int lose what they lose in C.  A string  *)
(* pointer is << >> when null and <<text>> otherwise.                      *)
(***************************************************************************)
EXTENDS Integers, Sequences, FiniteSets, TLC

CONSTANTS
    CHUNK_SIZE,             \* elements by which a list grows
    INT32_MAX,              \* largest int
    ValidNames              \* the names __config_validate_name lets pass

ASSUME SettingAssumption ==
    /\ CHUNK_SIZE \in Nat \ {0}
    /\ INT32_MAX \in Nat

NULL == 0
INT32_MIN == -INT32_MAX - 1

Numbers == {"INT", "INT64", "FLOAT"}
Scalars == Numbers \cup {"BOOL", "STRING"}
Aggregates == {"GROUP", "ARRAY", "LIST"}
Types == {"NONE"} \cup Scalars \cup Aggregates

\* A new setting, zeroed but for its name, type and parent.
config_setting_t(parent, name, type) ==
    [name |-> name, type |-> type, format |-> "DEFAULT",
     value |-> 0, sval |-> << >>, list |-> << >>, capacity |-> 0, parent |-> parent,
     hook |-> NULL, line |-> 0, file |-> NULL]

\* An address calloc may return: one that is not in use, and may have been.
FreshAddress(h) == CHOOSE n \in 1..(Cardinality(DOMAIN h) + 1) : n \notin DOMAIN h

Elements(setting) == {setting.list[i] : i \in 1..Len(setting.list)}
-----------------------------------------------------------------------------
\* Lists.

\* Fault: the list is only made larger when its first element is added.
config_list_add_once(setting, s) ==
    [setting EXCEPT !.capacity = IF Len(setting.list) = 0 THEN CHUNK_SIZE ELSE @,
                    !.list = Append(@, s)]

\* The elements are reallocated whenever their number is a multiple of
\* CHUNK_SIZE, which after removals can also make room smaller.
config_list_add(setting, s) ==
    [setting EXCEPT !.capacity = IF Len(setting.list) % CHUNK_SIZE = 0
                                 THEN Len(setting.list) + CHUNK_SIZE ELSE @,
                    !.list = Append(@, s)]

\* Names are compared up to the first path delimiter; a and b are sequences of
\* the names between the delimiters.
config_name_compare(a, b) == a[1] = b[1]

\* The first named element that matches, or NULL.
config_list_search(h, list, name) ==
    LET found == {i \in 1..Len(list) :
                      /\ h[list[i]].name # << >>
                      /\ config_name_compare(name, h[list[i]].name)}
    IN  IF found = {} THEN NULL
        ELSE list[CHOOSE i \in found : \A j \in found : i <= j]

\* Fault: the elements behind the removed one are not moved up.
config_list_remove_last(setting, idx) == [setting EXCEPT !.list = SubSeq(@, 1, Len(@) - 1)]

config_list_remove(setting, idx) ==
    [setting EXCEPT !.list = SubSeq(@, 1, idx) \o SubSeq(@, idx + 2, Len(@))]

\* The setting s and all that its lists lead to: what destroying s frees.
Subtree(h, s) ==
    LET reached[k \in 0..Cardinality(DOMAIN h)] ==
            IF k = 0 THEN {s}
            ELSE reached[k - 1] \cup UNION {Elements(h[m]) : m \in reached[k - 1]}
    IN  reached[Cardinality(DOMAIN h)]

\* The settings left, and the hooks handed to the destructor, if there is one.
config_setting_destroy(h, s) ==
    [h     |-> [m \in DOMAIN h \ Subtree(h, s) |-> h[m]],
     hooks |-> {h[m].hook : m \in Subtree(h, s)} \ {NULL}]

\* Fault: an array accepts elements of any type.
config_vector_checktype_lax(h, vector, type) == TRUE

\* The first element of an array determines its type.
config_vector_checktype(h, vector, type) ==
    \/ h[vector].list = << >>
    \/ h[vector].type = "LIST"
    \/ h[h[vector].list[1]].type = type

config_validate_name(name) == Len(name) = 1 /\ name[1] \in ValidNames
-----------------------------------------------------------------------------
\* The tree.

config_setting_create(h, parent, name, type) ==
    IF h[parent].type \notin Aggregates THEN [h |-> h, ret |-> NULL]
    ELSE LET s == FreshAddress(h)
         IN  [h   |-> [m \in DOMAIN h \cup {s} |->
                           CASE m = s      -> config_setting_t(parent, name, type)
                             [] m = parent -> config_list_add(h[parent], s)
                             [] OTHER      -> h[m]],
              ret |-> s]

config_setting_get_elem(h, vector, idx) ==
    IF h[vector].type \in Aggregates /\ idx \in 0..(Len(h[vector].list) - 1)
    THEN h[vector].list[idx + 1] ELSE NULL

config_setting_get_member(h, setting, name) ==
    IF h[setting].type = "GROUP" THEN config_list_search(h, h[setting].list, name) ELSE NULL

\* Fault: it is not looked whether the name is taken.
config_setting_add_again(h, parent, name, type) ==
    LET used == IF h[parent].type \in {"ARRAY", "LIST"} THEN << >> ELSE name
    IN  IF used # << >> /\ ~ config_validate_name(used) THEN [h |-> h, ret |-> NULL]
        ELSE config_setting_create(h, parent, used, type)

\* name is << >> for a null pointer, which only an array or a list accepts.
config_setting_add(h, parent, name, type) ==
    LET used == IF h[parent].type \in {"ARRAY", "LIST"} THEN << >> ELSE name
    IN  IF \/ parent = NULL
           \/ used # << >> /\ ~ config_validate_name(used)
           \/ config_setting_get_member(h, parent, used) # NULL
        THEN [h |-> h, ret |-> NULL]
        ELSE config_setting_create(h, parent, used, type)

IndexOf(list, s) == CHOOSE i \in 1..Len(list) : list[i] = s

config_setting_remove(h, parent, name) ==
    LET s == config_setting_get_member(h, parent, name)
        g == [h EXCEPT ![parent] = config_list_remove(@, IndexOf(@.list, s) - 1)]
    IN  IF s = NULL THEN [h |-> h, hooks |-> {}, ret |-> FALSE]
        ELSE LET gone == config_setting_destroy(g, s)
             IN  [h |-> gone.h, hooks |-> gone.hooks, ret |-> TRUE]

config_setting_remove_elem(h, parent, idx) ==
    LET s == config_setting_get_elem(h, parent, idx)
        g == [h EXCEPT ![parent] = config_list_remove(@, idx)]
    IN  IF s = NULL THEN [h |-> h, hooks |-> {}, ret |-> FALSE]
        ELSE LET gone == config_setting_destroy(g, s)
             IN  [h |-> gone.h, hooks |-> gone.hooks, ret |-> TRUE]

\* -1 for the root, which has no parent.
config_setting_index(h, s) ==
    IF h[s].parent = NULL THEN -1 ELSE IndexOf(h[h[s].parent].list, s) - 1

config_setting_length(h, s) == IF h[s].type \in Aggregates THEN Len(h[s].list) ELSE 0

\* A path is a sequence of <<"[", index>> and <<"name", name>>.
config_setting_lookup(h, setting, path) ==
    LET at[k \in 0..Len(path)] ==
            IF k = 0 THEN setting
            ELSE IF at[k - 1] = NULL THEN NULL
            ELSE IF path[k][1] = "[" THEN config_setting_get_elem(h, at[k - 1], path[k][2])
            ELSE config_setting_get_member(h, at[k - 1], <<path[k][2]>>)
    IN  at[Len(path)]
=============================================================================
