---------------------------- MODULE ConfigValue -----------------------------
(***************************************************************************)
(* libconfig.c: reading and writing the values of settings, by setting, by *)
(* index and by path.  c is the config_t; it is only asked for its options *)
(* and default format.                                                     *)
(*                                                                         *)
(* A function that stores a value and returns whether it did is an         *)
(* operator whose result is <<value>>, or << >> where nothing is stored.   *)
(***************************************************************************)
EXTENDS ConfigSetting

CONSTANTS
    INT64_MAX,              \* largest long long
    FLT_PRECISION,          \* 2^24: all integers up to it are floats
    DBL_PRECISION,          \* 2^53: all integers up to it are doubles
    OutOfRange(_, _)        \* what the cast of a double makes of one that does
                            \* not fit: C leaves that to the build

ASSUME NumberAssumption ==
    /\ FLT_PRECISION \in Nat \ {0} /\ DBL_PRECISION \in Nat \ {0}
    /\ INT64_MAX \in Nat
    /\ INT32_MAX < DBL_PRECISION

\* The options of a configuration that are bits of one int.
Options == {"AUTOCONVERT", "SEMICOLON_SEPARATORS", "COLON_ASSIGNMENT_FOR_GROUPS",
            "COLON_ASSIGNMENT_FOR_NON_GROUPS", "OPEN_BRACE_ON_SEPARATE_LINE"}

\* config_init's config_t; the root is at address 1.
config_t ==
    [root |-> 1, options |-> {"SEMICOLON_SEPARATORS", "COLON_ASSIGNMENT_FOR_GROUPS",
                              "OPEN_BRACE_ON_SEPARATE_LINE"},
     default_format |-> "DEFAULT", tab_width |-> 2, include_dir |-> << >>, destructor |-> FALSE,
     error_text |-> "none", error_line |-> 0, error_type |-> "NONE"]

\* config_init: the settings, of which there is only the root.
InitialSettings == [s \in {1} |-> config_setting_t(NULL, << >>, "GROUP")]

\* memset to zero.
ZeroedConfig ==
    [config_t EXCEPT !.root = NULL, !.options = {}, !.tab_width = 0]

config_get_auto_convert(c) == "AUTOCONVERT" \in c.options

Magnitude(n) == IF n < 0 THEN -n ELSE n

\* How far apart the floating-point numbers of the given precision are at m:
\* integers as far as the precision, and twice as far for twice the size.
Spacing(m, precision) ==
    LET ulp[k \in 0..m] == IF k <= precision THEN 1 ELSE 2 * ulp[(k + 1) \div 2]
    IN  ulp[m]

\* An integer as a floating-point number: the nearest multiple of the spacing u,
\* and of two the even one.
AboveHalf(q, r, u) == 2 * r > u \/ (2 * r = u /\ q % 2 = 1)
Nearest(m, u) == u * (m \div u + (IF AboveHalf(m \div u, m % u, u) THEN 1 ELSE 0))
WithSignOf(n, m) == IF n < 0 THEN -m ELSE m
Rounded(n, precision) ==
    WithSignOf(n, Nearest(Magnitude(n), Spacing(Magnitude(n), precision)))

\* (double) of an int, which is exact, and of a long long; and (float) of either,
\* widened to the double it is stored as.
Widen(n) == 2 * n
DoubleOf(n) == Widen(Rounded(n, DBL_PRECISION))
FloatOf(n) == Widen(Rounded(n, FLT_PRECISION))

\* Half units that are a double: what a caller can pass.
IsDouble(f) == Rounded(f, DBL_PRECISION) = f

\* (int) or (long long) of a double drops the fraction; what it makes of a double
\* beyond the range of the type is not defined.
Truncate(f) == IF f >= 0 THEN f \div 2 ELSE -((-f) \div 2)
InRange(n, f, max) == IF n \in (-max - 1)..max THEN n ELSE OutOfRange(f, max)
Cast(f, max) == InRange(Truncate(f), f, max)
IntOf(f) == Cast(f, INT32_MAX)
Int64Of(f) == Cast(f, INT64_MAX)

\* Fault: a 64-bit value is cut off at the end of the range.
Narrow_clamped(n) == IF n > INT32_MAX THEN INT32_MAX ELSE IF n < INT32_MIN THEN INT32_MIN ELSE n

\* A 64-bit value as an int: 0 when it is out of range.
Narrow(n) == IF n \in INT32_MIN..INT32_MAX THEN n ELSE 0
-----------------------------------------------------------------------------
get_int(s, c) ==
    CASE s.type = "INT"   -> <<s.value>>
      [] s.type = "INT64" -> <<Narrow(s.value)>>
      [] s.type = "FLOAT" /\ config_get_auto_convert(c) -> <<IntOf(s.value)>>
      [] OTHER -> << >>

get_int64(s, c) ==
    CASE s.type \in {"INT", "INT64"} -> <<s.value>>
      [] s.type = "FLOAT" /\ config_get_auto_convert(c) -> <<Int64Of(s.value)>>
      [] OTHER -> << >>

get_float(s, c) ==
    CASE s.type = "FLOAT" -> <<s.value>>
      [] s.type = "INT" /\ config_get_auto_convert(c) -> <<Widen(s.value)>>
      [] s.type = "INT64" /\ config_get_auto_convert(c) -> <<DoubleOf(s.value)>>
      [] OTHER -> << >>

\* The value, or the default that stands for "another type".
OrElse(result, default) == IF result = << >> THEN default ELSE result[1]

config_setting_get_int(s, c) == OrElse(get_int(s, c), 0)
config_setting_get_int64(s, c) == OrElse(get_int64(s, c), 0)
config_setting_get_float(s, c) == OrElse(get_float(s, c), 0)
config_setting_get_bool(s) == IF s.type = "BOOL" THEN s.value ELSE 0
config_setting_get_string(s) == IF s.type = "STRING" THEN s.sval ELSE << >>

\* What the lookups of a boolean and of a string store.
get_bool(s) == IF s.type = "BOOL" THEN <<s.value>> ELSE << >>
get_string(s) == IF s.type = "STRING" THEN <<s.sval>> ELSE << >>
-----------------------------------------------------------------------------
\* Setting a value: the setting as it is left, and whether it was accepted.
\* A setting without a type takes the type of its first value.
Stored(s, type, v) == [ret |-> TRUE, s |-> [s EXCEPT !.type = type, !.value = v]]
Refused(s) == [ret |-> FALSE, s |-> s]

config_setting_set_int(s, v, c) ==
    CASE s.type \in {"NONE", "INT"} -> Stored(s, "INT", v)
      [] s.type = "FLOAT" /\ config_get_auto_convert(c) -> Stored(s, "FLOAT", FloatOf(v))
      [] OTHER -> Refused(s)

config_setting_set_int64(s, v, c) ==
    CASE s.type \in {"NONE", "INT64"} -> Stored(s, "INT64", v)
      [] s.type = "INT" -> Stored(s, "INT", Narrow(v))
      [] s.type = "FLOAT" /\ config_get_auto_convert(c) -> Stored(s, "FLOAT", FloatOf(v))
      [] OTHER -> Refused(s)

config_setting_set_float(s, v, c) ==
    CASE s.type \in {"NONE", "FLOAT"} -> Stored(s, "FLOAT", v)
      [] s.type = "INT" /\ config_get_auto_convert(c) -> Stored(s, "INT", IntOf(v))
      [] s.type = "INT64" /\ config_get_auto_convert(c) -> Stored(s, "INT64", Int64Of(v))
      [] OTHER -> Refused(s)

config_setting_set_bool(s, v) ==
    IF s.type \in {"NONE", "BOOL"} THEN Stored(s, "BOOL", v) ELSE Refused(s)

config_setting_set_string(s, v) ==
    IF s.type \in {"NONE", "STRING"}
    THEN [ret |-> TRUE, s |-> [s EXCEPT !.type = "STRING", !.sval = v]] ELSE Refused(s)

\* Any of the five, by the type of the value.
SetValue(s, type, v, c) ==
    CASE type = "INT"    -> config_setting_set_int(s, v, c)
      [] type = "INT64"  -> config_setting_set_int64(s, v, c)
      [] type = "FLOAT"  -> config_setting_set_float(s, v, c)
      [] type = "BOOL"   -> config_setting_set_bool(s, v)
      [] type = "STRING" -> config_setting_set_string(s, v)

config_setting_set_format(s, format) ==
    IF s.type \in {"INT", "INT64"} /\ format \in {"DEFAULT", "HEX"}
    THEN [ret |-> TRUE, s |-> [s EXCEPT !.format = format]] ELSE Refused(s)

config_setting_get_format(s, c) == IF s.format # "DEFAULT" THEN s.format ELSE c.default_format
-----------------------------------------------------------------------------
\* Elements.  A negative index adds one, of the type of the value; otherwise
\* the element keeps its type and the value has to suit it.
SetElem(h, vector, idx, type, v, c) ==
    LET made == IF idx < 0 THEN config_setting_create(h, vector, << >>, type)
                ELSE [h |-> h, ret |-> config_setting_get_elem(h, vector, idx)]
        set  == SetValue(made.h[made.ret], type, v, c)
    IN  IF \/ h[vector].type \notin {"ARRAY", "LIST"}
           \/ idx < 0 /\ ~ config_vector_checktype(h, vector, type)
           \/ made.ret = NULL
        THEN [h |-> h, ret |-> NULL]
        ELSE [h   |-> [made.h EXCEPT ![made.ret] = set.s],
              ret |-> IF set.ret THEN made.ret ELSE NULL]

config_setting_set_int_elem(h, vector, idx, v, c) == SetElem(h, vector, idx, "INT", v, c)
config_setting_set_int64_elem(h, vector, idx, v, c) == SetElem(h, vector, idx, "INT64", v, c)
config_setting_set_float_elem(h, vector, idx, v, c) == SetElem(h, vector, idx, "FLOAT", v, c)
config_setting_set_bool_elem(h, vector, idx, v, c) == SetElem(h, vector, idx, "BOOL", v, c)
config_setting_set_string_elem(h, vector, idx, v, c) == SetElem(h, vector, idx, "STRING", v, c)

\* Any of the five functions above, by the type of the value.
SetElemOf(h, vector, idx, type, v, c) ==
    CASE type = "INT"    -> config_setting_set_int_elem(h, vector, idx, v, c)
      [] type = "INT64"  -> config_setting_set_int64_elem(h, vector, idx, v, c)
      [] type = "FLOAT"  -> config_setting_set_float_elem(h, vector, idx, v, c)
      [] type = "BOOL"   -> config_setting_set_bool_elem(h, vector, idx, v, c)
      [] type = "STRING" -> config_setting_set_string_elem(h, vector, idx, v, c)

ElemOr(h, vector, idx, Get(_), default) ==
    LET e == config_setting_get_elem(h, vector, idx)
    IN  IF e = NULL THEN default ELSE Get(h[e])

config_setting_get_int_elem(h, vector, idx, c) ==
    LET Get(e) == config_setting_get_int(e, c) IN ElemOr(h, vector, idx, Get, 0)
config_setting_get_int64_elem(h, vector, idx, c) ==
    LET Get(e) == config_setting_get_int64(e, c) IN ElemOr(h, vector, idx, Get, 0)
config_setting_get_float_elem(h, vector, idx, c) ==
    LET Get(e) == config_setting_get_float(e, c) IN ElemOr(h, vector, idx, Get, 0)
config_setting_get_bool_elem(h, vector, idx) ==
    ElemOr(h, vector, idx, config_setting_get_bool, 0)
config_setting_get_string_elem(h, vector, idx) ==
    ElemOr(h, vector, idx, config_setting_get_string, << >>)
-----------------------------------------------------------------------------
\* Lookups: by path from the root, and by name in a group.
Found(h, s, Get(_)) == IF s = NULL THEN << >> ELSE Get(h[s])

config_lookup(h, c, path) == config_setting_lookup(h, c.root, path)

config_lookup_string(h, c, path) == Found(h, config_lookup(h, c, path), get_string)
config_lookup_int(h, c, path) ==
    LET Get(s) == get_int(s, c) IN Found(h, config_lookup(h, c, path), Get)

\* Fault: the value is fetched as an int.
config_lookup_int64_narrow(h, c, path) ==
    LET Get(s) == get_int(s, c) IN Found(h, config_lookup(h, c, path), Get)

config_lookup_int64(h, c, path) ==
    LET Get(s) == get_int64(s, c) IN Found(h, config_lookup(h, c, path), Get)
config_lookup_float(h, c, path) ==
    LET Get(s) == get_float(s, c) IN Found(h, config_lookup(h, c, path), Get)
config_lookup_bool(h, c, path) == Found(h, config_lookup(h, c, path), get_bool)

config_setting_lookup_int(h, s, name, c) ==
    LET Get(m) == get_int(m, c) IN Found(h, config_setting_get_member(h, s, name), Get)
config_setting_lookup_int64(h, s, name, c) ==
    LET Get(m) == get_int64(m, c) IN Found(h, config_setting_get_member(h, s, name), Get)
config_setting_lookup_float(h, s, name, c) ==
    LET Get(m) == get_float(m, c) IN Found(h, config_setting_get_member(h, s, name), Get)
config_setting_lookup_string(h, s, name) ==
    Found(h, config_setting_get_member(h, s, name), get_string)
config_setting_lookup_bool(h, s, name) ==
    Found(h, config_setting_get_member(h, s, name), get_bool)
=============================================================================
