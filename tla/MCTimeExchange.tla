--------------------------- MODULE MCTimeExchange ---------------------------
(***************************************************************************)
(* A second of 10 "microseconds" and a fraction of 16 values keep what the *)
(* conversion depends on: 10 = 2 * 5 does not divide 16, one interior      *)
(* value (usec 4) converts exactly, and usec 9 wraps.  Three seconds, and  *)
(* an epoch difference that makes the NTP seconds field wrap inside them.  *)
(***************************************************************************)
EXTENDS TimeExchange

MCInstants == [sec : 4..6, usec : {0, 3, 4, 5, 9}]
=============================================================================
