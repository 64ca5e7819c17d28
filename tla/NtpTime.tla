------------------------------ MODULE NtpTime ------------------------------
(***************************************************************************)
(* Time values of the SNTP programs and the arithmetic on them: struct     *)
(* timeval (Unix time), struct ntp_time_t (NTP time, 32-bit seconds and    *)
(* 32-bit binary fraction), the two conversions of reusedlib.c, the        *)
(* second-resolution timers of the client, and the offset and error bound  *)
(* it computes from the four timestamps of an exchange.                    *)
(*                                                                         *)
(* The code's literals are parameters: Micros is 10^6, FracMod and SecMod  *)
(* are 2^32, EpochDelta is 0x83AA7E80.                                     *)
(***************************************************************************)
EXTENDS Integers

CONSTANTS
    Micros,     \* microseconds in a second
    FracMod,    \* values of the 32-bit fraction field
    SecMod,     \* values of the 32-bit seconds field
    EpochDelta  \* seconds from 1 Jan 1900 to 1 Jan 1970

ASSUME TimeAssumption ==
    /\ Micros \in Nat \ {0}
    /\ FracMod \in Nat
    /\ Micros < FracMod
    /\ SecMod \in Nat \ {0}
    /\ EpochDelta \in 0..(SecMod - 1)

Timeval == [sec : Int, usec : 0..(Micros - 1)]
NtpTimestamp == [second : 0..(SecMod - 1), fraction : 0..(FracMod - 1)]

\* The all-zero timestamp of a packet cleared with memset.
ZeroTimestamp == [second |-> 0, fraction |-> 0]

\* a is an earlier instant than b.
Before(a, b) ==
    \/ a.sec < b.sec
    \/ a.sec = b.sec /\ a.usec < b.usec

\* More than n whole seconds pass from a to b; at least n seconds pass.
MoreThan(n, a, b) ==
    \/ b.sec - a.sec > n
    \/ b.sec - a.sec = n /\ b.usec > a.usec
AtLeast(n, a, b) ==
    \/ b.sec - a.sec > n
    \/ b.sec - a.sec = n /\ b.usec >= a.usec

\* Fault: the fraction is kept in a field wider than 32 bits.
FractionOf_wide(usec) == ((usec + 1) * FracMod) \div Micros

\* Fault: the fraction has a resolution of two microseconds.
FractionOf_coarse(usec) == ((((usec + 1) \div 2) * FracMod) \div Micros) % FracMod

\* (usec + 1) microseconds as a binary fraction.  The product is exact in a
\* double and so is its truncation for every usec below 10^6; the conversion
\* to uint32_t of the one value that does not fit wraps to 0 in the gcc build.
FractionOf(usec) == (((usec + 1) * FracMod) \div Micros) % FracMod
UsecOf(fraction) == (fraction * Micros) \div FracMod

\* Fault: the seconds are kept in a field wider than 32 bits.
convert_unix_time_into_ntp_time_wide(tv) ==
    [second   |-> tv.sec + EpochDelta,
     fraction |-> FractionOf(tv.usec)]

convert_unix_time_into_ntp_time(tv) ==
    [second   |-> (tv.sec + EpochDelta) % SecMod,
     fraction |-> FractionOf(tv.usec)]

\* Fault: the two conversions disagree on the epoch by a second.
convert_ntp_time_into_unix_time_epochOff(ts) ==
    [sec  |-> (ts.second - EpochDelta - 1) % SecMod,
     usec |-> UsecOf(ts.fraction)]

convert_ntp_time_into_unix_time(ts) ==
    [sec  |-> (ts.second - EpochDelta) % SecMod,
     usec |-> UsecOf(ts.fraction)]

\* Difference of the tv_sec fields alone: microseconds are ignored.
get_elapsed_time(start, end) == end.sec - start.sec

\* An instant in microseconds, exact where the code uses a double.
Instant(tv) == tv.sec * Micros + tv.usec

\* Twice the clock offset, so that the division by two stays exact.
calculate_clock_offset(t1, t2, t3, t4) ==
    (Instant(t2) - Instant(t1)) + (Instant(t3) - Instant(t4))

\* Fault: the transmit and receive times of the server change places.
calculate_error_bound_swapped(t1, t2, t3, t4) ==
    (Instant(t4) - Instant(t3)) - (Instant(t2) - Instant(t1))

calculate_error_bound(t1, t2, t3, t4) ==
    (Instant(t4) - Instant(t1)) - (Instant(t3) - Instant(t2))

Abs(n) == IF n < 0 THEN -n ELSE n

\* The interval offset +/- error_bound that print_server_results shows,
\* widened by slack microseconds, contains the true offset of skew seconds.
\* offset is doubled.
Brackets(offset, error_bound, skew, slack) ==
    Abs(offset - 2 * skew * Micros) <= 2 * (error_bound + slack)
=============================================================================
