--------------------------- MODULE NtpTimeProofs ---------------------------
(***************************************************************************)
(* The arithmetic of NtpTime for every clock resolution, field width and   *)
(* epoch that meets TimeAssumption, the 10^6, 2^32 and 0x83AA7E80 of the   *)
(* code among them.                                                        *)
(***************************************************************************)
EXTENDS NtpTime, TLAPS

\* Quotient and remainder of the division the conversions use.
LEMMA DivFacts ==
    ASSUME NEW a \in Int, NEW b \in Nat \ {0}
    PROVE  /\ a \div b \in Int
           /\ b * (a \div b) <= a
           /\ a < b * (a \div b) + b
           /\ a % b \in 0..(b - 1)
           /\ a = b * (a \div b) + (a % b)
  OBVIOUS

\* A remainder is its argument when that is already in range.
LEMMA SmallMod ==
    ASSUME NEW a \in Nat, NEW b \in Nat \ {0}, a < b
    PROVE  a % b = a
  OBVIOUS

\* A positive factor can be cancelled.
LEMMA Cancel ==
    ASSUME NEW m \in Nat \ {0}, NEW a \in Int, NEW b \in Int
    PROVE  /\ m * a < m * b => a < b
           /\ m * a <= m * b => a <= b
<1>1. ASSUME b <= a PROVE m * b <= m * a
  <2>1. a - b \in Nat
    BY <1>1
  <2>2. m * (a - b) \in Nat
    BY <2>1
  <2>3. m * (a - b) = m * a - m * b
    OBVIOUS
  <2> QED BY <2>2, <2>3
<1>2. ASSUME b < a PROVE m * b < m * a
  <2>1. a - b - 1 \in Nat
    BY <1>2
  <2>2. m * (a - b - 1) \in Nat
    BY <2>1
  <2>3. m * (a - b - 1) = m * a - m * b - m
    OBVIOUS
  <2> QED BY <2>2, <2>3
<1> QED BY <1>1, <1>2

\* The fraction field is never out of range.
LEMMA FractionType ==
    ASSUME NEW u \in 0..(Micros - 1)
    PROVE  FractionOf(u) \in 0..(FracMod - 1)
<1> DEFINE q == ((u + 1) * FracMod) \div Micros
<1>1. (u + 1) * FracMod \in Int
  BY TimeAssumption
<1>2. q \in Int
  BY <1>1, DivFacts, TimeAssumption
<1>3. q % FracMod \in 0..(FracMod - 1)
  <2> HIDE DEF q
  <2> QED BY <1>2, DivFacts, TimeAssumption
<1> QED BY <1>3 DEF FractionOf

\* Short of the last microsecond of a second the fraction does not wrap.
LEMMA FractionExact ==
    ASSUME NEW u \in 0..(Micros - 1), u # Micros - 1
    PROVE  /\ FractionOf(u) = ((u + 1) * FracMod) \div Micros
           /\ Micros * FractionOf(u) <= (u + 1) * FracMod
           /\ (u + 1) * FracMod < Micros * FractionOf(u) + Micros
<1> DEFINE a == (u + 1) * FracMod
           q == a \div Micros
<1>1. a \in Nat /\ Micros \in Nat \ {0} /\ FracMod \in Nat \ {0}
  BY TimeAssumption
<1>2. q \in Int /\ Micros * q <= a /\ a < Micros * q + Micros
  <2> HIDE DEF a
  <2> QED BY <1>1, DivFacts
<1>3. a < Micros * FracMod
  <2>1. (Micros - (u + 1)) * FracMod \in Nat \ {0}
    <3>1. Micros - (u + 1) \in Nat \ {0}
      BY TimeAssumption
    <3> QED BY <3>1, <1>1
  <2>2. (Micros - (u + 1)) * FracMod = Micros * FracMod - a
    BY <1>1
  <2> QED BY <2>1, <2>2, <1>1
<1>4. q < FracMod
  <2>1. Micros * q < Micros * FracMod
    <3> HIDE DEF q, a
    <3> QED BY <1>1, <1>2, <1>3
  <2> HIDE DEF q
  <2> QED BY <2>1, <1>1, <1>2, Cancel
<1>5. q >= 0
  <2>1. Micros * (-1) < Micros * q
    <3> HIDE DEF q, a
    <3> QED BY <1>1, <1>2
  <2> HIDE DEF q
  <2>2. -1 < q
    BY <2>1, <1>1, <1>2, Cancel
  <2> QED BY <2>2, <1>2
<1>6. q % FracMod = q
  <2> HIDE DEF q
  <2> QED BY <1>1, <1>2, <1>4, <1>5, SmallMod
<1> QED BY <1>2, <1>6 DEF FractionOf

\* Converting microseconds to a fraction and back adds at most one.
LEMMA UsecRoundTrip ==
    ASSUME NEW u \in 0..(Micros - 1), u # Micros - 1
    PROVE  UsecOf(FractionOf(u)) \in {u, u + 1}
<1> DEFINE f == FractionOf(u)
           r == (f * Micros) \div FracMod
<1>1. Micros \in Nat \ {0} /\ FracMod \in Nat \ {0} /\ Micros < FracMod /\ u \in Nat
  BY TimeAssumption
<1>2. f \in Nat
  BY FractionType, <1>1
<1>3. Micros * f <= (u + 1) * FracMod /\ (u + 1) * FracMod < Micros * f + Micros
  BY FractionExact
<1> HIDE DEF f
<1>4. r \in Int /\ FracMod * r <= f * Micros /\ f * Micros < FracMod * r + FracMod
  <2>1. f * Micros \in Int
    BY <1>1, <1>2
  <2> QED BY <2>1, <1>1, DivFacts
<1> HIDE DEF r
<1>5. r <= u + 1
  <2>1. FracMod * r <= FracMod * (u + 1)
    BY <1>1, <1>2, <1>3, <1>4
  <2> QED BY <2>1, <1>1, <1>4, Cancel
<1>6. u < r + 1
  <2>1. FracMod * u < FracMod * (r + 1)
    BY <1>1, <1>2, <1>3, <1>4
  <2> QED BY <2>1, <1>1, <1>4, Cancel
<1>7. r \in {u, u + 1}
  BY <1>1, <1>4, <1>5, <1>6
<1> QED BY <1>7 DEF UsecOf, f, r

\* In the last microsecond it wraps to 0.
LEMMA FractionWraps == FractionOf(Micros - 1) = 0
<1> DEFINE q == (Micros * FracMod) \div Micros
<1>1. Micros \in Nat \ {0} /\ FracMod \in Nat \ {0} /\ Micros * FracMod \in Int
  BY TimeAssumption
<1>2. q \in Int /\ Micros * q <= Micros * FracMod /\ Micros * FracMod < Micros * q + Micros
  BY <1>1, DivFacts
<1>3. q = FracMod
  <2> HIDE DEF q
  <2>1. Micros * FracMod < Micros * (q + 1)
    BY <1>1, <1>2
  <2>2. q <= FracMod /\ FracMod < q + 1
    BY <1>1, <1>2, <2>1, Cancel
  <2> QED BY <1>1, <1>2, <2>2
<1>4. FracMod % FracMod = 0
  BY <1>1
<1>5. (Micros - 1) + 1 = Micros
  BY <1>1
<1> QED BY <1>3, <1>4, <1>5 DEF FractionOf

\* No two readings within a second have the same fraction.
LEMMA FractionInjective ==
    ASSUME NEW u \in 0..(Micros - 1), NEW v \in 0..(Micros - 1),
           FractionOf(u) = FractionOf(v)
    PROVE  u = v
<1>1. Micros \in Nat \ {0} /\ FracMod \in Nat \ {0} /\ Micros < FracMod
      /\ u \in Nat /\ v \in Nat
  BY TimeAssumption
<1>2. ASSUME NEW x \in 0..(Micros - 1), NEW y \in 0..(Micros - 1),
             x # Micros - 1, y # Micros - 1, FractionOf(x) = FractionOf(y)
      PROVE  x < y + 1
  <2> DEFINE f == FractionOf(x)
  <2>1. f \in Int
    BY FractionType, <1>1
  <2>2. Micros * f <= (y + 1) * FracMod /\ (y + 1) * FracMod < Micros * f + Micros
    BY <1>2, FractionExact
  <2>3. Micros * f <= (x + 1) * FracMod /\ (x + 1) * FracMod < Micros * f + Micros
    BY <1>2, FractionExact
  <2>4. x \in Nat /\ y \in Nat
    BY <1>1
  <2> HIDE DEF f
  <2>5. FracMod * x < FracMod * (y + 1)
    BY <1>1, <2>1, <2>2, <2>3, <2>4
  <2> QED BY <2>5, <2>4, <1>1, Cancel
<1>3. ASSUME NEW x \in 0..(Micros - 1), x # Micros - 1 PROVE FractionOf(x) # 0
  <2>1. (x + 1) * FracMod < Micros * FractionOf(x) + Micros
    BY <1>3, FractionExact
  <2>2. SUFFICES ASSUME FractionOf(x) = 0 PROVE FALSE
    OBVIOUS
  <2>3. x \in Nat /\ x * FracMod \in Nat /\ (x + 1) * FracMod = x * FracMod + FracMod
    BY <1>1
  <2> QED BY <2>1, <2>2, <2>3, <1>1
<1>4. CASE u # Micros - 1 /\ v # Micros - 1
  BY <1>1, <1>2, <1>4
<1>5. CASE u = Micros - 1 \/ v = Micros - 1
  BY <1>3, <1>5, FractionWraps
<1> QED BY <1>4, <1>5

\* The decoded microseconds are in range.
LEMMA UsecType ==
    ASSUME NEW f \in 0..(FracMod - 1)
    PROVE  UsecOf(f) \in 0..(Micros - 1)
<1> DEFINE r == (f * Micros) \div FracMod
<1>1. Micros \in Nat \ {0} /\ FracMod \in Nat \ {0} /\ f \in Nat /\ f < FracMod
  BY TimeAssumption
<1>2. f * Micros \in Nat
  BY <1>1
<1>3. r \in Int /\ FracMod * r <= f * Micros /\ f * Micros < FracMod * r + FracMod
  BY <1>1, <1>2, DivFacts
<1> HIDE DEF r
<1>4. r < Micros
  <2>1. (FracMod - f) * Micros \in Nat \ {0}
    <3>1. FracMod - f \in Nat \ {0}
      BY <1>1
    <3> QED BY <3>1, <1>1
  <2>2. FracMod * r < FracMod * Micros
    BY <1>1, <1>2, <1>3, <2>1
  <2> QED BY <2>2, <1>1, <1>3, Cancel
<1>5. -1 < r
  <2>1. FracMod * (-1) < FracMod * r
    BY <1>1, <1>2, <1>3
  <2> QED BY <2>1, <1>1, <1>3, Cancel
<1>6. r \in 0..(Micros - 1)
  BY <1>1, <1>3, <1>4, <1>5
<1> QED BY <1>6 DEF UsecOf, r

\* The seconds survive the shift to the NTP epoch and back modulo 2^32.
LEMMA SecRoundTrip ==
    ASSUME NEW t \in 0..(SecMod - 1)
    PROVE  (((t + EpochDelta) % SecMod) - EpochDelta) % SecMod = t
<1> DEFINE a == t + EpochDelta
           m == a % SecMod
           q == a \div SecMod
           n == (m - EpochDelta) % SecMod
           p == (m - EpochDelta) \div SecMod
<1>1. SecMod \in Nat \ {0} /\ EpochDelta \in Int /\ a \in Int /\ t \in Int
  BY TimeAssumption
<1>2. q \in Int /\ m \in 0..(SecMod - 1) /\ a = SecMod * q + m
  <2> HIDE DEF a
  <2> QED BY <1>1, DivFacts
<1>3. p \in Int /\ n \in 0..(SecMod - 1) /\ m - EpochDelta = SecMod * p + n
  <2>1. m - EpochDelta \in Int
    BY <1>1, <1>2
  <2> HIDE DEF m
  <2> QED BY <2>1, <1>1, DivFacts
<1>4. t - n = SecMod * (p + q)
  <2> HIDE DEF m, n, p, q
  <2> QED BY <1>1, <1>2, <1>3
<1> HIDE DEF m, n, p, q
<1>5. SecMod * (p + q) < SecMod * 1 /\ SecMod * (-1) < SecMod * (p + q)
  BY <1>1, <1>3, <1>4
<1>6. p + q < 1 /\ -1 < p + q
  BY <1>1, <1>2, <1>3, <1>5, Cancel
<1>7. p + q = 0
  BY <1>2, <1>3, <1>6
<1>8. t = n
  BY <1>1, <1>3, <1>4, <1>7
<1> QED BY <1>8 DEF n, m

\* Instant orders struct timevals as Before does.
LEMMA InstantMonotone ==
    ASSUME NEW a \in Timeval, NEW b \in Timeval, Before(a, b)
    PROVE  Instant(a) < Instant(b) /\ Instant(a) <= Instant(b)
<1>1. a.sec \in Int /\ b.sec \in Int /\ a.usec \in 0..(Micros - 1) /\ b.usec \in 0..(Micros - 1)
      /\ Micros \in Nat
  BY TimeAssumption DEF Timeval
<1>2. CASE a.sec < b.sec
  <2>1. b.sec - a.sec - 1 \in Nat
    BY <1>1, <1>2
  <2>2. (b.sec - a.sec - 1) * Micros \in Nat
    BY <1>1, <2>1
  <2>3. (b.sec - a.sec - 1) * Micros = b.sec * Micros - a.sec * Micros - Micros
    BY <1>1
  <2> QED BY <1>1, <2>2, <2>3 DEF Instant
<1>3. CASE a.sec = b.sec /\ a.usec < b.usec
  BY <1>1, <1>3 DEF Instant
<1> QED BY <1>2, <1>3 DEF Before

\* An instant is a whole number of microseconds.
LEMMA InstantType ==
    ASSUME NEW tv \in Timeval
    PROVE  Instant(tv) \in Int
  BY TimeAssumption DEF Instant, Timeval

\* An instant the packets can carry.
Representable(tv) == tv \in Timeval /\ tv.sec \in 0..(SecMod - 1)

\* Different instants have different NTP timestamps.
LEMMA ConversionInjective ==
    ASSUME NEW a, NEW b, Representable(a), Representable(b),
           convert_unix_time_into_ntp_time(a) = convert_unix_time_into_ntp_time(b)
    PROVE  a = b
<1>1. (a.sec + EpochDelta) % SecMod = (b.sec + EpochDelta) % SecMod
      /\ FractionOf(a.usec) = FractionOf(b.usec)
  BY DEF convert_unix_time_into_ntp_time
<1>2. a.sec \in 0..(SecMod - 1) /\ b.sec \in 0..(SecMod - 1)
  BY DEF Representable
<1>3. a.sec = b.sec
  BY <1>1, <1>2, SecRoundTrip
<1>4. a.usec = b.usec
  BY <1>1, FractionInjective DEF Representable, Timeval
<1> QED BY <1>3, <1>4 DEF Representable, Timeval

\* Conversions stay within their types.
LEMMA ConversionType ==
    ASSUME NEW tv \in Timeval
    PROVE  convert_unix_time_into_ntp_time(tv) \in NtpTimestamp
<1>1. tv.sec + EpochDelta \in Int /\ SecMod \in Nat \ {0} /\ tv.usec \in 0..(Micros - 1)
  BY TimeAssumption DEF Timeval
<1>2. (tv.sec + EpochDelta) % SecMod \in 0..(SecMod - 1)
  BY <1>1, DivFacts
<1>3. FractionOf(tv.usec) \in 0..(FracMod - 1)
  BY <1>1, FractionType
<1> QED BY <1>2, <1>3 DEF convert_unix_time_into_ntp_time, NtpTimestamp

\* A timestamp of any packet decodes to a proper struct timeval.
LEMMA DecodingType ==
    ASSUME NEW ts \in NtpTimestamp
    PROVE  convert_ntp_time_into_unix_time(ts) \in Timeval
<1>1. ts.second - EpochDelta \in Int /\ SecMod \in Nat \ {0} /\ ts.fraction \in 0..(FracMod - 1)
  BY TimeAssumption DEF NtpTimestamp
<1>2. (ts.second - EpochDelta) % SecMod \in Int
  BY <1>1, DivFacts
<1>3. UsecOf(ts.fraction) \in 0..(Micros - 1)
  BY <1>1, UsecType
<1> QED BY <1>2, <1>3 DEF convert_ntp_time_into_unix_time, Timeval
-----------------------------------------------------------------------------
\* The instant a timestamp of a packet is decoded to.
InstantOf(ts) == Instant(convert_ntp_time_into_unix_time(ts))

\* What a reading becomes on its way through a packet: the second stays, and
\* the microseconds grow by at most one.
LEMMA RoundTripFacts ==
    ASSUME NEW tv, Representable(tv)
    PROVE  LET back == convert_ntp_time_into_unix_time(convert_unix_time_into_ntp_time(tv))
           IN  /\ back \in Timeval
               /\ back.sec = tv.sec
               /\ back.usec = UsecOf(FractionOf(tv.usec))
               /\ tv.usec # Micros - 1 => back.usec \in {tv.usec, tv.usec + 1}
<1> DEFINE back == convert_ntp_time_into_unix_time(convert_unix_time_into_ntp_time(tv))
<1>1. tv.sec \in 0..(SecMod - 1) /\ tv.usec \in 0..(Micros - 1)
  BY DEF Representable, Timeval
<1>2. back = [sec  |-> (((tv.sec + EpochDelta) % SecMod) - EpochDelta) % SecMod,
              usec |-> UsecOf(FractionOf(tv.usec))]
  BY DEF convert_ntp_time_into_unix_time, convert_unix_time_into_ntp_time
<1>3. back.sec = tv.sec
  BY <1>1, <1>2, SecRoundTrip
<1>4. back.usec \in 0..(Micros - 1)
  BY <1>1, <1>2, FractionType, UsecType
<1>5. tv.usec # Micros - 1 => back.usec \in {tv.usec, tv.usec + 1}
  BY <1>1, <1>2, UsecRoundTrip
<1>6. back = [sec |-> tv.sec, usec |-> back.usec]
  BY <1>2, <1>3
<1>7. back \in Timeval
  BY <1>1, <1>4, <1>6, TimeAssumption DEF Timeval
<1> QED BY <1>2, <1>3, <1>5, <1>7

\* Decoding a converted reading moves it by 0 or 1 microseconds.
LEMMA StampError ==
    ASSUME NEW tv, Representable(tv), tv.usec # Micros - 1
    PROVE  /\ Instant(tv) \in Int
           /\ InstantOf(convert_unix_time_into_ntp_time(tv)) \in Int
           /\ InstantOf(convert_unix_time_into_ntp_time(tv)) - Instant(tv) \in {0, 1}
<1> DEFINE back == convert_ntp_time_into_unix_time(convert_unix_time_into_ntp_time(tv))
<1>1. tv.sec \in Int /\ tv.usec \in Int /\ Micros \in Int
  BY TimeAssumption DEF Representable, Timeval
<1>2. back.sec = tv.sec /\ back.usec \in {tv.usec, tv.usec + 1}
  BY RoundTripFacts
<1>3. tv.sec * Micros \in Int
  BY <1>1
<1> HIDE DEF back
<1>4. Instant(back) \in Int /\ Instant(back) - Instant(tv) \in {0, 1} /\ Instant(tv) \in Int
  BY <1>1, <1>2, <1>3 DEF Instant
<1> QED BY <1>4 DEF InstantOf, back

\* A later reading is not decoded to an earlier instant.
LEMMA StampMonotone ==
    ASSUME NEW a, NEW b, Representable(a), Representable(b), Before(a, b),
           a.usec # Micros - 1, b.usec # Micros - 1
    PROVE  InstantOf(convert_unix_time_into_ntp_time(a))
               <= InstantOf(convert_unix_time_into_ntp_time(b))
<1> DEFINE A == InstantOf(convert_unix_time_into_ntp_time(a))
           B == InstantOf(convert_unix_time_into_ntp_time(b))
<1>1. Instant(a) \in Int /\ A \in Int /\ A - Instant(a) \in {0, 1}
  BY StampError
<1>2. Instant(b) \in Int /\ B \in Int /\ B - Instant(b) \in {0, 1}
  BY StampError
<1>3. Instant(a) < Instant(b)
  BY InstantMonotone DEF Representable
<1> HIDE DEF A, B
<1>4. A <= B
  BY <1>1, <1>2, <1>3
<1> QED BY <1>4 DEF A, B

\* A clock that is n seconds ahead is decoded to n seconds later.
LEMMA StampShifted ==
    ASSUME NEW tv, NEW n \in Int, NEW ahead, Representable(tv), Representable(ahead),
           ahead.sec = tv.sec + n, ahead.usec = tv.usec
    PROVE  InstantOf(convert_unix_time_into_ntp_time(ahead))
               = InstantOf(convert_unix_time_into_ntp_time(tv)) + n * Micros
<1> DEFINE x == convert_ntp_time_into_unix_time(convert_unix_time_into_ntp_time(tv))
           y == convert_ntp_time_into_unix_time(convert_unix_time_into_ntp_time(ahead))
<1>1. x \in Timeval /\ y \in Timeval /\ y.sec = x.sec + n /\ y.usec = x.usec
  BY RoundTripFacts
<1> HIDE DEF x, y
<1>2. x.sec \in Int /\ x.usec \in Int /\ Micros \in Int
  BY <1>1, TimeAssumption DEF Timeval
<1>3. (x.sec + n) * Micros = x.sec * Micros + n * Micros
  BY <1>2
<1>4. x.sec * Micros \in Int /\ n * Micros \in Int
  BY <1>2
<1>5. Instant(y) = Instant(x) + n * Micros
  BY <1>1, <1>2, <1>3, <1>4 DEF Instant
<1> QED BY <1>5 DEF InstantOf, x, y

\* Abs is the larger of a number and its opposite.
LEMMA AbsBound ==
    ASSUME NEW a \in Int, NEW b \in Int, a <= b, -a <= b
    PROVE  Abs(a) <= b
  BY DEF Abs
=============================================================================
