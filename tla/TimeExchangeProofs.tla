------------------------- MODULE TimeExchangeProofs -------------------------
(***************************************************************************)
(* The exchange of timestamps, for every clock resolution, field width,    *)
(* epoch and skew: the conversions keep the readings, and the error bound  *)
(* is sound.                                                               *)
(***************************************************************************)
EXTENDS TimeExchange, NtpTimeProofs

\* What a reading becomes on its way through a packet.
LEMMA ThroughPacketFacts ==
    ASSUME NEW tv, Representable(tv)
    PROVE  /\ ThroughPacket(tv) \in Timeval
           /\ ThroughPacket(tv).sec = tv.sec
           /\ tv.usec # Micros - 1 => ThroughPacket(tv).usec \in {tv.usec, tv.usec + 1}
  BY RoundTripFacts DEF ThroughPacket

\* Both clocks of the exchange are representable.
LEMMA ClocksRepresentable ==
    ASSUME NEW tv \in Instants
    PROVE  Representable(tv) /\ Representable(ServerClock(tv))
<1>1. tv \in Timeval /\ tv.sec \in 0..(SecMod - 1) /\ tv.sec + Skew \in 0..(SecMod - 1)
  BY ExchangeAssumption
<1>2. ServerClock(tv).sec = tv.sec + Skew /\ ServerClock(tv).usec = tv.usec
  BY <1>1 DEF ServerClock, Timeval
<1>3. ServerClock(tv) \in Timeval
  BY <1>1, <1>2, TimeAssumption DEF ServerClock, Timeval
<1> QED BY <1>1, <1>2, <1>3 DEF Representable

\* Type correctness: the programs only ever handle proper struct timevals,
\* tv_usec below 10^6 also after the conversions.
THEOREM TypeCorrect == Spec => []TypeOK
<1>1. Init => TypeOK
  BY DEF Init, TypeOK
<1>2. TypeOK /\ [Next]_vars => TypeOK'
  <2> SUFFICES ASSUME TypeOK, [Next]_vars PROVE TypeOK'
    OBVIOUS
  <2>1. clock \in Timeval /\ ThroughPacket(clock) \in Timeval
        /\ ThroughPacket(ServerClock(clock)) \in Timeval
    BY ClocksRepresentable, ThroughPacketFacts DEF TypeOK, Representable
  <2>2. ASSUME NEW reading \in Timeval, Take(reading), Len(stamp) < 4 PROVE TypeOK'
    BY <2>1, <2>2 DEF TypeOK, Take
  <2>3. CASE Tick
    BY <2>3 DEF TypeOK, Tick
  <2>4. CASE StampRequest
    BY <2>1, <2>2, <2>4 DEF StampRequest
  <2>5. CASE StampAtServer
    <3>1. Len(stamp) < 4
      <4>1. Len(stamp) = 1 \/ Len(stamp) = 2
        BY <2>5, Zenon DEF StampAtServer
      <4>2. CASE Len(stamp) = 1
        BY <4>2
      <4>3. CASE Len(stamp) = 2
        BY <4>3
      <4> QED BY <4>1, <4>2, <4>3
    <3>2. Take(ThroughPacket(ServerClock(clock)))
      BY <2>5 DEF StampAtServer
    <3> QED BY <2>1, <2>2, <3>1, <3>2
  <2>6. CASE StampArrival
    BY <2>1, <2>2, <2>6 DEF StampArrival
  <2>7. CASE UNCHANGED vars
    BY <2>7 DEF TypeOK, vars
  <2> QED BY <2>3, <2>4, <2>5, <2>6, <2>7 DEF Next
<1> QED BY <1>1, <1>2, PTL DEF Spec

\* Conversion to NTP time and back keeps the second and is off by at most a
\* microsecond, for every clock reading (convert_unix_time_into_ntp_time and
\* convert_ntp_time_into_unix_time), the last microsecond of a second apart.
THEOREM RoundTripHolds == Spec => []RoundTrip
<1>1. TypeOK => RoundTrip
  BY ClocksRepresentable, ThroughPacketFacts DEF TypeOK, RoundTrip, Representable
<1> QED BY <1>1, TypeCorrect, PTL

\* The request timestamps of two different readings of the clock differ, so
\* the originate check of run_sanity_checks separates their replies.
THEOREM StampsDistinctHolds == Spec => []StampsDistinct
<1>1. TypeOK => StampsDistinct
  <2> SUFFICES ASSUME TypeOK, NEW tv \in Instants,
                      convert_unix_time_into_ntp_time(tv)
                          = convert_unix_time_into_ntp_time(clock)
               PROVE  tv = clock
    BY DEF StampsDistinct
  <2>1. Representable(tv) /\ Representable(clock)
    BY ClocksRepresentable DEF TypeOK
  <2> QED BY <2>1, ConversionInjective
<1> QED BY <1>1, TypeCorrect, PTL
-----------------------------------------------------------------------------
\* The i-th reading of the exchange, taken when the clock was tv, as the
\* client decodes it.
Reading(i, tv) ==
    IF i = 1 THEN ThroughPacket(tv)
    ELSE IF i = 4 THEN tv ELSE ThroughPacket(ServerClock(tv))

\* The readings are what the clock made them, taken one after the other.
History ==
    /\ \A i \in 1..Len(stamp) :
           /\ taken[i] \in Instants
           /\ stamp[i] = Reading(i, taken[i])
           /\ Instant(taken[i]) <= Instant(clock)
    /\ \A i, j \in 1..Len(stamp) : i <= j => Instant(taken[i]) <= Instant(taken[j])

Inv == TypeOK /\ History

\* The history of readings is kept by every step.
LEMMA HistoryInductive == Spec => []Inv
<1>1. Init => Inv
  BY DEF Init, Inv, TypeOK, History
<1>2. Inv /\ TypeOK' /\ [Next]_vars => Inv'
  <2> SUFFICES ASSUME Inv, TypeOK', [Next]_vars PROVE History'
    BY DEF Inv
  <2> USE DEF Inv
  <2>1. clock \in Timeval /\ clock' \in Timeval
        /\ \A i \in 1..Len(stamp) : taken[i] \in Timeval
    BY ExchangeAssumption DEF TypeOK, History
  <2>2. ASSUME NEW reading, Take(reading), reading = Reading(Len(stamp) + 1, clock)
        PROVE  History'
    <3>1. /\ Len(stamp') = Len(stamp) + 1 /\ Len(stamp) \in Nat
          /\ stamp'[Len(stamp) + 1] = reading
          /\ taken'[Len(stamp) + 1] = clock
          /\ \A i \in 1..Len(stamp) : stamp'[i] = stamp[i] /\ taken'[i] = taken[i]
      BY <2>2 DEF Take, TypeOK
    <3>2. clock \in Instants /\ clock' = clock /\ Instant(clock) \in Int
      BY <2>1, <2>2, InstantType DEF Take, TypeOK
    <3>3. ASSUME NEW i \in 1..Len(stamp')
          PROVE  /\ taken'[i] \in Instants
                 /\ stamp'[i] = Reading(i, taken'[i])
                 /\ Instant(taken'[i]) <= Instant(clock')
      <4>1. CASE i = Len(stamp) + 1
        BY <2>2, <3>1, <3>2, <4>1
      <4>2. CASE i # Len(stamp) + 1
        <5>1. i \in 1..Len(stamp)
          BY <3>1, <4>2
        <5> QED BY <3>1, <3>2, <5>1 DEF History
      <4> QED BY <4>1, <4>2
    <3>4. ASSUME NEW i \in 1..Len(stamp'), NEW j \in 1..Len(stamp'), i <= j
          PROVE  Instant(taken'[i]) <= Instant(taken'[j])
      <4>1. CASE j = Len(stamp) + 1
        BY <3>1, <3>2, <3>3, <4>1
      <4>2. CASE j # Len(stamp) + 1
        <5>1. i \in 1..Len(stamp) /\ j \in 1..Len(stamp)
          BY <3>1, <3>4, <4>2
        <5> QED BY <3>1, <3>4, <5>1 DEF History
      <4> QED BY <4>1, <4>2
    <3> QED BY <3>3, <3>4 DEF History, Reading
  <2>3. CASE Tick
    <3>1. Instant(clock) <= Instant(clock')
      BY <2>1, <2>3, InstantMonotone DEF Tick
    <3>2. taken' = taken /\ stamp' = stamp
      BY <2>3 DEF Tick
    <3>3. ASSUME NEW i \in 1..Len(stamp) PROVE Instant(taken[i]) <= Instant(clock')
      <4>1. Instant(taken[i]) <= Instant(clock)
        BY DEF History
      <4>2. Instant(taken[i]) \in Int /\ Instant(clock) \in Int /\ Instant(clock') \in Int
        BY <2>1, InstantType
      <4> QED BY <3>1, <4>1, <4>2
    <3> QED BY <3>2, <3>3 DEF History, Reading
  <2>4. CASE StampRequest
    BY <2>2, <2>4 DEF StampRequest, Reading
  <2>5. CASE StampAtServer
    <3>1. Len(stamp) + 1 \in {2, 3}
      <4>1. Len(stamp) = 1 \/ Len(stamp) = 2
        BY <2>5, Zenon DEF StampAtServer
      <4>2. CASE Len(stamp) = 1
        BY <4>2
      <4>3. CASE Len(stamp) = 2
        BY <4>3
      <4> QED BY <4>1, <4>2, <4>3
    <3>2. Reading(Len(stamp) + 1, clock) = ThroughPacket(ServerClock(clock))
      BY <3>1 DEF Reading
    <3> QED BY <2>2, <2>5, <3>2 DEF StampAtServer
  <2>6. CASE StampArrival
    BY <2>2, <2>6 DEF StampArrival, Reading
  <2>7. CASE UNCHANGED vars
    BY <2>7 DEF History, Reading, vars
  <2> QED BY <2>3, <2>4, <2>5, <2>6, <2>7 DEF Next
<1> QED BY <1>1, <1>2, TypeCorrect, PTL DEF Spec

\* Decoding a converted reading moves it by 0 or 1 microseconds.
LEMMA ReadingError ==
    ASSUME NEW tv, Representable(tv), tv.usec # Micros - 1
    PROVE  /\ Instant(tv) \in Int /\ Instant(ThroughPacket(tv)) \in Int
           /\ Instant(ThroughPacket(tv)) - Instant(tv) \in {0, 1}
  BY StampError DEF ThroughPacket, InstantOf

\* The bound is sound as soon as the readings are taken in order and each of
\* the three converted ones is off by 0 or 1: T1 to T4 are the true instants,
\* e1 to e3 the errors.
LEMMA BoundArithmetic ==
    ASSUME NEW T1 \in Int, NEW T2 \in Int, NEW T3 \in Int, NEW T4 \in Int,
           NEW e1 \in {0, 1}, NEW e2 \in {0, 1}, NEW e3 \in {0, 1}, NEW d \in Int,
           T1 <= T2, T2 <= T3, T3 <= T4
    PROVE  LET offset == ((T2 + d + e2) - (T1 + e1)) + ((T3 + d + e3) - T4)
               bound  == (T4 - (T1 + e1)) - ((T3 + d + e3) - (T2 + d + e2))
           IN  /\ offset - 2 * d <= 2 * (bound + 2)
               /\ -(offset - 2 * d) <= 2 * (bound + 2)
  OBVIOUS

\* What print_server_results reports brackets the true clock offset, for any
\* delays, any skew and any clock resolution (calculate_clock_offset and
\* calculate_error_bound on converted readings).
THEOREM ErrorBoundHolds == Spec => []ErrorBoundSound
<1>1. Inv => ErrorBoundSound
  <2> SUFFICES ASSUME Inv, Len(stamp) = 4, NoneAtLastMicrosecond
               PROVE  Brackets(Offset, ErrorBound, Skew, 2)
    BY DEF ErrorBoundSound
  <2> DEFINE T(i) == Instant(taken[i])
             e1 == Instant(stamp[1]) - T(1)
             d == Skew * Micros
             e2 == Instant(stamp[2]) - (T(2) + d)
             e3 == Instant(stamp[3]) - (T(3) + d)
  <2>1. Skew \in Int /\ Micros \in Int /\ d \in Int
    BY ExchangeAssumption, TimeAssumption
  <2>2. \A i \in 1..4 : taken[i] \in Instants /\ taken[i] \in Timeval /\ T(i) \in Int
    BY ExchangeAssumption, InstantType DEF Inv, History
  <2>3. T(1) <= T(2) /\ T(2) <= T(3) /\ T(3) <= T(4)
    BY DEF Inv, History
  <2>4. stamp[1] = ThroughPacket(taken[1]) /\ stamp[4] = taken[4]
        /\ stamp[2] = ThroughPacket(ServerClock(taken[2]))
        /\ stamp[3] = ThroughPacket(ServerClock(taken[3]))
    BY DEF Inv, History, Reading
  <2>5. e1 \in {0, 1} /\ Instant(stamp[1]) \in Int
    BY <2>2, <2>4, ClocksRepresentable, ReadingError DEF NoneAtLastMicrosecond
  <2>6. ASSUME NEW i \in {2, 3}
        PROVE  /\ Instant(ThroughPacket(ServerClock(taken[i]))) \in Int
               /\ Instant(ThroughPacket(ServerClock(taken[i]))) - (T(i) + d) \in {0, 1}
    <3>1. i \in 1..3 /\ taken[i] \in Timeval /\ taken[i] \in Instants
      BY <2>2
    <3>2. ServerClock(taken[i]).sec = taken[i].sec + Skew
          /\ ServerClock(taken[i]).usec = taken[i].usec
      BY <3>1 DEF ServerClock, Timeval
    <3>3. Instant(ServerClock(taken[i])) = T(i) + d
      <4>1. taken[i].sec \in Int /\ taken[i].usec \in Int
        BY <3>1, TimeAssumption DEF Timeval
      <4>2. (taken[i].sec + Skew) * Micros = taken[i].sec * Micros + Skew * Micros
        BY <2>1, <4>1
      <4> QED BY <2>1, <3>2, <4>1, <4>2 DEF Instant
    <3>4. taken[i].usec # Micros - 1
      BY <3>1 DEF NoneAtLastMicrosecond
    <3> QED BY <3>1, <3>2, <3>3, <3>4, ClocksRepresentable, ReadingError
  <2>7. e2 \in {0, 1} /\ e3 \in {0, 1} /\ Instant(stamp[2]) \in Int /\ Instant(stamp[3]) \in Int
    BY <2>4, <2>6
  <2>8. Instant(stamp[1]) = T(1) + e1 /\ Instant(stamp[2]) = T(2) + d + e2
        /\ Instant(stamp[3]) = T(3) + d + e3 /\ Instant(stamp[4]) = T(4)
    <3>1. Instant(stamp[4]) = T(4)
      BY <2>4
    <3>2. \A x, y \in Int : x = y + (x - y)
      OBVIOUS
    <3>3. T(1) \in Int /\ T(2) + d \in Int /\ T(3) + d \in Int
      <4> HIDE DEF T, d
      <4> QED BY <2>1, <2>2
    <3>4. Instant(stamp[1]) = T(1) + e1
      BY <2>5, <3>2, <3>3
    <3>5. Instant(stamp[2]) = T(2) + d + e2 /\ Instant(stamp[3]) = T(3) + d + e3
      BY <2>7, <3>2, <3>3
    <3> QED BY <3>1, <3>4, <3>5
  <2>9. /\ Offset = ((T(2) + d + e2) - (T(1) + e1)) + ((T(3) + d + e3) - T(4))
        /\ ErrorBound = (T(4) - (T(1) + e1)) - ((T(3) + d + e3) - (T(2) + d + e2))
    <3> HIDE DEF e1, e2, e3, d, T
    <3> QED BY <2>8 DEF Offset, ErrorBound, calculate_clock_offset, calculate_error_bound
  <2>10. T(1) \in Int /\ T(2) \in Int /\ T(3) \in Int /\ T(4) \in Int
    BY <2>2
  <2>11. Offset - 2 * d <= 2 * (ErrorBound + 2) /\ -(Offset - 2 * d) <= 2 * (ErrorBound + 2)
    <3> HIDE DEF e1, e2, e3, d, T
    <3> QED BY <2>1, <2>3, <2>5, <2>7, <2>9, <2>10, BoundArithmetic
  <2>12. 2 * d = 2 * Skew * Micros
    BY <2>1
  <2>13. Abs(Offset - 2 * Skew * Micros) <= 2 * (ErrorBound + 2)
    <3> HIDE DEF d
    <3> QED BY <2>11, <2>12 DEF Abs
  <2> QED BY <2>13 DEF Brackets
<1> QED BY <1>1, HistoryInductive, PTL
=============================================================================
