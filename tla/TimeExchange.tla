---------------------------- MODULE TimeExchange ----------------------------
(***************************************************************************)
(* One request and its reply, seen only through the four clock readings    *)
(* the programs take: the client stamps the request (create_packet), the   *)
(* server stamps its arrival and the reply (main, create_reply_packet),    *)
(* the client stamps the arrival of the reply (recieve_SNTP_packet).       *)
(* Three of the four readings travel through the NTP conversion; the last  *)
(* one does not.  clock is the client's clock, and the server's clock is   *)
(* Skew seconds ahead of it, so Skew is what the client tries to measure.  *)
(***************************************************************************)
EXTENDS NtpTime, Sequences

CONSTANTS
    Skew,       \* seconds by which the server's clock leads the client's
    Instants    \* the clock values considered

ASSUME ExchangeAssumption ==
    /\ Skew \in Int
    /\ Instants \subseteq Timeval
    /\ \A tv \in Instants : tv.sec \in 0..(SecMod - 1)
                            /\ tv.sec + Skew \in 0..(SecMod - 1)

VARIABLES
    clock,      \* the client's clock
    taken,      \* clock when each reading so far was taken (history)
    stamp       \* the readings so far, as the client decodes them

vars == <<clock, taken, stamp>>

\* A reading put into a packet and decoded by the client on arrival
\* (get_timestamps_from_packet_in_epoch_time).
ThroughPacket(tv) ==
    convert_ntp_time_into_unix_time(convert_unix_time_into_ntp_time(tv))

ServerClock(tv) == [tv EXCEPT !.sec = @ + Skew]

Init ==
    /\ clock \in Instants
    /\ taken = << >>
    /\ stamp = << >>

Tick ==
    /\ clock' \in {tv \in Instants : Before(clock, tv)}
    /\ UNCHANGED <<taken, stamp>>

Take(reading) ==
    /\ taken' = Append(taken, clock)
    /\ stamp' = Append(stamp, reading)
    /\ UNCHANGED clock

\* create_packet: the transmit timestamp of the request, t1.
StampRequest == Len(stamp) = 0 /\ Take(ThroughPacket(clock))

\* The server's main and create_reply_packet: t2 and t3.
StampAtServer ==
    /\ Len(stamp) \in {1, 2}
    /\ Take(ThroughPacket(ServerClock(clock)))

\* recieve_SNTP_packet: the arrival of the reply, t4, is not converted.
StampArrival == Len(stamp) = 3 /\ Take(clock)

Next == Tick \/ StampRequest \/ StampAtServer \/ StampArrival

Spec == Init /\ [][Next]_vars
-----------------------------------------------------------------------------
TypeOK ==
    /\ clock \in Instants
    /\ taken \in Seq(Timeval)
    /\ stamp \in Seq(Timeval)
    /\ Len(taken) = Len(stamp)
    /\ Len(stamp) \in 0..4

Offset == calculate_clock_offset(stamp[1], stamp[2], stamp[3], stamp[4])
ErrorBound == calculate_error_bound(stamp[1], stamp[2], stamp[3], stamp[4])

\* No converted reading was taken in the last microsecond of a second.
NoneAtLastMicrosecond == \A i \in 1..3 : taken[i].usec # Micros - 1

\* What print_server_results reports, "offset +/- error bound", brackets the
\* true clock offset whatever the delays of the network and of the server:
\* the 2 microseconds pay for the rounding of the NTP conversions, and the
\* last microsecond of a second is left out (see ReportedBoundHolds).
ErrorBoundSound ==
    Len(stamp) = 4 /\ NoneAtLastMicrosecond => Brackets(Offset, ErrorBound, Skew, 2)

\* The same claim with no exception, as the "%f +/- %f" of
\* print_server_results states it.  The conversion of usec = 999999 wraps the
\* fraction to 0 without carrying into the seconds, so it does not hold.
ReportedBoundHolds == Len(stamp) = 4 => Brackets(Offset, ErrorBound, Skew, 2)

\* Conversion to NTP time and back (convert_unix_time_into_ntp_time, then
\* convert_ntp_time_into_unix_time) keeps the second, across the wrap of the
\* 32-bit seconds field too, and is off by at most a microsecond.
RoundTrip ==
    /\ ThroughPacket(clock).sec = clock.sec
    /\ clock.usec # Micros - 1 =>
           ThroughPacket(clock).usec \in {clock.usec, clock.usec + 1}

\* Two readings of get_ntp_time_of_day that differ in the clock differ in the
\* packet: the originate check of run_sanity_checks can tell them apart.
StampsDistinct ==
    \A tv \in Instants :
        convert_unix_time_into_ntp_time(tv) = convert_unix_time_into_ntp_time(clock)
            => tv = clock
=============================================================================
