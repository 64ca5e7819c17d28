----------------------------- MODULE ServerLoad -----------------------------
(***************************************************************************)
(* sntpserver under load: several machines send it packets, valid requests *)
(* and others, over a network that delays, reorders and repeats them,      *)
(* while the server works through one client_req at a time.                *)
(***************************************************************************)
EXTENDS SntpServer

CONSTANTS
    Senders,        \* machines that send packets to the servers
    FirstBytes,     \* the li_vn_mode values of the packets they send
    StartSec,       \* the second in which the system starts
    MaxPackets,     \* bound: packets sent
    MaxSec          \* bound: the clock

ASSUME LoadAssumption ==
    /\ Senders \subseteq Hosts \ Servers
    /\ FirstBytes \subseteq 0..255
    /\ StartSec \in Nat
    /\ MaxPackets \in Nat
    /\ MaxSec \in Nat

VARIABLE asked      \* history: the packets sent to the servers so far

vars == <<netVars, serverVars, asked>>

Init ==
    /\ clock \in [sec : {StartSec}, usec : Subseconds]
    /\ net = {}
    /\ ServerInit
    /\ asked = {}

\* A machine sends a packet whose transmit timestamp is the time.
Ask ==
    /\ Cardinality(asked) < MaxPackets
    /\ \E h \in Senders, s \in Servers, p \in Ports, b \in FirstBytes :
           LET d == [src |-> h, dst |-> s, port |-> p,
                     pkt |-> [create_packet(clock) EXCEPT !.li_vn_mode = b],
                     id |-> Cardinality(asked), by |-> h]
           IN  SendOK(d) /\ asked' = asked \cup {d}
    /\ UNCHANGED <<clock, serverVars>>

Tick ==
    /\ clock.sec < MaxSec
    /\ AdvanceClock
    /\ UNCHANGED <<net, serverVars, asked>>

Next ==
    \/ Ask
    \/ Tick
    \/ ServerNext /\ UNCHANGED asked

Spec == Init /\ [][Next]_vars
-----------------------------------------------------------------------------
TypeOK ==
    /\ NetTypeOK
    /\ ServerTypeOK
    /\ asked \subseteq Datagram

Replies == {d \in net : d.by \in Servers}

\* Reply d is what the server owes the sender of r: it goes to where r came
\* from, carries r's transmit timestamp and version, and r was a request.
Answers(d, r) ==
    /\ r.id = d.id /\ r.dst = d.by
    /\ r.src = d.dst /\ r.port = d.port
    /\ d.pkt.originate_timestamp = r.pkt.transmit_timestamp
    /\ Version(d.pkt) = Version(r.pkt) /\ Mode(d.pkt) = MODE_SERVER
    /\ Mode(r.pkt) = MODE_CLIENT /\ Version(r.pkt) \in 1..4

\* Though main serves every machine out of the one client_req, a reply never
\* mixes two requests, and no packet that is not a request is answered.
AnswersItsRequest == \A d \in Replies : \E r \in asked : Answers(d, r)

Decoded(ts) == Instant(convert_ntp_time_into_unix_time(ts))

\* The timestamps of a reply tell the story in order: on the server's clock,
\* the request was sent, then received, then the reply sent, all in the past.
\* (Not so for readings in the last microsecond of a second, whose fraction
\* convert_unix_time_into_ntp_time wraps to 0.)
ReplyTimesOrdered ==
    Micros - 1 \notin Subseconds =>
        \A d \in Replies :
            /\ Decoded(d.pkt.originate_timestamp) + Skew[d.by] * Micros
                   <= Decoded(d.pkt.receive_timestamp)
            /\ Decoded(d.pkt.receive_timestamp) <= Decoded(d.pkt.transmit_timestamp)
            /\ Decoded(d.pkt.transmit_timestamp) <= Instant(HostClock(d.by)) + 1
=============================================================================
