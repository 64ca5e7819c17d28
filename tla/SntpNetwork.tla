---------------------------- MODULE SntpNetwork ----------------------------
(***************************************************************************)
(* What client and server share: the clock they read with gettimeofday and *)
(* the UDP network under send_SNTP_packet and recieve_SNTP_packet.  The    *)
(* network may lose, reorder, delay and duplicate datagrams.               *)
(*                                                                         *)
(* A datagram carries, besides its addresses and packet, two history       *)
(* fields no code reads: id numbers the client request it is or answers,   *)
(* by names the host that built the packet.                                *)
(***************************************************************************)
EXTENDS SntpPacket, FiniteSets

CONSTANTS
    Hosts,          \* IPv4 addresses
    Client,         \* the address of the client's machine
    Ports,          \* local ports a client socket can be bound to, and so the
                    \* bound on the sockets the client can have open
    Subseconds,     \* the values tv_usec takes when the programs look
    MaxInFlight     \* bound: datagrams in the network at a time

ASSUME NetworkAssumption ==
    /\ Client \in Hosts
    /\ Ports # {}
    /\ Subseconds \subseteq 0..(Micros - 1)
    /\ MaxInFlight \in Nat

VARIABLES
    clock,          \* the client's clock, a struct timeval
    net             \* datagrams in flight

netVars == <<clock, net>>

\* port is the client's port, on either side of the exchange.
Datagram ==
    [src : Hosts, dst : Hosts, port : Ports, pkt : ntp_packet, id : Nat, by : Hosts]

\* sendto succeeds: the datagram is in flight, or lost on the way.
SendOK(d) ==
    \/ net' = net
    \/ Cardinality(net) < MaxInFlight /\ net' = net \cup {d}

\* send_SNTP_packet returns code; on an error nothing leaves the machine.
send_SNTP_packet(d, code) ==
    IF code = 0 THEN SendOK(d) ELSE net' = net

\* recvfrom yields d: the network may hold a second copy.
recieve_SNTP_packet(d) ==
    /\ d \in net
    /\ net' \in {net, net \ {d}}

\* Time passes: to the next instant at which the clock is looked at.
AdvanceClock ==
    LET later == {tv \in [sec : {clock.sec, clock.sec + 1}, usec : Subseconds] :
                      Before(clock, tv)}
    IN  \E tv \in later :
            /\ \A other \in later : ~ Before(other, tv)
            /\ clock' = tv

NetTypeOK ==
    /\ clock \in Timeval
    /\ net \subseteq Datagram
=============================================================================
