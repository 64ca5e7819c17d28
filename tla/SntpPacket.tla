----------------------------- MODULE SntpPacket -----------------------------
(***************************************************************************)
(* struct ntp_packet and the functions that build and judge packets: the   *)
(* request of the client, the reply of the server, and the check each side *)
(* makes on what it receives.  The fields no code reads back (poll,        *)
(* precision, the root and reference fields) are left out, and timestamps  *)
(* stand for their value, not for its byte order: both programs apply      *)
(* htonl and ntohl in pairs.                                               *)
(***************************************************************************)
EXTENDS NtpTime

ntp_packet ==
    [li_vn_mode          : 0..255,
     stratum             : 0..255,
     originate_timestamp : NtpTimestamp,
     receive_timestamp   : NtpTimestamp,
     transmit_timestamp  : NtpTimestamp]

\* li_vn_mode packs leap indicator (2 bits), version (3 bits), mode (3 bits).
Mode(pkt) == pkt.li_vn_mode % 8
Version(pkt) == (pkt.li_vn_mode \div 8) % 8

MODE_CLIENT == 3
MODE_SERVER == 4

\* The request of a client whose clock reads now: version 4, mode 3.
create_packet(now) ==
    [li_vn_mode          |-> 4 * 8 + MODE_CLIENT,
     stratum             |-> 0,
     originate_timestamp |-> ZeroTimestamp,
     receive_timestamp   |-> ZeroTimestamp,
     transmit_timestamp  |-> convert_unix_time_into_ntp_time(now)]

\* Fault: the receive and transmit timestamps change places.
create_reply_packet_swapped(pkt, time_of_request, now) ==
    [li_vn_mode          |-> Version(pkt) * 8 + MODE_SERVER,
     stratum             |-> 2,
     originate_timestamp |-> pkt.transmit_timestamp,
     receive_timestamp   |-> convert_unix_time_into_ntp_time(now),
     transmit_timestamp  |-> time_of_request]

\* The reply to request pkt, which arrived at time_of_request, by a server
\* whose clock reads now.
create_reply_packet(pkt, time_of_request, now) ==
    [li_vn_mode          |-> Version(pkt) * 8 + MODE_SERVER,
     stratum             |-> 2,
     originate_timestamp |-> pkt.transmit_timestamp,
     receive_timestamp   |-> time_of_request,
     transmit_timestamp  |-> convert_unix_time_into_ntp_time(now)]

\* Fault: the mode is not looked at.
check_packet_anyMode(pkt) == IF Version(pkt) \in 1..4 THEN 0 ELSE 1

\* The server's check of a request: 0 when it is to be answered.
check_packet(pkt) ==
    IF Mode(pkt) = MODE_CLIENT /\ Version(pkt) \in 1..4 THEN 0 ELSE 1

\* Fault: the originate timestamp of the reply is not compared.
run_sanity_checks_noOriginate(req, rep) ==
    IF /\ rep.stratum <= 15
       /\ rep.transmit_timestamp # ZeroTimestamp
       /\ Mode(rep) = MODE_SERVER
       /\ Version(rep) = Version(req)
    THEN 0 ELSE 1

\* The client's check of a reply to its request: 0 when it can be trusted.
run_sanity_checks(req, rep) ==
    IF /\ rep.originate_timestamp = req.transmit_timestamp
       /\ rep.stratum <= 15
       /\ rep.transmit_timestamp # ZeroTimestamp
       /\ Mode(rep) = MODE_SERVER
       /\ Version(rep) = Version(req)
    THEN 0 ELSE 1
=============================================================================
