----------------------------- MODULE SntpServer -----------------------------
(***************************************************************************)
(* sntpserver.c: start-up, then the endless loop that receives a packet,   *)
(* stamps and checks it, and answers it.  The loop serves one request at a *)
(* time out of client_req, and keeps nothing between requests.             *)
(***************************************************************************)
EXTENDS SntpNetwork, Sequences

CONSTANTS
    Servers,        \* hosts that run sntpserver
    ReplyFrom,      \* source addresses a server's replies may carry: the
                    \* socket is bound to INADDR_ANY, so on a machine with
                    \* several addresses the routing table chooses
    Skew            \* seconds by which a host's clock leads the client's

ASSUME ServerAssumption ==
    /\ Servers \subseteq Hosts \ {Client}
    /\ ReplyFrom \in [Servers -> SUBSET Hosts]
    /\ Skew \in [Hosts -> Int]

VARIABLES
    spc,            \* per server: "init", "listen", "reply" or "exit"
    client_req      \* per server: the request being served (a sequence of
                    \* at most one, empty until the first packet arrives)

serverVars == <<spc, client_req>>

\* The clock of host h.
HostClock(h) == [clock EXCEPT !.sec = @ + Skew[h]]

ServerInit ==
    /\ spc = [s \in Servers |-> "init"]
    /\ client_req = [s \in Servers |-> << >>]

\* initialise_server and setup_manycast: any of socket, setsockopt, bind and
\* IP_ADD_MEMBERSHIP may fail, and main then exits.
InitialiseServer(s) ==
    /\ spc[s] = "init"
    /\ \E code \in {0, 1} :
           spc' = [spc EXCEPT ![s] = IF code = 0 THEN "listen" ELSE "exit"]
    /\ UNCHANGED <<clock, net, client_req>>

\* The first half of the loop: a packet arrives, is stamped with the time of
\* its arrival and checked; a packet that fails the check is ignored.
ServeReceive(s) ==
    /\ spc[s] = "listen"
    /\ \E d \in net :
           /\ d.dst = s
           /\ recieve_SNTP_packet(d)
           /\ client_req' = [client_req EXCEPT ![s] =
                  << [dgram |-> d,
                      time_of_request |-> convert_unix_time_into_ntp_time(HostClock(s))] >>]
           /\ spc' = [spc EXCEPT ![s] =
                  IF check_packet(d.pkt) = 0 THEN "reply" ELSE "listen"]
    /\ UNCHANGED clock

\* The second half: build the reply and send it back to where the request
\* came from.  A failed send is not retried.
ServeReply(s) ==
    /\ spc[s] = "reply"
    /\ LET req == client_req[s][1].dgram
       IN  \E from \in ReplyFrom[s], code \in {0, 1} :
               send_SNTP_packet(
                   [src  |-> from,
                    dst  |-> req.src,
                    port |-> req.port,
                    pkt  |-> create_reply_packet(req.pkt,
                                 client_req[s][1].time_of_request, HostClock(s)),
                    id   |-> req.id,
                    by   |-> s],
                   code)
    /\ spc' = [spc EXCEPT ![s] = "listen"]
    /\ UNCHANGED <<clock, client_req>>

ServerNext ==
    \E s \in Servers : InitialiseServer(s) \/ ServeReceive(s) \/ ServeReply(s)

ServerTypeOK ==
    /\ spc \in [Servers -> {"init", "listen", "reply", "exit"}]
    /\ client_req \in [Servers ->
           Seq([dgram : Datagram, time_of_request : NtpTimestamp])]
    /\ \A s \in Servers : spc[s] = "reply" => Len(client_req[s]) = 1
=============================================================================
