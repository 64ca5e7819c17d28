--------------------------- MODULE ManycastClient ---------------------------
(***************************************************************************)
(* sntpclient.c, discover_unicast_servers_with_manycast and the part of    *)
(* main that calls it: a request to the manycast group, the replies that   *)
(* come in for a set time, and the choice of the server for what follows.  *)
(* The socket, request and receive of the discovery are locals of their    *)
(* own in C; they are not in use at the same time as unicast_mode's, and   *)
(* share SntpClient's variables here.                                      *)
(***************************************************************************)
EXTENDS SntpClient

CONSTANTS
    Group,              \* c_set.manycast_address
    Members,            \* the hosts that listen to the group
    ManycastWaitTime,   \* c_set.manycast_wait_time
    MaxStored           \* bound: servers stored, a server that repeats its
                        \* reply being stored again

ASSUME ManycastAssumption ==
    /\ Group \in Hosts
    /\ Members \subseteq Hosts \ {Client}
    /\ ManycastWaitTime \in Nat
    /\ MaxStored \in Nat

VARIABLES
    dpc,            \* where the discovery is: "setup", "create", "send", "timer",
                    \* "gather", "recv"; "done": main has gone on to its polls;
                    \* "failed": main has exited
    timer,          \* when the collection of replies started
    ntp_servers,    \* the pointers stored so far; s_count is its length
    first,          \* history: the address of the first server stored, if any
    heard           \* history: addresses the discovery received packets from

discoveryVars == <<dpc, timer, ntp_servers, first, heard>>

\* The receive timeout of the discovery's socket, in seconds.
MANYCAST_RECV_TIMEOUT == 1

\* main, before the discovery.
DiscoveryInit ==
    /\ ClientInit
    /\ dpc = "setup"
    /\ timer = clock
    /\ ntp_servers = << >>
    /\ first = {} /\ heard = {}

\* What the discovery leaves alone of unicast_mode's and main's state.
UnicastUnchanged ==
    UNCHANGED <<userver, mainVars, poll_timer, retry_count, attempts, last_timer, accepted>>

\* The discovery returns an error code: main prints it and exits.
DiscoveryFails == dpc' = "failed" /\ cpc' = "exit"

\* The socket (3, 8), the group's address (2) and the time to live (7): any of
\* them may fail.  Only the success path of the discovery closes the socket.
DiscoverySetup ==
    /\ dpc = "setup"
    /\ \E code \in {0, 2, 3, 7, 8} :
           /\ initialise_socket(IF code \in {2, 7} THEN 0 ELSE code)
           /\ IF code = 0 THEN dpc' = "create" /\ UNCHANGED cpc ELSE DiscoveryFails
    /\ UnicastUnchanged
    /\ UNCHANGED <<c_set, request_pkt, recv_start, ntoa_buf, requests, last_send,
                   timer, ntp_servers, first, heard, netVars>>

DiscoveryCreate ==
    /\ dpc = "create"
    /\ request_pkt' = create_packet(clock)
    /\ requests' = requests + 1
    /\ dpc' = "send"
    /\ UnicastUnchanged
    /\ UNCHANGED <<pollVars, cpc, recv_start, ntoa_buf, last_send, timer, ntp_servers,
                   first, heard, netVars>>

\* One packet to the group reaches any number of its members, or none.
SendToGroup(code) ==
    \E reached \in IF code = 0 THEN SUBSET Members ELSE {{}} :
        /\ Cardinality(net) + Cardinality(reached) <= MaxInFlight
        /\ net' = net \cup {[src |-> Client, dst |-> m, port |-> sockfd,
                             pkt |-> request_pkt, id |-> requests, by |-> Client] : m \in reached}

\* Code 5: the request cannot be sent.
DiscoverySend ==
    /\ dpc = "send"
    /\ \E code \in {0, 5} :
           /\ SendToGroup(code)
           /\ ntoa_buf' = IF code = 0 THEN Group ELSE ntoa_buf
           /\ IF code = 0 THEN dpc' = "timer" /\ UNCHANGED cpc ELSE DiscoveryFails
    /\ last_send' = clock
    /\ UnicastUnchanged
    /\ UNCHANGED <<pollVars, request_pkt, recv_start, requests, timer, ntp_servers,
                   first, heard, clock>>

DiscoveryTimer ==
    /\ dpc = "timer"
    /\ timer' = clock
    /\ dpc' = "gather"
    /\ UnicastUnchanged
    /\ UNCHANGED <<pollVars, cpc, request_pkt, recv_start, ntoa_buf, requests, last_send,
                   ntp_servers, first, heard, netVars>>

\* The condition of the collecting loop.
StillGathering == get_elapsed_time(timer, clock) <= ManycastWaitTime

\* The loop goes round: the client waits in recvfrom.
Gather ==
    /\ dpc = "gather"
    /\ StillGathering
    /\ recv_start' = clock
    /\ dpc' = "recv"
    /\ UnicastUnchanged
    /\ UNCHANGED <<pollVars, cpc, request_pkt, ntoa_buf, requests, last_send,
                   timer, ntp_servers, first, heard, netVars>>

\* A packet arrives.  Its sender's address is formatted for the log before the
\* checks, so the buffer holds it whether it passes or not; a sender that
\* passes is stored, as a pointer to that buffer, and never looked for among
\* the ones already stored.
GatherReply ==
    /\ dpc = "recv"
    /\ \E d \in net :
           /\ d.dst = Client
           /\ d.port = sockfd
           /\ recieve_SNTP_packet(d)
           /\ ntoa_buf' = d.src
           /\ heard' = heard \cup {d.src}
           /\ IF run_sanity_checks(request_pkt, d.pkt) = 0
              THEN /\ Len(ntp_servers) < MaxStored
                   /\ ntp_servers' = Append(ntp_servers, InNtoaBuffer)
                   /\ first' = IF first = {} THEN {d.src} ELSE first
              ELSE UNCHANGED <<ntp_servers, first>>
    /\ dpc' = "gather"
    /\ UnicastUnchanged
    /\ UNCHANGED <<pollVars, cpc, request_pkt, recv_start, requests, last_send, timer, clock>>

\* Fault: the discovery's socket has no receive timeout.
GatherTimedOut_never == FALSE

GatherTimedOut == AtLeast(MANYCAST_RECV_TIMEOUT, recv_start, clock)

GatherTimeout ==
    /\ dpc = "recv"
    /\ GatherTimedOut
    /\ dpc' = "gather"
    /\ UnicastUnchanged
    /\ UNCHANGED <<pollVars, cpc, request_pkt, recv_start, ntoa_buf, requests, last_send,
                   timer, ntp_servers, first, heard, netVars>>

\* Fault: the server is used although none was stored.
NoServerFound_unchecked == FALSE

NoServerFound == ntp_servers = << >>

CloseDiscoverySocket == socks' = socks \ {sockfd}

\* The time is over: no server (6), or main takes the first one stored.
DiscoveryOver ==
    /\ dpc = "gather"
    /\ ~ StillGathering
    /\ IF NoServerFound
       THEN DiscoveryFails /\ UNCHANGED <<c_set, socks>>
       ELSE /\ CloseDiscoverySocket
            /\ c_set' = [c_set EXCEPT !.server_host = InNtoaBuffer]
            /\ dpc' = "done"
            /\ UNCHANGED cpc
    /\ UnicastUnchanged
    /\ UNCHANGED <<sockfd, request_pkt, recv_start, ntoa_buf, requests, last_send,
                   timer, ntp_servers, first, heard, netVars>>

DiscoveryNext ==
    \/ DiscoverySetup
    \/ DiscoveryCreate
    \/ DiscoverySend
    \/ DiscoveryTimer
    \/ Gather
    \/ GatherReply
    \/ GatherTimeout
    \/ DiscoveryOver

\* A step of unicast_mode or of main's loop, once the discovery is over.
PollNext ==
    /\ dpc = "done"
    /\ ClientNext
    /\ UNCHANGED discoveryVars
=============================================================================
