----------------------------- MODULE SntpSystem -----------------------------
(***************************************************************************)
(* One client, the servers that run sntpserver, other vendors' NTP servers *)
(* and the network between them.                                           *)
(***************************************************************************)
EXTENDS SntpClient, SntpServer

CONSTANTS
    OtherServers,   \* hosts that run some other NTP server
    OtherHeaders,   \* the headers such a server may reply with
    StartSec,       \* the second in which the system starts
    MaxLag          \* bound: seconds the client may stay unscheduled after a wait

ASSUME SystemAssumption ==
    /\ OtherServers \subseteq Hosts \ (Servers \cup {Client})
    /\ OtherHeaders \subseteq [li_vn_mode : 0..255, stratum : 0..255, synced : BOOLEAN]
    /\ StartSec \in Nat
    /\ MaxLag \in Nat

vars == <<netVars, clientVars, serverVars>>

Init ==
    /\ clock \in [sec : {StartSec}, usec : Subseconds]
    /\ net = {}
    /\ ClientInit
    /\ ServerInit

\* Some other server answers a request, at once and correctly except for the
\* state its header shows; one that has no time to give sends a zero transmit
\* timestamp.
OtherServerReplies ==
    /\ \E d \in net, hdr \in OtherHeaders :
           /\ d.dst \in OtherServers
           /\ LET ts  == convert_unix_time_into_ntp_time(HostClock(d.dst))
                  rep == [src |-> d.dst, dst |-> d.src, port |-> d.port,
                          id |-> d.id, by |-> d.dst,
                          pkt |-> [li_vn_mode |-> hdr.li_vn_mode,
                                   stratum |-> hdr.stratum,
                                   originate_timestamp |-> d.pkt.transmit_timestamp,
                                   receive_timestamp |-> ts,
                                   transmit_timestamp |->
                                       IF hdr.synced THEN ts ELSE ZeroTimestamp]]
              IN  net' \in {net \cup {rep}, (net \ {d}) \cup {rep}}
    /\ Cardinality(net') <= MaxInFlight
    /\ UNCHANGED <<clock, clientVars, serverVars>>

\* The last moment the client is known to have run.
LastSeen == IF cpc = "send" THEN poll_timer.sec ELSE last_send.sec

\* Time passes, by at most MaxLag seconds more than the client's longest wait
\* while the client does nothing.
Tick ==
    /\ cpc # "exit"
    /\ clock.sec - LastSeen < MaxLag + c_set.poll_wait
    /\ AdvanceClock
    /\ UNCHANGED <<net, clientVars, serverVars>>

Next ==
    \/ ClientNext /\ UNCHANGED serverVars
    \/ ServerNext /\ UNCHANGED clientVars
    \/ OtherServerReplies
    \/ Tick

\* The client is a running process: it is scheduled whenever it can go on, and
\* the clock does not stop.  Nothing is assumed of servers or network.
Fairness == WF_vars(ClientNext /\ UNCHANGED serverVars) /\ WF_vars(Tick)

Spec == Init /\ [][Next]_vars
FairSpec == Spec /\ Fairness
-----------------------------------------------------------------------------
TypeOK == NetTypeOK /\ ClientTypeOK /\ ServerTypeOK

\* Two requests of a run are started more than poll_wait seconds apart, whole
\* seconds being all that get_elapsed_time looks at: between the retries of
\* one unicast_mode call, and from the last request of a call to the first of
\* the next one, where main does the waiting, failed polls in between included.
PollSpacing ==
    [][start_timer /\ requests > 1 =>
           MoreThan(c_set.poll_wait, last_timer, clock)]_vars

\* The reply run_sanity_checks lets through answers the request the client is
\* waiting on, never an earlier one of this or another poll, though replies
\* are delayed, reordered and duplicated and socket ports are used again.
FreshSample == \A i \in 1..Len(accepted) : accepted[i].id = accepted[i].current

\* What a poll reports brackets the true offset of the clock of the server
\* that answered, however the datagrams were delayed, and whatever state the
\* server's header claims (readings in the last microsecond of a second and a
\* slack of two microseconds apart, see TimeExchange).
SampleSound ==
    Micros - 1 \notin Subseconds =>
        \A i \in 1..Len(accepted) :
            Brackets(accepted[i].offset, accepted[i].error_bound,
                     Skew[accepted[i].by], 2)

\* In repeat mode a socket outlives its poll only if that poll failed, and the
\* socket in use is not one that was closed.
SocketsAccounted ==
    /\ InPoll => sockfd \in socks
    /\ c_set.timed_repeat_updates_enabled = 1 =>
           Cardinality(socks) <= (counter - s_counter) + (IF InPoll THEN 1 ELSE 0)

\* The client ends, whatever is lost: unicast_mode gives up and main's loop is
\* bounded, provided recv_uni_timeout is not zero.
ClientTerminates == c_set.recv_uni_timeout > 0 => <>(cpc = "exit")
-----------------------------------------------------------------------------
\* What a comment says, and the code does not do.

\* sntpclient.c, unicast_mode: "keep listening even if a reply packet has
\* arrived from a different server than the request was sent to".
RepliesFromServerAsked == \A i \in 1..Len(accepted) : accepted[i].from = accepted[i].asked
=============================================================================
