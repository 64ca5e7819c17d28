--------------------------- MODULE ManycastSystem ---------------------------
(***************************************************************************)
(* A client that finds its server by manycast, the servers that joined the *)
(* group (sntpserver with manycast_enabled, and other vendors'), and the   *)
(* network.  The discovery comes first; the polls that follow are those of *)
(* SntpSystem.                                                             *)
(***************************************************************************)
EXTENDS SntpSystem, ManycastClient

manyVars == <<vars, discoveryVars>>

ManycastInit ==
    /\ clock \in [sec : {StartSec}, usec : Subseconds]
    /\ net = {}
    /\ DiscoveryInit
    /\ ServerInit

\* Time passes, by at most MaxLag seconds beyond what the client waits for.
DiscoveryTick ==
    /\ dpc \notin {"done", "failed"}
    /\ clock.sec - (IF dpc \in {"gather", "recv"} THEN timer.sec + ManycastWaitTime
                    ELSE last_send.sec) < MaxLag
    /\ AdvanceClock
    /\ UNCHANGED <<net, clientVars, serverVars, discoveryVars>>

\* The steps of the client process, and those of its environment.
ClientStep == (DiscoveryNext \/ PollNext) /\ UNCHANGED serverVars
TimePasses == DiscoveryTick \/ (dpc = "done" /\ Tick /\ UNCHANGED discoveryVars)

ManycastNext ==
    \/ ClientStep
    \/ ServerNext /\ UNCHANGED <<clientVars, discoveryVars>>
    \/ OtherServerReplies /\ UNCHANGED discoveryVars
    \/ TimePasses

\* As for SntpSystem: the client is scheduled and time goes on.
ManycastFairness == WF_manyVars(ClientStep) /\ WF_manyVars(TimePasses)
ManycastSpec == ManycastInit /\ [][ManycastNext]_manyVars /\ ManycastFairness
-----------------------------------------------------------------------------
\* The addresses packets to the client can come from.
Answering == (UNION {ReplyFrom[s] : s \in Servers}) \cup OtherServers

\* unicast_mode polls a host that answers, never the group or whatever the
\* buffer held before, although server_host points to a buffer that every
\* packet sent or received writes: and first a host the discovery heard from,
\* once a server has passed the checks.
ServerHeardFrom ==
    dpc = "done" /\ cpc \in {"attempt", "timer", "send", "recv"} =>
        /\ userver \in Answering
        /\ counter = 0 => userver \in heard /\ first # {}

\* A reply to the manycast request, however late, is not taken for the answer
\* to a poll, though the socket of a poll may have the port of the discovery.
ManycastFreshSample == FreshSample

\* The client ends: the discovery is over in bounded time, and so is each poll.
ManycastTerminates == <>(cpc = "exit")
-----------------------------------------------------------------------------
\* What a comment says, and the code does not do.

\* sntpclient.c, main: "use the first server that replied for further unicast
\* operations".
UsesFirstServer ==
    dpc = "done" /\ cpc \in {"attempt", "timer", "send", "recv"} /\ counter = 0 =>
        userver \in first
=============================================================================
