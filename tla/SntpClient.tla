----------------------------- MODULE SntpClient -----------------------------
(***************************************************************************)
(* sntpclient.c: main's loop over timed repeat updates, and unicast_mode,  *)
(* which opens a socket, resolves the server, and sends requests until a   *)
(* reply passes the sanity checks or the retries are used up.  The         *)
(* statements between two reads of the clock or two uses of the network    *)
(* are one action.  The manycast discovery is in ManycastClient.           *)
(***************************************************************************)
EXTENDS SntpNetwork, Sequences

CONSTANTS
    ClientSettings, \* the settings a run of the client may have
    Resolve,        \* host name or address -> addresses it may resolve to
    Garbage         \* what an uninitialised stack variable may hold

\* The server_host of a client that found its server by manycast: a pointer to
\* the buffer inet_ntoa formats into.
InNtoaBuffer == "buffer of inet_ntoa"

Settings ==
    [server_host                  : DOMAIN Resolve \cup {InNtoaBuffer},
     recv_uni_timeout             : Nat,
     max_unicast_retries          : Int,
     poll_wait                    : Nat,
     timed_repeat_updates_enabled : {0, 1},
     timed_repeat_updates_limit   : Int]

ASSUME ClientAssumption ==
    /\ ClientSettings \subseteq Settings
    /\ \A h \in DOMAIN Resolve : Resolve[h] \subseteq Hosts
    /\ Garbage \subseteq Int

VARIABLES
    c_set,              \* struct client_settings, fixed for the run
    cpc,                \* where the client is, see Locations
    counter,            \* main: polls finished, in repeat mode
    s_counter,          \* main: successful polls
    offset_total,       \* main: sum of the offsets (doubled)
    error_bound_total,  \* main: sum of the error bounds
    poll_timer,         \* main: started when a request is sent
    sockfd,             \* unicast_mode: port of its socket
    userver,            \* unicast_mode: address the host resolved to
    retry_count,        \* unicast_mode
    request_pkt,        \* unicast_mode: the last request built
    recv_start,         \* kernel: when the pending recvfrom was entered
    socks,              \* kernel: ports of the sockets the process has open
    ntoa_buf,           \* libc: the static buffer inet_ntoa formats into
    requests,           \* history: requests built so far
    attempts,           \* history: of these, by the current poll
    last_timer,         \* history: clock when start_timer last ran
    last_send,          \* history: clock when sendto was last called
    accepted            \* history: the reply this poll accepted, if any

pollVars == <<c_set, sockfd, userver, socks>>
mainVars == <<counter, s_counter, offset_total, error_bound_total>>
histVars == <<requests, attempts, last_timer, last_send, accepted>>
clientVars == <<pollVars, mainVars, histVars, cpc, poll_timer, retry_count,
                request_pkt, recv_start, ntoa_buf>>

\* Inside unicast_mode, after its socket was created.
InPoll == cpc \in {"resolve", "attempt", "timer", "send", "recv"}

\* "wait": main's loop head; "resolve", "attempt", "timer", "send", "recv":
\* inside unicast_mode; "exit": main has returned.
Locations == {"wait", "resolve", "attempt", "timer", "send", "recv", "exit"}

\* What the properties are told of an accepted reply: which request it answers
\* and which one was current, who built it, the address it came from and the one
\* asked, its stratum, and what the client computed from it.  The code keeps only
\* the last two.
Sample == [id : Nat, current : Nat, by : Hosts, from : Hosts, asked : Hosts,
           stratum : 0..255, offset : Int, error_bound : Int]

\* poll_timer->tv_sec = -1: no request of this poll has been sent.
NotStarted == -1
-----------------------------------------------------------------------------
\* main, up to its loop.  poll_timer, offset_total and error_bound_total are
\* declared without an initial value; the other locals are written before they
\* are read, so their first value is immaterial.
ClientInit ==
    /\ c_set \in ClientSettings
    /\ cpc = IF /\ c_set.timed_repeat_updates_enabled = 1
                /\ c_set.timed_repeat_updates_limit <= 0
             THEN "exit" ELSE "wait"
    /\ counter = 0
    /\ s_counter = 0
    /\ offset_total \in Garbage
    /\ error_bound_total \in Garbage
    /\ poll_timer \in [sec : Garbage, usec : {0}]
    /\ sockfd = CHOOSE p \in Ports : TRUE
    /\ userver = Client
    /\ retry_count = 0
    /\ request_pkt = create_packet(clock)
    /\ recv_start = clock
    /\ socks = {}
    /\ ntoa_buf = Client
    /\ requests = 0
    /\ attempts = 0
    /\ last_timer = clock
    /\ last_send = clock
    /\ accepted = << >>

\* Fault: main's loop runs once more than timed_repeat_updates_limit.
ReturnToMain_onceMore ==
    /\ counter' = counter + c_set.timed_repeat_updates_enabled
    /\ cpc' = IF /\ c_set.timed_repeat_updates_enabled = 1
                 /\ counter < c_set.timed_repeat_updates_limit
              THEN "wait" ELSE "exit"

\* unicast_mode returns to main, which counts the poll and goes on to the next
\* one if the repeat mode asks for it.
ReturnToMain ==
    /\ counter' = counter + c_set.timed_repeat_updates_enabled
    /\ cpc' = IF /\ c_set.timed_repeat_updates_enabled = 1
                 /\ counter + 1 < c_set.timed_repeat_updates_limit
              THEN "wait" ELSE "exit"

\* unicast_mode returns an error code, which main prints.  No error path of
\* unicast_mode closes the socket.
PollFails ==
    /\ ReturnToMain
    /\ UNCHANGED <<s_counter, offset_total, error_bound_total>>

\* Fault: main does not wait between the polls of the repeat mode.
PollIntervalOver_noWait == TRUE

\* main's wait for the poll interval, skipped before the first poll.
PollIntervalOver ==
    counter # 0 => get_elapsed_time(poll_timer, clock) > c_set.poll_wait

\* socket may fail (3; it must when no descriptor is left), and setting the
\* receive timeout may (8), which leaves the new socket open.
initialise_socket(code) ==
    \/ code = 3 /\ UNCHANGED <<sockfd, socks>>
    \/ code \in {0, 8} /\ \E p \in Ports \ socks : sockfd' = p /\ socks' = socks \cup {p}

\* main's wait is over, and unicast_mode begins with its socket.
StartPoll ==
    /\ cpc = "wait"
    /\ PollIntervalOver
    /\ \E code \in {0, 3, 8} :
           /\ initialise_socket(code)
           /\ IF code = 0 THEN cpc' = "resolve" /\ UNCHANGED mainVars ELSE PollFails
    /\ attempts' = 0
    /\ accepted' = << >>
    /\ UNCHANGED <<c_set, userver, poll_timer, retry_count, request_pkt, recv_start,
                   ntoa_buf, requests, last_timer, last_send, netVars>>

\* The addresses a host may turn out to be: a name's, or the one its text,
\* read now, spells out.
AddressesOf(host) == IF host = InNtoaBuffer THEN {ntoa_buf} ELSE Resolve[host]

\* The host, an address or a name, is looked up anew for every poll, and may
\* not be found (2).
initialise_server_interface(host, code) ==
    \/ code = 2 /\ UNCHANGED userver
    \/ code = 0 /\ userver' \in AddressesOf(host)

\* The server is looked up and unicast_mode's loop is set up.
ResolveServer ==
    /\ cpc = "resolve"
    /\ \E code \in {0, 2} :
           /\ initialise_server_interface(c_set.server_host, code)
           /\ IF code = 0
              THEN /\ retry_count' = 1
                   /\ poll_timer' = [poll_timer EXCEPT !.sec = NotStarted]
                   /\ cpc' = "attempt"
                   /\ UNCHANGED mainVars
              ELSE PollFails /\ UNCHANGED <<retry_count, poll_timer>>
    /\ UNCHANGED <<c_set, sockfd, socks, request_pkt, recv_start, ntoa_buf,
                   histVars, netVars>>

RetriesUsedUp == retry_count > c_set.max_unicast_retries

\* Code 4: the retries are used up.
GiveUp ==
    /\ cpc = "attempt"
    /\ RetriesUsedUp
    /\ PollFails
    /\ UNCHANGED <<pollVars, poll_timer, retry_count, request_pkt, recv_start,
                   ntoa_buf, histVars, netVars>>

\* The busy wait between the requests of one poll, skipped before the first.
RetryIntervalOver ==
    \/ poll_timer.sec = NotStarted
    \/ get_elapsed_time(poll_timer, clock) > c_set.poll_wait

\* The busy wait of unicast_mode's loop ends and the request is built.
CreateRequest ==
    /\ cpc = "attempt"
    /\ ~ RetriesUsedUp
    /\ RetryIntervalOver
    /\ request_pkt' = create_packet(clock)
    /\ cpc' = "timer"
    /\ requests' = requests + 1
    /\ attempts' = attempts + 1
    /\ UNCHANGED <<pollVars, mainVars, poll_timer, retry_count, recv_start,
                   ntoa_buf, last_timer, last_send, accepted, netVars>>

start_timer ==
    /\ cpc = "timer"
    /\ poll_timer' = clock
    /\ cpc' = "send"
    /\ last_timer' = clock
    /\ UNCHANGED <<pollVars, mainVars, retry_count, request_pkt, recv_start,
                   ntoa_buf, requests, attempts, last_send, accepted, netVars>>

\* The request leaves and the client enters recvfrom, or sendto fails and the
\* attempt is used up.  Logging a sent packet formats its destination.
SendRequest ==
    /\ cpc = "send"
    /\ \E code \in {0, 1} :
           /\ send_SNTP_packet(
                  [src |-> Client, dst |-> userver, port |-> sockfd,
                   pkt |-> request_pkt, id |-> requests, by |-> Client], code)
           /\ cpc' = IF code = 0 THEN "recv" ELSE "attempt"
           /\ retry_count' = IF code = 0 THEN retry_count ELSE retry_count + 1
           /\ ntoa_buf' = IF code = 0 THEN userver ELSE ntoa_buf
    /\ recv_start' = clock
    /\ last_send' = clock
    /\ UNCHANGED <<pollVars, mainVars, poll_timer, request_pkt, requests, attempts,
                   last_timer, accepted, clock>>

\* strcmp of two inet_ntoa results, 1 meaning "different".  Both calls return
\* the address of one static buffer, which by the time strcmp reads it holds
\* the text of the call evaluated last, and C leaves open which that is.
\* The set of possible outcomes: what the buffer holds, and the return code.
is_same_ipaddr(sent_addr, reply_addr) ==
    LET Outcome(ntoa_reply, ntoa_sent) ==
            [buf |-> ntoa_sent, code |-> IF ntoa_reply # ntoa_sent THEN 1 ELSE 0]
    IN  {Outcome(buf, buf) : buf \in {sent_addr, reply_addr}}

\* What the client computes from accepted reply rep, arrived at t4.
Computed(rep, t4) ==
    LET t1 == convert_ntp_time_into_unix_time(rep.originate_timestamp)
        t2 == convert_ntp_time_into_unix_time(rep.receive_timestamp)
        t3 == convert_ntp_time_into_unix_time(rep.transmit_timestamp)
    IN  [offset      |-> calculate_clock_offset(t1, t2, t3, t4),
         error_bound |-> calculate_error_bound(t1, t2, t3, t4)]

\* Fault: the socket of a successful poll stays open.
CloseSocket_forgotten == UNCHANGED socks

\* close(sockfd), on unicast_mode's successful return only.
CloseSocket == socks' = socks \ {sockfd}

\* The reply passed the checks: unicast_mode reports it, closes the socket and
\* returns 0, and main's repeat loop adds it to its totals.
AcceptReply(d) ==
    LET result == Computed(d.pkt, clock)
        repeat == c_set.timed_repeat_updates_enabled
    IN  /\ offset_total' = offset_total + repeat * result.offset
        /\ error_bound_total' = error_bound_total + repeat * result.error_bound
        /\ s_counter' = s_counter + repeat
        /\ CloseSocket
        /\ ntoa_buf' = userver
        /\ accepted' = << [id |-> d.id, current |-> requests, by |-> d.by,
                           from |-> d.src, asked |-> userver,
                           stratum |-> d.pkt.stratum, offset |-> result.offset,
                           error_bound |-> result.error_bound] >>
        /\ ReturnToMain
        /\ UNCHANGED retry_count

\* recieve_SNTP_packet returns a packet.  The inner loop asks for another one
\* while is_same_ipaddr says that it came from elsewhere; otherwise the packet
\* is checked, and one that fails uses up the attempt.
ReceiveReply ==
    /\ cpc = "recv"
    /\ \E d \in net : \E same \in is_same_ipaddr(userver, d.src) :
           /\ d.dst = Client
           /\ d.port = sockfd
           /\ recieve_SNTP_packet(d)
           /\ IF same.code = 0 /\ run_sanity_checks(request_pkt, d.pkt) = 0
              THEN AcceptReply(d)
              ELSE /\ ntoa_buf' = same.buf
                   /\ IF same.code # 0
                      THEN UNCHANGED <<cpc, retry_count>>
                      ELSE cpc' = "attempt" /\ retry_count' = retry_count + 1
                   /\ UNCHANGED <<mainVars, socks, accepted>>
    /\ UNCHANGED <<c_set, sockfd, userver, poll_timer, request_pkt, recv_start,
                   requests, attempts, last_timer, last_send, clock>>

\* Fault: the receive timeout is never set on the socket.
RecvTimedOut_never == FALSE

\* The SO_RCVTIMEO of set_socket_recvfrom_timeout has run out; zero means that
\* there is none.
RecvTimedOut ==
    /\ c_set.recv_uni_timeout > 0
    /\ AtLeast(c_set.recv_uni_timeout, recv_start, clock)

\* recvfrom returns an error, having received nothing in time.
ReceiveTimeout ==
    /\ cpc = "recv"
    /\ RecvTimedOut
    /\ cpc' = "attempt"
    /\ retry_count' = retry_count + 1
    /\ UNCHANGED <<pollVars, mainVars, poll_timer, request_pkt, recv_start,
                   ntoa_buf, histVars, netVars>>

ClientNext ==
    \/ StartPoll
    \/ ResolveServer
    \/ GiveUp
    \/ CreateRequest
    \/ start_timer
    \/ SendRequest
    \/ ReceiveReply
    \/ ReceiveTimeout

ClientTypeOK ==
    /\ c_set \in Settings
    /\ cpc \in Locations
    /\ counter \in Nat /\ s_counter \in Nat
    /\ offset_total \in Int /\ error_bound_total \in Int
    /\ poll_timer \in Timeval
    /\ sockfd \in Ports /\ userver \in Hosts
    /\ retry_count \in Nat
    /\ request_pkt \in ntp_packet
    /\ recv_start \in Timeval
    /\ socks \subseteq Ports
    /\ ntoa_buf \in Hosts
    /\ requests \in Nat /\ attempts \in Nat
    /\ last_timer \in Timeval /\ last_send \in Timeval
    /\ accepted \in Seq(Sample)
=============================================================================
