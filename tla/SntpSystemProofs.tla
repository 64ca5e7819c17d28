-------------------------- MODULE SntpSystemProofs --------------------------
(***************************************************************************)
(* The client and its servers, for any hosts, ports, settings, clock       *)
(* resolution and network capacity, in three parts.                        *)
(*                                                                         *)
(* The composed system: type correctness, the spacing of the requests and  *)
(* the sockets of the client.                                              *)
(*                                                                         *)
(* What a poll reports: the reply the client accepts answers the request   *)
(* it is waiting on, what it computes from it brackets the true offset,    *)
(* and the client implements TimePoll.  FreshSample: whatever is in flight *)
(* carries, as transmit or originate timestamp, the time at which some     *)
(* request was built; the spacing of the requests puts a later request     *)
(* into a later second; and as long as the NTP seconds do not come round,  *)
(* different times are different timestamps.                               *)
(*                                                                         *)
(* The client that finds its server by manycast: it polls a host that      *)
(* answers, and takes no reply to the manycast request for the answer to a *)
(* poll.                                                                   *)
(***************************************************************************)
EXTENDS ManycastSystem, PollRefinement, SntpServerProofs, FiniteSetTheorems

-----------------------------------------------------------------------------
(* The composed system. *)

\* What the client computes from a packet is a number.
LEMMA ComputedType ==
    ASSUME NEW rep \in ntp_packet, NEW t4 \in Timeval
    PROVE  Computed(rep, t4).offset \in Int /\ Computed(rep, t4).error_bound \in Int
<1> DEFINE t1 == convert_ntp_time_into_unix_time(rep.originate_timestamp)
           t2 == convert_ntp_time_into_unix_time(rep.receive_timestamp)
           t3 == convert_ntp_time_into_unix_time(rep.transmit_timestamp)
<1>1. t1 \in Timeval /\ t2 \in Timeval /\ t3 \in Timeval
  BY DecodingType DEF ntp_packet
<1> HIDE DEF t1, t2, t3
<1>2. Instant(t1) \in Int /\ Instant(t2) \in Int /\ Instant(t3) \in Int /\ Instant(t4) \in Int
  BY <1>1, InstantType
<1>3. calculate_clock_offset(t1, t2, t3, t4) \in Int /\ calculate_error_bound(t1, t2, t3, t4) \in Int
  BY <1>2 DEF calculate_clock_offset, calculate_error_bound
<1> QED BY <1>3 DEF Computed, t1, t2, t3
-----------------------------------------------------------------------------
\* The initial state is well typed.
LEMMA TypeInit == Init => TypeOK
<1> SUFFICES ASSUME Init PROVE TypeOK
  OBVIOUS
<1>1. clock \in Timeval
  <2>1. clock \in [sec : {StartSec}, usec : Subseconds] /\ {StartSec} \subseteq Int
    BY SystemAssumption DEF Init
  <2> QED BY <2>1, TimevalIn, NetworkAssumption
<1>2. NetTypeOK
  BY <1>1 DEF Init, NetTypeOK
<1>3. ServerTypeOK
  BY DEF Init, ServerInit, ServerTypeOK
<1>4. sockfd \in Ports
  BY NetworkAssumption DEF Init, ClientInit
<1>5. poll_timer \in Timeval
  <2>1. poll_timer \in [sec : Garbage, usec : {0}] /\ {0} \subseteq 0..(Micros - 1)
    BY TimeAssumption DEF Init, ClientInit
  <2> QED BY <2>1, TimevalIn, ClientAssumption
<1>6. request_pkt \in ntp_packet
  BY <1>1, RequestType DEF Init, ClientInit
<1>7. cpc \in Locations
  BY DEF Init, ClientInit, Locations
<1>8. ClientTypeOK
  BY <1>1, <1>4, <1>5, <1>6, <1>7, ClientAssumption, NetworkAssumption
     DEF Init, ClientInit, ClientTypeOK
<1> QED BY <1>2, <1>3, <1>8 DEF TypeOK

\* An accepted reply leaves a proper sample.
LEMMA TypeAccept ==
    ASSUME ClientTypeOK, clock \in Timeval, NEW d \in Datagram, AcceptReply(d)
    PROVE  /\ offset_total' \in Int /\ error_bound_total' \in Int
           /\ counter' \in Nat /\ s_counter' \in Nat
           /\ socks' \subseteq Ports /\ ntoa_buf' \in Hosts
           /\ accepted' \in Seq(Sample)
           /\ cpc' \in Locations /\ retry_count' = retry_count
<1> DEFINE result == Computed(d.pkt, clock)
<1>1. d.pkt \in ntp_packet /\ d.id \in Nat /\ d.by \in Hosts /\ d.src \in Hosts
      /\ d.pkt.stratum \in 0..255
  BY DEF Datagram, ntp_packet
<1>2. result.offset \in Int /\ result.error_bound \in Int
  BY <1>1, ComputedType
<1> HIDE DEF result
<1> DEFINE sample == [id |-> d.id, current |-> requests, by |-> d.by,
                      from |-> d.src, asked |-> userver, stratum |-> d.pkt.stratum,
                      offset |-> result.offset, error_bound |-> result.error_bound]
<1>3. sample \in Sample
  BY <1>1, <1>2 DEF Sample, ClientTypeOK
<1>4. accepted' = <<sample>>
  BY DEF AcceptReply, result
<1>5. accepted' \in Seq(Sample)
  <2> HIDE DEF sample
  <2> QED BY <1>3, <1>4
<1>6. c_set.timed_repeat_updates_enabled \in {0, 1}
  BY DEF ClientTypeOK, Settings
<1>7. /\ offset_total' = offset_total + c_set.timed_repeat_updates_enabled * result.offset
      /\ error_bound_total' =
             error_bound_total + c_set.timed_repeat_updates_enabled * result.error_bound
      /\ s_counter' = s_counter + c_set.timed_repeat_updates_enabled
  BY DEF AcceptReply, result
<1>8. offset_total' \in Int /\ error_bound_total' \in Int /\ s_counter' \in Nat
  BY <1>2, <1>6, <1>7 DEF ClientTypeOK
<1>9. counter' \in Nat /\ cpc' \in Locations
  BY <1>6 DEF AcceptReply, ReturnToMain, ClientTypeOK, Locations
<1>10. socks' \subseteq Ports /\ ntoa_buf' \in Hosts /\ retry_count' = retry_count
  BY DEF AcceptReply, CloseSocket, ClientTypeOK
<1> QED BY <1>5, <1>8, <1>9, <1>10

\* A failed poll leaves main's counters well typed.
LEMMA TypeFail ==
    ASSUME ClientTypeOK, PollFails
    PROVE  /\ counter' \in Nat /\ s_counter' \in Nat /\ cpc' \in Locations
           /\ offset_total' \in Int /\ error_bound_total' \in Int
<1>1. c_set.timed_repeat_updates_enabled \in {0, 1}
  BY DEF ClientTypeOK, Settings
<1> QED BY <1>1 DEF PollFails, ReturnToMain, ClientTypeOK, Locations

\* Writing tv_sec keeps a struct timeval one.
LEMMA SetSecType ==
    ASSUME NEW tv \in Timeval, NEW n \in Int
    PROVE  [tv EXCEPT !.sec = n] \in Timeval
  BY DEF Timeval

\* No step of the client disturbs the types.
LEMMA TypeClient ==
    ASSUME NetTypeOK, ClientTypeOK, ClientNext
    PROVE  NetTypeOK' /\ ClientTypeOK'
<1> USE DEF NetTypeOK
<1>1. CASE StartPoll
  <2>1. sockfd' \in Ports /\ socks' \subseteq Ports
    BY <1>1 DEF StartPoll, initialise_socket, ClientTypeOK
  <2>2. cpc' \in Locations /\ counter' \in Nat /\ s_counter' \in Nat
        /\ offset_total' \in Int /\ error_bound_total' \in Int
    <3>1. (cpc' = "resolve" /\ UNCHANGED mainVars) \/ PollFails
      BY <1>1 DEF StartPoll
    <3> QED BY <3>1, TypeFail DEF ClientTypeOK, mainVars, Locations
  <2>3. accepted' \in Seq(Sample) /\ attempts' \in Nat
    BY <1>1 DEF StartPoll
  <2> QED BY <1>1, <2>1, <2>2, <2>3 DEF StartPoll, ClientTypeOK, netVars
<1>2. CASE ResolveServer
  <2>1. userver' \in Hosts
    <3>1. c_set.server_host \in DOMAIN Resolve \cup {InNtoaBuffer}
      BY DEF ClientTypeOK, Settings
    <3>2. AddressesOf(c_set.server_host) \subseteq Hosts
      BY <3>1, ClientAssumption DEF AddressesOf, ClientTypeOK
    <3> QED BY <1>2, <3>2 DEF ResolveServer, initialise_server_interface, ClientTypeOK
  <2>2. /\ cpc' \in Locations /\ counter' \in Nat /\ s_counter' \in Nat
        /\ offset_total' \in Int /\ error_bound_total' \in Int
        /\ retry_count' \in Nat /\ poll_timer' \in Timeval
    <3>1. CASE /\ retry_count' = 1
               /\ poll_timer' = [poll_timer EXCEPT !.sec = NotStarted]
               /\ cpc' = "attempt" /\ UNCHANGED mainVars
      <4>1. poll_timer' \in Timeval
        BY <3>1, SetSecType DEF ClientTypeOK, NotStarted
      <4>2. counter' = counter /\ s_counter' = s_counter /\ offset_total' = offset_total
            /\ error_bound_total' = error_bound_total
        BY <3>1 DEF mainVars
      <4> QED BY <3>1, <4>1, <4>2 DEF ClientTypeOK, Locations
    <3>2. CASE PollFails /\ UNCHANGED <<retry_count, poll_timer>>
      BY <3>2, TypeFail DEF ClientTypeOK
    <3> QED BY <1>2, <3>1, <3>2 DEF ResolveServer
  <2> QED BY <1>2, <2>1, <2>2 DEF ResolveServer, ClientTypeOK, histVars, netVars
<1>3. CASE GiveUp
  BY <1>3, TypeFail DEF GiveUp, ClientTypeOK, pollVars, histVars, netVars
<1>4. CASE CreateRequest
  <2>1. request_pkt' \in ntp_packet /\ cpc' \in Locations
    BY <1>4, RequestType DEF CreateRequest, Locations
  <2> QED BY <1>4, <2>1 DEF CreateRequest, ClientTypeOK, pollVars, mainVars, netVars
<1>5. CASE start_timer
  BY <1>5 DEF start_timer, ClientTypeOK, pollVars, mainVars, netVars, Locations
<1>6. CASE SendRequest
  <2> DEFINE d == [src |-> Client, dst |-> userver, port |-> sockfd,
                   pkt |-> request_pkt, id |-> requests, by |-> Client]
  <2>1. d \in Datagram
    BY NetworkAssumption DEF Datagram, ClientTypeOK
  <2> HIDE DEF d
  <2>2. PICK code \in {0, 1} :
            /\ send_SNTP_packet(d, code)
            /\ cpc' = IF code = 0 THEN "recv" ELSE "attempt"
            /\ retry_count' = IF code = 0 THEN retry_count ELSE retry_count + 1
            /\ ntoa_buf' = IF code = 0 THEN userver ELSE ntoa_buf
    BY <1>6, Zenon DEF SendRequest, d
  <2>3. net' \subseteq Datagram
    BY <2>1, <2>2 DEF send_SNTP_packet, SendOK
  <2>4. cpc' \in Locations /\ retry_count' \in Nat /\ ntoa_buf' \in Hosts
    BY <2>2 DEF ClientTypeOK, Locations
  <2> QED BY <1>6, <2>3, <2>4 DEF SendRequest, ClientTypeOK, pollVars, mainVars
<1>7. CASE ReceiveReply
  <2> DEFINE Handles(d, same) ==
            /\ recieve_SNTP_packet(d)
            /\ IF same.code = 0 /\ run_sanity_checks(request_pkt, d.pkt) = 0
               THEN AcceptReply(d)
               ELSE /\ ntoa_buf' = same.buf
                    /\ IF same.code # 0
                       THEN UNCHANGED <<cpc, retry_count>>
                       ELSE cpc' = "attempt" /\ retry_count' = retry_count + 1
                    /\ UNCHANGED <<mainVars, socks, accepted>>
  <2>0. PICK d \in net : \E same \in is_same_ipaddr(userver, d.src) : Handles(d, same)
    BY <1>7, Zenon DEF ReceiveReply
  <2>1. PICK same \in is_same_ipaddr(userver, d.src) : Handles(d, same)
    BY <2>0
  <2>2. d \in Datagram /\ net' \subseteq Datagram
    BY <2>1 DEF recieve_SNTP_packet
  <2>3. same.buf \in Hosts
    BY <2>1, <2>2 DEF is_same_ipaddr, Datagram, ClientTypeOK
  <2>4. /\ offset_total' \in Int /\ error_bound_total' \in Int
        /\ counter' \in Nat /\ s_counter' \in Nat
        /\ socks' \subseteq Ports /\ ntoa_buf' \in Hosts
        /\ accepted' \in Seq(Sample)
        /\ cpc' \in Locations /\ retry_count' \in Nat
    <3>1. CASE AcceptReply(d)
      BY <2>2, <3>1, TypeAccept DEF ClientTypeOK
    <3>2. CASE /\ ntoa_buf' = same.buf
               /\ IF same.code # 0
                  THEN UNCHANGED <<cpc, retry_count>>
                  ELSE cpc' = "attempt" /\ retry_count' = retry_count + 1
               /\ UNCHANGED <<mainVars, socks, accepted>>
      BY <2>3, <3>2 DEF ClientTypeOK, mainVars, Locations
    <3> QED BY <2>1, <3>1, <3>2
  <2> QED BY <1>7, <2>2, <2>4 DEF ReceiveReply, ClientTypeOK
<1>8. CASE ReceiveTimeout
  BY <1>8 DEF ReceiveTimeout, ClientTypeOK, pollVars, mainVars, histVars, netVars, Locations
<1> QED BY <1>1, <1>2, <1>3, <1>4, <1>5, <1>6, <1>7, <1>8 DEF ClientNext

\* A reply of another server to request d.
OtherReplyTo(d, r) ==
    LET ts == convert_unix_time_into_ntp_time(HostClock(d.dst))
    IN  /\ d.dst \in OtherServers
        /\ r.src = d.dst /\ r.dst = d.src /\ r.id = d.id /\ r.by = d.dst
        /\ r.pkt.originate_timestamp = d.pkt.transmit_timestamp
        /\ r.pkt.receive_timestamp = ts
        /\ r.pkt.transmit_timestamp \in {ts, ZeroTimestamp}

\* Nothing else is added to the datagrams in flight.
LEMMA OtherReply ==
    ASSUME OtherServerReplies
    PROVE  \E d \in net : \E r : OtherReplyTo(d, r) /\ net' \subseteq net \cup {r}
<1>1. PICK d \in net, hdr \in OtherHeaders :
          /\ d.dst \in OtherServers
          /\ LET ts  == convert_unix_time_into_ntp_time(HostClock(d.dst))
                 rep == [src |-> d.dst, dst |-> d.src, port |-> d.port,
                         id |-> d.id, by |-> d.dst,
                         pkt |-> [li_vn_mode |-> hdr.li_vn_mode,
                                  stratum |-> hdr.stratum,
                                  originate_timestamp |-> d.pkt.transmit_timestamp,
                                  receive_timestamp |-> ts,
                                  transmit_timestamp |->
                                      IF hdr.synced THEN ts ELSE ZeroTimestamp]]
             IN  net' \in {net \cup {rep}, (net \ {d}) \cup {rep}}
  BY Zenon DEF OtherServerReplies
<1> DEFINE ts  == convert_unix_time_into_ntp_time(HostClock(d.dst))
           out == IF hdr.synced THEN ts ELSE ZeroTimestamp
           pkt == [li_vn_mode |-> hdr.li_vn_mode, stratum |-> hdr.stratum,
                   originate_timestamp |-> d.pkt.transmit_timestamp,
                   receive_timestamp |-> ts, transmit_timestamp |-> out]
           rep == [src |-> d.dst, dst |-> d.src, port |-> d.port,
                   id |-> d.id, by |-> d.dst, pkt |-> pkt]
<1>2. net' \in {net \cup {rep}, (net \ {d}) \cup {rep}}
  BY <1>1, Zenon
<1>3. out \in {ts, ZeroTimestamp}
  OBVIOUS
<1> HIDE DEF out
<1>4. pkt.originate_timestamp = d.pkt.transmit_timestamp
      /\ pkt.receive_timestamp = ts /\ pkt.transmit_timestamp = out
  OBVIOUS
<1> HIDE DEF pkt
<1>5. rep.src = d.dst /\ rep.dst = d.src /\ rep.id = d.id /\ rep.by = d.dst /\ rep.pkt = pkt
  OBVIOUS
<1> HIDE DEF rep
<1>6. OtherReplyTo(d, rep)
  BY <1>1, <1>3, <1>4, <1>5 DEF OtherReplyTo
<1>7. net' \subseteq net \cup {rep}
  BY <1>2
<1> QED BY <1>6, <1>7

\* No reply of another server disturbs the types.
LEMMA TypeOther ==
    ASSUME TypeOK, OtherServerReplies
    PROVE  TypeOK'
<1>1. PICK d \in net, hdr \in OtherHeaders :
          /\ d.dst \in OtherServers
          /\ LET ts  == convert_unix_time_into_ntp_time(HostClock(d.dst))
                 rep == [src |-> d.dst, dst |-> d.src, port |-> d.port,
                         id |-> d.id, by |-> d.dst,
                         pkt |-> [li_vn_mode |-> hdr.li_vn_mode,
                                  stratum |-> hdr.stratum,
                                  originate_timestamp |-> d.pkt.transmit_timestamp,
                                  receive_timestamp |-> ts,
                                  transmit_timestamp |->
                                      IF hdr.synced THEN ts ELSE ZeroTimestamp]]
             IN  net' \in {net \cup {rep}, (net \ {d}) \cup {rep}}
  BY Zenon DEF OtherServerReplies
<1> DEFINE ts  == convert_unix_time_into_ntp_time(HostClock(d.dst))
           out == IF hdr.synced THEN ts ELSE ZeroTimestamp
           pkt == [li_vn_mode |-> hdr.li_vn_mode, stratum |-> hdr.stratum,
                   originate_timestamp |-> d.pkt.transmit_timestamp,
                   receive_timestamp |-> ts, transmit_timestamp |-> out]
           rep == [src |-> d.dst, dst |-> d.src, port |-> d.port,
                   id |-> d.id, by |-> d.dst, pkt |-> pkt]
<1>2. d \in Datagram /\ d.dst \in Hosts /\ clock \in Timeval
  BY <1>1 DEF TypeOK, NetTypeOK, Datagram
<1>3. ts \in NtpTimestamp
  BY <1>2, HostClockType, ConversionType
<1>4. ZeroTimestamp \in NtpTimestamp
  BY TimeAssumption DEF ZeroTimestamp, NtpTimestamp
<1> HIDE DEF ts
<1>5. out \in NtpTimestamp
  BY <1>3, <1>4
<1> HIDE DEF out
<1>6. pkt \in ntp_packet
  BY <1>1, <1>2, <1>3, <1>5, SystemAssumption DEF ntp_packet, Datagram
<1> HIDE DEF pkt
<1>7. rep \in Datagram
  BY <1>2, <1>6 DEF Datagram
<1>8. net' \in {net \cup {rep}, (net \ {d}) \cup {rep}}
  BY <1>1, Zenon DEF rep, pkt, out, ts
<1> HIDE DEF rep
<1>9. net' \subseteq Datagram
  BY <1>7, <1>8 DEF TypeOK, NetTypeOK
<1> QED BY <1>9 DEF OtherServerReplies, TypeOK, NetTypeOK, ClientTypeOK, ServerTypeOK,
              clientVars, serverVars, pollVars, mainVars, histVars

\* Every step keeps the types.
LEMMA TypeStep ==
    ASSUME TypeOK, [Next]_vars
    PROVE  TypeOK'
<1>1. CASE ClientNext /\ UNCHANGED serverVars
  <2>1. ServerTypeOK'
    BY <1>1 DEF TypeOK, ServerTypeOK, serverVars
  <2> QED BY <1>1, <2>1, TypeClient DEF TypeOK
<1>2. CASE ServerNext /\ UNCHANGED clientVars
  <2>1. ClientTypeOK'
    BY <1>2 DEF TypeOK, ClientTypeOK, clientVars, pollVars, mainVars, histVars
  <2> QED BY <1>2, <2>1, TypeServer DEF TypeOK
<1>3. CASE OtherServerReplies
  BY <1>3, TypeOther
<1>4. CASE Tick
  <2>1. NetTypeOK'
    BY <1>4, ClockType DEF Tick, TypeOK, NetTypeOK
  <2> QED BY <1>4, <2>1 DEF Tick, TypeOK, ClientTypeOK, ServerTypeOK,
             clientVars, serverVars, pollVars, mainVars, histVars
<1>5. CASE UNCHANGED vars
  BY <1>5 DEF vars, TypeOK, NetTypeOK, ClientTypeOK, ServerTypeOK, netVars,
              clientVars, serverVars, pollVars, mainVars, histVars
<1> QED BY <1>1, <1>2, <1>3, <1>4, <1>5 DEF Next

\* Type correctness of the whole system, whatever the settings and however
\* many hosts, ports and datagrams there are.
THEOREM TypeCorrect == Spec => []TypeOK
  BY TypeInit, TypeStep, PTL DEF Spec
-----------------------------------------------------------------------------
(***************************************************************************)
(* PollSpacing.  The one wait that precedes a request is main's when the   *)
(* request is the first of its poll, and the busy wait of unicast_mode     *)
(* when it is not; which of them has been done is to be read off           *)
(* poll_timer, that unicast_mode sets to -1 and start_timer to the time.   *)
(***************************************************************************)

\* start_timer has run before, b requests having been built outside the polls.
Started(b) == IF cpc = "timer" THEN requests > b + 1 ELSE requests > b

\* The interval since start_timer last ran is over.
Elapsed == get_elapsed_time(last_timer, clock) > c_set.poll_wait

InLoop == cpc \in {"attempt", "timer", "send", "recv"}

Spacing(b) ==
    /\ clock.sec >= 0 /\ last_timer.sec >= 0
    /\ requests >= b
    /\ requests > b => c_set.max_unicast_retries >= 1
    /\ InLoop => retry_count >= 1
    /\ cpc = "timer" => requests > b
    /\ cpc = "wait" /\ Started(b) => counter > 0
    /\ cpc \in {"wait", "resolve"} /\ Started(b) => poll_timer = last_timer
    /\ cpc \in {"resolve", "timer"} /\ Started(b) => Elapsed
    /\ cpc \in {"send", "recv"} => poll_timer = last_timer
    /\ cpc = "attempt" /\ Started(b) =>
           \/ poll_timer = last_timer
           \/ poll_timer.sec = NotStarted /\ retry_count = 1 /\ Elapsed

SpacingInv == Spacing(0)

\* A poll that returns to main's loop has been counted.
LEMMA ReturnCounts ==
    ASSUME ClientTypeOK, ReturnToMain
    PROVE  /\ cpc' \in {"wait", "exit"}
           /\ cpc' = "wait" => counter' > 0
  BY DEF ReturnToMain, ClientTypeOK

\* A step of the client keeps Spacing.
LEMMA SpacingClient ==
    ASSUME NetTypeOK, ClientTypeOK, NEW b \in Nat, Spacing(b), ClientNext
    PROVE  Spacing(b)'
<1>0. /\ clock.sec \in Int /\ last_timer.sec \in Int /\ poll_timer.sec \in Int
      /\ c_set.poll_wait \in Nat /\ c_set.max_unicast_retries \in Int
      /\ requests \in Nat /\ counter \in Nat /\ retry_count \in Nat
  BY DEF NetTypeOK, ClientTypeOK, Timeval, Settings
<1> USE DEF Spacing, Started, Elapsed, InLoop, get_elapsed_time, NotStarted
<1>1. CASE StartPoll
  <2>1. UNCHANGED <<c_set, clock, last_timer, requests, poll_timer, retry_count>> /\ cpc = "wait"
    BY <1>1 DEF StartPoll, netVars
  <2>2. CASE cpc' = "resolve"
    <3>1. Started(b) => Elapsed
      BY <1>0, <1>1, <2>1 DEF StartPoll, PollIntervalOver
    <3> QED BY <1>0, <2>1, <2>2, <3>1
  <2>3. CASE PollFails
    <3>1. cpc' \in {"wait", "exit"} /\ (cpc' = "wait" => counter' > 0)
      BY <2>3, ReturnCounts DEF PollFails
    <3> QED BY <1>0, <2>1, <3>1
  <2> QED BY <1>1, <2>2, <2>3 DEF StartPoll
<1>2. CASE ResolveServer
  <2>1. UNCHANGED <<c_set, clock, last_timer, requests>> /\ cpc = "resolve"
    BY <1>2 DEF ResolveServer, netVars, histVars
  <2>2. CASE cpc' = "attempt" /\ retry_count' = 1
             /\ poll_timer' = [poll_timer EXCEPT !.sec = NotStarted]
    <3>1. poll_timer'.sec = NotStarted
      BY <2>2 DEF ClientTypeOK, Timeval
    <3> QED BY <1>0, <2>1, <2>2, <3>1
  <2>3. CASE PollFails /\ UNCHANGED <<retry_count, poll_timer>>
    <3>1. cpc' \in {"wait", "exit"} /\ (cpc' = "wait" => counter' > 0)
      BY <2>3, ReturnCounts DEF PollFails
    <3> QED BY <1>0, <2>1, <2>3, <3>1
  <2> QED BY <1>2, <2>2, <2>3 DEF ResolveServer
<1>3. CASE GiveUp
  <2>1. UNCHANGED <<c_set, clock, last_timer, requests, poll_timer, retry_count>>
        /\ cpc = "attempt" /\ retry_count > c_set.max_unicast_retries
    BY <1>3 DEF GiveUp, RetriesUsedUp, netVars, histVars, pollVars
  <2>2. cpc' \in {"wait", "exit"} /\ (cpc' = "wait" => counter' > 0)
    BY <1>3, ReturnCounts DEF GiveUp, PollFails
  <2>3. Started(b) => poll_timer = last_timer
    BY <1>0, <2>1
  <2> QED BY <1>0, <2>1, <2>2, <2>3
<1>4. CASE CreateRequest
  <2>1. UNCHANGED <<c_set, clock, last_timer, poll_timer, retry_count>>
        /\ cpc = "attempt" /\ retry_count <= c_set.max_unicast_retries
        /\ cpc' = "timer" /\ requests' = requests + 1
    BY <1>0, <1>4 DEF CreateRequest, RetriesUsedUp, netVars, pollVars
  <2>2. requests > b => Elapsed
    BY <1>0, <1>4, <2>1 DEF CreateRequest, RetryIntervalOver
  <2> QED BY <1>0, <2>1, <2>2
<1>5. CASE start_timer
  <2>1. UNCHANGED <<c_set, clock, requests, retry_count>>
        /\ cpc = "timer" /\ cpc' = "send" /\ poll_timer' = clock /\ last_timer' = clock
    BY <1>5 DEF start_timer, netVars, pollVars
  <2> QED BY <1>0, <2>1
<1>6. CASE SendRequest
  <2>1. UNCHANGED <<c_set, clock, last_timer, requests, poll_timer>>
        /\ cpc = "send" /\ cpc' \in {"recv", "attempt"}
        /\ retry_count' \in {retry_count, retry_count + 1}
    BY <1>6 DEF SendRequest, pollVars
  <2> QED BY <1>0, <2>1
<1>7. CASE ReceiveReply
  <2>1. UNCHANGED <<c_set, clock, last_timer, requests, poll_timer>> /\ cpc = "recv"
    BY <1>7 DEF ReceiveReply
  <2>2. \/ ReturnToMain /\ retry_count' = retry_count
        \/ cpc' = "recv" /\ retry_count' = retry_count
        \/ cpc' = "attempt" /\ retry_count' = retry_count + 1
    BY <1>7, <2>1 DEF ReceiveReply, AcceptReply
  <2>3. CASE ReturnToMain /\ retry_count' = retry_count
    <3>1. cpc' \in {"wait", "exit"} /\ (cpc' = "wait" => counter' > 0)
      BY <2>3, ReturnCounts
    <3> QED BY <1>0, <2>1, <2>3, <3>1
  <2>4. CASE cpc' = "recv" /\ retry_count' = retry_count
    BY <1>0, <2>1, <2>4
  <2>5. CASE cpc' = "attempt" /\ retry_count' = retry_count + 1
    BY <1>0, <2>1, <2>5
  <2> QED BY <2>2, <2>3, <2>4, <2>5
<1>8. CASE ReceiveTimeout
  <2>1. UNCHANGED <<c_set, clock, last_timer, requests, poll_timer>>
        /\ cpc = "recv" /\ cpc' = "attempt" /\ retry_count' = retry_count + 1
    BY <1>8 DEF ReceiveTimeout, netVars, histVars, pollVars
  <2> QED BY <1>0, <2>1
<1> QED BY <1>1, <1>2, <1>3, <1>4, <1>5, <1>6, <1>7, <1>8 DEF ClientNext

\* Time passing keeps it too: an interval that is over stays so.
LEMMA ClockMonotone ==
    ASSUME clock \in Timeval, AdvanceClock
    PROVE  clock'.sec >= clock.sec
<1>1. clock' \in [sec : {clock.sec, clock.sec + 1}, usec : Subseconds]
  BY DEF AdvanceClock
<1>2. clock.sec \in Int
  BY DEF Timeval
<1> QED BY <1>1, <1>2

LEMMA SpacingStays ==
    ASSUME TypeOK, NEW b \in Nat, Spacing(b), UNCHANGED clientVars, clock' = clock \/ AdvanceClock
    PROVE  Spacing(b)'
<1>1. clock \in Timeval /\ clock.sec \in Int /\ clock'.sec \in Int
      /\ last_timer.sec \in Int /\ c_set.poll_wait \in Nat
  BY ClockType DEF TypeOK, NetTypeOK, ClientTypeOK, Timeval, Settings
<1>2. clock'.sec >= clock.sec
  BY <1>1, ClockMonotone
<1>3. UNCHANGED <<c_set, cpc, counter, requests, poll_timer, last_timer, retry_count>>
  BY DEF clientVars, pollVars, mainVars, histVars
<1>4. Elapsed => Elapsed'
  BY <1>1, <1>2, <1>3 DEF Elapsed, get_elapsed_time
<1>5. clock'.sec >= 0
  BY <1>1, <1>2 DEF Spacing
<1> HIDE DEF Elapsed
<1> QED BY <1>3, <1>4, <1>5 DEF Spacing, Started, InLoop

\* Spacing holds throughout, no request being built outside the polls.
LEMMA SpacingInductive == Spec => [](TypeOK /\ SpacingInv)
<1>1. Init => SpacingInv
  BY SystemAssumption, NetworkAssumption
     DEF Init, ClientInit, SpacingInv, Spacing, Started, InLoop
<1>2. TypeOK /\ SpacingInv /\ [Next]_vars => SpacingInv'
  <2> SUFFICES ASSUME TypeOK, Spacing(0), [Next]_vars PROVE Spacing(0)'
    BY DEF SpacingInv
  <2>1. CASE ClientNext
    BY <2>1, SpacingClient DEF TypeOK
  <2>2. CASE UNCHANGED clientVars /\ (clock' = clock \/ AdvanceClock)
    BY <2>2, SpacingStays
  <2>3. CASE ServerNext /\ UNCHANGED clientVars
    BY <2>2, <2>3 DEF ServerNext, InitialiseServer, ServeReceive, ServeReply
  <2>4. CASE OtherServerReplies \/ Tick \/ UNCHANGED vars
    BY <2>2, <2>4 DEF OtherServerReplies, Tick, vars, netVars
  <2> QED BY <2>1, <2>3, <2>4 DEF Next
<1> QED BY <1>1, <1>2, TypeCorrect, PTL DEF Spec

\* The requests of a run, retries and polls alike, are started more than
\* poll_wait seconds apart (unicast_mode's busy wait and main's).
THEOREM PollSpacingHolds == Spec => PollSpacing
<1>1. TypeOK /\ SpacingInv =>
          (start_timer /\ requests > 1 => MoreThan(c_set.poll_wait, last_timer, clock))
  BY DEF TypeOK, NetTypeOK, ClientTypeOK, Timeval, Settings, SpacingInv, Spacing, Started, Elapsed,
         get_elapsed_time, MoreThan, start_timer
<1> QED BY <1>1, SpacingInductive, PTL DEF PollSpacing
-----------------------------------------------------------------------------
(***************************************************************************)
(* SocketsAccounted.  A socket is opened by one call, unicast_mode, and    *)
(* closed on one of its returns only; the count of the open ones moves     *)
(* with the counters of main in the steps that leave unicast_mode.         *)
(***************************************************************************)

SocketsInv == IsFiniteSet(socks) /\ SocketsAccounted

\* The socket that the poll in progress may have open.
Polling == IF InPoll THEN 1 ELSE 0

\* What a return to main leaves: main's counter, and no poll.
LEMMA ReturnFacts ==
    ASSUME ClientTypeOK, ReturnToMain
    PROVE  /\ ~ InPoll' /\ Polling' = 0
           /\ c_set.timed_repeat_updates_enabled = 1 => counter' = counter + 1
  BY DEF ReturnToMain, InPoll, Polling, ClientTypeOK

\* A poll that fails may leave its socket, and is counted.
LEMMA SocketsFail ==
    ASSUME ClientTypeOK, SocketsInv, PollFails, UNCHANGED c_set,
           IsFiniteSet(socks'), Cardinality(socks') <= Cardinality(socks) + 1 - Polling
    PROVE  SocketsInv'
<1>1. ~ InPoll' /\ (c_set.timed_repeat_updates_enabled = 1 => counter' = counter + 1)
      /\ s_counter' = s_counter
  BY ReturnFacts DEF PollFails
<1>2. Cardinality(socks) \in Nat /\ Cardinality(socks') \in Nat /\ counter \in Nat /\ s_counter \in Nat
  BY FS_CardinalityType DEF SocketsInv, ClientTypeOK
<1>3. c_set.timed_repeat_updates_enabled = 1 =>
          Cardinality(socks) <= (counter - s_counter) + Polling
  BY DEF SocketsInv, SocketsAccounted, Polling
<1>4. c_set.timed_repeat_updates_enabled = 1 => Cardinality(socks') <= counter' - s_counter'
  <2>1. Polling \in {0, 1}
    BY DEF Polling
  <2> QED BY <1>1, <1>2, <1>3, <2>1
<1>5. c_set.timed_repeat_updates_enabled = 1 =>
          Cardinality(socks') <= (counter' - s_counter') + (IF InPoll' THEN 1 ELSE 0)
  <2> SUFFICES ASSUME c_set.timed_repeat_updates_enabled = 1
               PROVE  Cardinality(socks') <= (counter' - s_counter') + 0
    BY <1>1
  <2> QED BY <1>1, <1>2, <1>4
<1> QED BY <1>1, <1>5 DEF SocketsInv, SocketsAccounted

\* A step that stays inside or outside unicast_mode and opens and closes nothing.
LEMMA SocketsStay ==
    ASSUME SocketsInv, UNCHANGED <<c_set, sockfd, socks, counter, s_counter>>, InPoll' <=> InPoll
    PROVE  SocketsInv'
  BY DEF SocketsInv, SocketsAccounted

\* A step of the client keeps SocketsInv.
LEMMA SocketsClient ==
    ASSUME ClientTypeOK, SocketsInv, ClientNext
    PROVE  SocketsInv'
<1>0. Cardinality(socks) \in Nat /\ counter \in Nat /\ s_counter \in Nat /\ IsFiniteSet(socks)
  BY FS_CardinalityType DEF SocketsInv, ClientTypeOK
<1>1. CASE StartPoll
  <2>1. UNCHANGED c_set /\ ~ InPoll /\ Polling = 0
    BY <1>1 DEF StartPoll, InPoll, Polling
  <2>2. PICK code \in {0, 3, 8} :
            /\ initialise_socket(code)
            /\ IF code = 0 THEN cpc' = "resolve" /\ UNCHANGED mainVars ELSE PollFails
    BY <1>1, Zenon DEF StartPoll
  <2>3. \/ socks' = socks /\ code = 3
        \/ socks' = socks \cup {sockfd'} /\ sockfd' \notin socks
    BY <2>2 DEF initialise_socket
  <2>4. IsFiniteSet(socks') /\ Cardinality(socks') <= Cardinality(socks) + 1
    <3>1. /\ IsFiniteSet(socks \cup {sockfd'})
          /\ sockfd' \notin socks => Cardinality(socks \cup {sockfd'}) = Cardinality(socks) + 1
      BY <1>0, FS_AddElement
    <3>2. CASE socks' = socks
      BY <1>0, <3>2
    <3>3. CASE socks' = socks \cup {sockfd'} /\ sockfd' \notin socks
      <4>1. IsFiniteSet(socks') /\ Cardinality(socks') = Cardinality(socks) + 1
        BY <3>1, <3>3, Zenon
      <4> QED BY <1>0, <4>1
    <3> QED BY <2>3, <3>2, <3>3
  <2>5. CASE code # 0
    BY <1>0, <2>1, <2>2, <2>4, <2>5, SocketsFail
  <2>6. CASE code = 0
    <3>1. InPoll' /\ sockfd' \in socks' /\ UNCHANGED <<counter, s_counter>>
      BY <2>2, <2>3, <2>6 DEF InPoll, mainVars
    <3>2. c_set.timed_repeat_updates_enabled = 1 =>
              Cardinality(socks) <= (counter - s_counter) + 0
      BY <2>1 DEF SocketsInv, SocketsAccounted
    <3>3. Cardinality(socks') \in Nat
      BY <2>4, FS_CardinalityType
    <3>4. c_set.timed_repeat_updates_enabled = 1 =>
              Cardinality(socks') <= (counter' - s_counter') + 1
      BY <1>0, <2>4, <3>1, <3>2, <3>3
    <3> QED BY <2>1, <2>4, <3>1, <3>4 DEF SocketsInv, SocketsAccounted
  <2> QED BY <2>5, <2>6
<1>2. CASE ResolveServer
  <2>1. UNCHANGED <<c_set, sockfd, socks>> /\ InPoll /\ Polling = 1
    BY <1>2 DEF ResolveServer, InPoll, Polling
  <2>2. CASE PollFails
    BY <1>0, <2>1, <2>2, SocketsFail
  <2>3. CASE cpc' = "attempt" /\ UNCHANGED mainVars
    BY <2>1, <2>3, SocketsStay DEF InPoll, mainVars
  <2> QED BY <1>2, <2>2, <2>3 DEF ResolveServer
<1>3. CASE GiveUp
  <2>1. UNCHANGED <<c_set, socks>> /\ Polling = 1 /\ PollFails
    BY <1>3 DEF GiveUp, InPoll, Polling, pollVars
  <2> QED BY <1>0, <2>1, SocketsFail
<1>4. CASE CreateRequest
  BY <1>4, SocketsStay DEF CreateRequest, InPoll, pollVars, mainVars
<1>5. CASE start_timer
  BY <1>5, SocketsStay DEF start_timer, InPoll, pollVars, mainVars
<1>6. CASE SendRequest
  <2>1. cpc = "send" /\ cpc' \in {"recv", "attempt"} /\ UNCHANGED <<pollVars, mainVars>>
    BY <1>6 DEF SendRequest
  <2> QED BY <2>1, SocketsStay DEF InPoll, pollVars, mainVars
<1>7. CASE ReceiveReply
  <2>1. UNCHANGED <<c_set, sockfd>> /\ cpc = "recv"
    BY <1>7 DEF ReceiveReply
  <2>2. \/ \E d \in net : AcceptReply(d)
        \/ cpc' \in {"recv", "attempt"} /\ UNCHANGED <<mainVars, socks>>
    BY <1>7, <2>1 DEF ReceiveReply
  <2>3. CASE \E d \in net : AcceptReply(d)
    <3>1. ReturnToMain /\ CloseSocket
          /\ s_counter' = s_counter + c_set.timed_repeat_updates_enabled
      BY <2>3 DEF AcceptReply
    <3>2. sockfd \in socks /\ InPoll
      BY <2>1 DEF SocketsInv, SocketsAccounted, InPoll
    <3>3. IsFiniteSet(socks') /\ Cardinality(socks') = Cardinality(socks) - 1
      BY <1>0, <3>1, <3>2, FS_RemoveElement DEF CloseSocket
    <3>4. ~ InPoll' /\ (c_set.timed_repeat_updates_enabled = 1 => counter' = counter + 1)
      BY <3>1, ReturnFacts
    <3>5. c_set.timed_repeat_updates_enabled = 1 =>
              Cardinality(socks) <= (counter - s_counter) + 1
      BY <3>2 DEF SocketsInv, SocketsAccounted
    <3>6. c_set.timed_repeat_updates_enabled = 1 =>
              Cardinality(socks') <= (counter' - s_counter') + 0
      BY <1>0, <3>1, <3>3, <3>4, <3>5
    <3> QED BY <2>1, <3>3, <3>4, <3>6 DEF SocketsInv, SocketsAccounted
  <2>4. CASE cpc' \in {"recv", "attempt"} /\ UNCHANGED <<mainVars, socks>>
    BY <2>1, <2>4, SocketsStay DEF InPoll, mainVars
  <2> QED BY <2>2, <2>3, <2>4
<1>8. CASE ReceiveTimeout
  BY <1>8, SocketsStay DEF ReceiveTimeout, InPoll, pollVars, mainVars
<1> QED BY <1>1, <1>2, <1>3, <1>4, <1>5, <1>6, <1>7, <1>8 DEF ClientNext

\* Every socket that is open belongs to the poll in progress or to a poll that
\* failed, however many polls there are and however they end.
THEOREM SocketsAccountedHolds == Spec => []SocketsAccounted
<1>1. Init => SocketsInv
  <2> SUFFICES ASSUME Init PROVE SocketsInv
    OBVIOUS
  <2>1. socks = {} /\ counter = 0 /\ s_counter = 0 /\ ~ InPoll
    BY DEF Init, ClientInit, InPoll
  <2>2. IsFiniteSet(socks) /\ Cardinality(socks) = 0
    BY <2>1, FS_EmptySet
  <2> QED BY <2>1, <2>2 DEF SocketsInv, SocketsAccounted
<1>2. TypeOK /\ SocketsInv /\ [Next]_vars => SocketsInv'
  <2> SUFFICES ASSUME TypeOK, SocketsInv, [Next]_vars PROVE SocketsInv'
    OBVIOUS
  <2>1. CASE ClientNext
    BY <2>1, SocketsClient DEF TypeOK
  <2>2. CASE UNCHANGED clientVars
    BY <2>2, SocketsStay DEF clientVars, pollVars, mainVars, InPoll
  <2> QED BY <2>1, <2>2 DEF Next, OtherServerReplies, Tick, vars
<1>3. SocketsInv => SocketsAccounted
  BY DEF SocketsInv
<1> QED BY <1>1, <1>2, <1>3, TypeCorrect, PTL DEF Spec

-----------------------------------------------------------------------------
(* What a poll reports. *)

\* The clock stays within one NTP era.
InEra == clock.sec < SecMod

\* The client holds a request it has not given up on.
Asking == cpc \in {"timer", "send", "recv"}

\* The request timestamp a datagram carries.
Asked(d) == IF d.by = Client THEN d.pkt.transmit_timestamp ELSE d.pkt.originate_timestamp

\* ts is the time of an instant no later than second n.
StampedBy(ts, n) ==
    \E tv : Representable(tv) /\ tv.sec <= n /\ ts = convert_unix_time_into_ntp_time(tv)

\* A datagram d of this run: a request of the client built by second n, or a
\* reply to one.
Known(d, n) ==
    /\ d.id \in 1..requests
    /\ d.by = Client => d.src = Client /\ Mode(d.pkt) = MODE_CLIENT
    /\ d.by # Client => d.dst = Client
    /\ StampedBy(Asked(d), n)
    /\ Asking /\ d.id # requests => Asked(d) # request_pkt.transmit_timestamp

CurrentRequest(n) ==
    Asking =>
        /\ requests > 0 /\ Mode(request_pkt) = MODE_CLIENT
        /\ StampedBy(request_pkt.transmit_timestamp,
                     IF cpc = "timer" THEN clock.sec ELSE n)

\* The requests but the one being built were built by second n.
Fresh(n) ==
    /\ n <= clock.sec
    /\ CurrentRequest(n)
    /\ \A d \in net : Known(d, n)
    /\ \A s \in Servers : \A d \in Datagram :
           spc[s] = "reply" /\ client_req[s][1].dgram = d => Known(d, n) /\ d.dst = s
    /\ FreshSample

\* The timer is started after the request is built.
FreshInv == Fresh(last_timer.sec)

\* A time bound on a timestamp may be raised.
LEMMA StampedLater ==
    ASSUME NEW ts, NEW m \in Int, NEW n \in Int, m <= n, StampedBy(ts, m)
    PROVE  StampedBy(ts, n)
<1>1. PICK tv : Representable(tv) /\ tv.sec <= m /\ ts = convert_unix_time_into_ntp_time(tv)
  BY DEF StampedBy
<1>2. tv.sec <= n
  BY <1>1 DEF Representable, Timeval
<1> QED BY <1>1, <1>2 DEF StampedBy

\* A datagram stays known while the client keeps to its request.
LEMMA KnownStays ==
    ASSUME requests' = requests, request_pkt' = request_pkt, Asking' => Asking,
           NEW n \in Int, NEW m \in Int, n <= m, NEW d, Known(d, n)
    PROVE  Known(d, m)'
<1>1. StampedBy(Asked(d), m)
  BY StampedLater DEF Known
<1> QED BY <1>1 DEF Known, Asked, StampedBy

\* A step of the client which builds no request and accepts nothing but what is
\* fresh.
LEMMA FreshStep ==
    ASSUME TypeOK, TypeOK', NEW n \in Int, NEW m \in Int, Fresh(n),
           UNCHANGED <<requests, request_pkt, serverVars>>,
           n <= m, m <= clock'.sec, clock.sec <= clock'.sec,
           Asking' => Asking, cpc' = "timer" => cpc = "timer",
           cpc = "timer" => cpc' = "timer" \/ m = clock.sec,
           \A d \in net' : d \in net \/ Known(d, m)',
           FreshSample'
    PROVE  Fresh(m)'
<1>1. clock.sec \in Int /\ clock'.sec \in Int
  BY DEF TypeOK, NetTypeOK, Timeval
<1>2. \A d : Known(d, n) => Known(d, m)'
  BY KnownStays
<1>3. CurrentRequest(m)'
  <2> SUFFICES ASSUME Asking'
               PROVE  /\ requests' > 0 /\ Mode(request_pkt') = MODE_CLIENT
                      /\ StampedBy(request_pkt'.transmit_timestamp,
                             IF cpc' = "timer" THEN clock'.sec ELSE m)
    BY DEF CurrentRequest, StampedBy, Asking
  <2>1. requests > 0 /\ Mode(request_pkt) = MODE_CLIENT
        /\ StampedBy(request_pkt.transmit_timestamp, IF cpc = "timer" THEN clock.sec ELSE n)
    BY DEF Fresh, CurrentRequest
  <2>2. (IF cpc = "timer" THEN clock.sec ELSE n) <= (IF cpc' = "timer" THEN clock'.sec ELSE m)
    BY <1>1
  <2>3. StampedBy(request_pkt.transmit_timestamp, IF cpc' = "timer" THEN clock'.sec ELSE m)
    BY <1>1, <2>1, <2>2, StampedLater
  <2> QED BY <2>1, <2>3
<1>4. \A d \in net' : Known(d, m)'
  BY <1>2 DEF Fresh
<1>5. \A s \in Servers : \A d \in Datagram :
          spc'[s] = "reply" /\ client_req'[s][1].dgram = d => Known(d, m)' /\ d.dst = s
  BY <1>2 DEF Fresh, serverVars
<1> QED BY <1>3, <1>4, <1>5 DEF Fresh

\* A new request has a timestamp no datagram carries yet.
LEMMA FreshCreate ==
    ASSUME TypeOK, TypeOK', NEW n \in Int, Fresh(n), InEra, clock.sec >= 0,
           requests > 0 => n < clock.sec, CreateRequest, UNCHANGED serverVars
    PROVE  Fresh(n)'
<1>1. /\ cpc = "attempt" /\ cpc' = "timer" /\ requests' = requests + 1 /\ requests \in Nat
      /\ request_pkt' = create_packet(clock)
      /\ UNCHANGED <<clock, net, accepted>>
  BY DEF CreateRequest, netVars, TypeOK, ClientTypeOK
<1>2. clock \in Timeval /\ clock.sec \in Int
  BY DEF TypeOK, NetTypeOK, Timeval
<1>3. Representable(clock)
  BY <1>2, TimeAssumption DEF Representable, InEra
<1>4. request_pkt'.transmit_timestamp = convert_unix_time_into_ntp_time(clock)
      /\ Mode(request_pkt') = MODE_CLIENT
  BY <1>1 DEF create_packet, Mode, MODE_CLIENT
<1>5. CurrentRequest(n)'
  <2>1. StampedBy(request_pkt'.transmit_timestamp, clock'.sec)
    BY <1>1, <1>2, <1>3, <1>4 DEF StampedBy
  <2> QED BY <1>1, <1>4, <2>1 DEF CurrentRequest, StampedBy
<1>6. ASSUME NEW d, Known(d, n) PROVE Known(d, n)'
  <2>1. d.id \in 1..requests /\ d.id \in 1..requests' /\ requests > 0 /\ d.id # requests'
    BY <1>1, <1>6 DEF Known
  <2>2. PICK tv : Representable(tv) /\ tv.sec <= n
                  /\ Asked(d) = convert_unix_time_into_ntp_time(tv)
    BY <1>6 DEF Known, StampedBy
  <2>3. tv # clock
    BY <1>2, <2>1, <2>2 DEF Representable, Timeval
  <2>4. Asked(d) # request_pkt'.transmit_timestamp
    BY <1>3, <1>4, <2>2, <2>3, ConversionInjective
  <2>5. StampedBy(Asked(d), n)
    BY <1>6 DEF Known
  <2> QED BY <1>6, <2>1, <2>4, <2>5 DEF Known, Asked, StampedBy
<1>7. FreshSample'
  BY <1>1 DEF Fresh, FreshSample
<1> QED BY <1>1, <1>5, <1>6, <1>7 DEF Fresh, serverVars

\* What is accepted answers the current request: the originate check.
LEMMA FreshAccept ==
    ASSUME NEW n, Fresh(n), cpc = "recv", NEW d \in net, AcceptReply(d),
           run_sanity_checks(request_pkt, d.pkt) = 0
    PROVE  FreshSample'
<1>1. d.pkt.originate_timestamp = request_pkt.transmit_timestamp /\ Mode(d.pkt) = MODE_SERVER
  BY DEF run_sanity_checks
<1>2. Known(d, n) /\ Asking
  BY DEF Fresh, Asking
<1>3. d.by # Client
  BY <1>1, <1>2 DEF Known, MODE_CLIENT, MODE_SERVER
<1>4. d.id = requests
  BY <1>1, <1>2, <1>3 DEF Known, Asked
<1>5. PICK smp : accepted' = <<smp>> /\ smp.id = d.id /\ smp.current = requests
  BY DEF AcceptReply
<1>6. \A i \in 1..Len(accepted') : accepted'[i].id = accepted'[i].current
  BY <1>4, <1>5
<1> QED BY <1>6 DEF FreshSample

\* A step of the client keeps FreshInv.
LEMMA FreshClient ==
    ASSUME TypeOK, TypeOK', NEW n \in Int, Fresh(n), InEra, clock.sec >= 0,
           CreateRequest /\ requests > 0 => n < clock.sec,
           NEW m \in Int, m = IF cpc = "timer" THEN clock.sec ELSE n,
           ClientNext, UNCHANGED serverVars
    PROVE  Fresh(m)'
<1>0. clock.sec \in Int /\ n <= clock.sec /\ n <= m /\ m <= clock.sec
      /\ (UNCHANGED accepted => FreshSample')
  BY DEF TypeOK, NetTypeOK, Timeval, Fresh, FreshSample
<1>1. CASE StartPoll
  <2>1. /\ UNCHANGED <<clock, net, requests, request_pkt>>
        /\ cpc = "wait" /\ accepted' = << >>
    BY <1>1 DEF StartPoll, netVars
  <2>2. cpc' \in {"wait", "resolve", "exit"}
    BY <1>1 DEF StartPoll, PollFails, ReturnToMain
  <2>3. FreshSample'
    BY <2>1 DEF FreshSample
  <2> QED BY <1>0, <2>1, <2>2, <2>3, FreshStep DEF Asking
<1>2. CASE ResolveServer
  <2>1. UNCHANGED <<clock, net, requests, request_pkt, accepted>> /\ cpc = "resolve"
    BY <1>2 DEF ResolveServer, netVars, histVars
  <2>2. cpc' \in {"wait", "attempt", "exit"}
    BY <1>2 DEF ResolveServer, PollFails, ReturnToMain
  <2> QED BY <1>0, <2>1, <2>2, FreshStep DEF Asking
<1>3. CASE GiveUp
  <2>1. UNCHANGED <<clock, net, requests, request_pkt, accepted>> /\ cpc = "attempt"
    BY <1>3 DEF GiveUp, netVars, histVars
  <2>2. cpc' \in {"wait", "exit"}
    BY <1>3 DEF GiveUp, PollFails, ReturnToMain
  <2> QED BY <1>0, <2>1, <2>2, FreshStep DEF Asking
<1>4. CASE CreateRequest
  <2>1. cpc = "attempt"
    BY <1>4 DEF CreateRequest
  <2> QED BY <1>4, <2>1, FreshCreate
<1>5. CASE start_timer
  <2>1. UNCHANGED <<clock, net, requests, request_pkt, accepted>>
        /\ cpc = "timer" /\ cpc' = "send"
    BY <1>5 DEF start_timer, netVars
  <2> QED BY <1>0, <2>1, FreshStep DEF Asking
<1>6. CASE SendRequest
  <2> DEFINE q == [src |-> Client, dst |-> userver, port |-> sockfd,
                   pkt |-> request_pkt, id |-> requests, by |-> Client]
  <2>1. /\ UNCHANGED <<clock, requests, request_pkt, accepted>>
        /\ cpc = "send" /\ cpc' \in {"recv", "attempt"}
    BY <1>6 DEF SendRequest
  <2>2. net' = net \/ net' = net \cup {q}
    <3>1. PICK code \in {0, 1} : send_SNTP_packet(q, code)
      BY <1>6, Zenon DEF SendRequest
    <3> HIDE DEF q
    <3> QED BY <3>1 DEF send_SNTP_packet, SendOK
  <2>3. /\ requests > 0 /\ requests \in Nat /\ Mode(request_pkt) = MODE_CLIENT
        /\ StampedBy(request_pkt.transmit_timestamp, n)
    BY <2>1 DEF Fresh, CurrentRequest, Asking, TypeOK, ClientTypeOK
  <2>4. \A d \in net' : d \in net \/ Known(d, m)'
    <3>1. ASSUME NEW r, r = q PROVE Known(r, m)'
      <4>1. r.by = Client /\ r.src = Client /\ r.id = requests /\ r.pkt = request_pkt
        BY <3>1
      <4>2. StampedBy(Asked(r), m)
        BY <2>1, <2>3, <4>1 DEF Asked
      <4> HIDE DEF q
      <4> QED BY <2>1, <2>3, <4>1, <4>2 DEF Known, Asked, StampedBy
    <3> HIDE DEF q
    <3> QED BY <2>2, <3>1
  <2> QED BY <1>0, <2>1, <2>4, FreshStep DEF Asking
<1>7. CASE ReceiveReply
  <2>1. UNCHANGED <<clock, requests, request_pkt>> /\ cpc = "recv"
    BY <1>7 DEF ReceiveReply
  <2>2. net' \subseteq net
    BY <1>7 DEF ReceiveReply, recieve_SNTP_packet
  <2>3. cpc' \in {"recv", "attempt", "wait", "exit"}
    BY <1>7, <2>1 DEF ReceiveReply, AcceptReply, ReturnToMain
  <2>4. \/ UNCHANGED accepted
        \/ \E d \in net : AcceptReply(d) /\ run_sanity_checks(request_pkt, d.pkt) = 0
    BY <1>7 DEF ReceiveReply
  <2>5. FreshSample'
    BY <1>0, <2>1, <2>4, FreshAccept
  <2> QED BY <1>0, <2>1, <2>2, <2>3, <2>5, FreshStep DEF Asking
<1>8. CASE ReceiveTimeout
  <2>1. UNCHANGED <<clock, net, requests, request_pkt, accepted>> /\ cpc = "recv"
        /\ cpc' = "attempt"
    BY <1>8 DEF ReceiveTimeout, netVars, histVars
  <2> QED BY <1>0, <2>1, FreshStep DEF Asking
<1> QED BY <1>1, <1>2, <1>3, <1>4, <1>5, <1>6, <1>7, <1>8 DEF ClientNext

\* What a server makes of a known request is known.
LEMMA KnownReply ==
    ASSUME UNCHANGED clientVars, NEW n, NEW d, Known(d, n), d.dst # Client, d.src \in Hosts,
           NEW r, r.id = d.id, r.by # Client, r.dst = d.src,
           r.pkt.originate_timestamp = d.pkt.transmit_timestamp
    PROVE  Known(r, n)'
<1>1. d.by = Client /\ d.src = Client
  BY DEF Known
<1>2. Asked(r) = Asked(d)
  BY <1>1 DEF Asked
<1>3. Known(r, n)
  BY <1>1, <1>2 DEF Known
<1> QED BY <1>3 DEF Known, StampedBy, Asked, Asking, clientVars, histVars

\* A step of a server keeps Fresh.
LEMMA FreshServer ==
    ASSUME TypeOK, NEW n, Fresh(n), ServerNext, UNCHANGED clientVars
    PROVE  Fresh(n)'
<1>1. PICK s \in Servers : InitialiseServer(s) \/ ServeReceive(s) \/ ServeReply(s)
  BY DEF ServerNext
<1>2. s \in Hosts /\ s # Client /\ clock' = clock
  BY <1>1, ServerAssumption DEF InitialiseServer, ServeReceive, ServeReply
<1>3. ASSUME NEW d, Known(d, n) PROVE Known(d, n)'
  BY <1>3 DEF Known, StampedBy, Asked, Asking, clientVars, histVars
<1>4. n <= clock'.sec /\ CurrentRequest(n)' /\ FreshSample'
  BY <1>2 DEF Fresh, CurrentRequest, FreshSample, StampedBy, Asking, clientVars, histVars
<1>5. spc \in [Servers -> {"init", "listen", "reply", "exit"}]
      /\ client_req \in [Servers -> Seq([dgram : Datagram, time_of_request : NtpTimestamp])]
  BY DEF TypeOK, ServerTypeOK
<1>6. CASE InitialiseServer(s)
  <2>1. net' = net /\ client_req' = client_req
        /\ \A x \in Servers : spc'[x] = "reply" => spc[x] = "reply"
    BY <1>5, <1>6 DEF InitialiseServer
  <2> QED BY <1>3, <1>4, <2>1 DEF Fresh
<1>7. CASE ServeReceive(s)
  <2>1. PICK d \in net :
            /\ d.dst = s /\ net' \subseteq net
            /\ \E ts : client_req' =
                   [client_req EXCEPT ![s] = << [dgram |-> d, time_of_request |-> ts] >>]
            /\ \A x \in Servers : x # s => spc'[x] = spc[x]
    BY <1>5, <1>7 DEF ServeReceive, recieve_SNTP_packet
  <2>2. client_req'[s][1].dgram = d
    BY <1>5, <2>1
  <2>3. \A x \in Servers : x # s => client_req'[x] = client_req[x]
    BY <1>5, <2>1
  <2>4. Known(d, n)'
    BY <1>3, <2>1 DEF Fresh
  <2>5. \A x \in Servers : \A e \in Datagram :
            spc'[x] = "reply" /\ client_req'[x][1].dgram = e => Known(e, n)' /\ e.dst = x
    <3> SUFFICES ASSUME NEW x \in Servers, NEW e \in Datagram,
                        spc'[x] = "reply", client_req'[x][1].dgram = e
                 PROVE  Known(e, n)' /\ e.dst = x
      OBVIOUS
    <3>1. CASE x = s
      BY <2>1, <2>2, <2>4, <3>1
    <3>2. CASE x # s
      BY <1>3, <2>1, <2>3, <3>2 DEF Fresh
    <3> QED BY <3>1, <3>2
  <2>6. \A e \in net' : Known(e, n)'
    BY <1>3, <2>1 DEF Fresh
  <2> QED BY <1>4, <2>5, <2>6 DEF Fresh
<1>8. CASE ServeReply(s)
  <2> DEFINE req == client_req[s][1].dgram
             pkt == create_reply_packet(req.pkt, client_req[s][1].time_of_request, HostClock(s))
             rep(from) == [src |-> from, dst |-> req.src, port |-> req.port,
                           pkt |-> pkt, id |-> req.id, by |-> s]
  <2>1. spc[s] = "reply" /\ client_req' = client_req
        /\ \A x \in Servers : spc'[x] = "reply" => spc[x] = "reply"
    BY <1>5, <1>8 DEF ServeReply
  <2>2. client_req[s][1] \in [dgram : Datagram, time_of_request : NtpTimestamp]
    BY <1>5, <2>1, OneElement DEF TypeOK, ServerTypeOK
  <2>3. req \in Datagram
    BY <2>2
  <2>4. Known(req, n) /\ req.dst = s
    BY <2>1, <2>3 DEF Fresh
  <2>5. PICK from : net' = net \/ net' = net \cup {rep(from)}
    <3>1. PICK from \in ReplyFrom[s], code \in {0, 1} : send_SNTP_packet(rep(from), code)
      BY <1>8, Zenon DEF ServeReply
    <3>2. net' = net \/ net' = net \cup {rep(from)}
      <4> HIDE DEF rep
      <4> QED BY <3>1 DEF send_SNTP_packet, SendOK
    <3> QED BY <3>2
  <2>6. pkt.originate_timestamp = req.pkt.transmit_timestamp
    BY DEF create_reply_packet
  <2>7. req.src \in Hosts
    BY <2>3 DEF Datagram
  <2> HIDE DEF req, pkt
  <2>8. ASSUME NEW r, r = rep(from), NEW d, d = req PROVE Known(r, n)'
    <3>1. r.id = d.id /\ r.by = s /\ r.dst = d.src /\ r.pkt = pkt
      BY <2>8
    <3>2. Known(d, n) /\ d.dst # Client /\ d.src \in Hosts
      BY <1>2, <2>4, <2>7, <2>8
    <3>3. r.pkt.originate_timestamp = d.pkt.transmit_timestamp
      BY <2>6, <2>8, <3>1
    <3> QED BY <1>2, <3>1, <3>2, <3>3, KnownReply
  <2> HIDE DEF rep
  <2>9. \A e \in net' : Known(e, n)'
    BY <1>3, <2>5, <2>8 DEF Fresh
  <2>10. \A x \in Servers : \A e \in Datagram :
             spc'[x] = "reply" /\ client_req'[x][1].dgram = e => Known(e, n)' /\ e.dst = x
    BY <1>3, <2>1 DEF Fresh
  <2> QED BY <1>4, <2>9, <2>10 DEF Fresh
<1> QED BY <1>1, <1>6, <1>7, <1>8

\* So does a reply of another server.
LEMMA FreshOther ==
    ASSUME TypeOK, NEW n, Fresh(n), OtherServerReplies
    PROVE  Fresh(n)'
<1>1. UNCHANGED <<clock, clientVars, serverVars>>
  BY DEF OtherServerReplies
<1>2. ASSUME NEW d, Known(d, n) PROVE Known(d, n)'
  BY <1>1, <1>2 DEF Known, StampedBy, Asked, Asking, clientVars, histVars
<1>3. n <= clock'.sec /\ CurrentRequest(n)' /\ FreshSample'
  BY <1>1 DEF Fresh, CurrentRequest, FreshSample, StampedBy, Asking, clientVars, histVars
<1>4. PICK d \in net : \E r : OtherReplyTo(d, r) /\ net' \subseteq net \cup {r}
  BY OtherReply
<1>5. PICK r : OtherReplyTo(d, r) /\ net' \subseteq net \cup {r}
  BY <1>4
<1>6. Known(d, n) /\ d.dst # Client /\ d.src \in Hosts
  BY <1>5, SystemAssumption DEF OtherReplyTo, Fresh, TypeOK, NetTypeOK, Datagram
<1>7. Known(r, n)'
  <2>1. r.id = d.id /\ r.by # Client /\ r.dst = d.src
        /\ r.pkt.originate_timestamp = d.pkt.transmit_timestamp
    BY <1>5, SystemAssumption DEF OtherReplyTo
  <2> QED BY <1>1, <1>6, <2>1, KnownReply
<1>8. \A e \in net' : Known(e, n)'
  BY <1>2, <1>5, <1>7 DEF Fresh
<1> QED BY <1>1, <1>2, <1>3, <1>8 DEF Fresh, serverVars

\* A request is built in a later second than that of the last one.
LEMMA CreateSpaced ==
    ASSUME TypeOK, NEW b \in Nat, Spacing(b), CreateRequest, requests > b
    PROVE  last_timer.sec < clock.sec
<1>1. /\ clock.sec \in Int /\ last_timer.sec \in Int
      /\ poll_timer.sec \in Int /\ c_set.poll_wait \in Nat
  BY DEF TypeOK, NetTypeOK, ClientTypeOK, Timeval, Settings
<1> QED BY <1>1 DEF CreateRequest, RetryIntervalOver, Spacing, Started, Elapsed,
                get_elapsed_time, NotStarted

\* FreshInv holds throughout.
LEMMA FreshInductive == Spec /\ []InEra => [](TypeOK /\ SpacingInv /\ FreshInv)
<1>1. Init => FreshInv
  <2> SUFFICES ASSUME Init PROVE FreshInv
    OBVIOUS
  <2>1. cpc \in {"wait", "exit"} /\ net = {} /\ accepted = << >> /\ last_timer = clock
    BY DEF Init, ClientInit
  <2>2. \A s \in Servers : spc[s] = "init"
    BY DEF Init, ServerInit
  <2>3. clock.sec \in Int
    BY TypeInit DEF TypeOK, NetTypeOK, Timeval
  <2> QED BY <2>1, <2>2, <2>3 DEF FreshInv, Fresh, CurrentRequest, Asking, FreshSample
<1>2. /\ TypeOK /\ TypeOK' /\ SpacingInv /\ InEra /\ FreshInv
      /\ [Next]_vars
      => FreshInv'
  <2> SUFFICES ASSUME TypeOK, TypeOK', SpacingInv, InEra, FreshInv, [Next]_vars
               PROVE  FreshInv'
    OBVIOUS
  <2>0. last_timer.sec \in Int /\ last_timer'.sec \in Int /\ clock.sec \in Int
        /\ Fresh(last_timer.sec) /\ clock.sec >= 0
    BY DEF TypeOK, NetTypeOK, ClientTypeOK, Timeval, FreshInv, SpacingInv, Spacing
  <2>1. CASE ClientNext /\ UNCHANGED serverVars
    <3>1. last_timer'.sec = IF cpc = "timer" THEN clock.sec ELSE last_timer.sec
      BY <2>1 DEF ClientNext, StartPoll, ResolveServer, GiveUp, CreateRequest, start_timer,
                  SendRequest, ReceiveReply, ReceiveTimeout, histVars
    <3>2. CreateRequest /\ requests > 0 => last_timer.sec < clock.sec
      BY CreateSpaced DEF SpacingInv
    <3>3. ASSUME NEW m, m = last_timer'.sec PROVE Fresh(m)'
      BY <2>0, <2>1, <3>1, <3>2, <3>3, FreshClient
    <3> QED BY <3>3 DEF FreshInv, Fresh, CurrentRequest, Known
  <2>2. CASE ServerNext /\ UNCHANGED clientVars
    BY <2>0, <2>2, FreshServer DEF FreshInv, clientVars, histVars
  <2>3. CASE OtherServerReplies
    BY <2>0, <2>3, FreshOther DEF FreshInv, OtherServerReplies, clientVars, histVars
  <2>4. CASE Tick \/ UNCHANGED vars
    <3>1. UNCHANGED <<net, clientVars, serverVars>>
      BY <2>4 DEF Tick, vars, netVars
    <3>2. UNCHANGED <<requests, request_pkt, last_timer, cpc, accepted>>
      BY <3>1 DEF clientVars, histVars
    <3>3. clock \in Timeval /\ clock.sec \in Int /\ last_timer.sec \in Int
      BY DEF TypeOK, NetTypeOK, ClientTypeOK, Timeval
    <3>4. clock'.sec >= clock.sec /\ clock'.sec \in Int
      <4>1. CASE Tick
        BY <3>3, <4>1, ClockMonotone, ClockType DEF Tick, Timeval
      <4>2. CASE UNCHANGED vars
        BY <3>3, <4>2 DEF vars, netVars
      <4> QED BY <2>4, <4>1, <4>2
    <3>5. FreshSample'
      BY <3>2 DEF FreshInv, Fresh, FreshSample
    <3>6. Asking' = Asking
      BY <3>2 DEF Asking
    <3> QED BY <3>1, <3>2, <3>3, <3>4, <3>5, <3>6, FreshStep DEF FreshInv, Fresh
  <2> QED BY <2>1, <2>2, <2>3, <2>4 DEF Next
<1> QED BY <1>1, <1>2, SpacingInductive, PTL DEF Spec

\* The sample of a poll answers the request the client was waiting on,
\* whatever the network delays, repeats or reorders, as long as the clock
\* stays within one NTP era (run_sanity_checks' originate check together
\* with the spacing of the requests).
THEOREM FreshSampleHolds == Spec /\ []InEra => []FreshSample
<1>1. FreshInv => FreshSample
  BY DEF FreshInv, Fresh
<1> QED BY <1>1, FreshInductive, PTL
-----------------------------------------------------------------------------
(***************************************************************************)
(* SampleSound.  A request carries a time that is over; a reply carries,   *)
(* in order and on the clock of the server that built it, when its request *)
(* was sent and arrived and when it left itself.  FreshInv says that what  *)
(* reaches a server is a request and that what is accepted is a reply, the *)
(* check of the transmit timestamp that it carries a time at all.          *)
(***************************************************************************)
Times ==
    /\ Asking => InstantOf(request_pkt.transmit_timestamp) <= Now
    /\ \A d \in net :
           IF d.by = Client THEN InstantOf(d.pkt.transmit_timestamp) <= Now
           ELSE /\ d.by \in Servers \cup OtherServers
                /\ d.pkt.transmit_timestamp = ZeroTimestamp \/ InOrder(d)
    /\ \A s \in Servers : spc[s] = "reply" => HeldInOrder(s)

TimesInv ==
    /\ clock.usec \in Subseconds
    /\ Micros - 1 \notin Subseconds => Times
    /\ SampleSound

\* A step that changes no server and adds at most a request of the past.
LEMMA TimesStay ==
    ASSUME TypeOK, TypeOK', Times, Now \in Int, Now' \in Int, Now <= Now', UNCHANGED serverVars,
           Asking' => \/ Asking /\ request_pkt' = request_pkt
                      \/ InstantOf(request_pkt'.transmit_timestamp) <= Now',
           \A d \in net' : \/ d \in net
                           \/ d.by = Client /\ InstantOf(d.pkt.transmit_timestamp) <= Now'
    PROVE  Times'
<1>1. Asking' => InstantOf(request_pkt'.transmit_timestamp) <= Now'
  <2>1. InstantOf(request_pkt.transmit_timestamp) \in Int
    BY PacketInstants DEF TypeOK, ClientTypeOK
  <2> QED BY <2>1 DEF Times
<1>2. ASSUME NEW d \in net'
      PROVE  IF d.by = Client THEN InstantOf(d.pkt.transmit_timestamp) <= Now'
             ELSE /\ d.by \in Servers \cup OtherServers
                  /\ d.pkt.transmit_timestamp = ZeroTimestamp \/ InOrder(d)'
  <2>1. d.pkt \in ntp_packet /\ d.by \in Hosts /\ InstantOf(d.pkt.transmit_timestamp) \in Int
    BY PacketInstants DEF TypeOK, NetTypeOK, Datagram
  <2>2. CASE d.by = Client
    BY <2>1, <2>2 DEF Times
  <2>3. CASE d.by # Client
    BY <2>1, <2>3, OrderStays DEF Times
  <2> QED BY <2>2, <2>3
<1>3. ASSUME NEW s \in Servers, spc'[s] = "reply" PROVE HeldInOrder(s)'
  <2>1. s \in Hosts /\ client_req' = client_req /\ spc[s] = "reply"
    BY <1>3, ServerAssumption DEF serverVars
  <2>2. client_req[s][1].time_of_request \in NtpTimestamp
    BY <2>1, HeldType DEF TypeOK
  <2> QED BY <2>1, <2>2, OrderStays DEF Times
<1> QED BY <1>1, <1>2, <1>3 DEF Times

\* The interval is sound for a reply whose times are in order: D1 to D3 are its
\* timestamps, decoded, T4 the time of arrival, skew what the server's clock
\* is ahead.
LEMMA OrderedBrackets ==
    ASSUME NEW D1 \in Int, NEW D2 \in Int, NEW D3 \in Int, NEW T4 \in Int, NEW skew \in Int,
           D1 + skew <= D2, D3 <= T4 + 1 + skew
    PROVE  LET offset == (D2 - D1) + (D3 - T4)
               bound  == (T4 - D1) - (D3 - D2)
           IN  /\ offset - 2 * skew <= 2 * (bound + 2)
               /\ -(offset - 2 * skew) <= 2 * (bound + 2)
  OBVIOUS

\* What the client computes from such a reply brackets the true offset.
LEMMA ComputedSound ==
    ASSUME ClockCarried, NEW d, d.pkt \in ntp_packet, d.by \in Hosts, HostCarried(d.by), InOrder(d)
    PROVE  Brackets(Computed(d.pkt, clock).offset, Computed(d.pkt, clock).error_bound,
                    Skew[d.by], 2)
<1> DEFINE D1 == InstantOf(d.pkt.originate_timestamp)
           D2 == InstantOf(d.pkt.receive_timestamp)
           D3 == InstantOf(d.pkt.transmit_timestamp)
           T4 == Instant(clock)
           skew == Skew[d.by] * Micros
           offset == (D2 - D1) + (D3 - T4)
           bound == (T4 - D1) - (D3 - D2)
<1>1. D1 \in Int /\ D2 \in Int /\ D3 \in Int
  BY PacketInstants
<1>2. T4 \in Int /\ skew \in Int /\ Now \in Int /\ Now <= T4 + 1
  BY NowFacts, HostStamp
<1>3. D1 + skew <= D2 /\ D3 <= Now + skew
  BY DEF InOrder
<1>4. Computed(d.pkt, clock).offset = offset /\ Computed(d.pkt, clock).error_bound = bound
  BY DEF Computed, calculate_clock_offset, calculate_error_bound, InstantOf
<1>5. 2 * Skew[d.by] * Micros = 2 * skew
  BY ServerAssumption, TimeAssumption
<1> HIDE DEF D1, D2, D3, T4, skew
<1>6. D3 <= T4 + 1 + skew
  BY <1>1, <1>2, <1>3
<1>7. offset - 2 * skew <= 2 * (bound + 2) /\ -(offset - 2 * skew) <= 2 * (bound + 2)
  BY <1>1, <1>2, <1>3, <1>6, OrderedBrackets
<1>8. offset \in Int /\ bound \in Int
  BY <1>1, <1>2
<1> HIDE DEF offset, bound
<1>9. Abs(offset - 2 * skew) <= 2 * (bound + 2)
  BY <1>2, <1>7, <1>8, AbsBound
<1> QED BY <1>4, <1>5, <1>9 DEF Brackets

\* The clocks of all the hosts stay within one era.
AllInEra == ClocksInEra(Servers \cup OtherServers)

\* What the client accepts is a reply whose times are in order.
LEMMA AcceptSound ==
    ASSUME TypeOK, FreshInv, Times, ClockCarried, AllInEra, cpc = "recv",
           NEW d \in net, AcceptReply(d), run_sanity_checks(request_pkt, d.pkt) = 0
    PROVE  SampleSound'
<1>1. Mode(d.pkt) = MODE_SERVER /\ d.pkt.transmit_timestamp # ZeroTimestamp
  BY DEF run_sanity_checks
<1>2. d.by # Client
  BY <1>1 DEF FreshInv, Fresh, Known, MODE_CLIENT, MODE_SERVER
<1>3. InOrder(d)
  BY <1>1, <1>2 DEF Times
<1>4. d.pkt \in ntp_packet /\ d.by \in Hosts
  BY DEF TypeOK, NetTypeOK, Datagram
<1>5. d.by \in Servers \cup OtherServers
  BY <1>2 DEF Times
<1>6. Brackets(Computed(d.pkt, clock).offset, Computed(d.pkt, clock).error_bound, Skew[d.by], 2)
  BY <1>3, <1>4, <1>5, ComputedSound DEF AllInEra, ClocksInEra
<1>7. PICK smp : /\ accepted' = <<smp>> /\ smp.by = d.by
                 /\ smp.offset = Computed(d.pkt, clock).offset
                 /\ smp.error_bound = Computed(d.pkt, clock).error_bound
  BY DEF AcceptReply
<1>8. \A i \in 1..Len(accepted') :
          Brackets(accepted'[i].offset, accepted'[i].error_bound, Skew[accepted'[i].by], 2)
  BY <1>6, <1>7
<1> QED BY <1>8 DEF SampleSound

\* The steps of the client.
LEMMA TimesClient ==
    ASSUME TypeOK, TypeOK', FreshInv, Times, ClockCarried, AllInEra, SampleSound,
           ClientNext, UNCHANGED serverVars
    PROVE  clock' = clock /\ Times' /\ SampleSound'
<1>1. clock' = clock /\ Now' = Now /\ Now \in Int
  <2>1. clock' = clock
    BY DEF ClientNext, StartPoll, ResolveServer, GiveUp, CreateRequest, start_timer,
           SendRequest, ReceiveReply, ReceiveTimeout, netVars
  <2> QED BY <2>1, NowFacts DEF Now
<1>2. UNCHANGED accepted \/ accepted' = << >> => SampleSound'
  BY DEF SampleSound
<1>3. CASE StartPoll \/ ResolveServer \/ GiveUp \/ start_timer \/ ReceiveTimeout
  <2>1. net' = net /\ request_pkt' = request_pkt /\ (UNCHANGED accepted \/ accepted' = << >>)
    BY <1>3 DEF StartPoll, ResolveServer, GiveUp, start_timer, ReceiveTimeout, netVars, histVars
  <2>2. Asking' => Asking
    BY <1>3 DEF StartPoll, ResolveServer, GiveUp, start_timer, ReceiveTimeout,
                PollFails, ReturnToMain, Asking
  <2> QED BY <1>1, <1>2, <2>1, <2>2, TimesStay
<1>4. CASE CreateRequest
  <2>1. net' = net /\ UNCHANGED accepted /\ request_pkt' = create_packet(clock)
    BY <1>4 DEF CreateRequest, netVars
  <2>2. InstantOf(request_pkt'.transmit_timestamp) = Now
    BY <2>1 DEF create_packet, Now
  <2> QED BY <1>1, <1>2, <2>1, <2>2, TimesStay
<1>5. CASE SendRequest
  <2> DEFINE q == [src |-> Client, dst |-> userver, port |-> sockfd,
                   pkt |-> request_pkt, id |-> requests, by |-> Client]
  <2>1. request_pkt' = request_pkt /\ UNCHANGED accepted /\ Asking
    BY <1>5 DEF SendRequest, Asking
  <2>2. InstantOf(request_pkt.transmit_timestamp) <= Now
    BY <2>1 DEF Times
  <2>3. net' = net \/ net' = net \cup {q}
    <3>1. PICK code \in {0, 1} : send_SNTP_packet(q, code)
      BY <1>5, Zenon DEF SendRequest
    <3> HIDE DEF q
    <3> QED BY <3>1 DEF send_SNTP_packet, SendOK
  <2>4. q.by = Client /\ q.pkt = request_pkt
    OBVIOUS
  <2> HIDE DEF q
  <2> QED BY <1>1, <1>2, <2>1, <2>2, <2>3, <2>4, TimesStay
<1>6. CASE ReceiveReply
  <2>1. request_pkt' = request_pkt /\ cpc = "recv" /\ net' \subseteq net
    BY <1>6 DEF ReceiveReply, recieve_SNTP_packet
  <2>2. \/ UNCHANGED accepted
        \/ \E d \in net : AcceptReply(d) /\ run_sanity_checks(request_pkt, d.pkt) = 0
    BY <1>6 DEF ReceiveReply
  <2>3. SampleSound'
    BY <1>2, <2>1, <2>2, AcceptSound
  <2> QED BY <1>1, <2>1, <2>3, TimesStay DEF Asking
<1> QED BY <1>3, <1>4, <1>5, <1>6 DEF ClientNext

\* A reply of another server is in order, or shows that it has no time to give.
LEMMA TimesOther ==
    ASSUME TypeOK, FreshInv, Times, ClockCarried, AllInEra, OtherServerReplies
    PROVE  Times'
<1>1. UNCHANGED <<clock, clientVars, serverVars>>
  BY DEF OtherServerReplies
<1>2. Now' = Now /\ Now \in Int
  BY <1>1, NowFacts DEF Now
<1>3. PICK d \in net : \E r : OtherReplyTo(d, r) /\ net' \subseteq net \cup {r}
  BY OtherReply
<1>4. PICK r : OtherReplyTo(d, r) /\ net' \subseteq net \cup {r}
  BY <1>3
<1> DEFINE ts == convert_unix_time_into_ntp_time(HostClock(d.dst))
<1>5. d.dst \in Hosts /\ d.dst # Client /\ HostCarried(d.dst)
  BY <1>4, SystemAssumption DEF OtherReplyTo, AllInEra, ClocksInEra
<1>6. InstantOf(ts) = Now + Skew[d.dst] * Micros /\ Skew[d.dst] * Micros \in Int
  BY <1>5, HostStamp
<1>7. d.by = Client /\ InstantOf(d.pkt.transmit_timestamp) <= Now
      /\ InstantOf(d.pkt.transmit_timestamp) \in Int
  <2>1. d.by = Client
    BY <1>5 DEF FreshInv, Fresh, Known
  <2>2. d.pkt \in ntp_packet
    BY DEF TypeOK, NetTypeOK, Datagram
  <2> QED BY <2>1, <2>2, PacketInstants DEF Times
<1>8. r.by \in OtherServers /\ r.by # Client
      /\ (r.pkt.transmit_timestamp = ZeroTimestamp \/ InOrder(r)')
  <2>1. /\ r.by = d.dst /\ d.dst \in OtherServers
        /\ r.pkt.originate_timestamp = d.pkt.transmit_timestamp
        /\ r.pkt.receive_timestamp = ts
        /\ r.pkt.transmit_timestamp \in {ts, ZeroTimestamp}
    BY <1>4 DEF OtherReplyTo
  <2> HIDE DEF ts
  <2> QED BY <1>2, <1>5, <1>6, <1>7, <2>1 DEF InOrder
<1>9. \A e : InOrder(e)' <=> InOrder(e)
  BY <1>2 DEF InOrder
<1>10. Asking' => InstantOf(request_pkt'.transmit_timestamp) <= Now'
  BY <1>1, <1>2 DEF Times, Asking, clientVars
<1>11. \A s \in Servers : spc'[s] = "reply" => HeldInOrder(s)'
  BY <1>1, <1>2 DEF Times, HeldInOrder, serverVars
<1> QED BY <1>2, <1>4, <1>8, <1>9, <1>10, <1>11 DEF Times

\* Every step keeps TimesInv.
LEMMA TimesStep ==
    ASSUME TypeOK, TypeOK', FreshInv, TimesInv, AllInEra, AllInEra', [Next]_vars
    PROVE  TimesInv'
<1>1. clock'.usec \in Subseconds
  <2>1. clock' = clock \/ AdvanceClock
    BY DEF Next, ClientNext, StartPoll, ResolveServer, GiveUp, CreateRequest, start_timer,
           SendRequest, ReceiveReply, ReceiveTimeout, OtherServerReplies, Tick, ServerNext,
           InitialiseServer, ServeReceive, ServeReply, vars, netVars
  <2>2. CASE AdvanceClock
    <3>1. clock' \in [sec : {clock.sec, clock.sec + 1}, usec : Subseconds]
      BY <2>2 DEF AdvanceClock
    <3> QED BY <3>1
  <2> QED BY <2>1, <2>2 DEF TimesInv
<1> SUFFICES ASSUME Micros - 1 \notin Subseconds PROVE Times' /\ SampleSound'
  BY <1>1 DEF TimesInv, SampleSound
<1>2. ClockCarried /\ ClockCarried' /\ Now \in Int
  <2>1. ClockCarried /\ ClockCarried'
    BY <1>1 DEF ClockCarried, TimesInv, TypeOK, NetTypeOK, AllInEra, ClocksInEra
  <2> QED BY <2>1, NowFacts
<1>3. Times /\ SampleSound
  BY DEF TimesInv
<1>4. UNCHANGED accepted => SampleSound'
  BY <1>3 DEF SampleSound
<1>5. CASE ClientNext /\ UNCHANGED serverVars
  BY <1>2, <1>3, <1>5, TimesClient
<1>6. CASE ServerNext /\ UNCHANGED clientVars
  <2>1. \A d \in net : d.dst \in Servers => d.by = Client
    BY ServerAssumption DEF FreshInv, Fresh, Known
  <2>2. /\ clock' = clock
        /\ \A s \in Servers : spc'[s] = "reply" => HeldInOrder(s)'
        /\ \A d \in net' : d \in net \/ (d.by \in Servers /\ InOrder(d))
    <3>1. \A d \in net : d.dst \in Servers => InstantOf(d.pkt.transmit_timestamp) <= Now
      BY <1>3, <2>1 DEF Times
    <3> QED BY <1>2, <1>3, <1>6, <3>1, TimesServer DEF TypeOK, Times, AllInEra, ClocksInEra
  <2>3. Now' = Now
    BY <2>2 DEF Now
  <2>4. \A d : InOrder(d) => InOrder(d)'
    BY <2>3 DEF InOrder
  <2>5. Asking' => InstantOf(request_pkt'.transmit_timestamp) <= Now'
    BY <1>3, <1>6, <2>3 DEF Times, Asking, clientVars
  <2>6. Client \notin Servers
    BY ServerAssumption
  <2>7. Times'
    BY <1>3, <2>2, <2>3, <2>4, <2>5, <2>6 DEF Times
  <2> QED BY <1>4, <1>6, <2>7 DEF clientVars, histVars
<1>7. CASE OtherServerReplies
  BY <1>2, <1>3, <1>4, <1>7, TimesOther DEF OtherServerReplies, clientVars, histVars
<1>8. CASE Tick \/ UNCHANGED vars
  <2>1. Now' \in Int /\ Now <= Now'
    <3>1. CASE Tick
      BY <1>2, <3>1, NowAdvances DEF Tick
    <3>2. CASE UNCHANGED vars
      <4>1. Now' = Now
        BY <3>2 DEF vars, netVars, Now
      <4> QED BY <1>2, <4>1
    <3> QED BY <1>8, <3>1, <3>2
  <2>2. UNCHANGED <<net, clientVars, serverVars>>
    BY <1>8 DEF Tick, vars, netVars
  <2>3. UNCHANGED <<request_pkt, cpc, accepted>>
    BY <2>2 DEF clientVars, histVars
  <2> QED BY <1>2, <1>3, <1>4, <2>1, <2>2, <2>3, TimesStay DEF Asking
<1> QED BY <1>5, <1>6, <1>7, <1>8 DEF Next

\* What a poll reports brackets the true offset of the clock of the server that
\* answered, for any delays, losses and repetitions, any skews and any number
\* of servers, as long as their clocks and the client's stay within one era
\* (create_reply_packet, run_sanity_checks, both conversions and the offset
\* and error bound of unicast_mode).
THEOREM SampleSoundHolds == Spec /\ []AllInEra => []SampleSound
<1>1. Init => TimesInv
  <2> SUFFICES ASSUME Init PROVE TimesInv
    OBVIOUS
  <2>1. cpc \in {"wait", "exit"} /\ net = {} /\ accepted = << >> /\ clock.usec \in Subseconds
    BY DEF Init, ClientInit
  <2>2. \A s \in Servers : spc[s] = "init"
    BY DEF Init, ServerInit
  <2> QED BY <2>1, <2>2 DEF TimesInv, Times, SampleSound, Asking
<1>2. AllInEra => InEra
  BY TimeAssumption DEF AllInEra, ClocksInEra, InEra
<1>3. TimesInv => SampleSound
  BY DEF TimesInv
<1> QED BY <1>1, <1>2, <1>3, TimesStep, FreshInductive, PTL DEF Spec
-----------------------------------------------------------------------------
(***************************************************************************)
(* The refinement of TimePoll.  The counters of main and unicast_mode and  *)
(* the history of the run keep in step.                                    *)
(***************************************************************************)
CountInv ==
    /\ Repeats /\ cpc # "exit" => counter < c_set.timed_repeat_updates_limit
    /\ cpc = "resolve" => attempts = 0
    /\ cpc = "attempt" => attempts = retry_count - 1
    /\ Asking => attempts = retry_count /\ attempts > 0
    /\ InPoll => accepted = << >>

\* unicast_mode returns: the abstract poll ends.
LEMMA EndOfPoll ==
    ASSUME ClientTypeOK, CountInv, cpc # "exit", ReturnToMain, UNCHANGED c_set
    PROVE  /\ PollsEnded' = PollsEnded + 1
           /\ PollPhase' = Polls!PhaseAfter(PollsEnded + 1)
           /\ cpc' \in {"wait", "exit"}
           /\ Repeats' /\ cpc' # "exit" => counter' < c_set'.timed_repeat_updates_limit
<1>1. c_set.timed_repeat_updates_enabled \in {0, 1} /\ counter \in Nat
      /\ c_set.timed_repeat_updates_limit \in Int
  BY DEF ClientTypeOK, Settings
<1>2. CASE Repeats
  <2>1. PollsEnded = counter /\ PollsEnded' = counter + 1
        /\ Ordered.polls = c_set.timed_repeat_updates_limit
    BY <1>1, <1>2 DEF Repeats, PollsEnded, ReturnToMain, Ordered
  <2>2. cpc' = IF counter + 1 < c_set.timed_repeat_updates_limit THEN "wait" ELSE "exit"
    BY <1>2 DEF Repeats, ReturnToMain
  <2>3. PollPhase' = IF counter + 1 < c_set.timed_repeat_updates_limit THEN "idle" ELSE "over"
    BY <2>2 DEF PollPhase
  <2> QED BY <1>1, <2>1, <2>2, <2>3 DEF Polls!PhaseAfter, PollsEnded, Repeats
<1>3. CASE ~ Repeats
  <2>1. cpc' = "exit" /\ PollsEnded = 0 /\ PollsEnded' = 1 /\ Ordered.polls = 1
    BY <1>3 DEF Repeats, PollsEnded, ReturnToMain, Ordered
  <2>2. PollPhase' = "over"
    BY <2>1 DEF PollPhase
  <2> QED BY <2>1, <2>2 DEF Polls!PhaseAfter
<1> QED BY <1>2, <1>3

\* Inside unicast_mode the abstract poll is under way; between two calls of it
\* the abstract client is idle.
LEMMA Phases ==
    /\ InPoll => PollPhase = "polling" /\ cpc # "exit"
    /\ cpc = "wait" => PollPhase = "idle"
    /\ cpc # "exit" /\ cpc' # "exit" /\ UNCHANGED <<c_set, counter>> => PollsEnded' = PollsEnded
    /\ InPoll' => PollPhase' = "polling"
  BY DEF InPoll, PollPhase, PollsEnded, Repeats

\* Nothing the abstract client sees has changed.
LEMMA PollStutters ==
    ASSUME UNCHANGED <<c_set, counter, requests, attempts, accepted>>,
           UNCHANGED cpc \/ (InPoll /\ InPoll')
    PROVE  UNCHANGED Polls!vars
<1>1. PollPhase' = PollPhase /\ PollsEnded' = PollsEnded
  <2>1. CASE UNCHANGED cpc
    BY <2>1 DEF PollPhase, PollsEnded, Repeats
  <2>2. CASE InPoll /\ InPoll'
    BY <2>2, Phases DEF InPoll
  <2> QED BY <2>1, <2>2
<1>2. Ordered' = Ordered
  BY DEF Ordered, Repeats
<1> QED BY <1>1, <1>2 DEF Polls!vars

\* Every step of the client is a step of TimePoll, or none.
LEMMA PollClient ==
    ASSUME TypeOK, FreshInv, FreshSample', CountInv, ClientNext
    PROVE  CountInv' /\ (Polls!Next \/ UNCHANGED Polls!vars)
<1>0. /\ ClientTypeOK /\ retry_count \in Nat /\ attempts \in Nat /\ requests \in Nat
      /\ c_set.max_unicast_retries \in Int /\ counter \in Nat
      /\ c_set.timed_repeat_updates_limit \in Int
  BY DEF TypeOK, ClientTypeOK, Settings
<1>1. c_set' = c_set /\ Ordered' = Ordered /\ Repeats' = Repeats
  <2>1. c_set' = c_set
    BY DEF ClientNext, StartPoll, ResolveServer, GiveUp, CreateRequest, start_timer,
           SendRequest, ReceiveReply, ReceiveTimeout, pollVars
  <2> QED BY <2>1 DEF Ordered, Repeats
<1>2. CASE StartPoll
  <2>1. cpc = "wait" /\ attempts' = 0 /\ accepted' = << >> /\ requests' = requests
    BY <1>2 DEF StartPoll
  <2>2. [i \in 1..Len(accepted') |-> accepted'[i].id] = << >>
    BY <2>1
  <2>3. CASE cpc' = "resolve" /\ UNCHANGED mainVars
    <3>1. Polls!Begin
      BY <1>1, <2>1, <2>2, <2>3, Phases DEF Polls!Begin, InPoll, mainVars
    <3>2. CountInv'
      BY <1>1, <2>1, <2>3 DEF CountInv, mainVars, Asking, Repeats
    <3> QED BY <3>1, <3>2 DEF Polls!Next
  <2>4. CASE PollFails
    <3>1. Polls!EndAtOnce
      BY <1>0, <1>1, <2>1, <2>2, <2>4, EndOfPoll, Phases
         DEF Polls!EndAtOnce, Polls!End, PollFails
    <3>2. CountInv'
      BY <1>0, <1>1, <2>1, <2>4, EndOfPoll DEF CountInv, PollFails, Asking, InPoll
    <3> QED BY <3>1, <3>2 DEF Polls!Next
  <2> QED BY <1>2, <2>3, <2>4 DEF StartPoll
<1>3. ASSUME InPoll, PollFails, UNCHANGED histVars
      PROVE  CountInv' /\ Polls!Next
  <2>1. Polls!Fail
    BY <1>0, <1>1, <1>3, EndOfPoll, Phases DEF Polls!Fail, Polls!End, PollFails, histVars
  <2>2. CountInv'
    BY <1>0, <1>1, <1>3, EndOfPoll, Phases DEF CountInv, PollFails, Asking, InPoll
  <2> QED BY <2>1, <2>2 DEF Polls!Next
<1>4. CASE ResolveServer
  <2>1. cpc = "resolve" /\ InPoll /\ UNCHANGED histVars
    BY <1>4 DEF ResolveServer, InPoll
  <2>2. CASE cpc' = "attempt" /\ retry_count' = 1 /\ UNCHANGED mainVars
    <3>1. UNCHANGED Polls!vars
      BY <1>1, <2>1, <2>2, PollStutters DEF histVars, mainVars, InPoll
    <3>2. CountInv'
      BY <1>1, <2>1, <2>2 DEF CountInv, mainVars, histVars, Asking, InPoll, Repeats
    <3> QED BY <3>1, <3>2
  <2>3. CASE PollFails
    BY <1>3, <2>1, <2>3
  <2> QED BY <1>4, <2>2, <2>3 DEF ResolveServer
<1>5. CASE GiveUp
  BY <1>3, <1>5 DEF GiveUp, InPoll
<1>6. CASE CreateRequest
  <2>1. /\ cpc = "attempt" /\ cpc' = "timer" /\ requests' = requests + 1
        /\ attempts' = attempts + 1 /\ UNCHANGED <<mainVars, retry_count, accepted>>
        /\ InPoll /\ InPoll' /\ retry_count <= c_set.max_unicast_retries
    BY <1>0, <1>6 DEF CreateRequest, InPoll, RetriesUsedUp
  <2>2. attempts = retry_count - 1 /\ accepted = << >>
    BY <2>1 DEF CountInv
  <2>3. Polls!Ask
    BY <1>0, <1>1, <2>1, <2>2, Phases DEF Polls!Ask, Ordered, mainVars
  <2>4. CountInv'
    BY <1>0, <1>1, <2>1, <2>2 DEF CountInv, mainVars, Asking, Repeats
  <2> QED BY <2>3, <2>4 DEF Polls!Next
<1>7. ASSUME Asking, UNCHANGED <<mainVars, requests, attempts, accepted>>,
             \/ Asking' /\ retry_count' = retry_count
             \/ cpc' = "attempt" /\ retry_count' = retry_count + 1
      PROVE  CountInv' /\ UNCHANGED Polls!vars
  <2>1. InPoll /\ InPoll'
    BY <1>7 DEF Asking, InPoll
  <2>2. UNCHANGED Polls!vars
    BY <1>1, <1>7, <2>1, PollStutters DEF mainVars
  <2>3. CountInv'
    BY <1>0, <1>1, <1>7, <2>1 DEF CountInv, mainVars, Asking, InPoll, Repeats
  <2> QED BY <2>2, <2>3
<1>8. CASE start_timer
  BY <1>7, <1>8 DEF start_timer, Asking
<1>9. CASE SendRequest
  BY <1>7, <1>9 DEF SendRequest, Asking
<1>10. CASE ReceiveTimeout
  BY <1>7, <1>10 DEF ReceiveTimeout, Asking, histVars
<1>11. CASE ReceiveReply
  <2>1. cpc = "recv" /\ Asking /\ InPoll /\ UNCHANGED <<requests, attempts>>
    BY <1>11 DEF ReceiveReply, Asking, InPoll
  <2>2. ASSUME NEW d \in net, AcceptReply(d)
        PROVE  CountInv' /\ Polls!Next
    <3>1. PICK smp : accepted' = <<smp>> /\ smp.current = requests
      BY <2>2 DEF AcceptReply
    <3>2. smp.id = requests
      BY <3>1 DEF FreshSample
    <3>3. [i \in 1..Len(accepted') |-> accepted'[i].id] = <<requests>>
      BY <3>1, <3>2
    <3>4. ReturnToMain /\ attempts > 0
      BY <2>1, <2>2 DEF AcceptReply, CountInv
    <3>5. Polls!Answer
      BY <1>0, <1>1, <2>1, <3>3, <3>4, EndOfPoll, Phases DEF Polls!Answer, Polls!End
    <3>6. CountInv'
      BY <1>0, <1>1, <2>1, <3>4, EndOfPoll, Phases DEF CountInv, Asking, InPoll
    <3> QED BY <3>5, <3>6 DEF Polls!Next
  <2>3. CASE /\ UNCHANGED <<mainVars, accepted>>
             /\ \/ UNCHANGED <<cpc, retry_count>>
                \/ cpc' = "attempt" /\ retry_count' = retry_count + 1
    BY <1>7, <2>1, <2>3 DEF Asking
  <2> QED BY <1>11, <2>2, <2>3 DEF ReceiveReply
<1> QED BY <1>2, <1>4, <1>5, <1>6, <1>8, <1>9, <1>10, <1>11 DEF ClientNext

\* The client makes exactly the polls asked for and ends each with nothing or
\* with the reply to its last request, for every setting, any number of
\* servers and whatever the network does, as long as the clock stays within
\* one NTP era (main's loop and unicast_mode).
THEOREM ImplementsTimePollHolds == Spec /\ []InEra => ImplementsTimePoll
<1>1. Init => CountInv /\ Polls!Init
  <2> SUFFICES ASSUME Init PROVE CountInv /\ Polls!Init
    OBVIOUS
  <2>1. /\ c_set \in Settings /\ counter = 0 /\ requests = 0 /\ attempts = 0 /\ accepted = << >>
        /\ cpc = IF Repeats /\ c_set.timed_repeat_updates_limit <= 0 THEN "exit" ELSE "wait"
    BY ClientAssumption DEF Init, ClientInit, Repeats
  <2>2. c_set.timed_repeat_updates_limit \in Int /\ c_set.max_unicast_retries \in Int
    BY <2>1 DEF Settings
  <2>3. CountInv
    BY <2>1, <2>2 DEF CountInv, Asking, InPoll
  <2>4. Ordered \in Polls!Orders
    BY <2>2 DEF Ordered, Polls!Orders
  <2>5. PollsEnded = 0 /\ PollPhase = Polls!PhaseAfter(0)
    BY <2>1, <2>2 DEF PollsEnded, PollPhase, Polls!PhaseAfter, Ordered
  <2>6. [i \in 1..Len(accepted) |-> accepted[i].id] = << >>
    BY <2>1
  <2> QED BY <2>1, <2>3, <2>4, <2>5, <2>6 DEF Polls!Init
<1>2. /\ TypeOK /\ FreshInv /\ FreshInv' /\ CountInv /\ [Next]_vars
      => CountInv' /\ [Polls!Next]_(Polls!vars)
  <2> SUFFICES ASSUME TypeOK, FreshInv, FreshInv', CountInv, [Next]_vars
               PROVE  CountInv' /\ [Polls!Next]_(Polls!vars)
    OBVIOUS
  <2>1. CASE ClientNext
    BY <2>1, PollClient DEF FreshInv, Fresh
  <2>2. CASE UNCHANGED clientVars
    <3>1. UNCHANGED <<c_set, counter, requests, attempts, accepted, cpc, retry_count>>
      BY <2>2 DEF clientVars, pollVars, mainVars, histVars
    <3>2. CountInv'
      BY <3>1 DEF CountInv, Asking, InPoll, Repeats
    <3> QED BY <3>1, <3>2, PollStutters
  <2> QED BY <2>1, <2>2 DEF Next, OtherServerReplies, Tick, vars
<1> QED BY <1>1, <1>2, FreshInductive, PTL DEF Spec, ImplementsTimePoll, Polls!Spec

-----------------------------------------------------------------------------
(* The client that finds its server by manycast. *)

\* The discovery up to the start of its collecting loop, and the loop.
Starting == dpc \in {"setup", "create", "send", "timer"}
Gathering == dpc \in {"gather", "recv"}

DiscoveryTypeOK ==
    /\ Starting \/ Gathering \/ dpc \in {"done", "failed"}
    /\ timer \in Timeval
    /\ ntp_servers \in Seq({InNtoaBuffer})
    /\ heard \subseteq Hosts

ManyTypeOK == TypeOK /\ DiscoveryTypeOK

\* What the steps of the discovery leave alone.
LEMMA DiscoveryFrame ==
    ASSUME DiscoveryNext
    PROVE  /\ clock' = clock
           /\ UNCHANGED <<userver, counter, s_counter, offset_total, error_bound_total, poll_timer,
                          retry_count, attempts, last_timer, accepted>>
           /\ requests' = IF dpc = "create" THEN requests + 1 ELSE requests
           /\ dpc # "create" => request_pkt' = request_pkt
           /\ dpc # "timer" => timer' = timer
           /\ dpc # "recv" => UNCHANGED <<ntp_servers, first, heard>>
           /\ cpc' = cpc \/ (cpc' = "exit" /\ dpc' = "failed")
  BY DEF DiscoveryNext, DiscoverySetup, DiscoveryCreate, DiscoverySend, DiscoveryTimer, Gather,
         GatherReply, GatherTimeout, DiscoveryOver, DiscoveryFails, UnicastUnchanged, mainVars,
         netVars, pollVars

\* A packet to the group: what is in flight after it.
LEMMA GroupSends ==
    ASSUME NEW code, SendToGroup(code), NEW d \in net', d \notin net
    PROVE  \E m \in Members : d = [src |-> Client, dst |-> m, port |-> sockfd,
                                   pkt |-> request_pkt, id |-> requests, by |-> Client]
<1> DEFINE q(m) == [src |-> Client, dst |-> m, port |-> sockfd,
                    pkt |-> request_pkt, id |-> requests, by |-> Client]
<1>1. PICK reached \in IF code = 0 THEN SUBSET Members ELSE {{}} :
          net' = net \cup {q(m) : m \in reached}
  BY Zenon DEF SendToGroup
<1>2. reached \subseteq Members
  BY <1>1
<1> HIDE DEF q
<1>3. \E m \in Members : d = q(m)
  BY <1>1, <1>2
<1> QED BY <1>3 DEF q

\* The steps of the discovery disturb no type.
LEMMA TypeDiscovery ==
    ASSUME ManyTypeOK, DiscoveryNext, UNCHANGED serverVars
    PROVE  ManyTypeOK'
<1> USE DEF ManyTypeOK, DiscoveryTypeOK, Starting, Gathering, TypeOK, NetTypeOK
<1>0. /\ clock \in Timeval /\ clock' = clock /\ ServerTypeOK'
      /\ UNCHANGED <<userver, counter, s_counter, offset_total, error_bound_total, poll_timer,
                     retry_count, attempts, last_timer, accepted>>
      /\ cpc' \in Locations
  BY DiscoveryFrame DEF ServerTypeOK, serverVars, ClientTypeOK, Locations
<1>1. CASE DiscoverySetup
  <2>1. sockfd' \in Ports /\ socks' \subseteq Ports
    BY <1>1 DEF DiscoverySetup, initialise_socket, ClientTypeOK
  <2>2. UNCHANGED <<c_set, request_pkt, recv_start, ntoa_buf, requests, last_send,
                    timer, ntp_servers, heard, net>> /\ dpc' \in {"create", "failed"}
    BY <1>1 DEF DiscoverySetup, DiscoveryFails, netVars
  <2> QED BY <1>0, <2>1, <2>2 DEF ClientTypeOK
<1>2. CASE DiscoveryCreate
  <2>1. request_pkt' \in ntp_packet
    BY <1>0, <1>2, RequestType DEF DiscoveryCreate
  <2>2. UNCHANGED <<c_set, sockfd, socks, recv_start, ntoa_buf, last_send,
                    timer, ntp_servers, heard, net>>
        /\ requests' = requests + 1 /\ dpc' = "send"
    BY <1>2 DEF DiscoveryCreate, pollVars, netVars
  <2> QED BY <1>0, <2>1, <2>2 DEF ClientTypeOK
<1>3. CASE DiscoverySend
  <2>1. PICK code \in {0, 5} :
            SendToGroup(code) /\ ntoa_buf' = IF code = 0 THEN Group ELSE ntoa_buf
    BY <1>3 DEF DiscoverySend
  <2>2. net' \subseteq Datagram
    <3>1. ASSUME NEW m \in Members
          PROVE  [src |-> Client, dst |-> m, port |-> sockfd,
                  pkt |-> request_pkt, id |-> requests, by |-> Client] \in Datagram
      BY ManycastAssumption, NetworkAssumption DEF Datagram, ClientTypeOK
    <3> QED BY <2>1, <3>1, GroupSends
  <2>3. ntoa_buf' \in Hosts
    BY <2>1, ManycastAssumption DEF ClientTypeOK
  <2>4. UNCHANGED <<c_set, sockfd, socks, request_pkt, recv_start, requests,
                    timer, ntp_servers, heard>>
        /\ last_send' = clock /\ dpc' \in {"timer", "failed"}
    BY <1>3 DEF DiscoverySend, DiscoveryFails, pollVars
  <2> QED BY <1>0, <2>2, <2>3, <2>4 DEF ClientTypeOK
<1>4. CASE DiscoveryTimer \/ Gather \/ GatherTimeout
  <2>1. UNCHANGED <<c_set, sockfd, socks, request_pkt, ntoa_buf, requests, last_send,
                    ntp_servers, heard, net>>
        /\ recv_start' \in {recv_start, clock} /\ timer' \in {timer, clock}
        /\ dpc' \in {"gather", "recv"}
    BY <1>4 DEF DiscoveryTimer, Gather, GatherTimeout, pollVars, netVars
  <2> QED BY <1>0, <2>1 DEF ClientTypeOK
<1>5. CASE GatherReply
  <2>1. UNCHANGED <<c_set, sockfd, socks, request_pkt, recv_start, requests, last_send, timer>>
        /\ dpc' = "gather"
    BY <1>5 DEF GatherReply, pollVars
  <2>2. PICK d \in net : /\ ntoa_buf' = d.src /\ heard' = heard \cup {d.src} /\ net' \subseteq net
                         /\ ntp_servers' \in {ntp_servers, Append(ntp_servers, InNtoaBuffer)}
    BY <1>5 DEF GatherReply, recieve_SNTP_packet
  <2>3. d.src \in Hosts /\ Append(ntp_servers, InNtoaBuffer) \in Seq({InNtoaBuffer})
    BY DEF Datagram
  <2> QED BY <1>0, <2>1, <2>2, <2>3 DEF ClientTypeOK
<1>6. CASE DiscoveryOver
  <2>1. UNCHANGED <<sockfd, request_pkt, recv_start, ntoa_buf, requests, last_send,
                    timer, ntp_servers, heard, net>>
        /\ dpc' \in {"done", "failed"} /\ socks' \subseteq Ports
    BY <1>6 DEF DiscoveryOver, DiscoveryFails, CloseDiscoverySocket, netVars, ClientTypeOK
  <2>2. c_set' \in Settings
    <3>1. c_set' \in {c_set, [c_set EXCEPT !.server_host = InNtoaBuffer]}
      BY <1>6 DEF DiscoveryOver
    <3>2. [c_set EXCEPT !.server_host = InNtoaBuffer] \in Settings
      BY DEF ClientTypeOK, Settings
    <3> QED BY <3>1, <3>2 DEF ClientTypeOK
  <2> QED BY <1>0, <2>1, <2>2 DEF ClientTypeOK
<1> QED BY <1>1, <1>2, <1>3, <1>4, <1>5, <1>6 DEF DiscoveryNext

\* Type correctness of the manycast client and all it talks to.
LEMMA ManyTypeCorrect == ManycastSpec => []ManyTypeOK
<1>1. ManycastInit => ManyTypeOK
  <2> SUFFICES ASSUME ManycastInit PROVE ManyTypeOK
    OBVIOUS
  <2>1. TypeOK
    BY TypeInit DEF ManycastInit, DiscoveryInit, Init
  <2> QED BY <2>1 DEF ManycastInit, DiscoveryInit, ManyTypeOK, DiscoveryTypeOK, Starting,
                      TypeOK, NetTypeOK
<1>2. ManyTypeOK /\ [ManycastNext]_manyVars => ManyTypeOK'
  <2> SUFFICES ASSUME ManyTypeOK, [ManycastNext]_manyVars PROVE ManyTypeOK'
    OBVIOUS
  <2>1. UNCHANGED discoveryVars => DiscoveryTypeOK'
    BY DEF ManyTypeOK, DiscoveryTypeOK, Starting, Gathering, discoveryVars
  <2>2. CASE DiscoveryNext /\ UNCHANGED serverVars
    BY <2>2, TypeDiscovery
  <2>3. CASE Next /\ UNCHANGED discoveryVars
    BY <2>1, <2>3, TypeStep DEF ManyTypeOK
  <2>4. CASE DiscoveryTick
    <3>1. NetTypeOK'
      BY <2>4, ClockType DEF DiscoveryTick, ManyTypeOK, TypeOK, NetTypeOK
    <3> QED BY <2>1, <2>4, <3>1 DEF DiscoveryTick, ManyTypeOK, TypeOK, ClientTypeOK, ServerTypeOK,
               clientVars, serverVars, pollVars, mainVars, histVars
  <2>5. CASE UNCHANGED manyVars
    BY <2>1, <2>5, TypeStep DEF manyVars, ManyTypeOK
  <2> QED BY <2>2, <2>3, <2>4, <2>5 DEF ManycastNext, ClientStep, TimePasses, PollNext, Next
<1> QED BY <1>1, <1>2, PTL DEF ManycastSpec
-----------------------------------------------------------------------------
(***************************************************************************)
(* ServerHeardFrom.  What reaches the client comes from an address that    *)
(* answers; the buffer of inet_ntoa, once a server is stored, holds such   *)
(* an address, through the collecting loop and through every poll: when a  *)
(* poll looks the host up it has not been overwritten by anything else,    *)
(* and before the first poll by nothing after the discovery.               *)
(***************************************************************************)
HeardInv ==
    /\ \A d \in net : d.dst = Client => d.src \in Answering
    /\ heard \subseteq Answering
    /\ Starting \/ Gathering => cpc \in {"wait", "exit"} /\ counter = 0
    /\ Starting => ntp_servers = << >>
    /\ Gathering /\ ntp_servers # << >> => ntoa_buf \in heard /\ first # {}
    /\ dpc = "done" =>
           /\ c_set.server_host = InNtoaBuffer
           /\ ntoa_buf \in Answering
           /\ InLoop => userver \in Answering
           /\ counter = 0 /\ cpc \in {"wait", "resolve"} => ntoa_buf \in heard /\ first # {}
           /\ counter = 0 /\ InLoop => userver \in heard /\ first # {}

\* The discovery.
LEMMA HeardDiscovery ==
    ASSUME ManyTypeOK, HeardInv, DiscoveryNext
    PROVE  HeardInv'
<1> USE DEF HeardInv, Starting, Gathering
<1>0. /\ counter' = counter
      /\ dpc # "recv" => UNCHANGED <<ntp_servers, first, heard>>
      /\ cpc' = cpc \/ (cpc' = "exit" /\ dpc' = "failed")
  BY DiscoveryFrame
<1>1. CASE DiscoverySetup \/ DiscoveryCreate \/ DiscoveryTimer \/ Gather \/ GatherTimeout
  <2>1. /\ net' = net /\ UNCHANGED <<ntoa_buf, ntp_servers, first, heard>>
        /\ Starting \/ Gathering
        /\ dpc' # "done" /\ (Starting' => Starting)
        /\ (Gathering' => Gathering \/ ntp_servers = << >>)
    BY <1>1 DEF DiscoverySetup, DiscoveryCreate, DiscoveryTimer, Gather, GatherTimeout,
                DiscoveryFails, netVars
  <2> QED BY <1>0, <2>1
<1>2. CASE DiscoverySend
  <2>1. PICK code : SendToGroup(code)
    BY <1>2 DEF DiscoverySend
  <2>2. \A d \in net' : d.dst = Client => d.src \in Answering
    <3>1. ASSUME NEW d \in net', d \notin net PROVE d.dst # Client
      <4>1. PICK m \in Members : d = [src |-> Client, dst |-> m, port |-> sockfd,
                                      pkt |-> request_pkt, id |-> requests, by |-> Client]
        BY <2>1, <3>1, GroupSends
      <4> QED BY <4>1, ManycastAssumption
    <3> QED BY <3>1
  <2>3. dpc = "send" /\ dpc' \in {"timer", "failed"}
    BY <1>2 DEF DiscoverySend, DiscoveryFails
  <2> QED BY <1>0, <2>2, <2>3
<1>3. CASE GatherReply
  <2>1. PICK d \in net : /\ d.dst = Client /\ ntoa_buf' = d.src /\ heard' = heard \cup {d.src}
                         /\ net' \subseteq net
                         /\ \/ UNCHANGED <<ntp_servers, first>>
                            \/ first' = IF first = {} THEN {d.src} ELSE first
    BY <1>3 DEF GatherReply, recieve_SNTP_packet
  <2>2. dpc = "recv" /\ dpc' = "gather"
    BY <1>3 DEF GatherReply
  <2> QED BY <1>0, <2>1, <2>2
<1>4. CASE DiscoveryOver
  <2>1. dpc = "gather" /\ net' = net /\ ntoa_buf' = ntoa_buf
    BY <1>4 DEF DiscoveryOver, netVars
  <2>2. \/ dpc' = "failed"
        \/ /\ dpc' = "done" /\ cpc' = cpc /\ ntp_servers # << >>
           /\ c_set' = [c_set EXCEPT !.server_host = InNtoaBuffer]
    BY <1>4 DEF DiscoveryOver, DiscoveryFails, NoServerFound
  <2>3. CASE dpc' = "failed"
    BY <1>0, <2>1, <2>3
  <2>4. CASE /\ dpc' = "done" /\ cpc' = cpc /\ ntp_servers # << >>
             /\ c_set' = [c_set EXCEPT !.server_host = InNtoaBuffer]
    <3>1. c_set'.server_host = InNtoaBuffer
      BY <2>4 DEF ManyTypeOK, TypeOK, ClientTypeOK, Settings
    <3> QED BY <1>0, <2>1, <2>4, <3>1 DEF InLoop
  <2> QED BY <2>2, <2>3, <2>4
<1> QED BY <1>0, <1>1, <1>2, <1>3, <1>4 DEF DiscoveryNext

\* The polls.
LEMMA HeardPoll ==
    ASSUME ManyTypeOK, HeardInv, PollNext
    PROVE  HeardInv'
<1>0. /\ dpc = "done" /\ ClientNext /\ ClientTypeOK
      /\ UNCHANGED <<dpc, ntp_servers, first, heard>>
      /\ ~ Starting' /\ ~ Gathering'
  BY DEF PollNext, discoveryVars, ManyTypeOK, TypeOK, Starting, Gathering
<1> USE DEF HeardInv, InLoop
<1>1. CASE StartPoll
  <2>1. UNCHANGED <<net, c_set, ntoa_buf, userver>> /\ cpc = "wait"
    BY <1>1 DEF StartPoll, netVars
  <2>2. CASE cpc' = "resolve" /\ UNCHANGED mainVars
    BY <1>0, <2>1, <2>2 DEF mainVars
  <2>3. CASE PollFails
    <3>1. cpc' \in {"wait", "exit"} /\ (cpc' = "wait" => counter' > 0)
      BY <1>0, <2>3, ReturnCounts DEF PollFails
    <3> QED BY <1>0, <2>1, <3>1
  <2> QED BY <1>1, <2>2, <2>3 DEF StartPoll
<1>2. CASE ResolveServer
  <2>1. UNCHANGED <<net, c_set, ntoa_buf>> /\ cpc = "resolve"
    BY <1>2 DEF ResolveServer, netVars
  <2>2. CASE userver' = ntoa_buf /\ cpc' = "attempt" /\ UNCHANGED mainVars
    BY <1>0, <2>1, <2>2 DEF mainVars
  <2>3. CASE PollFails
    <3>1. cpc' \in {"wait", "exit"} /\ (cpc' = "wait" => counter' > 0)
      BY <1>0, <2>3, ReturnCounts DEF PollFails
    <3> QED BY <1>0, <2>1, <3>1
  <2>4. \/ userver' = ntoa_buf /\ cpc' = "attempt" /\ UNCHANGED mainVars
        \/ PollFails
    BY <1>0, <1>2 DEF ResolveServer, initialise_server_interface, AddressesOf
  <2> QED BY <2>2, <2>3, <2>4
<1>3. CASE GiveUp
  <2>1. UNCHANGED <<net, c_set, ntoa_buf>>
    BY <1>3 DEF GiveUp, netVars, pollVars
  <2>2. cpc' \in {"wait", "exit"} /\ (cpc' = "wait" => counter' > 0)
    BY <1>0, <1>3, ReturnCounts DEF GiveUp, PollFails
  <2> QED BY <1>0, <2>1, <2>2
<1>4. CASE CreateRequest \/ start_timer \/ ReceiveTimeout
  <2>1. /\ UNCHANGED <<net, c_set, ntoa_buf, userver, counter>> /\ InLoop
        /\ cpc' \in {"timer", "send", "attempt"}
    BY <1>4 DEF CreateRequest, start_timer, ReceiveTimeout, netVars, pollVars, mainVars
  <2> QED BY <1>0, <2>1
<1>5. CASE SendRequest
  <2> DEFINE q == [src |-> Client, dst |-> userver, port |-> sockfd,
                   pkt |-> request_pkt, id |-> requests, by |-> Client]
  <2>1. /\ UNCHANGED <<c_set, userver, counter>> /\ InLoop /\ cpc' \in {"recv", "attempt"}
        /\ ntoa_buf' \in {userver, ntoa_buf}
    BY <1>5 DEF SendRequest, pollVars, mainVars
  <2>2. net' = net \/ net' = net \cup {q}
    <3>1. PICK code \in {0, 1} : send_SNTP_packet(q, code)
      BY <1>5, Zenon DEF SendRequest
    <3> HIDE DEF q
    <3> QED BY <3>1 DEF send_SNTP_packet, SendOK
  <2>3. q.dst = Client => q.src \in Answering
    BY <1>0, <2>1
  <2> HIDE DEF q
  <2> QED BY <1>0, <2>1, <2>2, <2>3
<1>6. CASE ReceiveReply
  <2>1. PICK d \in net : \E same \in is_same_ipaddr(userver, d.src) :
            /\ d.dst = Client /\ net' \subseteq net
            /\ \/ AcceptReply(d)
               \/ /\ ntoa_buf' = same.buf /\ UNCHANGED mainVars
                  /\ UNCHANGED cpc \/ cpc' = "attempt"
    BY <1>6 DEF ReceiveReply, recieve_SNTP_packet
  <2>2. UNCHANGED <<c_set, userver>> /\ cpc = "recv"
    BY <1>6 DEF ReceiveReply
  <2>3. \A same \in is_same_ipaddr(userver, d.src) : same.buf \in {userver, d.src}
    BY DEF is_same_ipaddr
  <2>4. CASE AcceptReply(d)
    <3>1. cpc' \in {"wait", "exit"} /\ (cpc' = "wait" => counter' > 0)
      BY <1>0, <2>4, ReturnCounts DEF AcceptReply
    <3>2. ntoa_buf' = userver
      BY <2>4 DEF AcceptReply
    <3> QED BY <1>0, <2>1, <2>2, <3>1, <3>2
  <2>5. CASE /\ ntoa_buf' \in {userver, d.src} /\ UNCHANGED mainVars
             /\ UNCHANGED cpc \/ cpc' = "attempt"
    BY <1>0, <2>1, <2>2, <2>5 DEF mainVars
  <2> QED BY <2>1, <2>3, <2>4, <2>5
<1> QED BY <1>0, <1>1, <1>2, <1>3, <1>4, <1>5, <1>6 DEF ClientNext

\* The servers: whatever they send, they send from an address that answers.
LEMMA HeardServers ==
    ASSUME ManyTypeOK, HeardInv, UNCHANGED <<clientVars, discoveryVars>>,
           (ServerNext \/ OtherServerReplies \/ net' = net)
    PROVE  HeardInv'
<1>1. \A d \in net' : d \in net \/ d.src \in Answering
  <2>1. CASE ServerNext
    <3>1. PICK s \in Servers : InitialiseServer(s) \/ ServeReceive(s) \/ ServeReply(s)
      BY <2>1 DEF ServerNext
    <3>2. CASE InitialiseServer(s) \/ ServeReceive(s)
      BY <3>2 DEF InitialiseServer, ServeReceive, recieve_SNTP_packet
    <3>3. CASE ServeReply(s)
      <4> DEFINE req == client_req[s][1].dgram
                 pkt == create_reply_packet(req.pkt, client_req[s][1].time_of_request, HostClock(s))
                 rep(from) == [src |-> from, dst |-> req.src, port |-> req.port,
                               pkt |-> pkt, id |-> req.id, by |-> s]
      <4>1. PICK from \in ReplyFrom[s], code \in {0, 1} : send_SNTP_packet(rep(from), code)
        BY <3>3, Zenon DEF ServeReply
      <4>2. rep(from).src = from /\ from \in Answering
        BY DEF Answering
      <4> HIDE DEF rep
      <4>3. net' = net \/ net' = net \cup {rep(from)}
        BY <4>1 DEF send_SNTP_packet, SendOK
      <4> QED BY <4>2, <4>3
    <3> QED BY <3>1, <3>2, <3>3
  <2>2. CASE OtherServerReplies
    <3>1. PICK d \in net : \E r : OtherReplyTo(d, r) /\ net' \subseteq net \cup {r}
      BY <2>2, OtherReply
    <3>2. PICK r : OtherReplyTo(d, r) /\ net' \subseteq net \cup {r}
      BY <3>1
    <3>3. r.src \in Answering
      BY <3>2 DEF OtherReplyTo, Answering
    <3> QED BY <3>2, <3>3
  <2> QED BY <2>1, <2>2
<1>2. UNCHANGED <<cpc, counter, c_set, ntoa_buf, userver, dpc, ntp_servers, first, heard>>
  BY DEF clientVars, discoveryVars, pollVars, mainVars
<1> QED BY <1>1, <1>2 DEF HeardInv, Starting, Gathering, InLoop

\* unicast_mode polls a host that answers, and first one the discovery heard
\* from, for any number of servers and whatever the network does, although
\* server_host points to the static buffer of inet_ntoa (main,
\* discover_unicast_servers_with_manycast, is_same_ipaddr).
THEOREM ServerHeardFromHolds == ManycastSpec => []ServerHeardFrom
<1>1. ManycastInit => HeardInv
  BY DEF ManycastInit, DiscoveryInit, ClientInit, HeardInv, Starting, Gathering
<1>2. ManyTypeOK /\ HeardInv /\ [ManycastNext]_manyVars => HeardInv'
  <2> SUFFICES ASSUME ManyTypeOK, HeardInv, [ManycastNext]_manyVars PROVE HeardInv'
    OBVIOUS
  <2>1. CASE ClientStep
    BY <2>1, HeardDiscovery, HeardPoll DEF ClientStep
  <2>2. CASE \/ ServerNext /\ UNCHANGED <<clientVars, discoveryVars>>
             \/ OtherServerReplies /\ UNCHANGED discoveryVars
             \/ TimePasses
             \/ UNCHANGED manyVars
    BY <2>2, HeardServers DEF OtherServerReplies, TimePasses, DiscoveryTick, Tick, manyVars, vars,
                              netVars
  <2> QED BY <2>1, <2>2 DEF ManycastNext
<1>3. HeardInv => ServerHeardFrom
  BY DEF HeardInv, ServerHeardFrom, InLoop
<1> QED BY <1>1, <1>2, <1>3, ManyTypeCorrect, PTL DEF ManycastSpec
-----------------------------------------------------------------------------
(***************************************************************************)
(* ManycastFreshSample.  The request of the discovery is the first of the  *)
(* run, and was built before the collecting loop began; the loop is left   *)
(* in a later second, and so every request of a poll is built in one.      *)
(* From there on the argument is that of FreshSample.                      *)
(***************************************************************************)

\* The second by which the last request, but one being built, was built.
LastAsked ==
    IF Starting \/ dpc = "failed" THEN clock.sec
    ELSE IF last_timer.sec < timer.sec THEN timer.sec ELSE last_timer.sec

ManyFreshInv ==
    /\ Fresh(LastAsked)
    /\ clock.sec >= 0 /\ last_timer.sec >= 0
    /\ timer.sec <= clock.sec /\ last_timer.sec <= clock.sec
    /\ requests <= 1 /\ (Gathering \/ dpc = "done") => last_timer.sec <= timer.sec
    /\ Starting \/ Gathering =>
           /\ cpc \in {"wait", "exit"}
           /\ requests = IF dpc \in {"setup", "create"} THEN 0 ELSE 1
    /\ dpc = "send" => /\ Mode(request_pkt) = MODE_CLIENT
                       /\ StampedBy(request_pkt.transmit_timestamp, clock.sec)
    /\ dpc = "done" => timer.sec < clock.sec /\ Spacing(1)

\* LastAsked is a number.
LEMMA LastAskedType ==
    ASSUME ManyTypeOK
    PROVE  LastAsked \in Int /\ clock.sec \in Int /\ timer.sec \in Int /\ last_timer.sec \in Int
  BY DEF ManyTypeOK, TypeOK, NetTypeOK, ClientTypeOK, DiscoveryTypeOK, Timeval, LastAsked

\* A step taken while the client polls no one.
LEMMA FreshUnasked ==
    ASSUME NEW n \in Int, NEW m \in Int, Fresh(n), n <= m, m <= clock'.sec,
           ~ Asking, ~ Asking', requests \in Nat, requests' \in Nat, requests <= requests',
           UNCHANGED <<serverVars, accepted>>,
           \A d \in net' : d \in net \/ Known(d, m)'
    PROVE  Fresh(m)'
<1>1. ASSUME NEW d, Known(d, n) PROVE Known(d, m)'
  <2>1. StampedBy(Asked(d), m) /\ d.id \in 1..requests'
    BY <1>1, StampedLater DEF Known
  <2> QED BY <1>1, <2>1 DEF Known, Asked, StampedBy
<1>2. CurrentRequest(m)' /\ FreshSample'
  BY DEF CurrentRequest, Fresh, FreshSample
<1>3. \A d \in net' : Known(d, m)'
  BY <1>1 DEF Fresh
<1>4. \A s \in Servers : \A d \in Datagram :
          spc'[s] = "reply" /\ client_req'[s][1].dgram = d => Known(d, m)' /\ d.dst = s
  BY <1>1 DEF Fresh, serverVars
<1> QED BY <1>2, <1>3, <1>4 DEF Fresh

\* The steps of the discovery.
LEMMA ManyFreshDiscovery ==
    ASSUME ManyTypeOK, ManyTypeOK', InEra, ManyFreshInv, DiscoveryNext, UNCHANGED serverVars
    PROVE  ManyFreshInv'
<1>0. /\ clock.sec \in Int /\ timer.sec \in Int /\ last_timer.sec \in Int /\ clock \in Timeval
      /\ LastAsked \in Int /\ LastAsked' \in Int /\ requests \in Nat /\ requests' \in Nat
  BY LastAskedType DEF ManyTypeOK, TypeOK, NetTypeOK, ClientTypeOK, LastAsked, Timeval, DiscoveryTypeOK
<1>1. /\ clock' = clock /\ UNCHANGED <<last_timer, accepted>>
      /\ requests' = IF dpc = "create" THEN requests + 1 ELSE requests
      /\ dpc # "create" => request_pkt' = request_pkt
      /\ dpc # "timer" => timer' = timer
      /\ cpc' = cpc \/ cpc' = "exit"
  BY DiscoveryFrame
<1>2. /\ Starting \/ Gathering
      /\ dpc' \in CASE dpc = "setup"  -> {"create", "failed"}
                    [] dpc = "create" -> {"send"}
                    [] dpc = "send"   -> {"timer", "failed"}
                    [] dpc = "timer"  -> {"gather"}
                    [] dpc = "gather" -> {"recv", "done", "failed"}
                    [] dpc = "recv"   -> {"gather"}
  BY DEF DiscoveryNext, DiscoverySetup, DiscoveryCreate, DiscoverySend, DiscoveryTimer, Gather,
         GatherReply, GatherTimeout, DiscoveryOver, DiscoveryFails, Starting, Gathering
<1>3. dpc = "timer" => timer' = clock
  BY DEF DiscoveryNext, DiscoverySetup, DiscoveryCreate, DiscoverySend, DiscoveryTimer, Gather,
         GatherReply, GatherTimeout, DiscoveryOver
<1>4. ~ Asking /\ ~ Asking' /\ LastAsked <= LastAsked' /\ LastAsked' <= clock'.sec
  BY <1>0, <1>1, <1>2, <1>3 DEF ManyFreshInv, LastAsked, Asking, Starting, Gathering
<1>5. ASSUME NEW d \in net', d \notin net, NEW m, m = LastAsked'
      PROVE  Known(d, m)'
  <2>1. CASE DiscoverySend
    <3>1. PICK code : SendToGroup(code)
      BY <2>1 DEF DiscoverySend
    <3>2. PICK h \in Members : d = [src |-> Client, dst |-> h, port |-> sockfd,
                                    pkt |-> request_pkt, id |-> requests, by |-> Client]
      BY <1>5, <3>1, GroupSends
    <3>3. d.src = Client /\ d.id = requests /\ d.pkt = request_pkt /\ d.by = Client
      BY <3>2
    <3>4. dpc = "send" /\ requests = 1 /\ requests' = 1 /\ dpc' \in {"timer", "failed"}
      BY <1>1, <1>2, <2>1 DEF DiscoverySend, ManyFreshInv, Starting
    <3>5. m = clock.sec
      BY <1>1, <1>5, <3>4 DEF LastAsked, Starting
    <3>6. StampedBy(Asked(d), m) /\ Mode(d.pkt) = MODE_CLIENT
      BY <3>3, <3>4, <3>5 DEF ManyFreshInv, Asked
    <3> QED BY <1>4, <3>3, <3>4, <3>6 DEF Known, StampedBy, Asked
  <2>2. CASE ~ DiscoverySend
    <3>1. net' \subseteq net
      BY <2>2 DEF DiscoveryNext, DiscoverySetup, DiscoveryCreate, DiscoveryTimer, Gather,
                  GatherReply, GatherTimeout, DiscoveryOver, recieve_SNTP_packet, netVars
    <3> QED BY <1>5, <3>1
  <2> QED BY <2>1, <2>2
<1>6. ASSUME NEW m, m = LastAsked' PROVE Fresh(m)'
  <2>1. \A d \in net' : d \in net \/ Known(d, m)'
    BY <1>5, <1>6
  <2> QED BY <1>0, <1>1, <1>4, <1>6, <2>1, FreshUnasked DEF ManyFreshInv
<1>7. Fresh(LastAsked)'
  BY <1>6 DEF Fresh, CurrentRequest, Known
<1>8. (dpc = "send" => /\ Mode(request_pkt) = MODE_CLIENT
                       /\ StampedBy(request_pkt.transmit_timestamp, clock.sec))'
  <2> SUFFICES ASSUME dpc' = "send"
               PROVE  /\ Mode(request_pkt') = MODE_CLIENT
                      /\ StampedBy(request_pkt'.transmit_timestamp, clock'.sec)
    BY DEF StampedBy
  <2>1. dpc = "create"
    BY <1>2 DEF Starting, Gathering
  <2>2. request_pkt' = create_packet(clock)
    BY <2>1 DEF DiscoveryNext, DiscoverySetup, DiscoveryCreate, DiscoverySend, DiscoveryTimer,
                Gather, GatherReply, GatherTimeout, DiscoveryOver
  <2>3. Representable(clock)
    BY <1>0, TimeAssumption DEF Representable, InEra, ManyFreshInv
  <2>4. request_pkt'.transmit_timestamp = convert_unix_time_into_ntp_time(clock)
        /\ Mode(request_pkt') = MODE_CLIENT
    BY <2>2 DEF create_packet, Mode, MODE_CLIENT
  <2> QED BY <1>0, <1>1, <2>3, <2>4 DEF StampedBy
<1>9. dpc' = "done" => timer'.sec < clock'.sec /\ Spacing(1)'
  <2> SUFFICES ASSUME dpc' = "done" PROVE timer'.sec < clock'.sec /\ Spacing(1)'
    OBVIOUS
  <2>1. dpc = "gather"
    BY <1>2 DEF Starting, Gathering
  <2>2. DiscoveryOver
    BY <2>1 DEF DiscoveryNext, DiscoverySetup, DiscoveryCreate, DiscoverySend, DiscoveryTimer,
                Gather, GatherReply, GatherTimeout
  <2>3. timer'.sec < clock'.sec
    BY <1>0, <1>1, <2>1, <2>2, ManycastAssumption DEF DiscoveryOver, StillGathering, get_elapsed_time
  <2>4. requests' = 1 /\ cpc' \in {"wait", "exit"}
    BY <1>1, <2>1 DEF ManyFreshInv, Starting, Gathering
  <2> QED BY <1>0, <1>1, <2>3, <2>4 DEF Spacing, Started, InLoop, ManyFreshInv
<1>10. (requests <= 1 /\ (Gathering \/ dpc = "done") => last_timer.sec <= timer.sec)'
       /\ (timer.sec <= clock.sec)' /\ (last_timer.sec <= clock.sec)'
       /\ (clock.sec >= 0 /\ last_timer.sec >= 0)'
  BY <1>0, <1>1, <1>2, <1>3 DEF ManyFreshInv, Starting, Gathering
<1>11. (Starting \/ Gathering =>
           /\ cpc \in {"wait", "exit"}
           /\ requests = IF dpc \in {"setup", "create"} THEN 0 ELSE 1)'
  BY <1>0, <1>1, <1>2 DEF ManyFreshInv, Starting, Gathering
<1> QED BY <1>7, <1>8, <1>9, <1>10, <1>11 DEF ManyFreshInv

\* The steps of the polls.
LEMMA ManyFreshPoll ==
    ASSUME ManyTypeOK, ManyTypeOK', InEra, ManyFreshInv, PollNext, UNCHANGED serverVars
    PROVE  ManyFreshInv'
<1>0. /\ clock.sec \in Int /\ timer.sec \in Int /\ last_timer.sec \in Int
      /\ LastAsked \in Int /\ LastAsked' \in Int /\ requests \in Nat
  BY LastAskedType DEF ManyTypeOK, TypeOK, NetTypeOK, ClientTypeOK, LastAsked, Timeval, DiscoveryTypeOK
<1>1. /\ dpc = "done" /\ dpc' = "done" /\ timer' = timer /\ ClientNext /\ clock' = clock
      /\ ~ Starting /\ ~ Gathering /\ ~ Starting' /\ ~ Gathering'
  <2>1. clock' = clock
    BY DEF PollNext, ClientNext, StartPoll, ResolveServer, GiveUp, CreateRequest, start_timer,
           SendRequest, ReceiveReply, ReceiveTimeout, netVars
  <2> QED BY <2>1 DEF PollNext, discoveryVars, Starting, Gathering
<1>2. timer.sec < clock.sec /\ Spacing(1)
  BY <1>1 DEF ManyFreshInv
<1>3. /\ last_timer' = IF cpc = "timer" THEN clock ELSE last_timer
      /\ requests' = IF CreateRequest THEN requests + 1 ELSE requests
  BY <1>1 DEF ClientNext, StartPoll, ResolveServer, GiveUp, CreateRequest, start_timer,
              SendRequest, ReceiveReply, ReceiveTimeout, histVars
<1>4. LastAsked' = IF cpc = "timer" THEN clock.sec ELSE LastAsked
  BY <1>0, <1>1, <1>2, <1>3 DEF LastAsked
<1>5. CreateRequest /\ requests > 0 => LastAsked < clock.sec
  <2>1. CreateRequest /\ requests > 1 => last_timer.sec < clock.sec
    BY <1>2, CreateSpaced DEF ManyTypeOK
  <2> QED BY <1>0, <1>1, <1>2, <2>1 DEF LastAsked, ManyFreshInv
<1>6. ASSUME NEW m, m = LastAsked' PROVE Fresh(m)'
  BY <1>0, <1>1, <1>4, <1>5, <1>6, FreshClient DEF ManyFreshInv, ManyTypeOK
<1>7. Fresh(LastAsked)'
  BY <1>6 DEF Fresh, CurrentRequest, Known
<1>8. Spacing(1)'
  BY <1>1, <1>2, SpacingClient DEF ManyTypeOK, TypeOK
<1>9. requests' <= 1 => last_timer'.sec <= timer'.sec
  <2>1. cpc = "timer" => requests > 1
    BY <1>2 DEF Spacing
  <2> QED BY <1>0, <1>1, <1>3, <2>1 DEF ManyFreshInv
<1>10. /\ clock'.sec >= 0 /\ last_timer'.sec >= 0
       /\ timer'.sec <= clock'.sec /\ last_timer'.sec <= clock'.sec
       /\ timer'.sec < clock'.sec
  BY <1>0, <1>1, <1>2, <1>3 DEF ManyFreshInv
<1> QED BY <1>1, <1>7, <1>8, <1>9, <1>10 DEF ManyFreshInv

\* The servers, the clock, and nothing at all.
LEMMA ManyFreshOthers ==
    ASSUME ManyTypeOK, ManyTypeOK', ManyFreshInv, UNCHANGED <<clientVars, discoveryVars>>,
           \/ ServerNext
           \/ OtherServerReplies
           \/ UNCHANGED <<net, serverVars>> /\ (clock' = clock \/ AdvanceClock)
    PROVE  ManyFreshInv'
<1>0. /\ clock.sec \in Int /\ clock'.sec \in Int /\ timer.sec \in Int /\ last_timer.sec \in Int
      /\ LastAsked \in Int /\ LastAsked' \in Int /\ clock \in Timeval /\ requests \in Nat
  BY LastAskedType DEF ManyTypeOK, TypeOK, NetTypeOK, ClientTypeOK, LastAsked, Timeval, DiscoveryTypeOK
<1>1. UNCHANGED <<cpc, requests, request_pkt, last_timer, accepted, dpc, timer>>
  BY DEF clientVars, histVars, discoveryVars
<1>2. clock' = clock \/ AdvanceClock
  BY DEF ServerNext, InitialiseServer, ServeReceive, ServeReply, OtherServerReplies
<1>3. clock.sec <= clock'.sec
  BY <1>0, <1>2, ClockMonotone
<1>4. LastAsked <= LastAsked' /\ LastAsked' <= clock'.sec
  BY <1>0, <1>1, <1>3 DEF LastAsked, Starting, ManyFreshInv
<1>5. ASSUME NEW m, m = LastAsked' PROVE Fresh(m)'
  <2>1. CASE ServerNext \/ OtherServerReplies
    <3>1. clock' = clock
      BY <2>1 DEF ServerNext, InitialiseServer, ServeReceive, ServeReply, OtherServerReplies
    <3>2. m = LastAsked
      BY <1>1, <1>5, <3>1 DEF LastAsked, Starting
    <3> QED BY <1>0, <2>1, <3>2, FreshServer, FreshOther DEF ManyFreshInv, ManyTypeOK
  <2>2. CASE UNCHANGED <<net, serverVars>>
    <3>1. FreshSample' /\ Asking' = Asking
      BY <1>1 DEF ManyFreshInv, Fresh, FreshSample, Asking
    <3> QED BY <1>0, <1>1, <1>3, <1>4, <1>5, <2>2, <3>1, FreshStep DEF ManyFreshInv, ManyTypeOK
  <2> QED BY <2>1, <2>2
<1>6. Fresh(LastAsked)'
  BY <1>5 DEF Fresh, CurrentRequest, Known
<1>7. dpc = "done" => Spacing(1)'
  BY <1>2, SpacingStays DEF ManyFreshInv, ManyTypeOK
<1>8. dpc = "send" => StampedBy(request_pkt.transmit_timestamp, clock'.sec)
  BY <1>0, <1>3, StampedLater DEF ManyFreshInv
<1>9. /\ clock'.sec >= 0
      /\ timer.sec <= clock'.sec /\ last_timer.sec <= clock'.sec
      /\ dpc = "done" => timer.sec < clock'.sec
  BY <1>0, <1>3 DEF ManyFreshInv
<1> QED BY <1>1, <1>6, <1>7, <1>8, <1>9 DEF ManyFreshInv, Starting, Gathering, StampedBy

\* No reply to the manycast request, however late, and none to an earlier poll
\* is taken for the answer to a poll, as long as the clock stays within one NTP
\* era (discover_unicast_servers_with_manycast's collecting loop, and the
\* originate check of run_sanity_checks).
THEOREM ManycastFreshSampleHolds == ManycastSpec /\ []InEra => []ManycastFreshSample
<1>1. ManycastInit => ManyFreshInv
  <2> SUFFICES ASSUME ManycastInit PROVE ManyFreshInv
    OBVIOUS
  <2>1. /\ cpc \in {"wait", "exit"} /\ net = {} /\ accepted = << >> /\ requests = 0
        /\ last_timer = clock /\ timer = clock /\ dpc = "setup"
    BY DEF ManycastInit, DiscoveryInit, ClientInit
  <2>2. \A s \in Servers : spc[s] = "init"
    BY DEF ManycastInit, ServerInit
  <2>3. clock.sec = StartSec /\ StartSec \in Nat
    BY SystemAssumption DEF ManycastInit
  <2>4. Fresh(LastAsked)
    BY <2>1, <2>2, <2>3 DEF Fresh, CurrentRequest, Asking, FreshSample, LastAsked, Starting
  <2> QED BY <2>1, <2>3, <2>4 DEF ManyFreshInv, Starting, Gathering
<1>2. ManyTypeOK /\ ManyTypeOK' /\ InEra /\ ManyFreshInv /\ [ManycastNext]_manyVars => ManyFreshInv'
  <2> SUFFICES ASSUME ManyTypeOK, ManyTypeOK', InEra, ManyFreshInv, [ManycastNext]_manyVars
               PROVE  ManyFreshInv'
    OBVIOUS
  <2>1. CASE ClientStep
    BY <2>1, ManyFreshDiscovery, ManyFreshPoll DEF ClientStep
  <2>2. CASE \/ ServerNext /\ UNCHANGED <<clientVars, discoveryVars>>
             \/ OtherServerReplies /\ UNCHANGED discoveryVars
             \/ TimePasses
             \/ UNCHANGED manyVars
    BY <2>2, ManyFreshOthers DEF OtherServerReplies, TimePasses, DiscoveryTick, Tick, manyVars,
                                 vars, netVars
  <2> QED BY <2>1, <2>2 DEF ManycastNext
<1>3. ManyFreshInv => ManycastFreshSample
  BY DEF ManyFreshInv, Fresh, ManycastFreshSample
<1> QED BY <1>1, <1>2, <1>3, ManyTypeCorrect, PTL DEF ManycastSpec
=============================================================================
