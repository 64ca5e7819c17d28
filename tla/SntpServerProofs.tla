-------------------------- MODULE SntpServerProofs --------------------------
(***************************************************************************)
(* Lemmas on sntpserver and the network, whoever the clients are: packets, *)
(* clocks and the steps of the server are well typed, and the timestamps   *)
(* of a reply are in order.                                                *)
(***************************************************************************)
EXTENDS SntpServer, NtpTimeProofs

\* A request is a proper packet.
LEMMA RequestType ==
    ASSUME NEW now \in Timeval
    PROVE  create_packet(now) \in ntp_packet
<1>1. ZeroTimestamp \in NtpTimestamp
  BY TimeAssumption DEF ZeroTimestamp, NtpTimestamp
<1>2. convert_unix_time_into_ntp_time(now) \in NtpTimestamp
  BY ConversionType
<1> QED BY <1>1, <1>2 DEF create_packet, ntp_packet, MODE_CLIENT

\* So is the reply to one.
LEMMA ReplyType ==
    ASSUME NEW pkt \in ntp_packet, NEW received \in NtpTimestamp, NEW now \in Timeval
    PROVE  create_reply_packet(pkt, received, now) \in ntp_packet
<1>1. Version(pkt) \in 0..7
  BY DEF Version, ntp_packet
<1>2. Version(pkt) * 8 + MODE_SERVER \in 0..255
  BY <1>1 DEF MODE_SERVER
<1>3. convert_unix_time_into_ntp_time(now) \in NtpTimestamp
  BY ConversionType
<1> QED BY <1>2, <1>3 DEF create_reply_packet, ntp_packet

\* Every host has a proper clock.
LEMMA HostClockType ==
    ASSUME clock \in Timeval, NEW h \in Hosts
    PROVE  HostClock(h) \in Timeval
<1>1. Skew[h] \in Int
  BY ServerAssumption
<1>2. clock.sec \in Int /\ clock.sec + Skew[h] \in Int
  BY <1>1 DEF Timeval
<1> QED BY <1>2 DEF HostClock, Timeval

\* A record of seconds and microseconds in range is a struct timeval.
LEMMA TimevalIn ==
    ASSUME NEW secs, secs \subseteq Int, NEW usecs, usecs \subseteq 0..(Micros - 1),
           NEW tv \in [sec : secs, usec : usecs]
    PROVE  tv \in Timeval
<1>1. tv = [sec |-> tv.sec, usec |-> tv.usec] /\ tv.sec \in secs /\ tv.usec \in usecs
  OBVIOUS
<1>2. tv.sec \in Int /\ tv.usec \in 0..(Micros - 1)
  BY <1>1
<1> QED BY <1>1, <1>2 DEF Timeval

\* The clock keeps its type as it advances.
LEMMA ClockType ==
    ASSUME clock \in Timeval, AdvanceClock
    PROVE  clock' \in Timeval
<1>1. clock' \in [sec : {clock.sec, clock.sec + 1}, usec : Subseconds]
  BY DEF AdvanceClock
<1>2. {clock.sec, clock.sec + 1} \subseteq Int
  BY DEF Timeval
<1> QED BY <1>1, <1>2, TimevalIn, NetworkAssumption

\* The element of a sequence of one.
LEMMA OneElement ==
    ASSUME NEW S, NEW q \in Seq(S), Len(q) = 1
    PROVE  q[1] \in S
  OBVIOUS

\* No step of a server disturbs the types.
LEMMA TypeServer ==
    ASSUME NetTypeOK, ServerTypeOK, ServerNext
    PROVE  NetTypeOK' /\ ServerTypeOK'
<1>2. PICK s \in Servers : InitialiseServer(s) \/ ServeReceive(s) \/ ServeReply(s)
  BY DEF ServerNext
<1>3. s \in Hosts /\ clock \in Timeval /\ clock' = clock
  BY <1>2, ServerAssumption DEF InitialiseServer, ServeReceive, ServeReply, NetTypeOK
<1>4. HostClock(s) \in Timeval
  BY <1>3, HostClockType
<1>5. CASE InitialiseServer(s)
  BY <1>5 DEF InitialiseServer, NetTypeOK, ServerTypeOK
<1>6. CASE ServeReceive(s)
  <2> DEFINE stamp == convert_unix_time_into_ntp_time(HostClock(s))
  <2>1. stamp \in NtpTimestamp
    BY <1>4, ConversionType
  <2> HIDE DEF stamp
  <2>2. PICK d \in net :
            /\ net' \in {net, net \ {d}}
            /\ client_req' = [client_req EXCEPT ![s] =
                   << [dgram |-> d, time_of_request |-> stamp] >>]
            /\ spc' = [spc EXCEPT ![s] = IF check_packet(d.pkt) = 0 THEN "reply" ELSE "listen"]
    BY <1>6 DEF ServeReceive, recieve_SNTP_packet, stamp
  <2>3. d \in Datagram /\ net' \subseteq Datagram
    BY <2>2 DEF NetTypeOK
  <2>4. << [dgram |-> d, time_of_request |-> stamp] >>
            \in Seq([dgram : Datagram, time_of_request : NtpTimestamp])
    BY <2>1, <2>3
  <2>5. ServerTypeOK'
    BY <2>2, <2>4 DEF ServerTypeOK
  <2> QED BY <1>3, <2>3, <2>5 DEF NetTypeOK
<1>7. CASE ServeReply(s)
  <2> DEFINE req == client_req[s][1].dgram
             rep(from) == [src |-> from, dst |-> req.src, port |-> req.port,
                           pkt |-> create_reply_packet(req.pkt,
                                       client_req[s][1].time_of_request, HostClock(s)),
                           id |-> req.id, by |-> s]
  <2>1. client_req[s][1] \in [dgram : Datagram, time_of_request : NtpTimestamp]
    <3>1. spc[s] = "reply"
      BY <1>7 DEF ServeReply
    <3>2. /\ client_req[s] \in Seq([dgram : Datagram, time_of_request : NtpTimestamp])
          /\ Len(client_req[s]) = 1
      BY <3>1 DEF ServerTypeOK
    <3> QED BY <3>2, OneElement
  <2>2. req \in Datagram /\ client_req[s][1].time_of_request \in NtpTimestamp
    BY <2>1
  <2>3. PICK from \in ReplyFrom[s] : net' = net \/ net' = net \cup {rep(from)}
    <3>1. PICK from \in ReplyFrom[s], code \in {0, 1} : send_SNTP_packet(rep(from), code)
      BY <1>7, Zenon DEF ServeReply
    <3>2. net' = net \/ net' = net \cup {rep(from)}
      <4> HIDE DEF rep
      <4> QED BY <3>1 DEF send_SNTP_packet, SendOK
    <3> QED BY <3>2
  <2>4. from \in Hosts
    BY ServerAssumption
  <2>5. create_reply_packet(req.pkt, client_req[s][1].time_of_request, HostClock(s)) \in ntp_packet
    BY <1>4, <2>2, ReplyType DEF Datagram
  <2> HIDE DEF req
  <2>6. rep(from) \in Datagram
    BY <1>3, <2>2, <2>4, <2>5 DEF Datagram
  <2> HIDE DEF rep
  <2>7. net' \subseteq Datagram
    BY <2>3, <2>6 DEF NetTypeOK
  <2>8. ServerTypeOK'
    BY <1>7 DEF ServeReply, ServerTypeOK
  <2> QED BY <1>3, <2>7, <2>8 DEF NetTypeOK
<1> QED BY <1>2, <1>5, <1>6, <1>7
-----------------------------------------------------------------------------
(***************************************************************************)
(* The timestamps of requests and replies, decoded.                        *)
(***************************************************************************)

\* The instant at which a packet stamped now is decoded.
Now == InstantOf(convert_unix_time_into_ntp_time(clock))

\* The clocks of the client and of h can be carried by the packets, and the
\* fraction of the microseconds does not wrap.
ClockCarried == clock \in Timeval /\ clock.sec \in 0..(SecMod - 1) /\ clock.usec # Micros - 1
HostCarried(h) == clock.sec + Skew[h] \in 0..(SecMod - 1)

\* The client's clock and those of the hosts in S stay within one era of the
\* conversion, in which the seconds do not come round.
ClocksInEra(S) == clock.sec \in 0..(SecMod - 1) /\ \A h \in S : HostCarried(h)

\* Where a timestamp leads is a number.
LEMMA InstantOfType ==
    ASSUME NEW ts \in NtpTimestamp
    PROVE  InstantOf(ts) \in Int
  BY DecodingType, InstantType DEF InstantOf

\* The packets of a datagram have timestamps that decode to numbers.
LEMMA PacketInstants ==
    ASSUME NEW pkt \in ntp_packet
    PROVE  /\ InstantOf(pkt.originate_timestamp) \in Int
           /\ InstantOf(pkt.receive_timestamp) \in Int
           /\ InstantOf(pkt.transmit_timestamp) \in Int
  BY InstantOfType DEF ntp_packet

\* Now is at most a microsecond late.
LEMMA NowFacts ==
    ASSUME ClockCarried
    PROVE  Instant(clock) \in Int /\ Now \in Int /\ Now <= Instant(clock) + 1
<1>1. Representable(clock)
  BY DEF ClockCarried, Representable
<1>2. Instant(clock) \in Int /\ Now \in Int /\ Now - Instant(clock) \in {0, 1}
  BY <1>1, StampError DEF ClockCarried, Now
<1> QED BY <1>2

\* A host whose clock is ahead stamps its packets as much later.
LEMMA HostStamp ==
    ASSUME ClockCarried, NEW h \in Hosts, HostCarried(h)
    PROVE  /\ Skew[h] * Micros \in Int
           /\ InstantOf(convert_unix_time_into_ntp_time(HostClock(h))) = Now + Skew[h] * Micros
           /\ Instant(HostClock(h)) = Instant(clock) + Skew[h] * Micros
<1>1. clock \in Timeval /\ Skew[h] \in Int /\ Micros \in Int
  BY ServerAssumption, TimeAssumption DEF ClockCarried
<1>2. HostClock(h) \in Timeval /\ HostClock(h).sec = clock.sec + Skew[h]
      /\ HostClock(h).usec = clock.usec
  BY <1>1, HostClockType DEF HostClock, Timeval
<1>3. Representable(clock) /\ Representable(HostClock(h))
  BY <1>2 DEF ClockCarried, HostCarried, Representable
<1>4. InstantOf(convert_unix_time_into_ntp_time(HostClock(h))) = Now + Skew[h] * Micros
  BY <1>1, <1>2, <1>3, StampShifted DEF Now
<1>5. clock.sec \in Int /\ clock.usec \in Int /\ Skew[h] * Micros \in Int
  BY <1>1 DEF Timeval
<1>6. (clock.sec + Skew[h]) * Micros = clock.sec * Micros + Skew[h] * Micros
      /\ clock.sec * Micros \in Int
  BY <1>1, <1>5
<1>7. Instant(HostClock(h)) = Instant(clock) + Skew[h] * Micros
  BY <1>2, <1>5, <1>6 DEF Instant
<1> QED BY <1>4, <1>5, <1>7

\* Now does not go back.
LEMMA NowAdvances ==
    ASSUME ClockCarried, ClockCarried', AdvanceClock
    PROVE  Now \in Int /\ Now' \in Int /\ Now <= Now'
<1>1. Representable(clock) /\ Representable(clock') /\ Before(clock, clock')
  BY DEF ClockCarried, Representable, AdvanceClock
<1>2. Now <= Now'
  BY <1>1, StampMonotone DEF ClockCarried, Now
<1>3. Now \in Int /\ Now' \in Int
  BY <1>1, StampError DEF ClockCarried, Now
<1> QED BY <1>2, <1>3

\* Server s holds a request that was sent before it arrived.
HeldInOrder(s) ==
    /\ InstantOf(client_req[s][1].dgram.pkt.transmit_timestamp) + Skew[s] * Micros
           <= InstantOf(client_req[s][1].time_of_request)
    /\ InstantOf(client_req[s][1].time_of_request) <= Now + Skew[s] * Micros

\* Reply d was asked for, then its request arrived, then it was sent, all on
\* the clock of its server and in the past.
InOrder(d) ==
    /\ InstantOf(d.pkt.originate_timestamp) + Skew[d.by] * Micros
           <= InstantOf(d.pkt.receive_timestamp)
    /\ InstantOf(d.pkt.receive_timestamp) <= InstantOf(d.pkt.transmit_timestamp)
    /\ InstantOf(d.pkt.transmit_timestamp) <= Now + Skew[d.by] * Micros

\* A reply built now from a request held in order is in order.
LEMMA ReplyInOrder ==
    ASSUME ClockCarried, NEW s \in Hosts, HostCarried(s), HeldInOrder(s),
           NEW d, d.by = s,
           d.pkt = create_reply_packet(client_req[s][1].dgram.pkt,
                                       client_req[s][1].time_of_request, HostClock(s))
    PROVE  InOrder(d)
<1>1. /\ d.pkt.originate_timestamp = client_req[s][1].dgram.pkt.transmit_timestamp
      /\ d.pkt.receive_timestamp = client_req[s][1].time_of_request
      /\ d.pkt.transmit_timestamp = convert_unix_time_into_ntp_time(HostClock(s))
  BY DEF create_reply_packet
<1>2. InstantOf(d.pkt.transmit_timestamp) = Now + Skew[s] * Micros
      /\ Now \in Int /\ Skew[s] * Micros \in Int
  BY <1>1, HostStamp, NowFacts
<1> QED BY <1>1, <1>2 DEF InOrder, HeldInOrder

\* What is in order stays so as time passes.
LEMMA OrderStays ==
    ASSUME Now \in Int, Now' \in Int, Now <= Now'
    PROVE  /\ \A d : /\ d.pkt \in ntp_packet /\ d.by \in Hosts /\ InOrder(d)
                     => InOrder(d)'
           /\ \A s \in Hosts :
                  /\ UNCHANGED client_req /\ HeldInOrder(s)
                  /\ client_req[s][1].time_of_request \in NtpTimestamp
                  => HeldInOrder(s)'
<1>1. ASSUME NEW h \in Hosts PROVE Skew[h] * Micros \in Int
  BY ServerAssumption, TimeAssumption
<1>2. ASSUME NEW d, d.pkt \in ntp_packet, d.by \in Hosts, InOrder(d)
      PROVE  InOrder(d)'
  <2>1. InstantOf(d.pkt.transmit_timestamp) \in Int /\ Skew[d.by] * Micros \in Int
    BY <1>1, <1>2, PacketInstants
  <2>2. InstantOf(d.pkt.transmit_timestamp) <= Now' + Skew[d.by] * Micros
    BY <1>2, <2>1 DEF InOrder
  <2> QED BY <1>2, <2>2 DEF InOrder
<1>3. ASSUME NEW s \in Hosts, UNCHANGED client_req, HeldInOrder(s),
             client_req[s][1].time_of_request \in NtpTimestamp
      PROVE  HeldInOrder(s)'
  <2>1. InstantOf(client_req[s][1].time_of_request) \in Int /\ Skew[s] * Micros \in Int
    BY <1>1, <1>3, InstantOfType
  <2>2. InstantOf(client_req[s][1].time_of_request) <= Now' + Skew[s] * Micros
    BY <1>3, <2>1 DEF HeldInOrder
  <2> QED BY <1>3, <2>2 DEF HeldInOrder
<1> QED BY <1>2, <1>3

\* What server s holds, as it sends a reply.
LEMMA HeldType ==
    ASSUME ServerTypeOK, NEW s \in Servers, spc[s] = "reply"
    PROVE  /\ client_req[s][1].dgram \in Datagram
           /\ client_req[s][1].time_of_request \in NtpTimestamp
<1>1. client_req[s][1] \in [dgram : Datagram, time_of_request : NtpTimestamp]
  BY OneElement DEF ServerTypeOK
<1> QED BY <1>1

\* The steps of a server, as far as times are concerned: a request sent in the
\* past is held in order, and a reply to one that is held in order is in order.
LEMMA TimesServer ==
    ASSUME NetTypeOK, ServerTypeOK, ClockCarried, \A s \in Servers : HostCarried(s),
           ServerNext,
           \A d \in net : d.dst \in Servers => InstantOf(d.pkt.transmit_timestamp) <= Now,
           \A s \in Servers : spc[s] = "reply" => HeldInOrder(s)
    PROVE  /\ clock' = clock
           /\ \A s \in Servers : spc'[s] = "reply" => HeldInOrder(s)'
           /\ \A d \in net' : d \in net \/ (d.by \in Servers /\ InOrder(d))
<1>1. PICK s \in Servers : InitialiseServer(s) \/ ServeReceive(s) \/ ServeReply(s)
  BY DEF ServerNext
<1>2. s \in Hosts /\ clock' = clock
  BY <1>1, ServerAssumption DEF InitialiseServer, ServeReceive, ServeReply
<1>3. spc \in [Servers -> {"init", "listen", "reply", "exit"}]
      /\ client_req \in [Servers -> Seq([dgram : Datagram, time_of_request : NtpTimestamp])]
  BY DEF ServerTypeOK
<1>4. ASSUME NEW x \in Servers, client_req'[x] = client_req[x], HeldInOrder(x)
      PROVE  HeldInOrder(x)'
  BY <1>2, <1>4 DEF HeldInOrder, Now
<1>5. CASE InitialiseServer(s)
  <2>1. net' = net /\ client_req' = client_req
        /\ \A x \in Servers : spc'[x] = "reply" => spc[x] = "reply"
    BY <1>3, <1>5 DEF InitialiseServer
  <2> QED BY <1>2, <1>4, <2>1
<1>6. CASE ServeReceive(s)
  <2> DEFINE stamp == convert_unix_time_into_ntp_time(HostClock(s))
  <2> HIDE DEF stamp
  <2>1. PICK d \in net :
            /\ d.dst = s
            /\ net' \in {net, net \ {d}}
            /\ client_req' = [client_req EXCEPT ![s] =
                   << [dgram |-> d, time_of_request |-> stamp] >>]
            /\ spc' = [spc EXCEPT ![s] = IF check_packet(d.pkt) = 0 THEN "reply" ELSE "listen"]
    BY <1>6 DEF ServeReceive, recieve_SNTP_packet, stamp
  <2>2. client_req'[s][1].dgram = d /\ client_req'[s][1].time_of_request = stamp
    BY <1>3, <2>1
  <2>3. /\ InstantOf(stamp) = Now + Skew[s] * Micros
        /\ Now \in Int /\ Skew[s] * Micros \in Int
    BY <1>2, HostStamp, NowFacts DEF stamp
  <2>4. InstantOf(d.pkt.transmit_timestamp) <= Now
        /\ InstantOf(d.pkt.transmit_timestamp) \in Int
    BY <2>1, PacketInstants DEF NetTypeOK, Datagram
  <2>5. Now' = Now
    BY <1>2 DEF Now
  <2>6. HeldInOrder(s)'
    BY <2>2, <2>3, <2>4, <2>5 DEF HeldInOrder
  <2>7. \A x \in Servers : x # s => client_req'[x] = client_req[x] /\ spc'[x] = spc[x]
    BY <1>3, <2>1
  <2> QED BY <1>2, <1>4, <2>1, <2>6, <2>7
<1>7. CASE ServeReply(s)
  <2> DEFINE req == client_req[s][1].dgram
             pkt == create_reply_packet(req.pkt, client_req[s][1].time_of_request, HostClock(s))
             rep(from) == [src |-> from, dst |-> req.src, port |-> req.port,
                           pkt |-> pkt, id |-> req.id, by |-> s]
  <2>1. spc[s] = "reply" /\ client_req' = client_req
        /\ \A x \in Servers : spc'[x] = "reply" => spc[x] = "reply"
    BY <1>3, <1>7 DEF ServeReply
  <2>2. PICK from : net' = net \/ net' = net \cup {rep(from)}
    <3>1. PICK from \in ReplyFrom[s], code \in {0, 1} : send_SNTP_packet(rep(from), code)
      BY <1>7, Zenon DEF ServeReply
    <3>2. net' = net \/ net' = net \cup {rep(from)}
      <4> HIDE DEF rep
      <4> QED BY <3>1 DEF send_SNTP_packet, SendOK
    <3> QED BY <3>2
  <2>3. ASSUME NEW d, d = rep(from) PROVE d.by = s /\ InOrder(d)
    <3>1. d.by = s /\ d.pkt = pkt
      <4> HIDE DEF pkt
      <4> QED BY <2>3
    <3> QED BY <1>2, <2>1, <3>1, ReplyInOrder
  <2> HIDE DEF rep
  <2>4. \A d \in net' : d \in net \/ (d.by \in Servers /\ InOrder(d))
    BY <2>2, <2>3
  <2> QED BY <1>2, <1>4, <2>1, <2>4
<1> QED BY <1>1, <1>5, <1>6, <1>7
=============================================================================
