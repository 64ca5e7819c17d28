-------------------------- MODULE ServerLoadProofs --------------------------
(***************************************************************************)
(* Proofs about ServerLoad, for any number of machines, servers and        *)
(* packets: types, that a reply never mixes two requests, and that its     *)
(* timestamps are in order.                                                *)
(***************************************************************************)
EXTENDS ServerLoad, SntpServerProofs, FiniteSetTheorems

\* Cardinality(asked) numbers the packets: it has to be finite.
TypeInv == TypeOK /\ IsFiniteSet(asked)

\* The packet h sends from port p to s, and that Ask puts under way.
Sent(h, s, p, b) ==
    [src |-> h, dst |-> s, port |-> p,
     pkt |-> [create_packet(clock) EXCEPT !.li_vn_mode = b],
     id |-> Cardinality(asked), by |-> h]

\* What Ask does, with the packet named.
LEMMA AskSends ==
    ASSUME TypeInv, Ask
    PROVE  \E h \in Senders, s \in Servers, p \in Ports, b \in FirstBytes :
               /\ Sent(h, s, p, b) \in Datagram
               /\ net' \subseteq net \cup {Sent(h, s, p, b)}
               /\ asked' = asked \cup {Sent(h, s, p, b)}
<1>1. PICK h \in Senders, s \in Servers, p \in Ports, b \in FirstBytes :
          SendOK(Sent(h, s, p, b)) /\ asked' = asked \cup {Sent(h, s, p, b)}
  BY Zenon DEF Ask, Sent
<1>2. [create_packet(clock) EXCEPT !.li_vn_mode = b] \in ntp_packet
  <2>1. create_packet(clock) \in ntp_packet
    BY RequestType DEF TypeInv, TypeOK, NetTypeOK
  <2>2. b \in 0..255
    BY LoadAssumption
  <2> QED BY <2>1, <2>2 DEF ntp_packet
<1>3. Cardinality(asked) \in Nat
  BY FS_CardinalityType DEF TypeInv
<1>4. h \in Hosts /\ s \in Hosts
  BY LoadAssumption, ServerAssumption
<1>5. Sent(h, s, p, b) \in Datagram
  BY <1>2, <1>3, <1>4 DEF Sent, Datagram
<1>6. net' \subseteq net \cup {Sent(h, s, p, b)}
  BY <1>1 DEF SendOK
<1> QED BY <1>1, <1>5, <1>6

\* TypeInv is inductive.
LEMMA TypeInductive == Spec => []TypeInv
<1>1. Init => TypeInv
  <2> SUFFICES ASSUME Init PROVE TypeInv
    OBVIOUS
  <2>1. clock \in Timeval
    <3>1. {StartSec} \subseteq Int
      BY LoadAssumption
    <3> QED BY <3>1, TimevalIn, NetworkAssumption DEF Init
  <2>2. << >> \in Seq([dgram : Datagram, time_of_request : NtpTimestamp])
    OBVIOUS
  <2>3. ServerTypeOK
    BY <2>2 DEF Init, ServerInit, ServerTypeOK
  <2>4. IsFiniteSet(asked)
    BY FS_EmptySet DEF Init
  <2> QED BY <2>1, <2>3, <2>4 DEF Init, TypeInv, TypeOK, NetTypeOK
<1>2. TypeInv /\ [Next]_vars => TypeInv'
  <2> SUFFICES ASSUME TypeInv, [Next]_vars PROVE TypeInv'
    OBVIOUS
  <2>1. CASE Ask
    <3>1. PICK d \in Datagram : net' \subseteq net \cup {d} /\ asked' = asked \cup {d}
      BY <2>1, AskSends
    <3>2. IsFiniteSet(asked')
      BY <3>1, FS_AddElement DEF TypeInv
    <3> QED BY <2>1, <3>1, <3>2 DEF Ask, TypeInv, TypeOK, NetTypeOK, ServerTypeOK, serverVars
  <2>2. CASE Tick
    <3>1. clock' \in Timeval
      BY <2>2, ClockType DEF Tick, TypeInv, TypeOK, NetTypeOK
    <3> QED BY <2>2, <3>1 DEF Tick, TypeInv, TypeOK, NetTypeOK, ServerTypeOK, serverVars
  <2>3. CASE ServerNext /\ UNCHANGED asked
    BY <2>3, TypeServer DEF TypeInv, TypeOK
  <2>4. CASE UNCHANGED vars
    BY <2>4 DEF vars, netVars, serverVars, TypeInv, TypeOK, NetTypeOK, ServerTypeOK
  <2> QED BY <2>1, <2>2, <2>3, <2>4 DEF Next
<1> QED BY <1>1, <1>2, PTL DEF Spec

\* Type correctness of servers under load (main's loop over client_req).
THEOREM TypeCorrect == Spec => []TypeOK
<1>1. TypeInv => TypeOK
  BY DEF TypeInv
<1> QED BY <1>1, TypeInductive, PTL
-----------------------------------------------------------------------------
(***************************************************************************)
(* AnswersItsRequest.  A packet in flight is one that was sent to a server *)
(* or a reply to one; replies go to machines that are not servers, so what *)
(* main holds in client_req while it answers is a packet that was sent.    *)
(***************************************************************************)
Serving(s) == client_req[s][1].dgram

AnswerInv ==
    /\ \A r \in asked : r.src \in Senders /\ r.by \in Senders
    /\ \A d \in net :
           \/ d \in asked
           \/ \E r \in asked : Answers(d, r)
    /\ \A s \in Servers : spc[s] = "reply" =>
           /\ Serving(s) \in asked /\ Serving(s).dst = s
           /\ check_packet(Serving(s).pkt) = 0

\* A reply has the version of the request, and the mode of a server.
LEMMA ReplyHeader ==
    ASSUME NEW pkt \in ntp_packet, NEW received, NEW now
    PROVE  LET rep == create_reply_packet(pkt, received, now)
           IN  /\ Version(rep) = Version(pkt) /\ Mode(rep) = MODE_SERVER
               /\ rep.originate_timestamp = pkt.transmit_timestamp
<1> DEFINE rep == create_reply_packet(pkt, received, now)
<1>1. PICK v \in 0..7 : v = Version(pkt)
  BY DEF Version, ntp_packet
<1>2. rep.li_vn_mode = v * 8 + 4 /\ rep.originate_timestamp = pkt.transmit_timestamp
  BY <1>1 DEF create_reply_packet, MODE_SERVER
<1>3. ((v * 8 + 4) \div 8) % 8 = v /\ (v * 8 + 4) % 8 = 4
  OBVIOUS
<1> QED BY <1>1, <1>2, <1>3 DEF Version, Mode, MODE_SERVER

\* A step of a server keeps AnswerInv.
LEMMA AnswerServer ==
    ASSUME TypeInv, AnswerInv, ServerNext, UNCHANGED asked
    PROVE  AnswerInv'
<1>1. PICK s \in Servers : InitialiseServer(s) \/ ServeReceive(s) \/ ServeReply(s)
  BY DEF ServerNext
<1>2. spc \in [Servers -> {"init", "listen", "reply", "exit"}] /\ DOMAIN client_req = Servers
  BY DEF TypeInv, TypeOK, ServerTypeOK
<1>3. s \notin Senders
  BY LoadAssumption
<1>4. CASE InitialiseServer(s)
  BY <1>2, <1>4 DEF InitialiseServer, AnswerInv, Serving
<1>5. CASE ServeReceive(s)
  <2> DEFINE stamp == convert_unix_time_into_ntp_time(HostClock(s))
  <2> HIDE DEF stamp
  <2>1. PICK d \in net :
            /\ d.dst = s
            /\ net' \in {net, net \ {d}}
            /\ client_req' = [client_req EXCEPT ![s] =
                   << [dgram |-> d, time_of_request |-> stamp] >>]
            /\ spc' = [spc EXCEPT ![s] = IF check_packet(d.pkt) = 0 THEN "reply" ELSE "listen"]
    BY <1>5 DEF ServeReceive, recieve_SNTP_packet, stamp
  <2>2. d \in asked
    BY <1>3, <2>1 DEF AnswerInv, Answers
  <2>3. client_req'[s][1].dgram = d
    BY <1>2, <2>1
  <2>4. \A x \in Servers : spc'[x] = "reply" =>
            /\ Serving(x)' \in asked /\ Serving(x)'.dst = x
            /\ check_packet(Serving(x)'.pkt) = 0
    <3> SUFFICES ASSUME NEW x \in Servers, spc'[x] = "reply"
                 PROVE  /\ Serving(x)' \in asked /\ Serving(x)'.dst = x
                        /\ check_packet(Serving(x)'.pkt) = 0
      OBVIOUS
    <3>1. CASE x = s
      BY <1>2, <2>1, <2>2, <2>3, <3>1 DEF Serving
    <3>2. CASE x # s
      BY <1>2, <2>1, <3>2 DEF Serving, AnswerInv
    <3> QED BY <3>1, <3>2
  <2> QED BY <2>1, <2>4 DEF AnswerInv, Serving
<1>6. CASE ServeReply(s)
  <2> DEFINE req == Serving(s)
             pkt == create_reply_packet(req.pkt, client_req[s][1].time_of_request, HostClock(s))
             rep(from) == [src |-> from, dst |-> req.src, port |-> req.port,
                           pkt |-> pkt, id |-> req.id, by |-> s]
  <2>1. /\ spc[s] = "reply" /\ client_req' = client_req
        /\ \A x \in Servers : spc'[x] = "reply" => spc[x] = "reply"
    BY <1>2, <1>6 DEF ServeReply
  <2>2. PICK from : net' = net \/ net' = net \cup {rep(from)}
    <3>1. PICK from \in ReplyFrom[s], code \in {0, 1} : send_SNTP_packet(rep(from), code)
      BY <1>6, Zenon DEF ServeReply, Serving
    <3>2. net' = net \/ net' = net \cup {rep(from)}
      <4> HIDE DEF rep
      <4> QED BY <3>1 DEF send_SNTP_packet, SendOK
    <3> QED BY <3>2
  <2>3. req \in asked /\ req.dst = s /\ check_packet(req.pkt) = 0
    BY <2>1 DEF AnswerInv
  <2>4. req \in Datagram /\ req.pkt \in ntp_packet
    BY <2>3 DEF TypeInv, TypeOK, Datagram
  <2>5. /\ Version(pkt) = Version(req.pkt) /\ Mode(pkt) = MODE_SERVER
        /\ pkt.originate_timestamp = req.pkt.transmit_timestamp
    BY <2>4, ReplyHeader
  <2>6. Mode(req.pkt) = MODE_CLIENT /\ Version(req.pkt) \in 1..4
    BY <2>3 DEF check_packet
  <2> HIDE DEF req, pkt
  <2>7. Answers(rep(from), req)
    BY <2>3, <2>5, <2>6 DEF Answers
  <2> HIDE DEF rep
  <2>8. \A d \in net' : d \in asked \/ \E r \in asked : Answers(d, r)
    BY <2>2, <2>3, <2>7 DEF AnswerInv
  <2> QED BY <2>1, <2>8 DEF AnswerInv, Serving, Answers
<1> QED BY <1>1, <1>4, <1>5, <1>6

\* AnswerInv holds throughout.
LEMMA AnswerInductive == Spec => [](TypeInv /\ AnswerInv)
<1>1. Init => AnswerInv
  BY DEF Init, ServerInit, AnswerInv
<1>2. TypeInv /\ AnswerInv /\ [Next]_vars => AnswerInv'
  <2> SUFFICES ASSUME TypeInv, AnswerInv, [Next]_vars PROVE AnswerInv'
    OBVIOUS
  <2>1. CASE Ask
    <3>1. PICK h \in Senders, s \in Servers, p \in Ports, b \in FirstBytes :
              /\ net' \subseteq net \cup {Sent(h, s, p, b)}
              /\ asked' = asked \cup {Sent(h, s, p, b)}
      BY <2>1, AskSends
    <3>2. Sent(h, s, p, b).src = h /\ Sent(h, s, p, b).by = h
      BY DEF Sent
    <3> QED BY <2>1, <3>1, <3>2 DEF Ask, AnswerInv, Serving, Answers, serverVars
  <2>2. CASE Tick \/ UNCHANGED vars
    BY <2>2 DEF Tick, vars, netVars, serverVars, AnswerInv, Serving, Answers
  <2>3. CASE ServerNext /\ UNCHANGED asked
    BY <2>3, AnswerServer
  <2> QED BY <2>1, <2>2, <2>3 DEF Next
<1> QED BY <1>1, <1>2, TypeInductive, PTL DEF Spec

\* A reply never mixes two requests and no packet but a valid request is
\* answered, however many machines ask a server at once and whatever the
\* network repeats or reorders (main, check_packet, create_reply_packet).
THEOREM AnswersItsRequestHolds == Spec => []AnswersItsRequest
<1>1. AnswerInv => AnswersItsRequest
  BY LoadAssumption DEF AnswerInv, AnswersItsRequest, Replies
<1> QED BY <1>1, AnswerInductive, PTL
-----------------------------------------------------------------------------
(***************************************************************************)
(* ReplyTimesOrdered.  A request carries a time that is over, and keeps    *)
(* doing so; client_req joins it with the time of its arrival, and the     *)
(* reply with the time of its departure.  AnswerInv says that nothing but  *)
(* requests gets into client_req.                                          *)
(***************************************************************************)
OrderInv ==
    /\ clock.usec \in Subseconds
    /\ Micros - 1 \notin Subseconds =>
           /\ \A r \in asked : InstantOf(r.pkt.transmit_timestamp) <= Now
           /\ \A d \in Replies : InOrder(d)
           /\ \A s \in Servers : spc[s] = "reply" => HeldInOrder(s)

\* Every step keeps OrderInv.
LEMMA OrderStep ==
    ASSUME TypeInv, TypeInv', AnswerInv, OrderInv,
           ClocksInEra(Servers), ClocksInEra(Servers)', [Next]_vars
    PROVE  OrderInv'
<1>1. clock'.usec \in Subseconds
  <2>1. clock' = clock \/ AdvanceClock
    BY DEF Next, Ask, Tick, ServerNext, InitialiseServer, ServeReceive, ServeReply, vars, netVars
  <2>2. CASE AdvanceClock
    <3>1. clock' \in [sec : {clock.sec, clock.sec + 1}, usec : Subseconds]
      BY <2>2 DEF AdvanceClock
    <3> QED BY <3>1
  <2> QED BY <2>1, <2>2 DEF OrderInv
<1> SUFFICES ASSUME Micros - 1 \notin Subseconds
             PROVE  /\ \A r \in asked' : InstantOf(r.pkt.transmit_timestamp) <= Now'
                    /\ \A d \in Replies' : InOrder(d)'
                    /\ \A s \in Servers : spc'[s] = "reply" => HeldInOrder(s)'
  BY <1>1 DEF OrderInv
<1>2. ClockCarried /\ ClockCarried' /\ Now \in Int
  <2>1. ClockCarried /\ ClockCarried'
    BY <1>1 DEF ClockCarried, OrderInv, TypeInv, TypeOK, NetTypeOK, ClocksInEra
  <2> QED BY <2>1, NowFacts
<1>3. /\ \A r \in asked : InstantOf(r.pkt.transmit_timestamp) <= Now
      /\ \A d \in Replies : InOrder(d)
      /\ \A s \in Servers : spc[s] = "reply" => HeldInOrder(s)
  BY DEF OrderInv
<1>4. \A r \in asked : r \in Datagram /\ InstantOf(r.pkt.transmit_timestamp) \in Int
  BY PacketInstants DEF TypeInv, TypeOK, Datagram
<1>5. \A d \in Replies : d.pkt \in ntp_packet /\ d.by \in Hosts /\ d.by \in Servers
  BY DEF Replies, TypeInv, TypeOK, NetTypeOK, Datagram
<1>6. ASSUME Now' \in Int, Now <= Now', net' = net, asked' = asked, UNCHANGED serverVars
      PROVE  /\ \A r \in asked' : InstantOf(r.pkt.transmit_timestamp) <= Now'
             /\ \A d \in Replies' : InOrder(d)'
             /\ \A s \in Servers : spc'[s] = "reply" => HeldInOrder(s)'
  <2>1. \A r \in asked' : InstantOf(r.pkt.transmit_timestamp) <= Now'
    BY <1>2, <1>3, <1>4, <1>6
  <2>2. \A d \in Replies' : InOrder(d)'
    BY <1>2, <1>3, <1>5, <1>6, OrderStays DEF Replies
  <2>3. \A s \in Servers : spc'[s] = "reply" => HeldInOrder(s)'
    <3>1. \A s \in Servers : spc[s] = "reply" => client_req[s][1].time_of_request \in NtpTimestamp
      BY HeldType DEF TypeInv, TypeOK
    <3> QED BY <1>2, <1>3, <1>6, <3>1, OrderStays, ServerAssumption DEF serverVars
  <2> QED BY <2>1, <2>2, <2>3
<1>7. CASE Ask
  <2>1. PICK h \in Senders, s \in Servers, p \in Ports, b \in FirstBytes :
            /\ Sent(h, s, p, b) \in Datagram
            /\ net' \subseteq net \cup {Sent(h, s, p, b)}
            /\ asked' = asked \cup {Sent(h, s, p, b)}
    BY <1>7, AskSends
  <2>2. Sent(h, s, p, b).pkt.transmit_timestamp = convert_unix_time_into_ntp_time(clock)
        /\ Sent(h, s, p, b).by \notin Servers
    <3>1. Sent(h, s, p, b).pkt = [create_packet(clock) EXCEPT !.li_vn_mode = b]
          /\ Sent(h, s, p, b).by = h
      BY DEF Sent
    <3>2. [create_packet(clock) EXCEPT !.li_vn_mode = b].transmit_timestamp
              = convert_unix_time_into_ntp_time(clock)
      BY DEF create_packet
    <3> QED BY <3>1, <3>2, LoadAssumption
  <2>3. Now' = Now /\ UNCHANGED serverVars /\ clock' = clock
    BY <1>7 DEF Ask, Now
  <2>4. \A r \in asked' : InstantOf(r.pkt.transmit_timestamp) <= Now'
    <3>1. InstantOf(Sent(h, s, p, b).pkt.transmit_timestamp) = Now
      BY <2>2 DEF Now
    <3> QED BY <1>2, <1>3, <2>1, <2>3, <3>1
  <2>5. \A d \in Replies' : InOrder(d)'
    <3>1. Replies' \subseteq Replies
      BY <2>1, <2>2 DEF Replies
    <3> QED BY <1>2, <1>3, <1>5, <2>3, <3>1, OrderStays
  <2>6. \A x \in Servers : spc'[x] = "reply" => HeldInOrder(x)'
    BY <1>3, <2>3 DEF HeldInOrder, serverVars
  <2> QED BY <2>4, <2>5, <2>6
<1>8. CASE Tick
  <2>1. Now' \in Int /\ Now <= Now' /\ net' = net /\ asked' = asked /\ UNCHANGED serverVars
    BY <1>2, <1>8, NowAdvances DEF Tick
  <2> QED BY <1>6, <2>1
<1>9. CASE ServerNext /\ UNCHANGED asked
  <2>1. \A d \in net : d.dst \in Servers => InstantOf(d.pkt.transmit_timestamp) <= Now
    BY <1>3, LoadAssumption DEF AnswerInv, Answers
  <2>2. /\ clock' = clock
        /\ \A s \in Servers : spc'[s] = "reply" => HeldInOrder(s)'
        /\ \A d \in net' : d \in net \/ (d.by \in Servers /\ InOrder(d))
    BY <1>2, <1>3, <1>9, <2>1, TimesServer DEF TypeInv, TypeOK, ClocksInEra
  <2>3. Now' = Now
    BY <2>2 DEF Now
  <2>4. \A d \in Replies' : InOrder(d)'
    <3>1. \A d : InOrder(d) => InOrder(d)'
      BY <2>3 DEF InOrder
    <3> QED BY <1>3, <2>2, <3>1 DEF Replies
  <2> QED BY <1>3, <1>9, <2>2, <2>3, <2>4
<1>10. CASE UNCHANGED vars
  <2>1. Now' = Now /\ net' = net /\ asked' = asked /\ UNCHANGED serverVars
    BY <1>10 DEF vars, netVars, Now
  <2> QED BY <1>2, <1>6, <2>1
<1> QED BY <1>7, <1>8, <1>9, <1>10 DEF Next

\* The timestamps of every reply tell the story in order, however many requests
\* are under way and however long they are, as long as the clocks stay within
\* one era (main's time of request, create_reply_packet, both conversions).
THEOREM ReplyTimesOrderedHolds == Spec /\ []ClocksInEra(Servers) => []ReplyTimesOrdered
<1>1. Init => OrderInv
  <2> SUFFICES ASSUME Init PROVE OrderInv
    OBVIOUS
  <2>1. clock.usec \in Subseconds /\ asked = {} /\ Replies = {}
        /\ \A s \in Servers : spc[s] = "init"
    BY DEF Init, ServerInit, Replies
  <2> QED BY <2>1 DEF OrderInv
<1>2. TypeInv /\ OrderInv /\ ClocksInEra(Servers) => ReplyTimesOrdered
  <2> SUFFICES ASSUME TypeInv, OrderInv, ClocksInEra(Servers), Micros - 1 \notin Subseconds,
                      NEW d \in Replies
               PROVE  /\ Decoded(d.pkt.originate_timestamp) + Skew[d.by] * Micros
                             <= Decoded(d.pkt.receive_timestamp)
                      /\ Decoded(d.pkt.receive_timestamp) <= Decoded(d.pkt.transmit_timestamp)
                      /\ Decoded(d.pkt.transmit_timestamp) <= Instant(HostClock(d.by)) + 1
    BY DEF ReplyTimesOrdered
  <2>1. InOrder(d)
    BY DEF OrderInv
  <2>2. ClockCarried
    BY DEF ClockCarried, OrderInv, TypeInv, TypeOK, NetTypeOK, ClocksInEra
  <2>3. d.by \in Servers /\ d.by \in Hosts /\ d.pkt \in ntp_packet
    BY DEF Replies, TypeInv, TypeOK, NetTypeOK, Datagram
  <2>4. /\ Instant(clock) \in Int /\ Now \in Int /\ Now <= Instant(clock) + 1
        /\ Skew[d.by] * Micros \in Int
        /\ Instant(HostClock(d.by)) = Instant(clock) + Skew[d.by] * Micros
    BY <2>2, <2>3, NowFacts, HostStamp DEF ClocksInEra
  <2>5. InstantOf(d.pkt.transmit_timestamp) \in Int
    BY <2>3, PacketInstants
  <2>6. InstantOf(d.pkt.transmit_timestamp) <= Instant(HostClock(d.by)) + 1
    BY <2>1, <2>4, <2>5 DEF InOrder
  <2> QED BY <2>1, <2>6 DEF InOrder, Decoded, InstantOf
<1> QED BY <1>1, <1>2, OrderStep, AnswerInductive, PTL DEF Spec
=============================================================================
