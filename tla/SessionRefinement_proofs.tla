----------------------- MODULE SessionRefinement_proofs -----------------------
(***************************************************************************)
(* Proofs that MQTTSession implements, under the mappings of               *)
(* SessionRefinement and for all values of the constants, ClientContract   *)
(* (what the methods return and what the broker then holds, whatever the   *)
(* packets, ids, timers and failures in between) and DeliveryService (what *)
(* becomes of each message).                                               *)
(***************************************************************************)
EXTENDS SessionRefinement, MQTTSession_proofs

-----------------------------------------------------------------------------
(* What becomes of the messages.  Inbound: the callback had what the       *)
(* broker is done with, and no handshake of a live connection is stuck.    *)
(* Outbound: the broker routes a message at most once, and has routed it   *)
(* when publish() returned true.                                           *)

\* What the client has acknowledged, it has delivered.
AnswersMeanDelivered ==
  \A i \in DOMAIN toBroker :
    toBroker[i].type \in {"PUBACK", "PUBREC"} /\ toBroker[i].id \in InMsgs =>
      delivered[toBroker[i].id] >= 1

ReleasedMeansDelivered ==
  \A m \in InMsgs : inflight[m] \in {"released", "done"} => delivered[m] >= 1

\* What it is about to acknowledge, it has delivered.
AnswerMeansDelivered ==
  pc = "ack" /\ readBuf.type = "PUBLISH" =>
    readBuf.qos > 0 /\ delivered[readBuf.msg] >= 1

\* The strengthening of DoneMeansDelivered that every step preserves.
DeliveredInv ==
  /\ AnswersMeanDelivered
  /\ ReleasedMeansDelivered
  /\ AnswerMeansDelivered

KeptCalled(m) == delivered[m] >= 1 => delivered'[m] >= 1

-----------------------------------------------------------------------------
(* What a step of one kind does to the first part.                         *)

LEMMA AnswersKept ==
  ASSUME AnswersMeanDelivered, toBroker' = toBroker, \A m \in InMsgs : KeptCalled(m)
  PROVE  AnswersMeanDelivered'
  BY DEF AnswersMeanDelivered, KeptCalled

LEMMA AnswersAfterWrite ==
  ASSUME TypeOK, AnswersMeanDelivered, UNCHANGED delivered, NEW p \in ClientPacket,
         toBroker' = Append(toBroker, p),
         p.type \in {"PUBACK", "PUBREC"} /\ p.id \in InMsgs => delivered[p.id] >= 1
  PROVE  AnswersMeanDelivered'
  <1>1. toBroker \in Seq(ClientPacket)
    BY DEF TypeOK, NetworkTypeOK
  <1>2. /\ Len(toBroker') = Len(toBroker) + 1
        /\ \A i \in 1..Len(toBroker) : toBroker'[i] = toBroker[i]
        /\ toBroker'[Len(toBroker) + 1] = p
        /\ DOMAIN toBroker' = 1..(Len(toBroker) + 1)
        /\ DOMAIN toBroker = 1..Len(toBroker)
        /\ Len(toBroker) \in Nat
    BY <1>1, AppendProperties, LenProperties
  <1> QED BY <1>2 DEF AnswersMeanDelivered

LEMMA AnswersAfterRead ==
  ASSUME TypeOK, AnswersMeanDelivered, UNCHANGED delivered,
         toBroker # <<>>, toBroker' = Tail(toBroker)
  PROVE  AnswersMeanDelivered'
  <1>1. toBroker \in Seq(ClientPacket)
    BY DEF TypeOK, NetworkTypeOK
  <1>2. /\ Len(toBroker) \in Nat \ {0}
        /\ DOMAIN toBroker = 1..Len(toBroker)
        /\ DOMAIN toBroker' = 1..(Len(toBroker) - 1)
        /\ \A i \in 1..(Len(toBroker) - 1) : toBroker'[i] = toBroker[i + 1]
    BY <1>1, HeadTailProperties, LenProperties, EmptySeq
  <1> QED BY <1>2 DEF AnswersMeanDelivered

\* A step of the client that writes nothing and answers nothing.
LEMMA QuietDelivered ==
  ASSUME DeliveredInv, UNCHANGED <<toBroker, delivered, brokerVars>>,
         pc' # "ack" \/ UNCHANGED <<pc, readBuf>>
  PROVE  DeliveredInv'
  BY AnswersKept DEF DeliveredInv, KeptCalled, ReleasedMeansDelivered, AnswerMeansDelivered, brokerVars

\* A step of the client that writes p.
LEMMA WriteDelivered ==
  ASSUME TypeOK, DeliveredInv, UNCHANGED <<delivered, brokerVars>>, NEW p \in ClientPacket,
         toBroker' = Append(toBroker, p), pc' # "ack",
         p.type \in {"PUBACK", "PUBREC"} /\ p.id \in InMsgs => delivered[p.id] >= 1
  PROVE  DeliveredInv'
  BY AnswersAfterWrite DEF DeliveredInv, ReleasedMeansDelivered, AnswerMeansDelivered, brokerVars

-----------------------------------------------------------------------------
(* One lemma for each group of actions.                                    *)

LEMMA ConnectDelivers ==
  ASSUME DeliveredInv, UNCHANGED brokerVars,
         ConnectRefused \/ ConnectStart \/ ConnectFails
  PROVE  DeliveredInv'
  <1>1. CASE ConnectRefused
    BY <1>1, QuietDelivered DEF ConnectRefused
  <1>2. CASE ConnectStart \/ ConnectFails
    <2>1. toBroker' \in {<<>>, <<EncodeConnect>>}
      BY <1>2 DEF ConnectStart, ConnectFails, SocketOpen
    <2>2. AnswersMeanDelivered'
      BY <2>1 DEF AnswersMeanDelivered, EncodeConnect, EncodeZero, PacketOf
    <2>3. pc' # "ack" /\ UNCHANGED delivered
      BY <1>2 DEF ConnectStart, ConnectFails, Wait, Fail, Idle
    <2> QED BY <2>2, <2>3 DEF DeliveredInv, ReleasedMeansDelivered, AnswerMeansDelivered,
                              brokerVars
  <1> QED BY <1>1, <1>2

LEMMA CallDelivers ==
  ASSUME TypeOK, TypeOK', DeliveredInv, Call
  PROVE  DeliveredInv'
  <1>1. CASE /\ ConnectRefused \/ ConnectStart \/ ConnectFails
             /\ UNCHANGED brokerVars
    BY <1>1, ConnectDelivers
  <1>2. ASSUME NEW m \in Msgs, PublishQoS0(m) \/ PublishStart(m), UNCHANGED brokerVars
        PROVE  DeliveredInv'
    <2>1. PublishId(m) \in 0..MaxPacketId /\ IsDup(m) \in BOOLEAN
      BY NextPacketIdType, PacketAssumption
         DEF PublishId, IsDup, DupIdSeen, TypeOK, SessionTypeOK
    <2>2. PublishPacket(m) \in ClientPacket
      BY <2>1, PacketAssumption, ClientPackets DEF PublishPacket, PacketIds
    <2>3. PublishPacket(m).type = "PUBLISH"
      BY DEF PublishPacket, EncodePublish, PacketOf
    <2>4. toBroker' = Append(toBroker, PublishPacket(m)) /\ pc' # "ack" /\ UNCHANGED delivered
      BY <1>2 DEF PublishQoS0, PublishStart, SendPacket, SocketWrite, Succeed, Idle, Wait
    <2> QED BY <1>2, <2>2, <2>3, <2>4, WriteDelivered
  <1>3. ASSUME NEW m \in Msgs, PublishFails(m), UNCHANGED brokerVars
        PROVE  DeliveredInv'
    BY <1>3, QuietDelivered DEF PublishFails, Fail, Idle
  <1>4. CASE (PrepareDuplicate \/ LoopYields \/ LoopSkipsYield) /\ UNCHANGED brokerVars
    BY <1>4, QuietDelivered DEF PrepareDuplicate, LoopYields, LoopSkipsYield, LoopStarts,
                                networkVars
  <1>5. ASSUME NEW t \in Topics, SubscribeStart(t) \/ UnsubscribeStart(t), UNCHANGED brokerVars
        PROVE  DeliveredInv'
    <2>1. NextPacketId \in PacketIds
      BY NextPacketIdType DEF TypeOK, SessionTypeOK, PacketIds
    <2>2. PICK p \in ClientPacket : /\ p.type \in {"SUBSCRIBE", "UNSUBSCRIBE"}
                                    /\ toBroker' = Append(toBroker, p)
                                    /\ pc' # "ack"
                                    /\ UNCHANGED delivered
      <3>1. EncodeSubscribe(NextPacketId, t) \in ClientPacket
            /\ EncodeUnsubscribe(NextPacketId, t) \in ClientPacket
        BY <2>1, ClientPackets
      <3>2. EncodeSubscribe(NextPacketId, t).type = "SUBSCRIBE"
            /\ EncodeUnsubscribe(NextPacketId, t).type = "UNSUBSCRIBE"
        BY DEF EncodeSubscribe, EncodeUnsubscribe, PacketOf
      <3> QED BY <1>5, <3>1, <3>2 DEF SubscribeStart, UnsubscribeStart, Request, SendPacket,
                                      SocketWrite, Wait
    <2> QED BY <1>5, <2>2, WriteDelivered
  <1>6. ASSUME NEW t \in Topics, RequestFails(t), UNCHANGED brokerVars
        PROVE  DeliveredInv'
    BY <1>6, QuietDelivered DEF RequestFails, Fail, Idle
  <1>7. CASE Disconnect /\ UNCHANGED brokerVars
    <2>1. EncodeZero("DISCONNECT") \in ClientPacket /\ EncodeZero("DISCONNECT").type = "DISCONNECT"
      BY ClientPackets DEF EncodeZero, PacketOf
    <2>2. UNCHANGED <<pc, readBuf, delivered>> /\ pc' # "ack"
      BY <1>7 DEF Disconnect
    <2> QED BY <1>7, <2>1, <2>2, QuietDelivered, WriteDelivered DEF Disconnect
  <1> QED BY <1>1, <1>2, <1>3, <1>4, <1>5, <1>6, <1>7 DEF Call

LEMMA ReceiveDelivers ==
  ASSUME TypeOK, TypeOK', DeliveredInv, UNCHANGED brokerVars,
         ReceivePublish \/ ReceiveAckToAnswer \/ ReceivePingresp \/ ReceiveOther
  PROVE  DeliveredInv'
  <1>1. PICK p \in Arriving : Receive(p)
    BY DEF ReceivePublish, ReceiveAckToAnswer, ReceivePingresp, ReceiveOther
  <1>2. \A q \in Arriving : q = p
    BY DEF Arriving
  <1>3. p \in BrokerPacket /\ readBuf' = p /\ toBroker' = toBroker
    BY <1>1, ReceiveType DEF Receive, SocketRead
  <1>4. CASE ReceivePublish
    <2>1. p.type = "PUBLISH" /\ CallBack(p) /\ pc' = IF p.qos = 0 THEN "check" ELSE "ack"
      BY <1>2, <1>4 DEF ReceivePublish
    <2>2. p.msg \in InMsgs /\ p.qos \in 0..2
      BY <1>3, <2>1 DEF BrokerPacket, Packet
    <2>3. delivered \in [InMsgs -> 0..2]
      BY DEF TypeOK
    <2>4. delivered'[p.msg] >= 1 /\ \A m \in InMsgs : KeptCalled(m)
      BY <2>1, <2>2, <2>3 DEF CallBack, KeptCalled
    <2>5. AnswersMeanDelivered'
      BY <1>3, <2>4, AnswersKept DEF DeliveredInv
    <2>6. ReleasedMeansDelivered'
      BY <2>4 DEF DeliveredInv, ReleasedMeansDelivered, KeptCalled, brokerVars
    <2>7. AnswerMeansDelivered'
      BY <1>3, <2>1, <2>2, <2>4 DEF AnswerMeansDelivered
    <2> QED BY <2>5, <2>6, <2>7 DEF DeliveredInv
  <1>5. CASE ReceiveAckToAnswer \/ ReceivePingresp \/ ReceiveOther
    <2>1. /\ UNCHANGED delivered
          /\ pc' = "ack" => p.type # "PUBLISH"
      BY <1>2, <1>5 DEF ReceiveAckToAnswer, ReceivePingresp, ReceiveOther
    <2>2. AnswersMeanDelivered'
      BY <1>3, <2>1, AnswersKept DEF DeliveredInv, KeptCalled
    <2> QED BY <1>3, <2>1, <2>2 DEF DeliveredInv, ReleasedMeansDelivered, AnswerMeansDelivered,
                                    brokerVars
  <1> QED BY <1>4, <1>5

\* The answer to a PUBLISH carries the id of its message.
LEMMA SendAckDelivers ==
  ASSUME TypeOK, DeliveredInv, UNCHANGED brokerVars, SendAck
  PROVE  DeliveredInv'
  <1>1. readBuf \in BrokerPacket /\ readBuf.type \in {"PUBLISH", "PUBREC", "PUBREL"}
    BY DEF SendAck, TypeOK, MethodTypeOK, EncodeZero, PacketOf, NoPacket
  <1>2. readBuf.id \in PacketIds
    BY <1>1 DEF BrokerPacket, Packet
  <1>3. Answer(readBuf) \in ClientPacket
    BY <1>1, <1>2, ClientPackets DEF Answer
  <1>4. Answer(readBuf).type \in {"PUBACK", "PUBREC"} => delivered[Answer(readBuf).id] >= 1
    <2>1. CASE readBuf.type = "PUBLISH"
      <3>1. Answer(readBuf).id = readBuf.id
        BY <2>1 DEF Answer, EncodeAck, PacketOf
      <3>2. readBuf.qos > 0 /\ delivered[readBuf.msg] >= 1
        BY <2>1 DEF SendAck, DeliveredInv, AnswerMeansDelivered
      <3>3. readBuf.id = readBuf.msg
        BY <1>1, <2>1, <3>2 DEF BrokerPacket
      <3> QED BY <3>1, <3>2, <3>3
    <2>2. CASE readBuf.type # "PUBLISH"
      BY <1>1, <2>2 DEF Answer, EncodeAck, PacketOf
    <2> QED BY <2>1, <2>2
  <1>5. toBroker' = Append(toBroker, Answer(readBuf)) /\ pc' # "ack" /\ UNCHANGED delivered
    BY DEF SendAck, SendPacket, SocketWrite
  <1> QED BY <1>3, <1>4, <1>5, WriteDelivered

LEMMA RunDelivers ==
  ASSUME TypeOK, TypeOK', DeliveredInv, Run
  PROVE  DeliveredInv'
  <1>0. UNCHANGED brokerVars
    BY DEF Run
  <1>1. CASE ReceivePublish \/ ReceiveAckToAnswer \/ ReceivePingresp \/ ReceiveOther
    BY <1>0, <1>1, ReceiveDelivers
  <1>2. CASE SendAck
    BY <1>0, <1>2, SendAckDelivers
  <1>3. CASE SendAckFails \/ ReadPacketFails \/ ReadFails \/ CommandRejected \/ CommandTimesOut
             \/ PongTimeout \/ SendPingFails
    <2>1. pc' # "ack" /\ UNCHANGED <<toBroker, delivered>>
      BY <1>3 DEF SendAckFails, ReadPacketFails, ReadFails, CommandRejected, CommandTimesOut,
                  PongTimeout, SendPingFails, Fail, Idle
    <2> QED BY <1>0, <2>1, QuietDelivered
  <1>4. CASE DropPacket \/ ReadNothing \/ NextCycle \/ YieldEnds \/ CommandAcked \/ NoPingDue
    <2>1. pc' # "ack" /\ UNCHANGED <<toBroker, delivered>>
      BY <1>4 DEF DropPacket, SocketRead, ReadNothing, NextCycle, YieldEnds, CommandAcked,
                  NoPingDue, Succeed, Idle, networkVars
    <2> QED BY <1>0, <2>1, QuietDelivered
  <1>5. CASE SendPing
    <2>1. EncodeZero("PINGREQ") \in ClientPacket /\ EncodeZero("PINGREQ").type = "PINGREQ"
      BY ClientPackets DEF EncodeZero, PacketOf
    <2>2. /\ toBroker' = Append(toBroker, EncodeZero("PINGREQ"))
          /\ pc' # "ack"
          /\ UNCHANGED delivered
      BY <1>5 DEF SendPing, SendPacket, SocketWrite, Succeed, Idle
    <2> QED BY <1>0, <2>1, <2>2, WriteDelivered
  <1> QED BY <1>1, <1>2, <1>3, <1>4, <1>5 DEF Run

LEMMA EnvironmentDelivers ==
  ASSUME DeliveredInv, Environment
  PROVE  DeliveredInv'
  <1>1. UNCHANGED <<toBroker, delivered, brokerVars>>
    BY DEF Environment, CommandTimerExpires, KeepAliveTimerExpires, PowerCycle, LinkReset,
           LinkStall, networkVars, clientVars
  <1>2. pc' # "ack" \/ UNCHANGED <<pc, readBuf>>
    BY DEF Environment, CommandTimerExpires, KeepAliveTimerExpires, PowerCycle, Idle, clientVars
  <1> QED BY <1>1, <1>2, QuietDelivered

\* The broker moves a message on only for the answer that is at the head.
LEMMA BrokerDelivers ==
  ASSUME TypeOK, DeliveredInv, BrokerReads
  PROVE  DeliveredInv'
  <1>1. UNCHANGED clientVars
    BY DEF BrokerReads
  <1>2. toBroker # <<>> /\ toBroker' = Tail(toBroker)
    BY DEF BrokerReads, BrokerConnect, BrokerPublishQoS0, BrokerPublishQoS1, BrokerPublishQoS2,
           BrokerPubrel, BrokerSubscribe, BrokerUnsubscribe, BrokerPingreq, BrokerDisconnect,
           BrokerPuback, BrokerPubrec, BrokerPubcomp, Consume
  <1>3. AnswersMeanDelivered' /\ AnswerMeansDelivered'
    BY <1>1, <1>2, AnswersAfterRead DEF DeliveredInv, AnswerMeansDelivered, clientVars
  <1>4. inflight \in [InMsgs -> Progress]
    BY DEF TypeOK, BrokerTypeOK
  <1>5. ASSUME NEW m \in InMsgs, inflight'[m] \in {"released", "done"}
        PROVE  delivered[m] >= 1
    <2>1. Head(toBroker) = toBroker[1] /\ 1 \in DOMAIN toBroker
      BY <1>2, HeadTailProperties, LenProperties, EmptySeq DEF TypeOK, NetworkTypeOK
    <2>2. CASE inflight[m] \in {"released", "done"}
      BY <2>2 DEF DeliveredInv, ReleasedMeansDelivered
    <2>3. CASE inflight[m] \notin {"released", "done"}
      <3>1. CASE BrokerPuback
        <4>1. Head(toBroker).type = "PUBACK" /\ Head(toBroker).id = m
          BY <1>4, <1>5, <2>3, <3>1 DEF BrokerPuback, Consume
        <4> QED BY <2>1, <4>1 DEF DeliveredInv, AnswersMeanDelivered
      <3>2. CASE BrokerPubrec
        <4>1. Head(toBroker).type = "PUBREC" /\ Head(toBroker).id = m
          BY <1>4, <1>5, <2>3, <3>2 DEF BrokerPubrec, Consume
        <4> QED BY <2>1, <4>1 DEF DeliveredInv, AnswersMeanDelivered
      <3>3. CASE BrokerPubcomp
        BY <1>4, <1>5, <2>3, <3>3 DEF BrokerPubcomp
      <3>4. CASE \E ok \in BOOLEAN : BrokerConnect(ok)
        BY <1>4, <1>5, <2>3, <3>4 DEF BrokerConnect
      <3>5. CASE \/ BrokerPublishQoS0 \/ BrokerPublishQoS1 \/ BrokerPublishQoS2 \/ BrokerPubrel
                 \/ \E ok \in BOOLEAN : BrokerSubscribe(ok)
                 \/ BrokerUnsubscribe \/ BrokerPingreq \/ BrokerDisconnect
        BY <1>5, <2>3, <3>5 DEF BrokerPublishQoS0, BrokerPublishQoS1, BrokerPublishQoS2,
             BrokerPubrel, BrokerSubscribe, BrokerUnsubscribe, BrokerPingreq, BrokerDisconnect,
             brokerVars
      <3> QED BY <3>1, <3>2, <3>3, <3>4, <3>5 DEF BrokerReads
    <2> QED BY <2>2, <2>3
  <1>6. ReleasedMeansDelivered'
    BY <1>1, <1>5 DEF ReleasedMeansDelivered, clientVars
  <1> QED BY <1>3, <1>6 DEF DeliveredInv

LEMMA BrokerSendsDelivers ==
  ASSUME TypeOK, DeliveredInv, BrokerSends
  PROVE  DeliveredInv'
  <1>1. UNCHANGED <<clientVars, toBroker>>
    BY DEF BrokerSends, BrokerPush, BrokerResend
  <1>2. \A m \in InMsgs : inflight'[m] \in {"released", "done"} => inflight'[m] = inflight[m]
    BY DEF BrokerSends, BrokerPush, BrokerResend, TypeOK, BrokerTypeOK
  <1>3. ReleasedMeansDelivered'
    BY <1>1, <1>2 DEF DeliveredInv, ReleasedMeansDelivered, clientVars
  <1>4. AnswersMeanDelivered' /\ AnswerMeansDelivered'
    BY <1>1 DEF DeliveredInv, AnswersMeanDelivered, AnswerMeansDelivered, clientVars
  <1> QED BY <1>3, <1>4 DEF DeliveredInv

-----------------------------------------------------------------------------

LEMMA Delivered == Spec => []DeliveredInv
  <1>1. Init => DeliveredInv
    BY DEF Init, NetworkInit, BrokerInit, ClientInit, DeliveredInv, AnswersMeanDelivered,
           ReleasedMeansDelivered, AnswerMeansDelivered
  <1>2. TypeOK /\ TypeOK' /\ DeliveredInv /\ [Next]_vars => DeliveredInv'
    <2> SUFFICES ASSUME TypeOK, TypeOK', DeliveredInv, [Next]_vars PROVE DeliveredInv'
      OBVIOUS
    <2>1. CASE UNCHANGED vars
      BY <2>1, QuietDelivered DEF vars, networkVars, clientVars
    <2>2. CASE Next
      BY <2>2, CallDelivers, RunDelivers, EnvironmentDelivers, BrokerDelivers,
         BrokerSendsDelivers DEF Next
    <2> QED BY <2>1, <2>2
  <1> QED BY <1>1, <1>2, TypeCorrect, PTL DEF Spec

\* An inbound message at QoS 1 or 2 that the broker has done with, because it
\* was acknowledged in full, has been handed to the message callback at least
\* once: cycle_once calls back before it acknowledges, over every loss of the
\* connection, restart and resumption of the session.
THEOREM DoneDelivered == Spec => []DoneMeansDelivered
  <1>1. DeliveredInv => DoneMeansDelivered
    BY DEF DeliveredInv, ReleasedMeansDelivered, DoneMeansDelivered
  <1> QED BY <1>1, Delivered, PTL

-----------------------------------------------------------------------------
(* Messages of the application: what publish() returned and what the       *)
(* broker made of it.                                                      *)

\* A message is on its way as it was handed to publish().
PublishesAsTold ==
  \A i \in DOMAIN toBroker :
    toBroker[i].type = "PUBLISH" =>
      /\ toBroker[i].qos = OutQoS[toBroker[i].msg]
      /\ outcome[toBroker[i].msg] # "none"

SentAt(m) == {i \in DOMAIN toBroker : toBroker[i].type = "PUBLISH" /\ toBroker[i].msg = m}
StoredAt(m) == {id \in 1..MaxPacketId : awaitRel[id] = m}

\* A message is in one place: on its way, stored under one packet id, or routed.
InOnePlace(m) ==
  /\ accepted[m] <= 1
  /\ outcome[m] = "none" => SentAt(m) = {} /\ StoredAt(m) = {} /\ accepted[m] = 0
  /\ SentAt(m) = {} \/ StoredAt(m) = {}
  /\ SentAt(m) # {} \/ StoredAt(m) # {} => accepted[m] = 0
  /\ \A i, j \in SentAt(m) : i = j
  /\ \A a, b \in StoredAt(m) : a = b

\* A PUBREL carries the packet id of its PUBREC, never that of an inbound message.
ReleaseIds ==
  \A i \in DOMAIN toBroker : toBroker[i].type = "PUBREL" => toBroker[i].id \in 1..MaxPacketId

RoutedOnceInv ==
  /\ PublishesAsTold
  /\ ReleaseIds
  /\ \A m \in Msgs : InOnePlace(m)

Coming(t) == \E j \in DOMAIN toClient : toClient[j].type = t
HeldOf(t) == Held /\ readBuf.type = t

\* A PUBACK comes after its message was routed.
QoS1Inv ==
  /\ Coming("PUBACK") \/ HeldOf("PUBACK") => accepted[cmd.msg] >= 1
  /\ \A m \in Msgs : outcome[m] = "ok" /\ OutQoS[m] = 1 => accepted[m] >= 1

\* The four parts of QoS2Inv.
StoredIsRunning ==
  Live /\ attached =>
    \A id \in 1..MaxPacketId :
      awaitRel[id] # NoMsg =>
        /\ Waiting /\ cmd.needle = "PUBCOMP" /\ id = cmd.id
        /\ \A i \in DOMAIN toBroker : toBroker[i].type = "PUBLISH" => toBroker[i].qos = 0
        /\ ~Coming("PUBCOMP") /\ ~HeldOf("PUBCOMP")

ReleaseUnderWay == \E i \in DOMAIN toBroker : toBroker[i].type = "PUBREL"

ReleaseFindsIt ==
  Coming("PUBREC") \/ HeldOf("PUBREC") \/ (Live /\ ReleaseUnderWay) =>
    awaitRel[cmd.id] = cmd.msg

CompletedIsRouted ==
  /\ Coming("PUBCOMP") \/ HeldOf("PUBCOMP") => accepted[cmd.msg] >= 1
  /\ \A m \in Msgs : outcome[m] = "ok" /\ OutQoS[m] = 2 => accepted[m] >= 1

\* With clean sessions, a message stored at the broker is that of the running
\* publish(), under its packet id; the PUBREL releases it, the PUBCOMP comes
\* after it was routed.
QoS2Inv == StoredIsRunning /\ ReleaseFindsIt /\ CompletedIsRouted

-----------------------------------------------------------------------------
(* What was never published stays so until it is published.                *)

LEMMA OutcomeStays ==
  ASSUME TypeOK, [Next]_vars, NEW m \in Msgs, outcome[m] # "none"
  PROVE  outcome'[m] # "none"
  <1>1. CASE UNCHANGED outcome
    BY <1>1
  <1>2. ASSUME NEW c, NEW r \in {"ok", "failed"}, Record(c, r) PROVE outcome'[m] # "none"
    BY <1>2 DEF Record, TypeOK, MethodTypeOK
  <1>3. ASSUME NEW c, Succeed(c) PROVE outcome'[m] # "none"
    BY <1>2, <1>3 DEF Succeed
  <1>4. ASSUME NEW c, NEW err, Fail(c, err) PROVE outcome'[m] # "none"
    BY <1>2, <1>4 DEF Fail
  <1>5. CASE Call
    <2>1. ASSUME NEW x \in Msgs, PublishStart(x) PROVE outcome'[m] # "none"
      BY <2>1 DEF PublishStart, TypeOK, MethodTypeOK
    <2>2. CASE \/ ConnectRefused \/ ConnectStart \/ PrepareDuplicate \/ Disconnect \/ LoopYields
               \/ LoopSkipsYield \/ \E t \in Topics : SubscribeStart(t) \/ UnsubscribeStart(t)
      BY <1>1, <2>2 DEF ConnectRefused, ConnectStart, PrepareDuplicate, Disconnect, LoopYields,
                        LoopSkipsYield, LoopStarts, SubscribeStart, UnsubscribeStart, Request,
                        callVars
    <2>3. CASE \/ ConnectFails \/ (\E x \in Msgs : PublishQoS0(x) \/ PublishFails(x))
               \/ \E t \in Topics : RequestFails(t)
      BY <1>3, <1>4, <2>3 DEF ConnectFails, PublishQoS0, PublishFails, RequestFails
    <2> QED BY <1>5, <2>1, <2>2, <2>3 DEF Call
  <1>6. CASE Run
    <2>1. CASE \/ SendAckFails \/ ReadPacketFails \/ ReadFails \/ CommandAcked \/ CommandRejected
               \/ CommandTimesOut \/ NoPingDue \/ PongTimeout \/ SendPing \/ SendPingFails
      BY <1>3, <1>4, <2>1 DEF SendAckFails, ReadPacketFails, ReadFails, CommandAcked,
                              CommandRejected, CommandTimesOut, NoPingDue, PongTimeout, SendPing,
                              SendPingFails
    <2>2. CASE \/ ReceivePublish \/ ReceiveAckToAnswer \/ ReceivePingresp \/ ReceiveOther
               \/ SendAck \/ DropPacket \/ ReadNothing \/ NextCycle \/ YieldEnds
      BY <1>1, <2>2 DEF ReceivePublish, ReceiveAckToAnswer, ReceivePingresp, ReceiveOther, Receive,
                        SendAck, DropPacket, ReadNothing, NextCycle, YieldEnds, callVars
    <2> QED BY <1>6, <2>1, <2>2 DEF Run
  <1>7. CASE Environment
    BY <1>1, <1>2, <1>7 DEF Environment, CommandTimerExpires, KeepAliveTimerExpires, PowerCycle,
                            LinkReset, LinkStall, callVars, clientVars
  <1>8. CASE BrokerReads \/ BrokerSends \/ UNCHANGED vars
    BY <1>1, <1>8 DEF BrokerReads, BrokerSends, clientVars, vars
  <1> QED BY <1>5, <1>6, <1>7, <1>8 DEF Next

\* publish() returns true after a PUBACK or a PUBCOMP, or at QoS 0.
LEMMA OutcomeOk ==
  ASSUME TypeOK, ExchangeInv, [Next]_vars, NEW m \in Msgs, outcome'[m] = "ok", outcome[m] # "ok"
  PROVE  \/ OutQoS[m] = 0
         \/ OutQoS[m] = 1 /\ m = cmd.msg /\ HeldOf("PUBACK")
         \/ OutQoS[m] = 2 /\ m = cmd.msg /\ HeldOf("PUBCOMP")
  <1>1. ASSUME NEW c, Record(c, "failed") PROVE FALSE
    BY <1>1 DEF Record, TypeOK, MethodTypeOK
  <1>2. ASSUME NEW c, NEW err, Fail(c, err) PROVE FALSE
    BY <1>1, <1>2 DEF Fail
  <1>3. ASSUME NEW c, Succeed(c) PROVE c.op = "publish" /\ m = c.msg
    BY <1>3 DEF Succeed, Record, TypeOK, MethodTypeOK
  <1>4. outcome' # outcome
    OBVIOUS
  <1>5. CASE Call
    <2>1. ASSUME NEW x \in Msgs, PublishStart(x) PROVE FALSE
      BY <2>1 DEF PublishStart, TypeOK, MethodTypeOK
    <2>2. ASSUME NEW x \in Msgs, PublishQoS0(x) PROVE OutQoS[m] = 0
      BY <1>3, <2>2 DEF PublishQoS0, PublishCommand, Command
    <2>3. ~(ConnectFails \/ (\E x \in Msgs : PublishFails(x)) \/ \E t \in Topics : RequestFails(t))
      BY <1>2 DEF ConnectFails, PublishFails, RequestFails
    <2>4. ~(\/ ConnectRefused \/ ConnectStart \/ PrepareDuplicate \/ Disconnect \/ LoopYields
            \/ LoopSkipsYield \/ \E t \in Topics : SubscribeStart(t) \/ UnsubscribeStart(t))
      BY <1>4 DEF ConnectRefused, ConnectStart, PrepareDuplicate, Disconnect, LoopYields,
                  LoopSkipsYield, LoopStarts, SubscribeStart, UnsubscribeStart, Request, callVars
    <2> QED BY <1>5, <2>1, <2>2, <2>3, <2>4 DEF Call
  <1>6. CASE Run
    <2>1. ~(\/ SendAckFails \/ ReadPacketFails \/ ReadFails \/ CommandRejected
            \/ CommandTimesOut \/ PongTimeout \/ SendPingFails)
      BY <1>2 DEF SendAckFails, ReadPacketFails, ReadFails, CommandRejected, CommandTimesOut,
                  PongTimeout, SendPingFails
    <2>2. ~(\/ ReceivePublish \/ ReceiveAckToAnswer \/ ReceivePingresp \/ ReceiveOther
            \/ SendAck \/ DropPacket \/ ReadNothing \/ NextCycle \/ YieldEnds)
      BY <1>4 DEF ReceivePublish, ReceiveAckToAnswer, ReceivePingresp, ReceiveOther, Receive,
                  SendAck, DropPacket, ReadNothing, NextCycle, YieldEnds, callVars
    <2>3. ~(NoPingDue \/ SendPing)
      <3>1. NoPingDue \/ SendPing => pc = "ping" /\ Succeed(cmd)
        BY DEF NoPingDue, SendPing
      <3> QED BY <1>3, <3>1 DEF ExchangeInv, CommandNeedle
    <2>4. ASSUME CommandAcked
          PROVE  \/ OutQoS[m] = 0
                 \/ OutQoS[m] = 1 /\ m = cmd.msg /\ HeldOf("PUBACK")
                 \/ OutQoS[m] = 2 /\ m = cmd.msg /\ HeldOf("PUBCOMP")
      <3>1. cmd.op = "publish" /\ m = cmd.msg /\ pc = "check" /\ readBuf.type = cmd.needle
        BY <1>3, <2>4 DEF CommandAcked, Found
      <3>2. cmd.needle = AckType(OutQoS[m]) /\ OutQoS[m] > 0
        BY <3>1 DEF ExchangeInv, CommandNeedle
      <3>3. OutQoS[m] \in {0, 1, 2}
        BY AckTypes
      <3> QED BY <3>1, <3>2, <3>3, AckTypes DEF HeldOf, Held, IsAnswer
    <2> QED BY <1>6, <2>1, <2>2, <2>3, <2>4 DEF Run
  <1>7. CASE Environment
    BY <1>1, <1>4, <1>7 DEF Environment, CommandTimerExpires, KeepAliveTimerExpires, PowerCycle,
                            LinkReset, LinkStall, callVars, clientVars
  <1>8. CASE BrokerReads \/ BrokerSends \/ UNCHANGED vars
    BY <1>4, <1>8 DEF BrokerReads, BrokerSends, clientVars, vars
  <1> QED BY <1>5, <1>6, <1>7, <1>8 DEF Next

-----------------------------------------------------------------------------
(* Routed at most once.                                                    *)

LEMMA TailSentAt ==
  ASSUME TypeOK, BrokerReads, NEW m
  PROVE  /\ \A i \in SentAt(m)' : i + 1 \in SentAt(m) /\ i + 1 # 1 /\ i \in Int
         /\ Head(toBroker).type = "PUBLISH" /\ Head(toBroker).msg = m => 1 \in SentAt(m)
  <1>1. toBroker # <<>> /\ toBroker' = Tail(toBroker)
    BY BrokerReadsHead
  <1>2. /\ Head(toBroker) = toBroker[1] /\ 1 \in DOMAIN toBroker
        /\ DOMAIN toBroker' \subseteq Int
        /\ \A i \in DOMAIN toBroker' :
             i + 1 \in DOMAIN toBroker /\ i + 1 # 1 /\ toBroker'[i] = toBroker[i + 1]
    BY <1>1, Types, TailElements, HeadTailProperties, LenProperties
  <1> QED BY <1>2 DEF SentAt

\* A client step moves no message but the one that publish() sends for the
\* first time.
LEMMA ClientRoutesOnce ==
  ASSUME TypeOK, ExchangeInv, IdsInv, RoutedOnceInv, ClientStep,
         \A m \in Msgs : outcome[m] # "none" => outcome'[m] # "none"
  PROVE  RoutedOnceInv'
  <1>1. UNCHANGED <<awaitRel, accepted>>
    BY DEF ClientStep, Call, Run, Environment, brokerVars
  <1>2. \A m : StoredAt(m)' = StoredAt(m)
    BY <1>1 DEF StoredAt
  <1>3. CASE toBroker' \in {toBroker, <<>>, <<EncodeConnect>>}
    <2>1. \A i \in DOMAIN toBroker' : toBroker'[i].type = "PUBLISH" =>
            i \in DOMAIN toBroker /\ toBroker'[i] = toBroker[i]
      BY <1>3 DEF EncodeConnect, EncodeZero, PacketOf
    <2>2. \A m : SentAt(m)' \subseteq SentAt(m)
      BY <2>1 DEF SentAt
    <2>3. \A i \in DOMAIN toBroker : toBroker[i].type = "PUBLISH" => toBroker[i].msg \in Msgs
      BY Types, LenProperties, ElementOfSeq DEF ClientPacket
    <2>4. PublishesAsTold'
      BY <2>1, <2>3 DEF RoutedOnceInv, PublishesAsTold
    <2>5. ASSUME NEW m \in Msgs, InOnePlace(m) PROVE InOnePlace(m)'
      BY <1>1, <1>2, <2>2, <2>5 DEF InOnePlace
    <2>6. ReleaseIds'
      BY <1>3 DEF RoutedOnceInv, ReleaseIds, EncodeConnect, EncodeZero, PacketOf
    <2> QED BY <2>4, <2>5, <2>6 DEF RoutedOnceInv
  <1>4. ASSUME NEW p \in ClientPacket, toBroker' = Append(toBroker, p), Written(p)
        PROVE  RoutedOnceInv'
    <2>1. /\ \A i \in DOMAIN toBroker' :
               \/ i \in DOMAIN toBroker /\ toBroker'[i] = toBroker[i]
               \/ i = Len(toBroker) + 1 /\ toBroker'[i] = p
          /\ \A i \in DOMAIN toBroker : toBroker[i].type = "PUBLISH" => toBroker[i].msg \in Msgs
      BY <1>4, Types, AppendElements, LenProperties, ElementOfSeq DEF ClientPacket
    <2>2. p.type = "PUBLISH" => \E m \in Msgs : /\ outcome[m] = "none" /\ outcome'[m] # "none"
                                                /\ p.msg = m /\ p.qos = OutQoS[m]
      <3>1. \A m : PublishPacket(m).msg = m /\ PublishPacket(m).qos = OutQoS[m]
        BY DEF PublishPacket, EncodePublish, PacketOf
      <3>2. \A t : /\ EncodeSubscribe(NextPacketId, t).type # "PUBLISH"
                   /\ EncodeUnsubscribe(NextPacketId, t).type # "PUBLISH"
        BY DEF EncodeSubscribe, EncodeUnsubscribe, PacketOf
      <3>3. pc = "ack" => Answer(readBuf).type # "PUBLISH"
        <4>1. pc = "ack" => readBuf.type \in {"PUBLISH", "PUBREC", "PUBREL"}
          BY DEF TypeOK, MethodTypeOK
        <4> QED BY <4>1 DEF Answer, EncodeAck, PacketOf
      <3> QED BY <1>4, <3>1, <3>2, <3>3 DEF Written, MayPublish
    <2>3. PublishesAsTold'
      BY <2>1, <2>2 DEF RoutedOnceInv, PublishesAsTold
    <2>4. ASSUME NEW m \in Msgs, InOnePlace(m) PROVE InOnePlace(m)'
      <3>1. CASE p.type = "PUBLISH" /\ p.msg = m
        <4>1. outcome[m] = "none" /\ outcome'[m] # "none"
          BY <2>2, <3>1
        <4>2. SentAt(m) = {} /\ StoredAt(m) = {} /\ accepted[m] = 0
          BY <2>4, <4>1 DEF InOnePlace
        <4>3. SentAt(m)' \subseteq {Len(toBroker) + 1}
          BY <2>1, <4>2 DEF SentAt
        <4> QED BY <1>1, <1>2, <4>1, <4>2, <4>3 DEF InOnePlace
      <3>2. CASE ~(p.type = "PUBLISH" /\ p.msg = m)
        <4>1. SentAt(m)' \subseteq SentAt(m)
          BY <2>1, <3>2 DEF SentAt
        <4> QED BY <1>1, <1>2, <2>4, <4>1 DEF InOnePlace
      <3> QED BY <3>1, <3>2
    <2>5. ReleaseIds'
      <3>1. p.type = "PUBREL" => pc = "ack" /\ readBuf.type = "PUBREC" /\ p.id = readBuf.id
        <4>1. \A m : PublishPacket(m).type # "PUBREL"
          BY DEF PublishPacket, EncodePublish, PacketOf
        <4>2. \A t : /\ EncodeSubscribe(NextPacketId, t).type # "PUBREL"
                     /\ EncodeUnsubscribe(NextPacketId, t).type # "PUBREL"
          BY DEF EncodeSubscribe, EncodeUnsubscribe, PacketOf
        <4>3. pc = "ack" => readBuf.type \in {"PUBLISH", "PUBREC", "PUBREL"}
          BY DEF TypeOK, MethodTypeOK
        <4>4. pc = "ack" /\ p = Answer(readBuf) /\ p.type = "PUBREL" =>
                readBuf.type = "PUBREC" /\ p.id = readBuf.id
          BY <4>3 DEF Answer, EncodeAck, PacketOf
        <4> QED BY <1>4, <4>1, <4>2, <4>4 DEF Written
      <3>2. pc = "ack" /\ readBuf.type = "PUBREC" => readBuf.id \in 1..MaxPacketId
        BY DEF ExchangeInv, HeldReplies, Held, Replies, IdsInv, TypeOK, MethodTypeOK, Commands
      <3> QED BY <2>1, <3>1, <3>2 DEF RoutedOnceInv, ReleaseIds
    <2> QED BY <2>3, <2>4, <2>5 DEF RoutedOnceInv
  <1> QED BY <1>3, <1>4, ClientWritesPackets DEF ClientWrites

LEMMA BrokerRoutesOnce ==
  ASSUME TypeOK, RoutedOnceInv, BrokerReads
  PROVE  RoutedOnceInv'
  <1> DEFINE h == Head(toBroker)
  <1>1. /\ toBroker # <<>>
        /\ h \in ClientPacket
        /\ \A i \in DOMAIN toBroker' : \E k \in DOMAIN toBroker : toBroker'[i] = toBroker[k]
        /\ \E k \in DOMAIN toBroker : h = toBroker[k]
        /\ UNCHANGED clientVars
    BY BrokerReadsHead
  <1>2. outcome' = outcome
    BY <1>1 DEF clientVars
  <1>3. PublishesAsTold' /\ ReleaseIds'
    BY <1>1, <1>2 DEF RoutedOnceInv, PublishesAsTold, ReleaseIds
  <1>4. /\ accepted \in [Msgs -> 0..2]
        /\ awaitRel \in [1..MaxPacketId -> Msgs \cup {NoMsg}]
    BY DEF TypeOK, BrokerTypeOK
  <1> SUFFICES ASSUME NEW m \in Msgs PROVE InOnePlace(m)'
    BY <1>3 DEF RoutedOnceInv
  <1>5. InOnePlace(m)
    BY DEF RoutedOnceInv
  <1>6. /\ \A i \in SentAt(m)' : i + 1 \in SentAt(m) /\ i + 1 # 1 /\ i \in Int
        /\ h.type = "PUBLISH" /\ h.msg = m => 1 \in SentAt(m)
    BY TailSentAt
  <1>7. /\ SentAt(m) = {} => SentAt(m)' = {}
        /\ (\A i, j \in SentAt(m) : i = j) => \A i, j \in SentAt(m)' : i = j
        /\ h.type = "PUBLISH" /\ h.msg = m => SentAt(m)' = {}
    BY <1>5, <1>6 DEF InOnePlace
  <1> HIDE DEF h
  <1>8. CASE accepted'[m] = accepted[m] /\ StoredAt(m)' \subseteq StoredAt(m)
    BY <1>2, <1>5, <1>7, <1>8 DEF InOnePlace
  <1>9. CASE BrokerPublishQoS0 \/ BrokerPublishQoS1
    <2>1. /\ h.type = "PUBLISH"
          /\ accepted' = [accepted EXCEPT ![h.msg] = OneMore(@)] /\ awaitRel' = awaitRel
      BY <1>9 DEF BrokerPublishQoS0, BrokerPublishQoS1, Consume, h
    <2>2. CASE h.msg = m
      <3>1. StoredAt(m) = {} /\ accepted[m] = 0 /\ SentAt(m)' = {} /\ outcome[m] # "none"
        BY <1>5, <1>6, <1>7, <2>1, <2>2 DEF InOnePlace
      <3>2. StoredAt(m)' = {} /\ accepted'[m] = 1
        BY <1>4, <2>1, <2>2, <3>1 DEF StoredAt, OneMore
      <3> QED BY <1>2, <3>1, <3>2 DEF InOnePlace
    <2>3. CASE h.msg # m
      BY <1>4, <1>8, <2>1, <2>3 DEF StoredAt
    <2> QED BY <2>2, <2>3
  <1>10. CASE BrokerPublishQoS2
    <2>1. /\ h.type = "PUBLISH" /\ accepted' = accepted
          /\ awaitRel' = [awaitRel EXCEPT ![h.id] = IF @ = NoMsg THEN h.msg ELSE @]
      BY <1>10 DEF BrokerPublishQoS2, Consume, h
    <2>2. CASE h.msg = m
      <3>1. StoredAt(m) = {} /\ accepted[m] = 0 /\ SentAt(m)' = {} /\ outcome[m] # "none"
        BY <1>5, <1>6, <1>7, <2>1, <2>2 DEF InOnePlace
      <3>2. StoredAt(m)' \subseteq {h.id}
        BY <1>4, <2>1, <3>1 DEF StoredAt
      <3> QED BY <1>2, <2>1, <3>1, <3>2 DEF InOnePlace
    <2>3. CASE h.msg # m
      <3>1. StoredAt(m)' \subseteq StoredAt(m)
        BY <1>4, <2>1, <2>3 DEF StoredAt
      <3> QED BY <1>8, <2>1, <3>1
    <2> QED BY <2>2, <2>3
  <1>11. CASE BrokerPubrel
    <2>1. /\ awaitRel' = [awaitRel EXCEPT ![h.id] = NoMsg]
          /\ accepted' = IF awaitRel[h.id] = NoMsg THEN accepted
                         ELSE [accepted EXCEPT ![awaitRel[h.id]] = OneMore(@)]
      BY <1>11 DEF BrokerPubrel, h
    <2>2. NoMsg # m
      BY PacketAssumption
    <2>3. StoredAt(m)' \subseteq StoredAt(m) \ {h.id}
      BY <1>4, <2>1, <2>2 DEF StoredAt
    <2>4. CASE h.id \in 1..MaxPacketId /\ awaitRel[h.id] = m
      <3>1. h.id \in StoredAt(m)
        BY <2>4 DEF StoredAt
      <3>2. accepted[m] = 0 /\ SentAt(m) = {} /\ outcome[m] # "none" /\ StoredAt(m)' = {}
        BY <1>5, <2>3, <3>1 DEF InOnePlace
      <3>3. accepted'[m] = 1
        BY <1>4, <2>1, <2>2, <2>4, <3>2 DEF OneMore
      <3> QED BY <1>2, <1>7, <3>2, <3>3 DEF InOnePlace
    <2>5. CASE h.id \in 1..MaxPacketId /\ awaitRel[h.id] # m
      BY <1>4, <1>8, <2>1, <2>3, <2>5
    <2>6. h.id \in 1..MaxPacketId
      <3>1. h.type = "PUBREL"
        BY <1>11 DEF BrokerPubrel, Consume, h
      <3> QED BY <1>1, <3>1 DEF RoutedOnceInv, ReleaseIds
    <2> QED BY <2>4, <2>5, <2>6
  <1>12. CASE \E ok \in BOOLEAN : BrokerConnect(ok)
    <2>1. accepted' = accepted /\ (awaitRel' = awaitRel \/ awaitRel' = [id \in 1..MaxPacketId |-> NoMsg])
      BY <1>12 DEF BrokerConnect
    <2>2. StoredAt(m)' \subseteq StoredAt(m)
      BY <2>1, PacketAssumption DEF StoredAt
    <2> QED BY <1>8, <2>1, <2>2
  <1>13. CASE UNCHANGED <<accepted, awaitRel>>
    BY <1>8, <1>13 DEF StoredAt
  <1> QED BY <1>9, <1>10, <1>11, <1>12, <1>13
          DEF BrokerReads, BrokerSubscribe, BrokerUnsubscribe, BrokerPingreq, BrokerDisconnect,
              BrokerPuback, BrokerPubrec, BrokerPubcomp, brokerVars


LEMMA NextRoutedOnce ==
  TypeOK /\ ExchangeInv /\ IdsInv /\ RoutedOnceInv /\ [Next]_vars => RoutedOnceInv'
  <1> SUFFICES ASSUME TypeOK, ExchangeInv, IdsInv, RoutedOnceInv, [Next]_vars
               PROVE  RoutedOnceInv'
    OBVIOUS
  <1>1. CASE UNCHANGED <<toBroker, awaitRel, accepted, outcome>>
    BY <1>1 DEF RoutedOnceInv, PublishesAsTold, ReleaseIds, InOnePlace, SentAt, StoredAt
  <1>2. CASE UNCHANGED vars \/ BrokerSends
    BY <1>1, <1>2 DEF vars, networkVars, brokerVars, clientVars, BrokerSends, BrokerPush,
                      BrokerResend
  <1>3. CASE ClientStep
    <2>1. \A m \in Msgs : outcome[m] # "none" => outcome'[m] # "none"
      BY OutcomeStays
    <2> QED BY <1>3, <2>1, ClientRoutesOnce
  <1> QED BY <1>2, <1>3, BrokerRoutesOnce DEF Next, ClientStep

LEMMA RoutedOnce == Spec => []RoutedOnceInv
  <1>1. Init => IdsInv /\ RoutedOnceInv
    <2> SUFFICES ASSUME Init PROVE IdsInv /\ RoutedOnceInv
      OBVIOUS
    <2>1. /\ toBroker = <<>> /\ toClient = <<>> /\ pc = "idle"
          /\ awaitRel = [id \in 1..MaxPacketId |-> NoMsg]
          /\ accepted = [m \in Msgs |-> 0]
      BY DEF Init, NetworkInit, BrokerInit, ClientInit
    <2>2. \A m \in Msgs : SentAt(m) = {} /\ StoredAt(m) = {} /\ accepted[m] = 0
      <3> SUFFICES ASSUME NEW m \in Msgs PROVE SentAt(m) = {} /\ StoredAt(m) = {} /\ accepted[m] = 0
        OBVIOUS
      <3>1. NoMsg # m
        BY PacketAssumption
      <3>2. SentAt(m) = {}
        BY <2>1 DEF SentAt
      <3>3. StoredAt(m) = {}
        BY <2>1, <3>1 DEF StoredAt
      <3> QED BY <2>1, <3>2, <3>3
    <2> QED BY <2>1, <2>2 DEF IdsInv, RoutedOnceInv, PublishesAsTold, ReleaseIds, InOnePlace
  <1> QED BY <1>1, NextIds, NextRoutedOnce, Exchange, TypeCorrect, PTL DEF Spec

-----------------------------------------------------------------------------
(* Routed at least once, when publish() returned true.                     *)

\* A command that waits for one of these is a publish().
LEMMA PublishNeedle ==
  ASSUME TypeOK, ExchangeInv, cmd.needle \in {"PUBACK", "PUBCOMP"}
  PROVE  /\ cmd.op = "publish" /\ cmd.msg \in Msgs /\ cmd.msg # NoMsg
         /\ OutQoS[cmd.msg] = IF cmd.needle = "PUBACK" THEN 1 ELSE 2
  <1>1. cmd.op = "publish" /\ cmd.msg \in Msgs /\ cmd.needle = AckType(OutQoS[cmd.msg])
    BY DEF ExchangeInv, CommandNeedle, TypeOK, MethodTypeOK, Commands, NoPacket
  <1>2. OutQoS[cmd.msg] \in {1, 2}
    BY <1>1, PacketAssumption DEF ExchangeInv, CommandNeedle
  <1> QED BY <1>1, <1>2, AckTypes, PacketAssumption

\* An answer that is under way or held after a step of the client was so
\* before, for the same command.
LEMMA ClientAnswers ==
  ASSUME TypeOK, TypeOK', ExchangeInv, ExchangeInv', ClientStep,
         NEW t \in {"PUBACK", "PUBREC", "PUBCOMP"},
         (Coming(t) \/ HeldOf(t))'
  PROVE  /\ Coming(t) \/ HeldOf(t)
         /\ Waiting /\ Waiting'
         /\ cmd'.msg = cmd.msg /\ cmd'.id = cmd.id /\ cmd'.needle = cmd.needle
  <1>1. Coming(t) => Waiting
    BY DEF Coming, ExchangeInv, AnswerReplies, IsAnswer
  <1>2. HeldOf(t) => Waiting
    BY DEF HeldOf, Held, Waiting
  <1>3. Waiting'
    BY DEF Coming, HeldOf, Held, Waiting, ExchangeInv, AnswerReplies, IsAnswer
  <1>4. CASE Coming(t)'
    <2>1. Coming(t)
      BY <1>4, ClientReads DEF Coming
    <2> QED BY <1>1, <1>3, <2>1, SameCommand
  <1>5. CASE HeldOf(t)' /\ t # "PUBREC"
    <2>1. Coming(t) \/ HeldOf(t)
      BY <1>5, HeldAnswer DEF HeldOf, Coming
    <2> QED BY <1>1, <1>2, <1>3, <2>1, SameCommand
  <1>6. CASE HeldOf(t)' /\ t = "PUBREC"
    <2>1. cmd'.needle # "PUBREC"
      <3>1. CASE cmd'.op = "publish"
        <4>1. OutQoS[cmd'.msg] \in {1, 2}
          BY <3>1, PacketAssumption DEF ExchangeInv, CommandNeedle
        <4> QED BY <3>1, <4>1, AckTypes DEF ExchangeInv, CommandNeedle
      <3>2. CASE cmd'.op # "publish"
        BY <3>2 DEF ExchangeInv, CommandNeedle, TypeOK, MethodTypeOK, Commands, NoPacket
      <3> QED BY <3>1, <3>2
    <2>2. pc' = "ack" /\ readBuf'.type = "PUBREC"
      BY <1>6, <2>1 DEF HeldOf, Held
    <2>3. Coming(t) \/ HeldOf(t)
      BY <1>6, <2>2, ClientReads DEF Coming, HeldOf, Held
    <2> QED BY <1>1, <1>2, <1>3, <2>3, SameCommand
  <1> QED BY <1>4, <1>5, <1>6

\* The broker forgets no message it routed.
LEMMA AcceptedStays ==
  ASSUME TypeOK, [Next]_vars, NEW m \in Msgs, accepted[m] >= 1
  PROVE  accepted'[m] >= 1
  <1>1. accepted \in [Msgs -> 0..2]
    BY DEF TypeOK, BrokerTypeOK
  <1>2. ASSUME NEW x, accepted' = [accepted EXCEPT ![x] = OneMore(@)]
        PROVE  accepted'[m] >= 1
    BY <1>1, <1>2 DEF OneMore
  <1>3. \/ UNCHANGED accepted
        \/ \E x : accepted' = [accepted EXCEPT ![x] = OneMore(@)]
    BY DEF Next, vars, Call, Run, Environment, BrokerReads, BrokerSends, brokerVars, BrokerConnect,
           BrokerPublishQoS0, BrokerPublishQoS1, BrokerPublishQoS2, BrokerPubrel, BrokerSubscribe,
           BrokerUnsubscribe, BrokerPingreq, BrokerDisconnect, BrokerPuback, BrokerPubrec,
           BrokerPubcomp, BrokerPush, BrokerResend
  <1> QED BY <1>2, <1>3

LEMMA NextQoS1 ==
  TypeOK /\ TypeOK' /\ ExchangeInv /\ ExchangeInv' /\ QoS1Inv /\ [Next]_vars => QoS1Inv'
  <1> SUFFICES ASSUME TypeOK, TypeOK', ExchangeInv, ExchangeInv', QoS1Inv, [Next]_vars
               PROVE  QoS1Inv'
    OBVIOUS
  <1>1. ASSUME NEW m \in Msgs, outcome'[m] = "ok", OutQoS[m] = 1
        PROVE  accepted'[m] >= 1
    <2>1. CASE outcome[m] = "ok"
      BY <1>1, <2>1, AcceptedStays DEF QoS1Inv
    <2>2. CASE outcome[m] # "ok"
      <3>1. m = cmd.msg /\ HeldOf("PUBACK")
        BY <1>1, <2>2, OutcomeOk
      <3> QED BY <1>1, <3>1, AcceptedStays DEF QoS1Inv
    <2> QED BY <2>1, <2>2
  <1>2. Coming("PUBACK") \/ HeldOf("PUBACK") => cmd.needle = "PUBACK"
    BY DEF Coming, HeldOf, ExchangeInv, AnswerReplies, HeldReplies, IsAnswer, Replies
  <1>3. Coming("PUBACK") \/ HeldOf("PUBACK") => accepted'[cmd.msg] >= 1
    BY <1>2, PublishNeedle, AcceptedStays DEF QoS1Inv
  <1>4. ASSUME (Coming("PUBACK") \/ HeldOf("PUBACK"))' PROVE accepted'[cmd'.msg] >= 1
    <2>1. CASE UNCHANGED vars
      BY <1>3, <1>4, <2>1 DEF vars, networkVars, clientVars, Coming, HeldOf, Held
    <2>2. CASE ClientStep
      BY <1>3, <1>4, <2>2, ClientAnswers
    <2>3. CASE BrokerReads \/ BrokerSends
      <3>1. UNCHANGED clientVars
        BY <2>3 DEF BrokerReads, BrokerSends
      <3>2. CASE Coming("PUBACK") \/ HeldOf("PUBACK")'
        BY <1>3, <3>1, <3>2 DEF HeldOf, Held, clientVars
      <3>3. CASE Coming("PUBACK")' /\ ~Coming("PUBACK")
        <4>1. PICK j \in DOMAIN toClient' : net = "open" /\ Sent(toClient'[j])
                                            /\ toClient'[j].type = "PUBACK"
          BY <2>3, <3>3, BrokerWrites DEF Coming
        <4>2. BrokerPublishQoS1
          BY <4>1 DEF Sent, Connack, Suback, EncodeAck, EncodeZero, EncodePublish, PacketOf
        <4>3. /\ BrokerReads /\ toBroker # <<>> /\ Head(toBroker).type = "PUBLISH"
              /\ Head(toBroker).qos = 1
              /\ accepted' = [accepted EXCEPT ![Head(toBroker).msg] = OneMore(@)]
          BY <3>1, <4>2 DEF BrokerReads, BrokerPublishQoS1, Consume
        <4>4. Asks(Head(toBroker))
          BY <4>1, <4>3, BrokerTakesRequest DEF IsRequest
        <4>5. Head(toBroker).msg = cmd.msg /\ cmd.msg \in Msgs
          BY <4>3, <4>4, BrokerReadsHead DEF Asks, ClientPacket
        <4>6. accepted \in [Msgs -> 0..2]
          BY DEF TypeOK, BrokerTypeOK
        <4> QED BY <3>1, <4>3, <4>5, <4>6 DEF OneMore, clientVars
      <3> QED BY <1>4, <3>2, <3>3
    <2> QED BY <2>1, <2>2, <2>3 DEF Next, ClientStep
  <1> QED BY <1>1, <1>4 DEF QoS1Inv


\* A step of the client that keeps the connection and the method running finds
\* both as they were; only connect() begins anew.
LEMMA LiveBefore ==
  ASSUME ClientStep, Live'
  PROVE  Live \/ (ConnectStart /\ ~attached')
  <1>1. Run => Live
    BY DEF Run, Live, ReceivePublish, ReceiveAckToAnswer, ReceivePingresp, ReceiveOther, Receive,
           SendAck, SendAckFails, DropPacket, ReadPacketFails, ReadFails, ReadNothing, NextCycle,
           CommandAcked, CommandRejected, CommandTimesOut, YieldEnds, NoPingDue, PongTimeout,
           SendPing, SendPingFails
  <1>2. CASE Call
    <2>1. CASE ConnectStart
      BY <2>1 DEF ConnectStart, SocketOpen
    <2>2. ~(ConnectRefused \/ ConnectFails)
      BY DEF ConnectRefused, ConnectFails, Fail, Close, SocketStop, Idle, Live, SocketConnected
    <2>3. CASE PrepareDuplicate
      BY <2>3 DEF PrepareDuplicate, networkVars, Live, SocketConnected
    <2>4. CASE Connected
      BY <2>4 DEF Connected, Live
    <2> QED BY <1>2, <2>1, <2>2, <2>3, <2>4
            DEF Call, PublishQoS0, PublishStart, PublishFails, MayPublish, SubscribeStart,
                UnsubscribeStart, Request, RequestFails, Disconnect, LoopYields, LoopSkipsYield,
                LoopStarts
  <1>3. CASE Environment
    BY <1>3 DEF Environment, CommandTimerExpires, KeepAliveTimerExpires, PowerCycle, Idle, Close,
                SocketStop, LinkReset, LinkStall, Live, SocketConnected
  <1> QED BY <1>1, <1>2, <1>3 DEF ClientStep

\* A method that waits for an answer and keeps its connection goes on waiting,
\* unless it holds that answer.
LEMMA WaitingGoesOn ==
  ASSUME ClientStep, Waiting, cmd.op # "loop", Live', ~(pc = "check" /\ readBuf.type = cmd.needle)
  PROVE  Waiting'
  <1>1. ASSUME NEW c, NEW err, Fail(c, err) PROVE FALSE
    BY <1>1 DEF Fail, Idle, Close, SocketStop, Live, SocketConnected
  <1>2. ~Call
    BY DEF Waiting, Call, ConnectRefused, ConnectStart, ConnectFails, PublishQoS0, PublishStart,
           PublishFails, MayPublish, PrepareDuplicate, SubscribeStart, UnsubscribeStart, Request,
           RequestFails, Disconnect, LoopYields, LoopSkipsYield, LoopStarts
  <1>3. CASE Run
    <2>1. ~(\/ SendAckFails \/ ReadPacketFails \/ ReadFails \/ CommandRejected \/ CommandTimesOut
            \/ PongTimeout \/ SendPingFails)
      BY <1>1 DEF SendAckFails, ReadPacketFails, ReadFails, CommandRejected, CommandTimesOut,
                  PongTimeout, SendPingFails
    <2>2. ~(CommandAcked \/ YieldEnds \/ NoPingDue \/ SendPing)
      BY DEF CommandAcked, Found, YieldEnds, NoPingDue, SendPing, Waiting
    <2>3. CASE \/ ReceivePublish \/ ReceiveAckToAnswer \/ ReceivePingresp \/ ReceiveOther
               \/ SendAck \/ DropPacket \/ ReadNothing \/ NextCycle
      BY <2>3 DEF ReceivePublish, ReceiveAckToAnswer, ReceivePingresp, ReceiveOther, SendAck,
                  DropPacket, ReadNothing, NextCycle, Waiting
    <2> QED BY <1>3, <2>1, <2>2, <2>3 DEF Run
  <1>4. CASE Environment
    BY <1>4 DEF Environment, CommandTimerExpires, KeepAliveTimerExpires, PowerCycle, Idle, Close,
                SocketStop, LinkReset, LinkStall, Live, SocketConnected, Waiting, clientVars
  <1> QED BY <1>2, <1>3, <1>4 DEF ClientStep

\* A method that waits for an answer writes no PUBLISH, and a PUBREL only for
\* the PUBREC it holds.
LEMMA WaitingWrites ==
  ASSUME TypeOK, ClientStep
  PROVE  \A i \in DOMAIN toBroker' :
           \/ i \in DOMAIN toBroker /\ toBroker'[i] = toBroker[i]
           \/ /\ toBroker'[i].type = "PUBLISH" => pc = "idle"
              /\ toBroker'[i].type = "PUBREL" => HeldOf("PUBREC") /\ Waiting /\ Waiting'
  <1>1. CASE toBroker' \in {toBroker, <<>>, <<EncodeConnect>>}
    BY <1>1 DEF EncodeConnect, EncodeZero, PacketOf
  <1>2. ASSUME NEW p \in ClientPacket, toBroker' = Append(toBroker, p), Written(p)
        PROVE  /\ p.type = "PUBLISH" => pc = "idle"
               /\ p.type = "PUBREL" => HeldOf("PUBREC") /\ Waiting /\ Waiting'
    <2>1. /\ \A m : PublishPacket(m).type = "PUBLISH"
          /\ \A t : /\ EncodeSubscribe(NextPacketId, t).type = "SUBSCRIBE"
                    /\ EncodeUnsubscribe(NextPacketId, t).type = "UNSUBSCRIBE"
      BY DEF PublishPacket, EncodePublish, EncodeSubscribe, EncodeUnsubscribe, PacketOf
    <2>2. pc = "ack" => readBuf.type \in {"PUBLISH", "PUBREC", "PUBREL"}
      BY DEF TypeOK, MethodTypeOK
    <2>3. pc = "ack" => /\ Answer(readBuf).type # "PUBLISH"
                        /\ Answer(readBuf).type = "PUBREL" => readBuf.type = "PUBREC"
      BY <2>2 DEF Answer, EncodeAck, PacketOf
    <2> QED BY <1>2, <2>1, <2>3 DEF Written, MayPublish, HeldOf, Held, Waiting
  <1> QED BY <1>1, <1>2, ClientWritesPackets, Types, AppendElements DEF ClientWrites

LEMMA ClientQoS2 ==
  ASSUME TypeOK, TypeOK', ExchangeInv, ExchangeInv', QoS2Inv, ClientStep, [Next]_vars
  PROVE  QoS2Inv'
  <1>1. UNCHANGED <<awaitRel, accepted>>
    BY DEF ClientStep, Call, Run, Environment, brokerVars
  <1>2. attached' => attached
    <2>1. CASE \/ ConnectStart \/ Writes \/ Reads \/ (LinkStall /\ UNCHANGED clientVars)
      BY <2>1 DEF ConnectStart, SocketOpen, Writes, Reads, SocketRead, LinkStall
    <2>2. CASE net' = "closed"
      BY <2>2 DEF ClientStep, Call, Run, Environment, ConnectRefused, ConnectStart, ConnectFails,
           PublishQoS0, PublishStart, PublishFails, PrepareDuplicate, SubscribeStart,
           UnsubscribeStart, Request, RequestFails, Disconnect, LoopYields, LoopSkipsYield,
           LoopStarts, ReceivePublish, ReceiveAckToAnswer, ReceivePingresp, ReceiveOther, Receive,
           SendAck, SendAckFails, DropPacket, ReadPacketFails, ReadFails, ReadNothing, NextCycle,
           CommandAcked, CommandRejected, CommandTimesOut, YieldEnds, NoPingDue, PongTimeout,
           SendPing, SendPingFails, CommandTimerExpires, KeepAliveTimerExpires, PowerCycle,
           LinkReset, LinkStall, Fail, Close, SocketStop, SocketOpen, SocketRead, SendPacket,
           SocketWrite, networkVars
    <2> QED BY <2>1, <2>2, ClientLink
  <1>3. StoredIsRunning'
    <2> SUFFICES ASSUME Live', attached', NEW id \in 1..MaxPacketId, awaitRel[id] # NoMsg
                 PROVE  (/\ Waiting /\ cmd.needle = "PUBCOMP" /\ id = cmd.id
                         /\ \A i \in DOMAIN toBroker : toBroker[i].type = "PUBLISH" => toBroker[i].qos = 0
                         /\ ~Coming("PUBCOMP") /\ ~HeldOf("PUBCOMP"))'
      BY <1>1 DEF StoredIsRunning
    <2>1. Live /\ attached
      BY <1>2, LiveBefore
    <2>2. /\ Waiting /\ cmd.needle = "PUBCOMP" /\ id = cmd.id
          /\ \A i \in DOMAIN toBroker : toBroker[i].type = "PUBLISH" => toBroker[i].qos = 0
          /\ ~Coming("PUBCOMP") /\ ~HeldOf("PUBCOMP")
      BY <2>1 DEF QoS2Inv, StoredIsRunning
    <2>3. cmd.op # "loop" /\ ~(pc = "check" /\ readBuf.type = cmd.needle)
      BY <2>2 DEF HeldOf, Held, IsAnswer, ExchangeInv, CommandNeedle, NoPacket
    <2>4. Waiting'
      BY <2>2, <2>3, WaitingGoesOn
    <2>5. cmd'.needle = "PUBCOMP" /\ id = cmd'.id
      BY <2>2, <2>4, SameCommand
    <2>6. \A i \in DOMAIN toBroker' : toBroker'[i].type = "PUBLISH" => toBroker'[i].qos = 0
      BY <2>2, WaitingWrites DEF Waiting
    <2>7. ~(Coming("PUBCOMP") \/ HeldOf("PUBCOMP"))'
      BY <2>2, ClientAnswers
    <2> QED BY <2>4, <2>5, <2>6, <2>7
  <1>4. ReleaseFindsIt'
    <2>1. CASE (Coming("PUBREC") \/ HeldOf("PUBREC"))'
      BY <1>1, <2>1, ClientAnswers DEF QoS2Inv, ReleaseFindsIt
    <2>2. ASSUME Live', ReleaseUnderWay' PROVE awaitRel[cmd'.id] = cmd'.msg
      <3>1. PICK i \in DOMAIN toBroker' : toBroker'[i].type = "PUBREL"
        BY <2>2 DEF ReleaseUnderWay
      <3>2. Waiting'
        BY <2>2, <3>1 DEF ExchangeInv, RequestAsks, IsRequest
      <3>3. ~ConnectStart
        BY <3>1 DEF ConnectStart, SocketOpen, EncodeConnect, EncodeZero, PacketOf
      <3>4. Live
        BY <2>2, <3>3, LiveBefore
      <3>5. CASE i \in DOMAIN toBroker /\ toBroker'[i] = toBroker[i]
        <4>1. Waiting /\ awaitRel[cmd.id] = cmd.msg
          BY <3>1, <3>4, <3>5 DEF QoS2Inv, ReleaseFindsIt, ReleaseUnderWay, ExchangeInv,
                                  RequestAsks, IsRequest
        <4> QED BY <3>2, <4>1, SameCommand
      <3>6. CASE HeldOf("PUBREC") /\ Waiting
        BY <3>2, <3>6, SameCommand DEF QoS2Inv, ReleaseFindsIt
      <3> QED BY <3>1, <3>5, <3>6, WaitingWrites
    <2> QED BY <1>1, <2>1, <2>2 DEF ReleaseFindsIt
  <1>5. CompletedIsRouted'
    <2>1. (Coming("PUBCOMP") \/ HeldOf("PUBCOMP"))' => accepted'[cmd'.msg] >= 1
      BY <1>1, ClientAnswers DEF QoS2Inv, CompletedIsRouted
    <2>2. ASSUME NEW m \in Msgs, outcome'[m] = "ok", OutQoS[m] = 2 PROVE accepted'[m] >= 1
      <3>1. CASE outcome[m] = "ok"
        BY <1>1, <2>2, <3>1 DEF QoS2Inv, CompletedIsRouted
      <3>2. CASE outcome[m] # "ok"
        <4>1. m = cmd.msg /\ HeldOf("PUBCOMP")
          BY <2>2, <3>2, OutcomeOk
        <4> QED BY <1>1, <4>1 DEF QoS2Inv, CompletedIsRouted
      <3> QED BY <3>1, <3>2
    <2> QED BY <2>1, <2>2 DEF CompletedIsRouted
  <1> QED BY <1>3, <1>4, <1>5 DEF QoS2Inv


\* The steps of the broker that touch what it has stored, and what they answer.
LEMMA StoreChanges ==
  ASSUME CleanSession, BrokerReads \/ BrokerSends
  PROVE  \/ UNCHANGED awaitRel /\ (attached' => attached)
         \/ /\ BrokerReads /\ IsRequest(Head(toBroker))
            /\ \/ \E ok \in BOOLEAN : BrokerConnect(ok)
               \/ BrokerPublishQoS2
               \/ BrokerPubrel
  <1>1. CASE \E ok \in BOOLEAN : BrokerConnect(ok)
    <2>1. Head(toBroker).type = "CONNECT" /\ BrokerReads
      BY <1>1 DEF BrokerConnect, BrokerReads, BrokerSends, BrokerPush, BrokerResend
    <2> QED BY <1>1, <2>1 DEF IsRequest
  <1>2. CASE BrokerPublishQoS2 \/ BrokerPubrel
    <2>1. UNCHANGED clientVars
      BY DEF BrokerReads, BrokerSends
    <2> QED BY <1>2, <2>1, SMTT(30) DEF BrokerPublishQoS2, BrokerPubrel, Consume, BrokerReads, IsRequest
  <1>3. CASE \/ BrokerSends
             \/ BrokerPublishQoS0 \/ BrokerPublishQoS1 \/ (\E ok \in BOOLEAN : BrokerSubscribe(ok))
             \/ BrokerUnsubscribe \/ BrokerPingreq \/ BrokerDisconnect \/ BrokerPuback
             \/ BrokerPubrec \/ BrokerPubcomp
    BY <1>3 DEF BrokerSends, BrokerPush, BrokerResend, BrokerPublishQoS0, BrokerPublishQoS1,
                BrokerSubscribe, BrokerUnsubscribe, BrokerPingreq, BrokerDisconnect, BrokerPuback,
                BrokerPubrec, BrokerPubcomp, brokerVars
  <1> QED BY <1>1, <1>2, <1>3 DEF BrokerReads

\* The answers to a publish() that a step of the broker may add.
LEMMA NewAnswer ==
  ASSUME TypeOK, BrokerReads \/ BrokerSends,
         NEW t \in {"PUBREC", "PUBCOMP"}, Coming(t)', ~Coming(t)
  PROVE  /\ net = "open" /\ BrokerReads
         /\ t = "PUBREC" => BrokerPublishQoS2
         /\ t = "PUBCOMP" => BrokerPubrel
  <1>1. PICK j \in DOMAIN toClient' :
          net = "open" /\ Sent(toClient'[j]) /\ toClient'[j].type = t
    BY BrokerWrites DEF Coming
  <1>2. /\ t = "PUBREC" => BrokerPublishQoS2
        /\ t = "PUBCOMP" => BrokerPubrel
    BY <1>1 DEF Sent, Connack, Suback, EncodeAck, EncodeZero, EncodePublish, PacketOf
  <1>3. UNCHANGED clientVars
    BY DEF BrokerReads, BrokerSends
  <1> QED BY <1>1, <1>2, <1>3 DEF BrokerReads

\* A QoS 2 PUBLISH or a PUBREL that the broker takes from a live connection is
\* that of the running publish(), which has nothing else under way.
LEMMA TakesQoS2 ==
  ASSUME TypeOK, ExchangeInv, IdsInv, Live, BrokerPublishQoS2 \/ BrokerPubrel, BrokerReads
  PROVE  LET h == Head(toBroker) IN
           /\ Waiting /\ cmd.needle = "PUBCOMP" /\ cmd.msg \in Msgs /\ cmd.msg # NoMsg
           /\ h.id = cmd.id /\ h.id \in 1..MaxPacketId
           /\ BrokerPublishQoS2 => h.msg = cmd.msg
           /\ NoAnswerUnderWay /\ ~Held
           /\ \A i \in DOMAIN toBroker' : ~IsRequest(toBroker'[i])
  <1> DEFINE h == Head(toBroker)
  <1>1. /\ toBroker # <<>>
        /\ \/ BrokerPublishQoS2 /\ h.type = "PUBLISH" /\ h.qos = 2
           \/ BrokerPubrel /\ h.type = "PUBREL"
    BY DEF BrokerPublishQoS2, BrokerPubrel, Consume
  <1>2. h = toBroker[1] /\ 1 \in DOMAIN toBroker
    BY <1>1, Types, HeadTailProperties, LenProperties
  <1>3. IsRequest(h)
    BY <1>1 DEF IsRequest
  <1>4. Waiting /\ Asks(h) /\ ~Held /\ NoAnswerUnderWay
    BY <1>2, <1>3 DEF ExchangeInv, RequestAsks
  <1>5. cmd.needle = "PUBCOMP"
    BY <1>1, <1>4 DEF Asks
  <1>6. h.id = cmd.id /\ h.id # 0 /\ (h.type = "PUBLISH" => h.msg = cmd.msg)
    BY <1>1, <1>2, <1>3, <1>4 DEF Asks, IdsInv
  <1>7. cmd.id \in 0..MaxPacketId
    BY DEF TypeOK, MethodTypeOK, Commands
  <1>8. BrokerPublishQoS2 => h.type = "PUBLISH"
    BY DEF BrokerPublishQoS2, Consume
  <1>9. ASSUME NEW i \in DOMAIN toBroker' PROVE ~IsRequest(toBroker'[i])
    <2>1. toBroker' = Tail(toBroker)
      BY BrokerReadsHead
    <2>2. i + 1 \in DOMAIN toBroker /\ i + 1 # 1 /\ toBroker'[i] = toBroker[i + 1]
      BY <1>1, <2>1, Types, TailElements, HeadTailProperties, LenProperties
    <2> QED BY <1>2, <1>3, <2>2 DEF ExchangeInv, OneRequest
  <1> HIDE DEF h
  <1>10. h.id \in 1..MaxPacketId
    BY <1>6, <1>7, PacketAssumption
  <1> QED BY <1>4, <1>5, <1>6, <1>8, <1>9, <1>10, PublishNeedle DEF h

LEMMA BrokerQoS2 ==
  ASSUME CleanSession, TypeOK, ExchangeInv, IdsInv, QoS2Inv, BrokerReads \/ BrokerSends,
         [Next]_vars
  PROVE  QoS2Inv'
  <1> DEFINE h == Head(toBroker)
  <1>1. UNCHANGED <<clientVars, net>>
    <2>1. BrokerSends => UNCHANGED <<clientVars, net>>
      BY DEF BrokerSends, BrokerPush, BrokerResend
    <2> QED BY <2>1, BrokerReadsHead
  <1>2. /\ Live' = Live /\ Waiting' = Waiting /\ (\A t : HeldOf(t)' = HeldOf(t))
        /\ cmd' = cmd /\ outcome' = outcome
    BY <1>1 DEF clientVars, Live, SocketConnected, Waiting, HeldOf, Held
  <1>3. \A i \in DOMAIN toBroker' : \E k \in DOMAIN toBroker : toBroker'[i] = toBroker[k]
    <2>1. BrokerSends => toBroker' = toBroker
      BY DEF BrokerSends, BrokerPush, BrokerResend
    <2> QED BY <2>1, BrokerReadsHead
  <1>4. awaitRel \in [1..MaxPacketId -> Msgs \cup {NoMsg}] /\ accepted \in [Msgs -> 0..2]
    BY DEF TypeOK, BrokerTypeOK
  <1>5. StoredIsRunning'
    <2> SUFFICES ASSUME Live, attached', NEW id \in 1..MaxPacketId, awaitRel'[id] # NoMsg
                 PROVE  /\ Waiting /\ cmd.needle = "PUBCOMP" /\ id = cmd.id
                        /\ \A i \in DOMAIN toBroker' : toBroker'[i].type = "PUBLISH" =>
                                                         toBroker'[i].qos = 0
                        /\ ~Coming("PUBCOMP")' /\ ~HeldOf("PUBCOMP")
      BY <1>2 DEF StoredIsRunning
    <2>1. CASE UNCHANGED awaitRel /\ attached
      <3>1. /\ Waiting /\ cmd.needle = "PUBCOMP" /\ id = cmd.id
            /\ \A i \in DOMAIN toBroker : toBroker[i].type = "PUBLISH" => toBroker[i].qos = 0
            /\ ~Coming("PUBCOMP") /\ ~HeldOf("PUBCOMP")
        BY <2>1 DEF QoS2Inv, StoredIsRunning
      <3>2. ~Coming("PUBCOMP")'
        <4> SUFFICES ASSUME Coming("PUBCOMP")' PROVE FALSE
          OBVIOUS
        <4>1. BrokerPubrel /\ BrokerReads
          BY <3>1, NewAnswer
        <4>2. h.id = cmd.id
          BY <4>1, TakesQoS2
        <4>3. awaitRel'[id] = NoMsg
          BY <1>4, <3>1, <4>1, <4>2 DEF BrokerPubrel, h
        <4> QED BY <4>3
      <3> QED BY <1>3, <3>1, <3>2
    <2>2. CASE \E ok \in BOOLEAN : BrokerConnect(ok)
      BY <2>2 DEF BrokerConnect
    <2>3. CASE BrokerPublishQoS2 /\ BrokerReads
      <3>1. /\ Waiting /\ cmd.needle = "PUBCOMP" /\ h.id = cmd.id /\ ~Held /\ NoAnswerUnderWay
            /\ \A i \in DOMAIN toBroker' : ~IsRequest(toBroker'[i])
        BY <2>3, TakesQoS2
      <3>2. attached /\ h.type = "PUBLISH" /\ h.qos = 2 /\ \E k \in DOMAIN toBroker : h = toBroker[k]
        BY <2>3, BrokerReadsHead DEF BrokerPublishQoS2, Consume
      <3>3. awaitRel[id] = NoMsg
        BY <3>2 DEF QoS2Inv, StoredIsRunning
      <3>4. id = h.id
        BY <1>4, <2>3, <3>3 DEF BrokerPublishQoS2, h
      <3>5. ~Coming("PUBCOMP")
        BY <3>1 DEF NoAnswerUnderWay, Coming, IsAnswer
      <3>6. ~BrokerPubrel
        BY <3>2 DEF BrokerPubrel, Consume, h
      <3>7. ~Coming("PUBCOMP")'
        BY <3>5, <3>6, NewAnswer
      <3>8. \A i \in DOMAIN toBroker' : toBroker'[i].qos \in 0..2
        BY <1>3, Types, LenProperties, ElementOfSeq DEF ClientPacket, Packet
      <3> QED BY <3>1, <3>4, <3>7, <3>8 DEF HeldOf, IsRequest
    <2>4. CASE BrokerPubrel /\ BrokerReads
      <3>1. h.id = cmd.id /\ attached
        BY <2>4, TakesQoS2 DEF BrokerPubrel, Consume
      <3>2. id # h.id /\ awaitRel[id] # NoMsg
        BY <1>4, <2>4 DEF BrokerPubrel, h
      <3> QED BY <3>1, <3>2 DEF QoS2Inv, StoredIsRunning
    <2> QED BY <2>1, <2>2, <2>3, <2>4, StoreChanges
  <1>6. ReleaseFindsIt'
    <2>1. ASSUME Coming("PUBREC") \/ HeldOf("PUBREC") PROVE awaitRel'[cmd.id] = cmd.msg
      <3>1. ~(BrokerReads /\ IsRequest(h))
        BY <2>1, BrokerTakesRequest DEF Coming, HeldOf, NoAnswerUnderWay, IsAnswer
      <3> QED BY <2>1, <3>1, StoreChanges DEF QoS2Inv, ReleaseFindsIt
    <2>2. ASSUME Coming("PUBREC")', ~Coming("PUBREC") PROVE awaitRel'[cmd.id] = cmd.msg
      <3>1. net = "open" /\ BrokerReads /\ BrokerPublishQoS2
        BY <1>1, <2>2, NewAnswer
      <3>2. Live
        BY <3>1 DEF Live, SocketConnected
      <3>3. h.id = cmd.id /\ h.msg = cmd.msg /\ h.id \in 1..MaxPacketId
        BY <3>1, <3>2, TakesQoS2
      <3>4. attached /\ h.type = "PUBLISH" /\ h.qos = 2 /\ \E k \in DOMAIN toBroker : h = toBroker[k]
        BY <3>1, BrokerReadsHead DEF BrokerPublishQoS2, Consume
      <3>5. awaitRel[h.id] = NoMsg
        BY <3>2, <3>3, <3>4 DEF QoS2Inv, StoredIsRunning
      <3> QED BY <1>4, <3>1, <3>3, <3>5 DEF BrokerPublishQoS2, h
    <2>3. ASSUME Live, ReleaseUnderWay' PROVE awaitRel'[cmd.id] = cmd.msg
      <3>1. ReleaseUnderWay
        BY <1>3, <2>3 DEF ReleaseUnderWay
      <3>2. ~(BrokerReads /\ IsRequest(h))
        <4> SUFFICES ASSUME BrokerReads, IsRequest(h) PROVE FALSE
          OBVIOUS
        <4>1. toBroker # <<>> /\ toBroker' = Tail(toBroker)
          BY BrokerReadsHead
        <4>2. h = toBroker[1] /\ 1 \in DOMAIN toBroker
          BY <4>1, Types, HeadTailProperties, LenProperties
        <4>3. PICK i \in DOMAIN toBroker' : toBroker'[i].type = "PUBREL"
          BY <2>3 DEF ReleaseUnderWay
        <4>4. i + 1 \in DOMAIN toBroker /\ i + 1 # 1 /\ toBroker'[i] = toBroker[i + 1]
          BY <4>1, <4>3, Types, TailElements, HeadTailProperties, LenProperties
        <4> QED BY <4>2, <4>3, <4>4 DEF IsRequest, ExchangeInv, OneRequest
      <3> QED BY <2>3, <3>1, <3>2, StoreChanges DEF QoS2Inv, ReleaseFindsIt
    <2> QED BY <1>2, <2>1, <2>2, <2>3 DEF ReleaseFindsIt
  <1>7. CompletedIsRouted'
    <2>1. ASSUME Coming("PUBCOMP") \/ HeldOf("PUBCOMP") PROVE accepted'[cmd.msg] >= 1
      <3>1. cmd.needle = "PUBCOMP"
        BY <2>1 DEF Coming, HeldOf, ExchangeInv, AnswerReplies, HeldReplies, IsAnswer, Replies
      <3> QED BY <2>1, <3>1, PublishNeedle, AcceptedStays DEF QoS2Inv, CompletedIsRouted
    <2>2. ASSUME Coming("PUBCOMP")', ~Coming("PUBCOMP") PROVE accepted'[cmd.msg] >= 1
      <3>1. net = "open" /\ BrokerReads /\ BrokerPubrel
        BY <1>1, <2>2, NewAnswer
      <3>2. Live
        BY <3>1 DEF Live, SocketConnected
      <3>3. h.id = cmd.id /\ h.id \in 1..MaxPacketId /\ cmd.msg \in Msgs /\ cmd.msg # NoMsg
        BY <3>1, <3>2, TakesQoS2
      <3>4. ReleaseUnderWay
        BY <3>1, BrokerReadsHead DEF BrokerPubrel, Consume, ReleaseUnderWay
      <3>5. awaitRel[h.id] = cmd.msg
        BY <3>2, <3>3, <3>4 DEF QoS2Inv, ReleaseFindsIt
      <3>6. accepted' = [accepted EXCEPT ![cmd.msg] = OneMore(@)]
        BY <3>1, <3>3, <3>5 DEF BrokerPubrel, h
      <3> QED BY <1>4, <3>3, <3>6 DEF OneMore
    <2>3. \A m \in Msgs : outcome'[m] = "ok" /\ OutQoS[m] = 2 => accepted'[m] >= 1
      BY <1>2, AcceptedStays DEF QoS2Inv, CompletedIsRouted
    <2> QED BY <1>2, <2>1, <2>2, <2>3 DEF CompletedIsRouted
  <1> QED BY <1>5, <1>6, <1>7 DEF QoS2Inv

LEMMA NextQoS2 ==
  ASSUME CleanSession
  PROVE  TypeOK /\ TypeOK' /\ ExchangeInv /\ ExchangeInv' /\ IdsInv /\ QoS2Inv /\ [Next]_vars
           => QoS2Inv'
  <1> SUFFICES ASSUME TypeOK, TypeOK', ExchangeInv, ExchangeInv', IdsInv, QoS2Inv, [Next]_vars
               PROVE  QoS2Inv'
    OBVIOUS
  <1>1. CASE UNCHANGED vars
    BY <1>1 DEF vars, networkVars, brokerVars, clientVars, QoS2Inv, StoredIsRunning,
                ReleaseFindsIt, ReleaseUnderWay, CompletedIsRouted, Live, SocketConnected, Waiting,
                Coming, HeldOf, Held
  <1> QED BY <1>1, ClientQoS2, BrokerQoS2 DEF Next, ClientStep

-----------------------------------------------------------------------------

\* The broker routes no message of the application twice, whatever is lost,
\* restarted or resumed: publish() sends it once and never again, and while it
\* is stored under a packet id no copy of it is on its way.
RoutedAtMostOnce == \A m \in Msgs : accepted[m] <= 1

THEOREM NeverRoutedTwice == Spec => []RoutedAtMostOnce
  <1>1. RoutedOnceInv => RoutedAtMostOnce
    BY DEF RoutedOnceInv, InOnePlace, RoutedAtMostOnce
  <1> QED BY <1>1, RoutedOnce, PTL

\* What follows from a PUBACK needs nothing of the session.
LEMMA QoS1 == Spec => []QoS1Inv
  <1>1. Init => QoS1Inv
    <2> SUFFICES ASSUME Init PROVE QoS1Inv
      OBVIOUS
    <2>1. toClient = <<>> /\ pc = "idle" /\ outcome = [m \in Msgs |-> "none"]
      BY DEF Init, NetworkInit, ClientInit
    <2>2. ~Coming("PUBACK") /\ ~HeldOf("PUBACK")
      BY <2>1 DEF Coming, HeldOf, Held
    <2> QED BY <2>1, <2>2 DEF QoS1Inv
  <1> QED BY <1>1, NextQoS1, Exchange, TypeCorrect, PTL DEF Spec

LEMMA QoS2 == ASSUME CleanSession PROVE Spec => []QoS2Inv
  <1>1. Init => IdsInv /\ QoS2Inv
    <2> SUFFICES ASSUME Init PROVE IdsInv /\ QoS2Inv
      OBVIOUS
    <2>1. /\ toBroker = <<>> /\ toClient = <<>> /\ pc = "idle" /\ net = "closed"
          /\ outcome = [m \in Msgs |-> "none"]
      BY DEF Init, NetworkInit, ClientInit
    <2>2. ~Live /\ (\A t : ~Coming(t) /\ ~HeldOf(t))
      BY <2>1 DEF Live, SocketConnected, Coming, HeldOf, Held
    <2> QED BY <2>1, <2>2 DEF IdsInv, QoS2Inv, StoredIsRunning, ReleaseFindsIt,
                             CompletedIsRouted
  <1> QED BY <1>1, NextIds, NextQoS2, RoutedOnce, Exchange, TypeCorrect, PTL DEF Spec

\* With clean sessions, a publish() that returned true was routed by the
\* broker: at QoS 1 because the PUBACK that matched is that of this PUBLISH, at
\* QoS 2 exactly once, because the PUBREL released this message and no other.
THEOREM AckedAccepted ==
  ASSUME CleanSession
  PROVE  Spec => []AckedMeansAccepted
  <1>1. TypeOK /\ RoutedOnceInv /\ QoS1Inv /\ QoS2Inv => AckedMeansAccepted
    BY DEF TypeOK, BrokerTypeOK, RoutedOnceInv, InOnePlace, QoS1Inv, QoS2Inv, CompletedIsRouted,
           AckedMeansAccepted
  <1> QED BY <1>1, QoS1, QoS2, RoutedOnce, TypeCorrect, PTL

-----------------------------------------------------------------------------
(* The handshakes of inbound messages.                                     *)

\* The broker starts a handshake only for QoS 1 and 2.
InflightQoS == \A m \in InMsgs : inflight[m] # "new" => InQoS[m] > 0

\* Where the next packet of the handshake of m is; a PUBLISH at QoS 0 is none.
OnItsWay(m, sent) ==
  \E j \in DOMAIN toClient :
    /\ toClient[j].type = sent /\ toClient[j].id = m
    /\ sent = "PUBLISH" => toClient[j].qos > 0
InHand(m, sent) == pc = "ack" /\ readBuf.type = sent /\ readBuf.id = m
Answered(m, answers) ==
  \E i \in DOMAIN toBroker : toBroker[i].type \in answers /\ toBroker[i].id = m

\* The strengthening of HandshakeUnderway that every step preserves.
NextIsUnderway(m) ==
  /\ inflight[m] = "published" =>
       \/ OnItsWay(m, "PUBLISH") \/ InHand(m, "PUBLISH") \/ Answered(m, {"PUBACK", "PUBREC"})
  /\ inflight[m] = "released" =>
       \/ OnItsWay(m, "PUBREL") \/ InHand(m, "PUBREL") \/ Answered(m, {"PUBCOMP"})

HandshakeInv ==
  /\ InflightQoS
  /\ net = "open" /\ attached => \A m \in onLink \ Oversized : NextIsUnderway(m)

\* The client takes a packet of a handshake into its hands, and out of them
\* into its answer.
LEMMA ClientHandshake ==
  ASSUME TypeOK, BareAnswers, HandshakeInv, ClientStep
  PROVE  HandshakeInv'
  <1>1. UNCHANGED <<inflight, onLink>>
    BY DEF ClientStep, Call, Run, Environment, brokerVars
  <1>2. InflightQoS'
    BY <1>1 DEF HandshakeInv, InflightQoS
  <1>3. CASE ~(net' = "open" /\ attached')
    BY <1>2, <1>3 DEF HandshakeInv
  <1>4. CASE Writes
    <2> SUFFICES ASSUME net = "open", attached, NEW m \in onLink \ Oversized, NextIsUnderway(m)
                 PROVE  NextIsUnderway(m)'
      BY <1>1, <1>2, <1>4 DEF HandshakeInv, Writes
    <2>1. \A sent : OnItsWay(m, sent)' = OnItsWay(m, sent)
      BY <1>4 DEF Writes, OnItsWay
    <2>2. CASE toBroker' = toBroker /\ (pc = "ack" => pc' = "ack" /\ readBuf' = readBuf)
      BY <1>1, <2>1, <2>2 DEF NextIsUnderway, InHand, Answered
    <2>3. ASSUME NEW p \in ClientPacket, toBroker' = Append(toBroker, p),
                 pc = "ack" => p = Answer(readBuf)
          PROVE  NextIsUnderway(m)'
      <3>1. /\ \A i \in DOMAIN toBroker : i \in DOMAIN toBroker' /\ toBroker'[i] = toBroker[i]
            /\ Len(toBroker) + 1 \in DOMAIN toBroker' /\ toBroker'[Len(toBroker) + 1] = p
        BY <2>3, Types, AppendProperties, LenProperties
      <3>2. \A answers : Answered(m, answers) => Answered(m, answers)'
        BY <3>1 DEF Answered
      <3>3. InHand(m, "PUBLISH") => Answered(m, {"PUBACK", "PUBREC"})'
        <4>1. InHand(m, "PUBLISH") => p.type \in {"PUBACK", "PUBREC"} /\ p.id = m
          BY <2>3 DEF InHand, Answer, EncodeAck, PacketOf
        <4> QED BY <3>1, <4>1 DEF Answered
      <3>4. InHand(m, "PUBREL") => Answered(m, {"PUBCOMP"})'
        <4>1. InHand(m, "PUBREL") => p.type = "PUBCOMP" /\ p.id = m
          BY <2>3 DEF InHand, Answer, EncodeAck, PacketOf
        <4> QED BY <3>1, <4>1 DEF Answered
      <3> QED BY <1>1, <2>1, <3>2, <3>3, <3>4 DEF NextIsUnderway
    <2> QED BY <1>4, <2>2, <2>3 DEF Writes
  <1>5. CASE Reads
    <2>1. PICK p \in Arriving :
            /\ pc = "wait"
            /\ SocketRead(p)
            /\ Fits(p) => /\ readBuf' = p
                          /\ p.type \in {"PUBREC", "PUBREL"} => pc' = "ack"
                          /\ p.type = "PUBLISH" /\ p.qos # 0 => pc' = "ack"
      BY <1>5 DEF Reads
    <2>2. /\ toClient # <<>> /\ p = Head(toClient) /\ toClient' = Tail(toClient)
          /\ UNCHANGED <<net, attached, toBroker>>
      BY <2>1 DEF SocketRead, Arriving
    <2>3. /\ p = toClient[1] /\ 1 \in DOMAIN toClient /\ p \in BrokerPacket
          /\ DOMAIN toClient = 1..Len(toClient) /\ Len(toClient) \in Nat
          /\ DOMAIN toClient' = 1..(Len(toClient) - 1)
          /\ \A j \in DOMAIN toClient' : toClient'[j] = toClient[j + 1]
      BY <2>2, Types, HeadTailProperties, LenProperties, ElementOfSeq
    <2>4. \A j \in DOMAIN toClient :
            toClient[j] = p \/ \E k \in DOMAIN toClient' : toClient'[k] = toClient[j]
      <3> SUFFICES ASSUME NEW j \in DOMAIN toClient, j # 1
                   PROVE  \E k \in DOMAIN toClient' : toClient'[k] = toClient[j]
        BY <2>3
      <3>1. j - 1 \in DOMAIN toClient' /\ (j - 1) + 1 = j
        BY <2>3
      <3> QED BY <2>3, <3>1
    <2> SUFFICES ASSUME net = "open", attached, NEW m \in onLink \ Oversized, NextIsUnderway(m)
                 PROVE  NextIsUnderway(m)'
      BY <1>1, <1>2, <2>2 DEF HandshakeInv
    <2>5. m \in InMsgs /\ m \notin Oversized
      BY DEF TypeOK, BrokerTypeOK
    <2>6. ASSUME NEW sent \in {"PUBLISH", "PUBREL"}, OnItsWay(m, sent)
          PROVE  OnItsWay(m, sent)' \/ InHand(m, sent)'
      <3>1. PICK j \in DOMAIN toClient :
              /\ toClient[j].type = sent /\ toClient[j].id = m
              /\ sent = "PUBLISH" => toClient[j].qos > 0
        BY <2>6 DEF OnItsWay
      <3>2. CASE toClient[j] # p
        <4>1. PICK k \in DOMAIN toClient' : toClient'[k] = toClient[j]
          BY <2>4, <3>2
        <4> QED BY <3>1, <4>1 DEF OnItsWay
      <3>3. CASE toClient[j] = p
        <4>1. Fits(p)
          <5>1. CASE sent = "PUBLISH"
            <6>1. p.msg = m
              BY <2>3, <3>1, <3>3, <5>1 DEF BrokerPacket
            <6> QED BY <2>5, <6>1 DEF Fits
          <5>2. CASE sent = "PUBREL"
            <6>1. p.msg = NoMsg
              BY <2>3, <3>1, <3>3, <5>2 DEF BareAnswers
            <6> QED BY <6>1, PacketAssumption, ClientAssumption DEF Fits
          <5> QED BY <5>1, <5>2
        <4>2. readBuf' = p /\ pc' = "ack"
          BY <2>1, <3>1, <3>3, <4>1
        <4> QED BY <3>1, <3>3, <4>2 DEF InHand
      <3> QED BY <3>2, <3>3
    <2>7. /\ \A sent : ~InHand(m, sent)
          /\ \A answers : Answered(m, answers)' = Answered(m, answers)
      BY <2>1, <2>2 DEF InHand, Answered
    <2> QED BY <1>1, <2>6, <2>7 DEF NextIsUnderway
  <1>6. ConnectStart \/ LinkStall \/ net' = "closed" => ~(net' = "open" /\ attached')
    BY DEF ConnectStart, SocketOpen, LinkStall
  <1> QED BY <1>3, <1>4, <1>5, <1>6, ClientLink

\* The broker takes an answer from the link only together with the step of the
\* handshake that it stands for.
LEMMA BrokerHandshake ==
  ASSUME TypeOK, HandshakeInv, BrokerReads \/ BrokerSends
  PROVE  HandshakeInv'
  <1> DEFINE h == Head(toBroker)
  <1>1. UNCHANGED <<clientVars, net>>
    <2>1. BrokerSends => UNCHANGED <<clientVars, net>>
      BY DEF BrokerSends, BrokerPush, BrokerResend
    <2> QED BY <2>1, BrokerReadsHead
  <1>2. inflight \in [InMsgs -> Progress] /\ onLink \subseteq InMsgs
    BY DEF TypeOK, BrokerTypeOK
  <1>3. ASSUME NEW m \in InMsgs, inflight'[m] # "new", inflight[m] = "new"
        PROVE  BrokerPush(m) /\ InQoS[m] # 0
    <2>1. ASSUME NEW x, NEW a, NEW b, a # "new",
                 inflight' = [inflight EXCEPT ![x] = IF @ = a THEN b ELSE @]
          PROVE  FALSE
      BY <1>2, <1>3, <2>1
    <2>2. ~(BrokerPuback \/ BrokerPubrec \/ BrokerPubcomp)
      BY <2>1 DEF BrokerPuback, BrokerPubrec, BrokerPubcomp
    <2>3. ~\E ok \in BOOLEAN : BrokerConnect(ok)
      BY <1>2, <1>3 DEF BrokerConnect
    <2>4. inflight' # inflight
      BY <1>3
    <2>5. BrokerSends
      BY <2>2, <2>3, <2>4
         DEF BrokerReads, BrokerPublishQoS0, BrokerPublishQoS1, BrokerPublishQoS2, BrokerPubrel,
             BrokerSubscribe, BrokerUnsubscribe, BrokerPingreq, BrokerDisconnect, brokerVars
    <2>6. PICK x \in InMsgs : BrokerPush(x)
      BY <2>4, <2>5 DEF BrokerSends, BrokerResend
    <2> QED BY <1>2, <1>3, <2>4, <2>6 DEF BrokerPush
  <1>4. InflightQoS'
    <2>1. InQoS \in [InMsgs -> 0..2]
      BY PacketAssumption
    <2> QED BY <1>3, <2>1 DEF HandshakeInv, InflightQoS
  <1> SUFFICES ASSUME net = "open", attached', NEW m \in onLink' \ Oversized
               PROVE  NextIsUnderway(m)'
    BY <1>1, <1>4 DEF HandshakeInv
  <1>5. \A sent : /\ OnItsWay(m, sent) => OnItsWay(m, sent)'
                  /\ InHand(m, sent)' = InHand(m, sent)
    BY <1>1, BrokerKeeps DEF OnItsWay, InHand, clientVars
  <1>6. CASE BrokerReads
    <2>1. /\ toBroker # <<>> /\ toBroker' = Tail(toBroker)
      BY <1>6, BrokerReadsHead
    <2>2. /\ h = toBroker[1]
          /\ DOMAIN toBroker = 1..Len(toBroker) /\ Len(toBroker) \in Nat
          /\ DOMAIN toBroker' = 1..(Len(toBroker) - 1)
          /\ \A i \in DOMAIN toBroker' : toBroker'[i] = toBroker[i + 1]
      BY <2>1, Types, HeadTailProperties, LenProperties
    <2>3. ASSUME NEW answers, ~(h.type \in answers /\ h.id = m), Answered(m, answers)
          PROVE  Answered(m, answers)'
      <3>1. PICK i \in DOMAIN toBroker : toBroker[i].type \in answers /\ toBroker[i].id = m
        BY <2>3 DEF Answered
      <3>2. i - 1 \in DOMAIN toBroker' /\ (i - 1) + 1 = i
        BY <2>2, <2>3, <3>1
      <3>3. toBroker'[i - 1] = toBroker[i]
        BY <2>2, <3>2
      <3> QED BY <3>1, <3>2, <3>3 DEF Answered
    <2>4. ~\E ok \in BOOLEAN : BrokerConnect(ok)
      BY DEF BrokerConnect
    <2>5. attached /\ onLink' = onLink
      BY <1>6, <2>4 DEF BrokerReads, Consume, BrokerPublishQoS0, BrokerPublishQoS1,
           BrokerPublishQoS2, BrokerPubrel, BrokerSubscribe, BrokerUnsubscribe, BrokerPingreq,
           BrokerDisconnect, BrokerPuback, BrokerPubrec, BrokerPubcomp, brokerVars
    <2>6. NextIsUnderway(m) /\ m \in InMsgs
      BY <1>2, <2>5 DEF HandshakeInv
    <2> HIDE DEF h
    <2>7. CASE BrokerPuback
      <3>1. h.type = "PUBACK" /\ inflight' = [inflight EXCEPT ![h.id] = IF @ = "published" THEN "done" ELSE @]
        BY <2>7 DEF BrokerPuback, Consume, h
      <3>2. /\ inflight'[m] = "published" => inflight[m] = "published" /\ h.id # m
            /\ inflight'[m] = "released" => inflight[m] = "released"
        BY <1>2, <2>6, <3>1
      <3> QED BY <1>5, <2>3, <2>6, <3>1, <3>2 DEF NextIsUnderway
    <2>8. CASE BrokerPubcomp
      <3>1. h.type = "PUBCOMP" /\ inflight' = [inflight EXCEPT ![h.id] = IF @ = "released" THEN "done" ELSE @]
        BY <2>8 DEF BrokerPubcomp, Consume, h
      <3>2. /\ inflight'[m] = "published" => inflight[m] = "published"
            /\ inflight'[m] = "released" => inflight[m] = "released" /\ h.id # m
        BY <1>2, <2>6, <3>1
      <3> QED BY <1>5, <2>3, <2>6, <3>1, <3>2 DEF NextIsUnderway
    <2>9. CASE BrokerPubrec
      <3>1. /\ h.type = "PUBREC"
            /\ inflight' = [inflight EXCEPT ![h.id] = IF @ = "published" THEN "released" ELSE @]
            /\ toClient' = toClient \o <<EncodeAck("PUBREL", h.id)>>
        BY <2>9 DEF BrokerPubrec, Consume, h
      <3>2. CASE h.id = m
        <4>1. EncodeAck("PUBREL", h.id) \in BrokerPacket
          <5>1. h.id \in PacketIds
            BY <1>6, BrokerReadsHead DEF ClientPacket, Packet, h
          <5> QED BY <5>1, BrokerPackets
        <4>2. toClient' = Append(toClient, EncodeAck("PUBREL", h.id))
          BY <3>1, <4>1, Types, AnswerElements
        <4>3. /\ Len(toClient) + 1 \in DOMAIN toClient'
              /\ toClient'[Len(toClient) + 1] = EncodeAck("PUBREL", h.id)
          BY <4>1, <4>2, Types, AppendProperties, LenProperties
        <4>4. OnItsWay(m, "PUBREL")'
          BY <3>2, <4>3 DEF OnItsWay, EncodeAck, PacketOf
        <4>5. inflight'[m] # "published"
          BY <1>2, <2>6, <3>1, <3>2
        <4> QED BY <4>4, <4>5 DEF NextIsUnderway
      <3>3. CASE h.id # m
        <4>1. inflight'[m] = inflight[m]
          BY <1>2, <2>6, <3>1, <3>3
        <4> QED BY <1>5, <2>3, <2>6, <3>3, <4>1 DEF NextIsUnderway
      <3> QED BY <3>2, <3>3
    <2>10. CASE ~(BrokerPuback \/ BrokerPubrec \/ BrokerPubcomp)
      <3>1. h.type \notin {"PUBACK", "PUBREC", "PUBCOMP"} /\ inflight' = inflight
        BY <1>6, <2>4, <2>10 DEF BrokerReads, Consume, BrokerPublishQoS0, BrokerPublishQoS1,
             BrokerPublishQoS2, BrokerPubrel, BrokerSubscribe, BrokerUnsubscribe, BrokerPingreq,
             BrokerDisconnect, brokerVars, h
      <3> QED BY <1>5, <2>3, <2>6, <3>1 DEF NextIsUnderway
    <2> QED BY <2>7, <2>8, <2>9, <2>10
  <1>7. CASE BrokerSends
    <2>1. toBroker' = toBroker /\ attached
      BY <1>7 DEF BrokerSends, BrokerPush, BrokerResend
    <2>2. \A answers : Answered(m, answers)' = Answered(m, answers)
      BY <2>1 DEF Answered
    <2>3. CASE m \in onLink /\ inflight'[m] = inflight[m]
      BY <1>5, <2>1, <2>2, <2>3 DEF HandshakeInv, NextIsUnderway
    <2>4. ASSUME NEW p \in BrokerPacket, toClient' = Append(toClient, p)
          PROVE  \A sent : p.type = sent /\ p.id = m /\ (sent = "PUBLISH" => p.qos > 0)
                             => OnItsWay(m, sent)'
      <3>1. Len(toClient) + 1 \in DOMAIN toClient' /\ toClient'[Len(toClient) + 1] = p
        BY <2>4, Types, AppendProperties, LenProperties
      <3> QED BY <3>1 DEF OnItsWay
    <2>5. m \in InMsgs
      BY <1>2, <1>7 DEF BrokerSends, BrokerPush, BrokerResend
    <2>6. InQoS[m] \in 0..2
      BY <2>5, PacketAssumption
    <2>7. CASE BrokerPush(m) /\ InQoS[m] # 0
      <3>1. EncodePublish(FALSE, m, InQoS[m], m) \in BrokerPacket
        BY <2>5, <2>7, PacketAssumption DEF BrokerPacket, Packet, PacketTypes, EncodePublish,
                                            PacketOf, PacketIds, Payloads
      <3>2. /\ toClient' = Append(toClient, EncodePublish(FALSE, m, InQoS[m], m))
            /\ inflight'[m] = "published"
        BY <1>2, <2>5, <2>7 DEF BrokerPush
      <3>3. OnItsWay(m, "PUBLISH")'
        BY <2>4, <2>6, <2>7, <3>1, <3>2 DEF EncodePublish, PacketOf
      <3> QED BY <3>2, <3>3 DEF NextIsUnderway
    <2>8. CASE BrokerResend(m)
      <3>1. inflight' = inflight /\ inflight[m] \in {"published", "released"}
        BY <2>8 DEF BrokerResend
      <3>2. InQoS[m] > 0
        BY <2>5, <3>1 DEF HandshakeInv, InflightQoS
      <3>3. CASE inflight[m] = "published"
        <4>1. EncodePublish(TRUE, m, InQoS[m], m) \in BrokerPacket
          BY <2>5, PacketAssumption DEF BrokerPacket, Packet, PacketTypes, EncodePublish,
                                        PacketOf, PacketIds, Payloads
        <4>2. toClient' = Append(toClient, EncodePublish(TRUE, m, InQoS[m], m))
          BY <2>8, <3>3 DEF BrokerResend
        <4>3. OnItsWay(m, "PUBLISH")'
          BY <2>4, <3>2, <4>1, <4>2 DEF EncodePublish, PacketOf
        <4> QED BY <3>1, <3>3, <4>3 DEF NextIsUnderway
      <3>4. CASE inflight[m] = "released"
        <4>1. EncodeAck("PUBREL", m) \in BrokerPacket
          BY <2>5, BrokerPackets DEF PacketIds
        <4>2. toClient' = Append(toClient, EncodeAck("PUBREL", m))
          BY <2>8, <3>4 DEF BrokerResend
        <4>3. OnItsWay(m, "PUBREL")'
          BY <2>4, <4>1, <4>2 DEF EncodeAck, PacketOf
        <4> QED BY <3>1, <3>4, <4>3 DEF NextIsUnderway
      <3> QED BY <3>1, <3>3, <3>4
    <2>9. \/ m \in onLink /\ inflight'[m] = inflight[m]
          \/ BrokerPush(m) /\ InQoS[m] # 0
          \/ BrokerResend(m)
      <3>1. CASE \E x \in InMsgs : BrokerPush(x)
        BY <1>2, <2>5, <3>1 DEF BrokerPush
      <3>2. CASE \E x \in InMsgs : BrokerResend(x)
        BY <3>2 DEF BrokerResend
      <3> QED BY <1>7, <3>1, <3>2 DEF BrokerSends
    <2> QED BY <2>3, <2>7, <2>8, <2>9
  <1> QED BY <1>6, <1>7

LEMMA Handshakes == Spec => []HandshakeInv
  <1>1. Init => BareAnswers /\ HandshakeInv
    BY DEF Init, NetworkInit, BrokerInit, BareAnswers, HandshakeInv, InflightQoS
  <1>2. TypeOK /\ BareAnswers /\ HandshakeInv /\ [Next]_vars => HandshakeInv'
    <2> SUFFICES ASSUME TypeOK, BareAnswers, HandshakeInv, [Next]_vars PROVE HandshakeInv'
      OBVIOUS
    <2>1. CASE UNCHANGED vars
      BY <2>1 DEF vars, networkVars, brokerVars, clientVars, HandshakeInv, InflightQoS,
                  NextIsUnderway, OnItsWay, InHand, Answered
    <2> QED BY <2>1, ClientHandshake, BrokerHandshake DEF Next, ClientStep
  <1> QED BY <1>1, <1>2, NextBare, TypeCorrect, PTL DEF Spec

\* On a connection that lives, the next packet of the handshake of an inbound
\* message is on its way, in the hands of cycle_once, or answered: no handshake
\* is stuck, also after a resumption and next to packets that are dropped.
THEOREM HandshakesUnderway == Spec => []HandshakeUnderway
  <1>1. HandshakeInv => HandshakeUnderway
    BY DEF HandshakeInv, NextIsUnderway, OnItsWay, InHand, Answered, HandshakeUnderway, Underway
  <1> QED BY <1>1, Handshakes, PTL

-----------------------------------------------------------------------------
(* ClientContract: what connect() and connected() know of the broker.      *)

\* connect() holds the CONNACK and has not looked at it.
ConnackHeld == pc = "check" /\ readBuf.type = "CONNACK"

\* The first packet a connection brings is its CONNACK.
AwaitsConnack ==
  /\ toClient # <<>> => toClient[1].type = "CONNACK" /\ toClient[1].msg = NoMsg
  /\ net = "open" /\ attached => toClient # <<>>

\* Nothing runs while no method runs.
IdleSight == pc = "idle" => cmd = NoCommand

\* The client's packets tell whether the broker has accepted the connection.
LinkSight ==
  Live =>
    /\ \A i \in DOMAIN toBroker :
         /\ toBroker[i].type # "DISCONNECT"
         /\ toBroker[i].type = "CONNECT" => ~attached /\ toClient = <<>>
    /\ \A j \in DOMAIN toClient :
         /\ toClient[j].type = "CONNACK" => attached = toClient[j].ok
         /\ toClient[j].type = "PUBLISH" => attached

ConnectSight ==
  Connecting =>
    /\ pc \in {"wait", "check"}
    /\ ConnackHeld => attached = readBuf.ok
    /\ ConnackHeld \/ AwaitsConnack

\* What the state says of the connection, in the packets and between them.
SightInv ==
  /\ IdleSight
  /\ LinkSight
  /\ ConnectSight

-----------------------------------------------------------------------------
(* The steps of the client by what they do to the connection.              *)

Stops == net' = "closed" /\ pc' = "idle"

\* The link is left alone.
Stays ==
  /\ UNCHANGED networkVars
  /\ Live' => Live
  /\ Connecting' =>
       /\ Connecting
       /\ \/ UNCHANGED <<pc, readBuf>>
          \/ pc = "wait" /\ pc' = "check" /\ readBuf' = EncodeZero(NoPacket)
          \/ pc = "check" /\ pc' = "wait" /\ ~Found

\* A packet goes out.
WritesOn ==
  /\ Live
  /\ UNCHANGED <<net, toClient, attached>>
  /\ ~Connecting' \/ (Connecting /\ pc = "ack")
  /\ \E p \in ClientPacket :
       p.type \notin {"CONNECT", "DISCONNECT"} /\ toBroker' = Append(toBroker, p)

\* A packet comes in.
ReadsOn ==
  \E p \in Arriving :
    /\ pc = "wait"
    /\ SocketRead(p)
    /\ cmd'.op = cmd.op
    /\ \/ readBuf' = p /\ (p.type = "CONNACK" => pc' = "check")
       \/ ~Fits(p)

LEMMA WrittenTypes ==
  /\ \A m \in Msgs : PublishPacket(m).type = "PUBLISH"
  /\ \A t \in Topics : /\ EncodeSubscribe(NextPacketId, t).type = "SUBSCRIBE"
                       /\ EncodeUnsubscribe(NextPacketId, t).type = "UNSUBSCRIBE"
  /\ EncodeZero("PINGREQ").type = "PINGREQ"
  /\ EncodeZero("PINGREQ") \in ClientPacket
  BY ClientPackets DEF PublishPacket, EncodePublish, EncodeSubscribe, EncodeUnsubscribe,
                       EncodeZero, PacketOf

LEMMA ClientKinds ==
  ASSUME TypeOK, ExchangeInv, ClientStep
  PROVE  \/ Stops
         \/ ConnectStart
         \/ (LinkReset \/ LinkStall) /\ UNCHANGED clientVars
         \/ Stays
         \/ WritesOn
         \/ ReadsOn
  <1>0. pc = "idle" => ~Connecting
    BY DEF Connecting
  <1>1. CASE ConnectRefused \/ ConnectFails \/ (\E m \in Msgs : PublishFails(m))
             \/ (\E t \in Topics : RequestFails(t)) \/ Disconnect
             \/ SendAckFails \/ ReadPacketFails \/ ReadFails \/ CommandRejected
             \/ CommandTimesOut \/ PongTimeout \/ SendPingFails \/ PowerCycle
    BY <1>1 DEF ConnectRefused, ConnectFails, PublishFails, RequestFails, Disconnect,
                SendAckFails, ReadPacketFails, ReadFails, CommandRejected, CommandTimesOut,
                PongTimeout, SendPingFails, PowerCycle, Fail, Close, SocketStop, Idle, Stops
  <1>2. CASE \/ PrepareDuplicate \/ ReadNothing \/ NextCycle \/ CommandTimerExpires
             \/ KeepAliveTimerExpires
    BY <1>2 DEF PrepareDuplicate, ReadNothing, NextCycle, CommandTimerExpires,
                KeepAliveTimerExpires, Stays, Live, SocketConnected, Connecting, networkVars
  <1>3. CASE CommandAcked \/ NoPingDue \/ YieldEnds \/ LoopYields \/ LoopSkipsYield
    <2>1. UNCHANGED networkVars /\ Live
      BY <1>3 DEF CommandAcked, NoPingDue, YieldEnds, LoopYields, LoopSkipsYield, LoopStarts,
                  Connected, Live
    <2>2. ~Connecting'
      <3>1. CASE CommandAcked \/ NoPingDue
        BY <3>1 DEF CommandAcked, NoPingDue, Succeed, Idle, Connecting
      <3>2. CASE YieldEnds
        BY <3>2 DEF YieldEnds, Connecting
      <3>3. CASE LoopYields \/ LoopSkipsYield
        BY <3>3 DEF LoopYields, LoopSkipsYield, LoopStarts, LoopCommand, Command, Connecting
      <3> QED BY <1>3, <3>1, <3>2, <3>3
    <2> QED BY <2>1, <2>2 DEF Stays
  <1>4. ASSUME NEW m \in Msgs, PublishQoS0(m) \/ PublishStart(m) PROVE WritesOn
    <2>1. /\ MayPublish(m) /\ UNCHANGED <<net, toClient, attached>>
          /\ toBroker' = Append(toBroker, PublishPacket(m))
          /\ \/ pc' = "idle"
             \/ cmd' = PublishCommand(m)
      BY <1>4 DEF PublishQoS0, PublishStart, SendPacket, SocketWrite, Succeed, Idle, Wait
    <2>2. ~Connecting' /\ Live
      BY <2>1 DEF Connecting, PublishCommand, Command, MayPublish, Connected, Live
    <2> QED BY <2>1, <2>2, WrittenPackets, WrittenTypes DEF WritesOn
  <1>5. ASSUME NEW t \in Topics, SubscribeStart(t) \/ UnsubscribeStart(t) PROVE WritesOn
    <2>1. PICK p \in {EncodeSubscribe(NextPacketId, t), EncodeUnsubscribe(NextPacketId, t)} :
            toBroker' = Append(toBroker, p)
      BY <1>5 DEF SubscribeStart, UnsubscribeStart, Request, SendPacket, SocketWrite
    <2>2. /\ UNCHANGED <<net, toClient, attached>> /\ Connected
          /\ cmd'.op \in {"subscribe", "unsubscribe"}
      BY <1>5 DEF SubscribeStart, UnsubscribeStart, Request, SendPacket, SocketWrite, Wait,
                  SubscribeCommand, UnsubscribeCommand, Command
    <2>3. ~Connecting' /\ Live
      BY <2>2 DEF Connecting, Connected, Live
    <2> QED BY <2>1, <2>2, <2>3, WrittenPackets, WrittenTypes DEF WritesOn
  <1>6. CASE SendAck
    <2>1. /\ UNCHANGED <<net, toClient, attached, cmd>>
          /\ pc = "ack" /\ toBroker' = Append(toBroker, Answer(readBuf))
      BY <1>6 DEF SendAck, SendPacket, SocketWrite
    <2>2. readBuf.type \in {"PUBLISH", "PUBREC", "PUBREL"}
      BY <2>1 DEF TypeOK, MethodTypeOK
    <2>3. Answer(readBuf).type \notin {"CONNECT", "DISCONNECT"}
      BY <2>2 DEF Answer, EncodeAck, PacketOf
    <2> QED BY <2>1, <2>3, WrittenPackets DEF WritesOn, Live, Connecting
  <1>7. CASE SendPing
    <2>1. /\ UNCHANGED <<net, toClient, attached>> /\ pc' = "idle" /\ Live
          /\ toBroker' = Append(toBroker, EncodeZero("PINGREQ"))
      BY <1>7 DEF SendPing, SendPacket, SocketWrite, Succeed, Idle, Live
    <2> QED BY <2>1, WrittenTypes DEF WritesOn, Connecting
  <1>8. CASE \/ ReceivePublish \/ ReceiveAckToAnswer \/ ReceivePingresp \/ ReceiveOther
    <2>1. PICK p \in Arriving : Receive(p) /\ (p.type = "CONNACK" => pc' = "check")
      BY <1>8 DEF ReceivePublish, ReceiveAckToAnswer, ReceivePingresp, ReceiveOther
    <2>2. cmd'.op = cmd.op
      BY <2>1 DEF Receive, TypeOK, MethodTypeOK, Commands
    <2> QED BY <2>1, <2>2 DEF Receive, ReadsOn
  <1>9. CASE DropPacket
    BY <1>9 DEF DropPacket, ReadsOn
  <1>10. CASE (LinkReset \/ LinkStall) /\ UNCHANGED clientVars
    BY <1>10
  <1> QED BY <1>1, <1>2, <1>3, <1>4, <1>5, <1>6, <1>7, <1>8, <1>9, <1>10
          DEF ClientStep, Call, Run, Environment

-----------------------------------------------------------------------------
(* SightInv is inductive.                                                  *)

LEMMA NextIdle == TypeOK /\ IdleSight /\ [Next]_vars => IdleSight'
  <1> SUFFICES ASSUME IdleSight, [Next]_vars PROVE IdleSight'
    OBVIOUS
  <1>1. CASE UNCHANGED vars \/ BrokerReads \/ BrokerSends
    <2>1. UNCHANGED <<pc, cmd>>
      BY <1>1 DEF vars, clientVars, BrokerReads, BrokerSends
    <2> QED BY <2>1 DEF IdleSight
  <1>2. CASE Call
    BY <1>2 DEF Call, ConnectRefused, ConnectStart, ConnectFails, PublishQoS0, PublishStart,
                PublishFails, PrepareDuplicate, SubscribeStart, UnsubscribeStart, Request,
                RequestFails, Disconnect, LoopYields, LoopSkipsYield, LoopStarts, Wait,
                Succeed, Fail, Idle, IdleSight
  <1>3. CASE Run
    BY <1>3 DEF Run, ReceivePublish, ReceiveAckToAnswer, ReceivePingresp, ReceiveOther,
                SendAck, SendAckFails, DropPacket, ReadPacketFails, ReadFails, ReadNothing,
                NextCycle, CommandAcked, CommandRejected, CommandTimesOut, YieldEnds,
                NoPingDue, PongTimeout, SendPing, SendPingFails, Succeed, Fail, Idle, IdleSight
  <1>4. CASE Environment
    BY <1>4 DEF Environment, CommandTimerExpires, KeepAliveTimerExpires, PowerCycle, Idle,
                LinkReset, LinkStall, clientVars, IdleSight
  <1> QED BY <1>1, <1>2, <1>3, <1>4 DEF Next

LEMMA ClientSight ==
  ASSUME TypeOK, ExchangeInv, ExchangeInv', LinkSight, ConnectSight, ClientStep
  PROVE  LinkSight' /\ ConnectSight'
  <1>1. CASE Stops
    BY <1>1 DEF Stops, LinkSight, ConnectSight, Live, SocketConnected, Connecting
  <1>2. CASE ConnectStart
    <2>1. /\ toBroker' = <<EncodeConnect>>
          /\ toClient' = <<>>
          /\ attached' = FALSE
          /\ pc' = "wait"
      BY <1>2 DEF ConnectStart, SocketOpen, Wait
    <2>2. EncodeConnect.type = "CONNECT"
      BY DEF EncodeConnect, EncodeZero, PacketOf
    <2> QED BY <2>1, <2>2 DEF LinkSight, ConnectSight, ConnackHeld, AwaitsConnack
  <1>3. CASE LinkReset /\ UNCHANGED clientVars
    <2>1. /\ net' = "closed" /\ toClient' = <<>> /\ UNCHANGED <<toBroker, attached>>
      BY <1>3 DEF LinkReset, SocketStop
    <2>2. LinkSight'
      BY <1>3, <2>1 DEF LinkSight, Live, SocketConnected, clientVars
    <2>3. ConnectSight'
      BY <1>3, <2>1 DEF ConnectSight, Connecting, ConnackHeld, AwaitsConnack, clientVars
    <2> QED BY <2>2, <2>3
  <1>4. CASE LinkStall /\ UNCHANGED clientVars
    <2>1. PICK k \in 0..Len(toClient) : toClient' = SubSeq(toClient, 1, k)
      BY <1>4 DEF LinkStall
    <2>2. /\ \A i \in DOMAIN toClient' : i \in DOMAIN toClient /\ toClient'[i] = toClient[i]
          /\ toClient' # <<>> => 1 \in DOMAIN toClient'
          /\ toClient = <<>> => toClient' = <<>>
      BY <2>1, Types, SubSeqProperties, LenProperties, EmptySeq
    <2>3. Live /\ net' = "half" /\ UNCHANGED <<toBroker, attached>>
      BY <1>4 DEF LinkStall, Live, SocketConnected
    <2>4. LinkSight'
      BY <2>2, <2>3 DEF LinkSight
    <2>5. ConnectSight'
      BY <1>4, <2>2, <2>3 DEF ConnectSight, Connecting, ConnackHeld, AwaitsConnack, clientVars
    <2> QED BY <2>4, <2>5
  <1>5. CASE Stays
    <2>1. LinkSight'
      BY <1>5 DEF Stays, LinkSight, networkVars
    <2>2. ConnectSight'
      <3> SUFFICES ASSUME Connecting' PROVE ConnectSight'
        BY DEF ConnectSight
      <3>1. /\ Connecting
            /\ AwaitsConnack' = AwaitsConnack
            /\ cmd.needle = "CONNACK"
        BY <1>5 DEF Stays, networkVars, AwaitsConnack, ExchangeInv, CommandNeedle, Connecting
      <3>2. CASE UNCHANGED <<pc, readBuf>>
        BY <1>5, <3>1, <3>2 DEF Stays, ConnectSight, ConnackHeld, networkVars
      <3>3. CASE pc = "wait" /\ pc' = "check" /\ readBuf' = EncodeZero(NoPacket)
        BY <3>1, <3>3 DEF ConnectSight, ConnackHeld, EncodeZero, PacketOf, NoPacket
      <3>4. CASE pc = "check" /\ pc' = "wait" /\ ~Found
        BY <3>1, <3>4 DEF ConnectSight, ConnackHeld, Found
      <3> QED BY <1>5, <3>2, <3>3, <3>4 DEF Stays
    <2> QED BY <2>1, <2>2
  <1>6. CASE WritesOn
    <2>1. PICK p \in ClientPacket :
            p.type \notin {"CONNECT", "DISCONNECT"} /\ toBroker' = Append(toBroker, p)
      BY <1>6 DEF WritesOn
    <2>2. \A i \in DOMAIN toBroker' :
            \/ i \in DOMAIN toBroker /\ toBroker'[i] = toBroker[i]
            \/ toBroker'[i].type \notin {"CONNECT", "DISCONNECT"}
      BY <2>1, Types, AppendElements
    <2>3. LinkSight'
      BY <1>6, <2>2 DEF WritesOn, LinkSight
    <2>4. ~Connecting'
      BY <1>6 DEF WritesOn, ConnectSight
    <2> QED BY <2>3, <2>4 DEF ConnectSight
  <1>7. CASE ReadsOn
    <2>1. PICK p \in Arriving :
            /\ pc = "wait" /\ SocketRead(p) /\ cmd'.op = cmd.op
            /\ \/ readBuf' = p /\ (p.type = "CONNACK" => pc' = "check")
               \/ ~Fits(p)
      BY <1>7 DEF ReadsOn
    <2>2. /\ UNCHANGED <<net, toBroker, attached>>
          /\ toClient # <<>> /\ toClient' = Tail(toClient)
          /\ p = toClient[1] /\ 1 \in DOMAIN toClient
          /\ \A i \in DOMAIN toClient' : i + 1 \in DOMAIN toClient /\ toClient'[i] = toClient[i + 1]
      BY <2>1, Types, TailElements DEF SocketRead, Arriving
    <2>3. Live
      BY <2>1 DEF Live
    <2>4. LinkSight'
      BY <2>2, <2>3 DEF LinkSight
    <2>5. ASSUME Connecting'
          PROVE  ConnackHeld' /\ pc' = "check" /\ attached = readBuf'.ok
      <3>1. Connecting /\ ~ConnackHeld
        BY <2>1, <2>5 DEF Connecting, ConnackHeld
      <3>2. p.type = "CONNACK" /\ p.msg = NoMsg
        BY <2>2, <3>1 DEF ConnectSight, AwaitsConnack
      <3>3. Fits(p)
        BY <3>2, PacketAssumption, ClientAssumption DEF Fits
      <3> QED BY <2>1, <2>2, <2>3, <3>2, <3>3 DEF ConnackHeld, LinkSight
    <2>6. ConnectSight'
      BY <2>2, <2>5 DEF ConnectSight
    <2> QED BY <2>4, <2>6
  <1> QED BY <1>1, <1>2, <1>3, <1>4, <1>5, <1>6, <1>7, ClientKinds

LEMMA SentKinds ==
  ASSUME TypeOK, NEW a, Sent(a)
  PROVE  /\ a.type = "CONNACK" => \E ok \in BOOLEAN : BrokerConnect(ok) /\ a = Connack(ok)
         /\ a.type = "PUBLISH" => attached
         /\ \A ok \in BOOLEAN : Connack(ok).type = "CONNACK" /\ Connack(ok).ok = ok
                                /\ Connack(ok).msg = NoMsg
  <1>1. \/ \E ok \in BOOLEAN : BrokerConnect(ok) /\ a = Connack(ok)
        \/ \E t \in {"PUBACK", "PUBREC", "PUBREL", "PUBCOMP", "UNSUBACK"} :
             \E id : a = EncodeAck(t, id)
        \/ \E ok, id : a = Suback(id, ok)
        \/ a = EncodeZero("PINGRESP")
        \/ attached /\ \E dup, id, qos, m : a = EncodePublish(dup, id, qos, m)
    BY DEF Sent, BrokerPush, BrokerResend
  <1> QED BY <1>1 DEF Connack, EncodeAck, Suback, EncodeZero, EncodePublish, PacketOf

\* The broker accepts or refuses a connection once, at its CONNECT, and learns
\* that it was closed only after it was.
LEMMA BrokerAttaches ==
  ASSUME TypeOK, ExchangeInv, LinkSight, BrokerReads \/ BrokerSends
  PROVE  /\ UNCHANGED <<net, clientVars>>
         /\ \/ \E ok \in BOOLEAN :
                 /\ BrokerConnect(ok)
                 /\ attached' = ok
                 /\ \E i \in DOMAIN toBroker : toBroker[i].type = "CONNECT"
                 /\ \A i \in DOMAIN toBroker' : toBroker'[i].type # "CONNECT"
                 /\ net = "open" => toClient' = Append(toClient, Connack(ok))
                 /\ net # "open" => toClient' = toClient
            \/ /\ attached
               /\ Live => attached'
               /\ ~\E ok \in BOOLEAN : BrokerConnect(ok)
  <1>1. UNCHANGED <<net, clientVars>>
    BY BrokerReadsHead DEF BrokerSends, BrokerPush, BrokerResend
  <1>2. ASSUME NEW ok \in BOOLEAN, BrokerConnect(ok)
        PROVE  /\ attached' = ok
               /\ \E i \in DOMAIN toBroker : toBroker[i].type = "CONNECT"
               /\ \A i \in DOMAIN toBroker' : toBroker'[i].type # "CONNECT"
               /\ net = "open" => toClient' = Append(toClient, Connack(ok))
               /\ net # "open" => toClient' = toClient
    <2>1. /\ attached' = ok /\ toBroker # <<>> /\ toBroker' = Tail(toBroker)
          /\ Head(toBroker).type = "CONNECT"
          /\ toClient' = IF net = "open" THEN Append(toClient, Connack(ok)) ELSE toClient
      BY <1>2 DEF BrokerConnect
    <2>2. IsRequest(Head(toBroker))
      BY <2>1 DEF IsRequest
    <2> QED BY <2>1, <2>2, RequestsAfterTail DEF ExchangeInv, IsRequest
  <1>3. CASE BrokerSends
    <2>1. attached /\ attached' = attached /\ toBroker' = toBroker
      BY <1>3 DEF BrokerSends, BrokerPush, BrokerResend
    <2>2. ~\E ok \in BOOLEAN : BrokerConnect(ok)
      <3> SUFFICES ASSUME NEW ok \in BOOLEAN, BrokerConnect(ok) PROVE FALSE
        OBVIOUS
      <3>1. toBroker # <<>> /\ toBroker = Tail(toBroker)
        BY <2>1 DEF BrokerConnect
      <3> QED BY <3>1, Types, HeadTailProperties, LenProperties
    <2> QED BY <1>1, <2>1, <2>2
  <1>4. CASE BrokerReads /\ ~(\E ok \in BOOLEAN : BrokerConnect(ok)) /\ ~BrokerDisconnect
    <2>1. attached /\ attached' = attached
      BY <1>4 DEF BrokerReads, BrokerPublishQoS0, BrokerPublishQoS1, BrokerPublishQoS2,
                  BrokerPubrel, BrokerSubscribe, BrokerUnsubscribe, BrokerPingreq,
                  BrokerPuback, BrokerPubrec, BrokerPubcomp, Consume
    <2> QED BY <1>1, <1>4, <2>1
  <1>5. CASE BrokerDisconnect /\ ~\E ok \in BOOLEAN : BrokerConnect(ok)
    <2>1. attached /\ toBroker # <<>> /\ Head(toBroker).type = "DISCONNECT"
      BY <1>5 DEF BrokerDisconnect, Consume
    <2>2. ~Live
      BY <2>1, Types, TailElements DEF LinkSight
    <2> QED BY <1>1, <1>5, <2>1, <2>2
  <1> QED BY <1>1, <1>2, <1>3, <1>4, <1>5

LEMMA BrokerSight ==
  ASSUME TypeOK, ExchangeInv, LinkSight, ConnectSight, BrokerReads \/ BrokerSends
  PROVE  LinkSight' /\ ConnectSight'
  <1>1. /\ (Live' <=> Live) /\ (Connecting' <=> Connecting) /\ (ConnackHeld' <=> ConnackHeld)
        /\ UNCHANGED <<pc, readBuf, net>>
    BY BrokerAttaches DEF Live, SocketConnected, Connecting, ConnackHeld, clientVars
  <1>2. \A i \in DOMAIN toBroker' : \E k \in DOMAIN toBroker : toBroker'[i] = toBroker[k]
    BY BrokerReadsHead DEF BrokerSends, BrokerPush, BrokerResend
  <1>3. \A j \in DOMAIN toClient' :
          \/ j \in DOMAIN toClient /\ toClient'[j] = toClient[j]
          \/ net = "open" /\ Sent(toClient'[j])
    BY BrokerWrites
  <1>4. toClient # <<>> => toClient' # <<>> /\ toClient'[1] = toClient[1]
    BY BrokerKeeps, Types, TailElements
  <1>5. CASE \E ok \in BOOLEAN : BrokerConnect(ok)
    <2>1. PICK ok \in BOOLEAN :
            /\ BrokerConnect(ok)
            /\ attached' = ok
            /\ \E i \in DOMAIN toBroker : toBroker[i].type = "CONNECT"
            /\ \A i \in DOMAIN toBroker' : toBroker'[i].type # "CONNECT"
            /\ net = "open" => toClient' = Append(toClient, Connack(ok))
            /\ net # "open" => toClient' = toClient
      BY <1>5, BrokerAttaches
    <2>2. Live => toClient = <<>> /\ ~Held
      BY <2>1 DEF LinkSight, ExchangeInv, RequestAsks, IsRequest
    <2>3. /\ Connack(ok).type = "CONNACK" /\ Connack(ok).ok = ok /\ Connack(ok).msg = NoMsg
          /\ Connack(ok) \in BrokerPacket
      BY BrokerPackets DEF Connack, PacketOf
    <2>4. Live => \A j \in DOMAIN toClient' : toClient'[j] = Connack(ok)
      BY <2>1, <2>2, <2>3, Types, AppendElements
    <2>5. LinkSight'
      BY <1>1, <1>2, <2>1, <2>3, <2>4 DEF LinkSight
    <2>6. ASSUME Connecting PROVE ~ConnackHeld /\ AwaitsConnack'
      <3>1. Live /\ cmd.needle = "CONNACK"
        BY <2>6 DEF Connecting, Live, ExchangeInv, CommandNeedle
      <3>2. ~ConnackHeld
        BY <2>2, <3>1 DEF ConnackHeld, Held, IsAnswer
      <3>3. net = "open" => toClient' # <<>>
        BY <2>1, <2>3, Types, AppendProperties, EmptySeq
      <3>4. toClient' # <<>> => 1 \in DOMAIN toClient'
        <4>1. CASE net = "open"
          BY <2>1, <2>3, <4>1, Types, AppendProperties, LenProperties
        <4>2. CASE net # "open"
          BY <2>1, <2>2, <3>1, <4>2
        <4> QED BY <4>1, <4>2
      <3> QED BY <1>1, <2>3, <2>4, <3>1, <3>2, <3>3, <3>4 DEF AwaitsConnack
    <2>7. ConnectSight'
      BY <1>1, <2>6 DEF ConnectSight
    <2> QED BY <2>5, <2>7
  <1>6. CASE ~\E ok \in BOOLEAN : BrokerConnect(ok)
    <2>1. attached /\ (Live => attached')
      BY <1>6, BrokerAttaches
    <2>2. \A j \in DOMAIN toClient' :
            \/ j \in DOMAIN toClient /\ toClient'[j] = toClient[j]
            \/ net = "open" /\ toClient'[j].type # "CONNACK"
      BY <1>3, <1>6, SentKinds
    <2>3. LinkSight'
      BY <1>1, <1>2, <2>1, <2>2 DEF LinkSight
    <2>4. ASSUME Connecting, AwaitsConnack PROVE AwaitsConnack'
      <3>1. Live
        BY <2>4 DEF Connecting, Live
      <3>2. CASE toClient # <<>>
        BY <1>4, <2>4, <3>2 DEF AwaitsConnack
      <3>3. CASE toClient = <<>>
        <4>1. net # "open"
          BY <2>1, <2>4, <3>3 DEF AwaitsConnack
        <4>2. toClient' = toClient
          BY <4>1, BrokerAppends
        <4> QED BY <1>1, <3>3, <4>1, <4>2 DEF AwaitsConnack
      <3> QED BY <3>2, <3>3
    <2>5. Connecting => attached' = attached
      BY <2>1 DEF Connecting, Live, TypeOK, NetworkTypeOK
    <2>6. ConnectSight'
      BY <1>1, <2>4, <2>5 DEF ConnectSight
    <2> QED BY <2>3, <2>6
  <1> QED BY <1>5, <1>6

LEMMA NextSight ==
  TypeOK /\ TypeOK' /\ ExchangeInv /\ ExchangeInv' /\ SightInv /\ [Next]_vars => SightInv'
  <1> SUFFICES ASSUME TypeOK, TypeOK', ExchangeInv, ExchangeInv', SightInv, [Next]_vars
               PROVE  LinkSight' /\ ConnectSight'
    BY NextIdle DEF SightInv
  <1>1. CASE UNCHANGED vars
    BY <1>1 DEF vars, networkVars, clientVars, SightInv, LinkSight, ConnectSight, ConnackHeld,
                AwaitsConnack, Live, SocketConnected, Connecting
  <1>2. CASE ClientStep
    BY <1>2, ClientSight DEF SightInv
  <1>3. CASE BrokerReads \/ BrokerSends
    BY <1>3, BrokerSight DEF SightInv
  <1> QED BY <1>1, <1>2, <1>3 DEF Next, ClientStep

LEMMA Sight == Spec => []SightInv
  <1>1. Init => SightInv
    BY DEF Init, NetworkInit, ClientInit, SightInv, IdleSight, LinkSight, ConnectSight, Live,
           SocketConnected, Connecting
  <1> QED BY <1>1, NextSight, Exchange, TypeCorrect, PTL DEF Spec

-----------------------------------------------------------------------------
(* The requests under way, as the contract sees them.                      *)

Asked(p) == p.type \in DOMAIN RequestNames

LEMMA AskedTypes ==
  \A p : /\ Asked(p) <=> p.type \in {"CONNECT", "SUBSCRIBE", "UNSUBSCRIBE"}
         /\ Asked(p) => IsRequest(p)
  BY DEF Asked, RequestNames, IsRequest

\* What RequestView is: no request, or the only one.
ViewIsRequest ==
  /\ (\A i \in DOMAIN toBroker : ~Asked(toBroker[i])) => RequestView = CallView("none", NoMsg)
  /\ OneRequest =>
       \A k \in DOMAIN toBroker :
         Asked(toBroker[k]) =>
           RequestView = CallView(RequestNames[toBroker[k].type], toBroker[k].msg)

LEMMA RequestSeen == ViewIsRequest
  <1>1. (\A i \in DOMAIN toBroker : ~Asked(toBroker[i])) => RequestView = CallView("none", NoMsg)
    BY DEF RequestView, Requests, Asked
  <1>2. ASSUME OneRequest, NEW k \in DOMAIN toBroker, Asked(toBroker[k])
        PROVE  RequestView = CallView(RequestNames[toBroker[k].type], toBroker[k].msg)
    <2>1. Requests = {k}
      BY <1>2, AskedTypes DEF Requests, Asked, OneRequest
    <2>2. (CHOOSE i \in Requests : TRUE) = k
      BY <2>1
    <2> QED BY <2>1, <2>2 DEF RequestView
  <1> QED BY <1>1, <1>2 DEF ViewIsRequest

LEMMA RequestSeenNext == ViewIsRequest'
  BY RequestSeen, PTL

\* The packets of a connection but the requests are no part of the view.
LEMMA ViewAfterWrite ==
  ASSUME TypeOK, OneRequest, OneRequest', NEW p \in ClientPacket, ~Asked(p),
         toBroker' = Append(toBroker, p)
  PROVE  RequestView' = RequestView
  <1>1. /\ \A i \in DOMAIN toBroker' :
             \/ i \in DOMAIN toBroker /\ toBroker'[i] = toBroker[i]
             \/ toBroker'[i] = p
        /\ \A i \in DOMAIN toBroker : i \in DOMAIN toBroker' /\ toBroker'[i] = toBroker[i]
    BY Types, AppendElements, AppendProperties, LenProperties
  <1> QED BY <1>1, RequestSeen, RequestSeenNext DEF ViewIsRequest

LEMMA ViewAfterRead ==
  ASSUME TypeOK, OneRequest, OneRequest', toBroker # <<>>, ~Asked(Head(toBroker)),
         toBroker' = Tail(toBroker)
  PROVE  RequestView' = RequestView
  <1>1. /\ Head(toBroker) = toBroker[1]
        /\ \A i \in DOMAIN toBroker' : i + 1 \in DOMAIN toBroker /\ toBroker'[i] = toBroker[i + 1]
        /\ \A i \in DOMAIN toBroker : i = 1 \/ (/\ i - 1 \in DOMAIN toBroker'
                                              /\ toBroker'[i - 1] = toBroker[i])
    BY Types, TailElements, HeadTailProperties, LenProperties
  <1>2. CASE \E k \in DOMAIN toBroker : Asked(toBroker[k])
    <2>1. PICK k \in DOMAIN toBroker : Asked(toBroker[k])
      BY <1>2
    <2>2. PICK n \in DOMAIN toBroker' : toBroker'[n] = toBroker[k]
      BY <1>1, <2>1
    <2>3. RequestView = CallView(RequestNames[toBroker[k].type], toBroker[k].msg)
      BY <2>1, RequestSeen DEF ViewIsRequest
    <2>4. RequestView' = CallView(RequestNames[toBroker'[n].type], toBroker'[n].msg)
      BY <2>1, <2>2, RequestSeenNext DEF ViewIsRequest
    <2> QED BY <2>2, <2>3, <2>4
  <1>3. CASE ~\E k \in DOMAIN toBroker : Asked(toBroker[k])
    <2>1. \A i \in DOMAIN toBroker' : ~Asked(toBroker'[i])
      BY <1>1, <1>3
    <2> QED BY <1>3, <2>1, RequestSeen, RequestSeenNext DEF ViewIsRequest
  <1> QED BY <1>2, <1>3

\* The request is the only one: written where there was none, and gone when it
\* was read.
LEMMA ViewOfRequest ==
  ASSUME TypeOK, Silent, OneRequest', NEW p \in ClientPacket, Asked(p),
         toBroker' = Append(toBroker, p)
  PROVE  /\ RequestView = CallView("none", NoMsg)
         /\ RequestView' = CallView(RequestNames[p.type], p.msg)
  <1>1. Len(toBroker) + 1 \in DOMAIN toBroker' /\ toBroker'[Len(toBroker) + 1] = p
    BY Types, AppendProperties, LenProperties
  <1> QED BY <1>1, AskedTypes, RequestSeen, RequestSeenNext DEF ViewIsRequest, Silent

LEMMA ViewOfHead ==
  ASSUME TypeOK, OneRequest, toBroker # <<>>, Asked(Head(toBroker)), toBroker' = Tail(toBroker)
  PROVE  /\ RequestView = CallView(RequestNames[Head(toBroker).type], Head(toBroker).msg)
         /\ RequestView' = CallView("none", NoMsg)
  <1>1. Head(toBroker) = toBroker[1] /\ 1 \in DOMAIN toBroker
    BY Types, TailElements
  <1>2. \A i \in DOMAIN toBroker' : ~IsRequest(toBroker'[i])
    BY AskedTypes, RequestsAfterTail
  <1> QED BY <1>1, <1>2, AskedTypes, RequestSeen, RequestSeenNext DEF ViewIsRequest

-----------------------------------------------------------------------------
(* Every step as a step of the contract: first the pieces.                 *)

Known == TypeOK /\ ExchangeInv /\ SubsInv /\ SightInv

MethodView == CallView(cmd.op, FilterOf(cmd))

LEMMA Calls ==
  \A op, t : CallView(op, t) = Contract!CallOf(op, t, LevelOf(op))
  BY DEF CallView, Contract!CallOf

LEMMA NoCalls ==
  /\ Contract!NoCall = CallView("none", NoMsg)
  /\ \A op, t : CallView(op, t) = Contract!NoCall => op = "none"
  /\ \A op, t : CallView(op, t).op = op /\ CallView(op, t).topic = t
                /\ CallView(op, t).qos = LevelOf(op)
  /\ LevelOf("subscribe") = 0
  /\ \A op : op # "subscribe" => LevelOf(op) = Contract!NoQoS
  BY DEF CallView, LevelOf, Contract!NoCall, Contract!CallOf, Contract!NoQoS

LEMMA IdleSeen ==
  /\ Known /\ pc = "idle" => MethodView = Contract!NoCall
  /\ Idle => MethodView' = Contract!NoCall
  BY NoCalls DEF Known, SightInv, IdleSight, MethodView, Idle, NoCommand, Command, FilterOf

LEMMA MethodSeen ==
  ASSUME Known
  PROVE  /\ MethodView.op = cmd.op
         /\ pc # "idle" =>
              cmd.op \in {"connect", "publish", "subscribe", "unsubscribe", "loop"}
         /\ cmd.op \in {"subscribe", "unsubscribe"} =>
              cmd.msg \in Topics /\ MethodView.topic = cmd.msg
         /\ MethodView.qos = LevelOf(cmd.op)
  BY NoCalls DEF Known, TypeOK, MethodTypeOK, Commands, ExchangeInv, CommandNeedle, MethodView,
                 FilterOf

LEMMA SameRequest == toBroker' = toBroker => RequestView' = RequestView
  BY DEF RequestView, Requests

LEMMA SameSession == subs' = subs => SessionView' = SessionView
  BY DEF SessionView

\* Nothing that the contract speaks of has changed.
LEMMA Unseen ==
  ASSUME SocketConnected' = SocketConnected, UNCHANGED <<connected, attached, returnCode, delivered>>,
         MethodView' = MethodView, RequestView' = RequestView, SessionView' = SessionView
  PROVE  UNCHANGED Contract!contractVars
  BY DEF Contract!contractVars, MethodView

\* A method that has returned false.
LEMMA FailSeen ==
  ASSUME NEW c, NEW err, Fail(c, err)
  PROVE  /\ SocketConnected' = FALSE /\ connected' = FALSE /\ attached' = attached
         /\ MethodView' = Contract!NoCall
         /\ c.op # "connect" => returnCode' = returnCode
         /\ c.op = "connect" => returnCode' = IF err = "CONNECTION_DENIED" THEN "denied"
                                              ELSE "unknown"
  BY IdleSeen DEF Fail, Close, SocketStop, SocketConnected

\* A running method fails and leaves the link and the broker alone.
LEMMA FailsSeen ==
  ASSUME Known, pc # "idle", NEW err, Fail(cmd, err),
         err # "CONNECTION_DENIED", UNCHANGED <<toBroker, delivered, subs>>
  PROVE  Contract!Methods
  <1>1. /\ RequestView' = RequestView /\ SessionView' = SessionView
        /\ SocketConnected' = FALSE /\ connected' = FALSE /\ UNCHANGED <<attached, delivered>>
        /\ MethodView' = Contract!NoCall
    BY SameRequest, SameSession, FailSeen
  <1>2. Contract!CloseAndReturn
    BY <1>1 DEF Contract!CloseAndReturn, MethodView
  <1>3. CASE cmd.op = "connect"
    <2>1. Contract!ConnectUnanswered
      BY <1>2, <1>3, MethodSeen, FailSeen DEF Contract!ConnectUnanswered, MethodView
    <2> QED BY <2>1 DEF Contract!Methods
  <1>4. CASE cmd.op # "connect"
    <2>1. Contract!MethodReturnsFalse
      BY <1>2, <1>4, MethodSeen, FailSeen DEF Contract!MethodReturnsFalse, MethodView
    <2> QED BY <2>1 DEF Contract!Methods
  <1> QED BY <1>3, <1>4

\* A method fails before it has written anything.
LEMMA FailsAtOnceSeen ==
  ASSUME Known, pc = "idle", Connected, NEW c, NEW err, Fail(c, err), c.op # "connect",
         UNCHANGED <<toBroker, delivered, subs>>
  PROVE  Contract!Methods
  <1>1. /\ RequestView' = RequestView /\ SessionView' = SessionView
        /\ SocketConnected' = FALSE /\ connected' = FALSE
        /\ UNCHANGED <<attached, delivered, returnCode>>
        /\ MethodView' = Contract!NoCall
    BY SameRequest, SameSession, FailSeen
  <1>2. MethodView = Contract!NoCall
    BY IdleSeen
  <1>3. Contract!FailsAtOnce
    BY <1>1, <1>2 DEF Contract!FailsAtOnce, Contract!CloseAndReturn, Contract!NoMethod,
                      Contract!Connected, Connected, MethodView
  <1> QED BY <1>3 DEF Contract!Methods

\* A method starts and waits.
LEMMA StartSeen ==
  ASSUME Known, pc = "idle", Connected, SocketConnected' = SocketConnected,
         UNCHANGED <<connected, attached, returnCode, delivered, subs>>
  PROVE  Contract!MethodStart(MethodView')
  BY IdleSeen, SameSession DEF Contract!MethodStart, Contract!NoMethod, Contract!Connected,
                               Connected, MethodView

-----------------------------------------------------------------------------
(* The calls.                                                              *)

LEMMA ConnectSeen ==
  ASSUME Known, Known', UNCHANGED brokerVars, ConnectRefused \/ ConnectStart \/ ConnectFails
  PROVE  Contract!Methods
  <1>1. SessionView' = SessionView
    BY SameSession DEF brokerVars
  <1>2. MethodView = Contract!NoCall
    BY IdleSeen DEF ConnectRefused, ConnectStart, ConnectFails
  <1>3. CASE ConnectRefused
    <2>1. /\ SocketConnected' = FALSE
          /\ connected' = (connected /\ ~SocketConnected)
          /\ UNCHANGED <<toBroker, attached, returnCode, cmd, delivered>>
      BY <1>3 DEF ConnectRefused, SocketStop, SocketConnected, AfterClosing, sessionVars
    <2>2. RequestView' = RequestView /\ MethodView' = MethodView
      BY <2>1, SameRequest DEF MethodView
    <2>3. Contract!ConnectRefused
      BY <1>1, <1>2, <2>1, <2>2 DEF Contract!ConnectRefused, Contract!NoMethod, MethodView
    <2> QED BY <2>3 DEF Contract!Methods
  <1>4. CASE ConnectStart
    <2>1. /\ net' = "open" /\ toBroker' = <<EncodeConnect>>
          /\ attached' = FALSE
          /\ connected' = (connected /\ ~SocketConnected)
          /\ cmd' = ConnectCommand
          /\ UNCHANGED <<returnCode, delivered>>
      BY <1>4 DEF ConnectStart, SocketOpen, Wait, AfterClosing
    <2>2. /\ 1 \in DOMAIN toBroker' /\ toBroker'[1] = EncodeConnect
          /\ Asked(EncodeConnect) /\ RequestNames[EncodeConnect.type] = "connect"
          /\ EncodeConnect.msg = NoMsg
      BY <2>1 DEF Asked, RequestNames, EncodeConnect, EncodeZero, PacketOf
    <2>3. RequestView' = CallView("connect", NoMsg)
      BY <2>2, RequestSeenNext DEF ViewIsRequest, Known, ExchangeInv
    <2>4. MethodView' = CallView("connect", NoMsg)
      BY <2>1 DEF MethodView, ConnectCommand, Command, FilterOf
    <2>5. CallView("connect", NoMsg) = Contract!CallOf("connect", NoMsg, Contract!NoQoS)
      BY Calls, NoCalls
    <2>6. SocketConnected' = TRUE
      BY <2>1 DEF SocketConnected
    <2>7. Contract!ConnectStart("client")
      BY <1>1, <1>2, <2>1, <2>3, <2>4, <2>5, <2>6
         DEF Contract!ConnectStart, Contract!NoMethod, MethodView
    <2> QED BY <2>7 DEF Contract!Methods
  <1>5. CASE ConnectFails
    <2>1. PICK err \in WriteErrors : Fail(ConnectCommand, err)
      BY <1>5 DEF ConnectFails
    <2>2. /\ SocketConnected' = FALSE /\ connected' = FALSE /\ attached' = attached
          /\ MethodView' = Contract!NoCall
          /\ returnCode' = "unknown"
      <3>1. ConnectCommand.op = "connect" /\ err # "CONNECTION_DENIED"
        BY DEF ConnectCommand, Command, WriteErrors
      <3> QED BY <2>1, <3>1, FailSeen
    <2>3. toBroker' = <<>> /\ delivered' = delivered
      BY <1>5 DEF ConnectFails
    <2>4. RequestView' = Contract!NoCall
      <3>1. DOMAIN toBroker' = {}
        BY <2>3
      <3> QED BY <3>1, RequestSeenNext, NoCalls DEF ViewIsRequest
    <2>5. Contract!ConnectFails
      BY <1>1, <1>2, <2>2, <2>3, <2>4 DEF Contract!ConnectFails, Contract!NoMethod, MethodView
    <2> QED BY <2>5 DEF Contract!Methods
  <1> QED BY <1>3, <1>4, <1>5

LEMMA PublishSeen ==
  ASSUME Known, Known', UNCHANGED brokerVars, NEW m \in Msgs,
         PublishQoS0(m) \/ PublishStart(m) \/ PublishFails(m)
  PROVE  Contract!Methods \/ UNCHANGED Contract!contractVars
  <1>1. /\ SessionView' = SessionView /\ UNCHANGED subs
        /\ pc = "idle" /\ Connected /\ UNCHANGED delivered
    BY SameSession DEF brokerVars, PublishQoS0, PublishStart, PublishFails, MayPublish
  <1>2. PublishCommand(m).op = "publish"
    BY DEF PublishCommand, Command
  <1>3. MethodView = Contract!NoCall
    BY <1>1, IdleSeen
  <1>4. ASSUME toBroker' = Append(toBroker, PublishPacket(m)) PROVE RequestView' = RequestView
    <2>1. ~Asked(PublishPacket(m)) /\ PublishPacket(m) \in ClientPacket
      BY WrittenTypes, WrittenPackets, AskedTypes DEF Known
    <2> QED BY <1>4, <2>1, ViewAfterWrite DEF Known, ExchangeInv
  <1>5. CASE PublishFails(m)
    <2>1. PICK err \in WriteErrors : Fail(PublishCommand(m), err)
      BY <1>5 DEF PublishFails
    <2>2. UNCHANGED <<toBroker, delivered>>
      BY <1>5 DEF PublishFails
    <2> QED BY <1>1, <1>2, <2>1, <2>2, FailsAtOnceSeen
  <1>6. CASE PublishQoS0(m)
    <2>1. /\ toBroker' = Append(toBroker, PublishPacket(m))
          /\ UNCHANGED <<net, attached, returnCode>>
          /\ connected' = connected
          /\ Idle
      BY <1>2, <1>6 DEF PublishQoS0, SendPacket, SocketWrite, Succeed, Known, TypeOK, MethodTypeOK
    <2>2. MethodView' = MethodView /\ SocketConnected' = SocketConnected
      BY <1>3, <2>1, IdleSeen DEF SocketConnected
    <2> QED BY <1>1, <1>4, <2>1, <2>2, Unseen
  <1>7. CASE PublishStart(m)
    <2>1. /\ toBroker' = Append(toBroker, PublishPacket(m))
          /\ UNCHANGED <<net, attached, returnCode, connected>>
          /\ cmd' = PublishCommand(m)
      BY <1>7 DEF PublishStart, SendPacket, SocketWrite, Wait
    <2>2. MethodView' = CallView("publish", NoMsg)
      BY <1>2, <2>1 DEF MethodView, FilterOf
    <2>3. MethodView' = Contract!CallOf("publish", NoMsg, Contract!NoQoS)
      BY <2>2, Calls, NoCalls
    <2>4. SocketConnected' = SocketConnected
      BY <2>1 DEF SocketConnected
    <2>5. Contract!MethodStart(MethodView')
      BY <1>1, <2>1, <2>4, StartSeen
    <2>6. Contract!PublishStart
      BY <1>4, <2>1, <2>3, <2>5 DEF Contract!PublishStart
    <2> QED BY <2>6 DEF Contract!Methods
  <1> QED BY <1>5, <1>6, <1>7

LEMMA RequestsSeen ==
  ASSUME Known, Known', UNCHANGED brokerVars, NEW t \in Topics,
         SubscribeStart(t) \/ UnsubscribeStart(t) \/ RequestFails(t)
  PROVE  Contract!Methods
  <1>1. /\ SessionView' = SessionView /\ UNCHANGED subs
        /\ pc = "idle" /\ Connected /\ UNCHANGED delivered
    BY SameSession DEF brokerVars, SubscribeStart, UnsubscribeStart, Request, RequestFails
  <1>2. Silent
    BY <1>1, IdleSilent DEF Known
  <1>3. CASE RequestFails(t)
    <2>1. PICK err \in WriteErrors : Fail(SubscribeCommand(t), err)
      BY <1>3 DEF RequestFails
    <2>2. UNCHANGED <<toBroker, delivered>> /\ SubscribeCommand(t).op # "connect"
      BY <1>3 DEF RequestFails, SubscribeCommand, Command
    <2> QED BY <1>1, <2>1, <2>2, FailsAtOnceSeen
  <1>4. ASSUME NEW c, NEW p \in ClientPacket, Request(c, p), Asked(p),
               c.op = RequestNames[p.type], c.op \in {"subscribe", "unsubscribe"}, c.msg = p.msg
        PROVE  /\ Contract!MethodStart(CallView(c.op, p.msg))
               /\ RequestView' = CallView(c.op, p.msg)
    <2>1. /\ toBroker' = Append(toBroker, p)
          /\ UNCHANGED <<net, attached, connected, returnCode>>
          /\ cmd' = c
      BY <1>4 DEF Request, SendPacket, SocketWrite, Wait
    <2>2. RequestView' = CallView(c.op, p.msg)
      BY <1>2, <1>4, <2>1, ViewOfRequest DEF Known, ExchangeInv
    <2>3. MethodView' = CallView(c.op, p.msg)
      BY <1>4, <2>1 DEF MethodView, FilterOf
    <2>4. SocketConnected' = SocketConnected
      BY <2>1 DEF SocketConnected
    <2>5. Contract!MethodStart(MethodView')
      BY <1>1, <2>1, <2>4, StartSeen
    <2> QED BY <2>2, <2>3, <2>5
  <1>5. CASE SubscribeStart(t)
    <2> DEFINE p == EncodeSubscribe(NextPacketId, t)
    <2>1. p.type = "SUBSCRIBE" /\ p.msg = t /\ p \in ClientPacket
      BY WrittenPackets DEF EncodeSubscribe, PacketOf, Known
    <2>2. SubscribeCommand(t).op = "subscribe" /\ SubscribeCommand(t).msg = t
      BY DEF SubscribeCommand, Command
    <2>3. Request(SubscribeCommand(t), p)
      BY <1>5 DEF SubscribeStart
    <2> HIDE DEF p
    <2>4. Asked(p) /\ RequestNames[p.type] = "subscribe"
      BY <2>1 DEF Asked, RequestNames
    <2>5. /\ Contract!MethodStart(CallView("subscribe", t))
          /\ RequestView' = CallView("subscribe", t)
      BY <1>4, <2>1, <2>2, <2>3, <2>4
    <2>6. Contract!SubscribeStart(t, 0)
      BY <2>5, Calls, NoCalls DEF Contract!SubscribeStart
    <2> QED BY <2>6 DEF Contract!Methods
  <1>6. CASE UnsubscribeStart(t)
    <2> DEFINE p == EncodeUnsubscribe(NextPacketId, t)
    <2>1. p.type = "UNSUBSCRIBE" /\ p.msg = t /\ p \in ClientPacket
      BY WrittenPackets DEF EncodeUnsubscribe, PacketOf, Known
    <2>2. UnsubscribeCommand(t).op = "unsubscribe" /\ UnsubscribeCommand(t).msg = t
      BY DEF UnsubscribeCommand, Command
    <2>3. Request(UnsubscribeCommand(t), p)
      BY <1>6 DEF UnsubscribeStart
    <2> HIDE DEF p
    <2>4. Asked(p) /\ RequestNames[p.type] = "unsubscribe"
      BY <2>1 DEF Asked, RequestNames
    <2>5. /\ Contract!MethodStart(CallView("unsubscribe", t))
          /\ RequestView' = CallView("unsubscribe", t)
      BY <1>4, <2>1, <2>2, <2>3, <2>4
    <2>6. Contract!UnsubscribeStart(t)
      BY <2>5, Calls, NoCalls DEF Contract!UnsubscribeStart
    <2> QED BY <2>6 DEF Contract!Methods
  <1> QED BY <1>3, <1>5, <1>6

LEMMA OtherCallSeen ==
  ASSUME Known, Known', UNCHANGED brokerVars,
         PrepareDuplicate \/ Disconnect \/ LoopYields \/ LoopSkipsYield
  PROVE  Contract!Methods \/ UNCHANGED Contract!contractVars
  <1>1. SessionView' = SessionView /\ UNCHANGED subs /\ pc = "idle" /\ UNCHANGED delivered
    BY SameSession DEF brokerVars, PrepareDuplicate, Disconnect, LoopYields, LoopSkipsYield,
                       LoopStarts
  <1>2. CASE PrepareDuplicate
    <2>1. UNCHANGED <<net, toBroker, attached, connected, returnCode, cmd>>
      BY <1>2 DEF PrepareDuplicate, networkVars
    <2> QED BY <1>1, <2>1, SameRequest, Unseen DEF MethodView, SocketConnected
  <1>3. CASE Disconnect
    <2>1. /\ SocketConnected' = FALSE /\ connected' = FALSE
          /\ UNCHANGED <<attached, returnCode, cmd, pc>>
          /\ Connected
          /\ toBroker' \in {toBroker, Append(toBroker, EncodeZero("DISCONNECT"))}
      BY <1>3 DEF Disconnect, Close, SocketStop, SocketConnected
    <2>2. ~Asked(EncodeZero("DISCONNECT")) /\ EncodeZero("DISCONNECT") \in ClientPacket
      BY AskedTypes, ClientPackets DEF EncodeZero, PacketOf
    <2>3. RequestView' = RequestView
      BY <2>1, <2>2, SameRequest, ViewAfterWrite DEF Known, ExchangeInv
    <2>4. MethodView = Contract!NoCall /\ MethodView' = MethodView
      BY <1>1, <2>1, IdleSeen DEF MethodView
    <2>5. Contract!FailsAtOnce
      BY <1>1, <2>1, <2>3, <2>4 DEF Contract!FailsAtOnce, Contract!CloseAndReturn,
                                    Contract!NoMethod, Contract!Connected, Connected, MethodView
    <2> QED BY <2>5 DEF Contract!Methods
  <1>4. CASE LoopYields \/ LoopSkipsYield
    <2>1. PICK n, next : LoopStarts(n, next)
      BY <1>4 DEF LoopYields, LoopSkipsYield
    <2>2. /\ UNCHANGED <<net, toBroker, attached, connected, returnCode>> /\ Connected
          /\ cmd' = LoopCommand(n)
      BY <2>1 DEF LoopStarts, networkVars, callVars
    <2>3. MethodView' = CallView("loop", NoMsg)
      BY <2>2 DEF MethodView, LoopCommand, Command, FilterOf
    <2>4. MethodView' = Contract!CallOf("loop", NoMsg, Contract!NoQoS)
      BY <2>3, Calls, NoCalls
    <2>5. Contract!MethodStart(MethodView')
      BY <1>1, <2>2, StartSeen DEF SocketConnected
    <2>6. Contract!LoopStart
      BY <2>2, <2>4, <2>5, SameRequest DEF Contract!LoopStart
    <2> QED BY <2>6 DEF Contract!Methods
  <1> QED BY <1>2, <1>3, <1>4

-----------------------------------------------------------------------------
(* The steps of a running method.                                          *)

\* A packet for the callback comes only to a client the broker has accepted,
\* and never while connect() waits.
LEMMA ReceiveSeen ==
  ASSUME Known, Known', UNCHANGED brokerVars,
         ReceivePublish \/ ReceiveAckToAnswer \/ ReceivePingresp \/ ReceiveOther
  PROVE  Contract!Methods \/ UNCHANGED Contract!contractVars
  <1>1. PICK p \in Arriving : Receive(p)
    BY DEF ReceivePublish, ReceiveAckToAnswer, ReceivePingresp, ReceiveOther
  <1>2. /\ pc = "wait"
        /\ UNCHANGED <<net, toBroker, attached, connected, returnCode, subs>>
        /\ cmd'.op = cmd.op /\ cmd'.msg = cmd.msg
        /\ toClient # <<>> /\ p = toClient[1] /\ 1 \in DOMAIN toClient
    <2>1. toClient # <<>> /\ p = Head(toClient)
      BY DEF Arriving
    <2>2. toClient[1] = Head(toClient) /\ 1 \in DOMAIN toClient
      BY <2>1, Types, TailElements DEF Known
    <2> QED BY <1>1, <2>1, <2>2
            DEF Receive, SocketRead, callVars, brokerVars, Known, TypeOK, MethodTypeOK, Commands
  <1>3. /\ MethodView' = MethodView /\ RequestView' = RequestView
        /\ SessionView' = SessionView /\ SocketConnected' = SocketConnected
    BY <1>2, SameRequest, SameSession DEF MethodView, FilterOf, SocketConnected
  <1>4. CASE UNCHANGED delivered
    BY <1>2, <1>3, <1>4, Unseen
  <1>5. CASE ReceivePublish
    <2>1. CallBack(p) /\ p.type = "PUBLISH"
      BY <1>5 DEF ReceivePublish, Arriving
    <2>2. p.msg \in InMsgs
      <3>1. p \in BrokerPacket
        BY <1>2, Types, TailElements, HeadTailProperties DEF Known
      <3> QED BY <2>1, <3>1 DEF BrokerPacket
    <2>3. SocketConnected /\ attached
      BY <1>2, <2>1 DEF Known, ExchangeInv, SightInv, LinkSight, Live, SocketConnected
    <2>4. cmd.op # "connect"
      BY <1>2, <2>1 DEF Known, SightInv, ConnectSight, Connecting, ConnackHeld, AwaitsConnack
    <2>5. MethodView.op \in {"subscribe", "unsubscribe", "publish", "loop"}
      BY <1>2, <2>4, MethodSeen
    <2>6. Contract!Deliver(p.msg)
      BY <1>2, <1>3, <2>1, <2>3, <2>5 DEF Contract!Deliver, CallBack, MethodView
    <2> QED BY <2>2, <2>6 DEF Contract!Methods
  <1> QED BY <1>4, <1>5 DEF ReceiveAckToAnswer, ReceivePingresp, ReceiveOther

\* A step within a method that only the client and the network see.
LEMMA InnerSeen ==
  ASSUME Known, Known', UNCHANGED brokerVars,
         SendAck \/ DropPacket \/ ReadNothing \/ NextCycle \/ YieldEnds
  PROVE  UNCHANGED Contract!contractVars
  <1>1. UNCHANGED <<net, attached, connected, returnCode, delivered, cmd>>
    BY DEF SendAck, DropPacket, ReadNothing, NextCycle, YieldEnds, SendPacket, SocketWrite,
           SocketRead, networkVars, callVars
  <1>2. SessionView' = SessionView
    BY SameSession DEF brokerVars
  <1>3. RequestView' = RequestView
    <2>1. CASE DropPacket \/ ReadNothing \/ NextCycle \/ YieldEnds
      BY <2>1, SameRequest DEF DropPacket, ReadNothing, NextCycle, YieldEnds, SocketRead,
                               networkVars
    <2>2. CASE SendAck
      <3>1. pc = "ack" /\ toBroker' = Append(toBroker, Answer(readBuf))
        BY <2>2 DEF SendAck, SendPacket, SocketWrite
      <3>2. readBuf.type \in {"PUBLISH", "PUBREC", "PUBREL"}
        BY <3>1 DEF Known, TypeOK, MethodTypeOK
      <3>3. Answer(readBuf) \in ClientPacket /\ ~Asked(Answer(readBuf))
        BY <3>1, <3>2, WrittenPackets, AskedTypes DEF Known, Answer, EncodeAck, PacketOf
      <3> QED BY <3>1, <3>3, ViewAfterWrite DEF Known, ExchangeInv
    <2> QED BY <2>1, <2>2
  <1> QED BY <1>1, <1>2, <1>3, Unseen DEF MethodView, SocketConnected

LEMMA FailuresSeen ==
  ASSUME Known, Known', UNCHANGED brokerVars,
         \/ SendAckFails \/ ReadPacketFails \/ ReadFails \/ CommandTimesOut
         \/ PongTimeout \/ SendPingFails
  PROVE  Contract!Methods
  <1>1. pc # "idle" /\ UNCHANGED <<toBroker, delivered, subs>>
    BY DEF SendAckFails, ReadPacketFails, ReadFails, CommandTimesOut, PongTimeout,
           SendPingFails, brokerVars
  <1>2. PICK err \in WriteErrors \cup {"NETWORK_FAILED_READ", "MISSING_OR_WRONG_PACKET",
                                      "PONG_TIMEOUT"} : Fail(cmd, err)
    BY DEF SendAckFails, ReadPacketFails, ReadFails, CommandTimesOut, PongTimeout,
           SendPingFails, WriteErrors
  <1>3. err # "CONNECTION_DENIED"
    BY DEF WriteErrors
  <1> QED BY <1>1, <1>2, <1>3, FailsSeen

\* The answer that cycle_until found is that of the running method, and the
\* request is no longer under way.
LEMMA AnswerSeen ==
  ASSUME Known, pc = "check", cmd.op # "loop", Found
  PROVE  /\ Held
         /\ RequestView = Contract!NoCall
         /\ cmd.op = "connect" => ConnackHeld /\ Connecting
         /\ cmd.op = "subscribe" => readBuf.type = "SUBACK"
         /\ cmd.op = "unsubscribe" => readBuf.type = "UNSUBACK"
  <1>1. CommandNeedle /\ cmd.op # "none"
    BY DEF Known, ExchangeInv, CommandNeedle
  <1>2. Held
    <2>1. IsAnswer(readBuf)
      BY <1>1, AckTypes
         DEF CommandNeedle, Known, TypeOK, MethodTypeOK, Commands, IsAnswer, Found
    <2> QED BY <2>1 DEF Held, Found
  <1>3. Silent
    BY <1>2, SilentWhen DEF Known, Live
  <1>4. RequestView = Contract!NoCall
    BY <1>3, AskedTypes, RequestSeen, NoCalls DEF ViewIsRequest, Silent
  <1> QED BY <1>1, <1>2, <1>4 DEF CommandNeedle, Found, ConnackHeld, Connecting

\* A method has returned true and left the link alone.
LEMMA SucceedSeen ==
  ASSUME Known, Succeed(cmd), cmd.op # "connect"
  PROVE  /\ MethodView' = Contract!NoCall
         /\ UNCHANGED <<connected, returnCode>>
  BY IdleSeen DEF Succeed, Known, TypeOK, MethodTypeOK

LEMMA AckedSeen ==
  ASSUME Known, Known', UNCHANGED brokerVars, CommandAcked
  PROVE  Contract!Methods
  <1>1. /\ pc = "check" /\ cmd.op # "loop" /\ Found
        /\ Verdict(cmd, readBuf) = "SUCCESS" /\ Succeed(cmd)
        /\ UNCHANGED <<net, toBroker, attached, delivered>>
    BY DEF CommandAcked, networkVars
  <1>2. /\ SessionView' = SessionView /\ RequestView' = RequestView
        /\ SocketConnected' = SocketConnected
    BY <1>1, SameSession, SameRequest DEF brokerVars, SocketConnected
  <1>3. RequestView = Contract!NoCall /\ Held
    BY <1>1, AnswerSeen
  <1>4. CASE cmd.op = "connect"
    <2>1. readBuf.ok /\ ConnackHeld /\ Connecting
      BY <1>1, <1>4, AnswerSeen DEF Verdict
    <2>2. attached
      BY <2>1 DEF Known, SightInv, ConnectSight
    <2>3. MethodView' = Contract!NoCall /\ connected' = TRUE /\ returnCode' = "accepted"
      BY <1>1, <1>4, IdleSeen DEF Succeed
    <2>4. MethodView.op = "connect"
      BY <1>4, MethodSeen
    <2>5. Contract!ConnectReturnsTrue
      BY <1>1, <1>2, <1>3, <2>2, <2>3, <2>4 DEF Contract!ConnectReturnsTrue, MethodView
    <2> QED BY <2>5 DEF Contract!Methods
  <1>5. CASE cmd.op # "connect"
    <2>1. cmd.op \in {"subscribe", "unsubscribe", "publish"}
      BY <1>1, <1>5, MethodSeen
    <2>2. /\ cmd.op = "subscribe" => cmd.msg \in subs
          /\ cmd.op = "unsubscribe" => cmd.msg \notin subs
      <3>1. cmd.op = "subscribe" => readBuf.ok
        BY <1>1 DEF Verdict
      <3> QED BY <1>1, <1>3, <3>1, AnswerSeen DEF Known, SubsInv
    <2>3. cmd.op \in {"subscribe", "unsubscribe"} => SessionView[MethodView.topic] = MethodView.qos
      BY <2>2, MethodSeen, NoCalls DEF SessionView, LevelOf
    <2>4. MethodView' = Contract!NoCall /\ UNCHANGED <<connected, returnCode>>
      BY <1>1, <1>5, SucceedSeen
    <2>5. MethodView.op = cmd.op
      BY MethodSeen
    <2>6. Contract!MethodReturnsTrue
      BY <1>1, <1>2, <1>3, <2>1, <2>3, <2>4, <2>5
         DEF Contract!MethodReturnsTrue, Contract!Granted, MethodView
    <2> QED BY <2>6 DEF Contract!Methods
  <1> QED BY <1>4, <1>5

LEMMA RejectedSeen ==
  ASSUME Known, Known', UNCHANGED brokerVars, CommandRejected
  PROVE  Contract!Methods
  <1>1. /\ pc = "check" /\ cmd.op # "loop" /\ Found
        /\ Verdict(cmd, readBuf) # "SUCCESS" /\ Fail(cmd, Verdict(cmd, readBuf))
        /\ UNCHANGED <<toBroker, delivered, subs>>
    BY DEF CommandRejected, brokerVars
  <1>2. CASE cmd.op # "connect"
    <2>1. Verdict(cmd, readBuf) # "CONNECTION_DENIED"
      BY <1>2 DEF Verdict
    <2> QED BY <1>1, <2>1, FailsSeen
  <1>3. CASE cmd.op = "connect"
    <2>0. Verdict(cmd, readBuf) = IF readBuf.ok THEN "SUCCESS" ELSE "CONNECTION_DENIED"
      BY <1>3 DEF Verdict
    <2>1. ~readBuf.ok /\ Verdict(cmd, readBuf) = "CONNECTION_DENIED"
      BY <1>1, <2>0
    <2>2. RequestView = Contract!NoCall /\ ConnackHeld /\ Connecting
      BY <1>1, <1>3, AnswerSeen
    <2>3. ~attached
      BY <2>1, <2>2 DEF Known, SightInv, ConnectSight
    <2>4. /\ RequestView' = RequestView /\ SessionView' = SessionView
          /\ SocketConnected' = FALSE /\ connected' = FALSE /\ UNCHANGED <<attached, delivered>>
          /\ MethodView' = Contract!NoCall /\ returnCode' = "denied"
      BY <1>1, <1>3, <2>1, SameRequest, SameSession, FailSeen
    <2>5. MethodView.op = "connect"
      BY <1>3, MethodSeen
    <2>6. Contract!ConnectDenied("denied")
      BY <2>2, <2>3, <2>4, <2>5
         DEF Contract!ConnectDenied, Contract!CloseAndReturn, MethodView
    <2> QED BY <2>6 DEF Contract!Methods
  <1> QED BY <1>2, <1>3

LEMMA LoopSeen ==
  ASSUME Known, Known', UNCHANGED brokerVars, NoPingDue \/ SendPing
  PROVE  Contract!Methods
  <1>1. /\ pc = "ping" /\ Succeed(cmd) /\ UNCHANGED <<net, attached, delivered>>
        /\ toBroker' \in {toBroker, Append(toBroker, EncodeZero("PINGREQ"))}
    BY DEF NoPingDue, SendPing, SendPacket, SocketWrite, networkVars
  <1>2. cmd.op = "loop"
    BY <1>1 DEF Known, ExchangeInv, CommandNeedle
  <1>3. ~Asked(EncodeZero("PINGREQ"))
    BY AskedTypes, WrittenTypes
  <1>4. RequestView' = RequestView
    BY <1>1, <1>3, WrittenTypes, SameRequest, ViewAfterWrite DEF Known, ExchangeInv
  <1>5. MethodView' = Contract!NoCall /\ UNCHANGED <<connected, returnCode>>
    BY <1>1, <1>2, SucceedSeen
  <1>6. SessionView' = SessionView /\ SocketConnected' = SocketConnected
    BY <1>1, SameSession DEF brokerVars, SocketConnected
  <1>7. MethodView.op = "loop"
    BY <1>2, MethodSeen
  <1>8. Contract!MethodReturnsTrue
    BY <1>1, <1>4, <1>5, <1>6, <1>7 DEF Contract!MethodReturnsTrue, MethodView
  <1> QED BY <1>8 DEF Contract!Methods

LEMMA RunSeen ==
  ASSUME Known, Known', Run
  PROVE  Contract!Methods \/ UNCHANGED Contract!contractVars
  <1>1. CASE (ReceivePublish \/ ReceiveAckToAnswer \/ ReceivePingresp \/ ReceiveOther)
             /\ UNCHANGED brokerVars
    BY <1>1, ReceiveSeen
  <1>2. CASE (SendAck \/ DropPacket \/ ReadNothing \/ NextCycle \/ YieldEnds)
             /\ UNCHANGED brokerVars
    BY <1>2, InnerSeen
  <1>3. CASE (\/ SendAckFails \/ ReadPacketFails \/ ReadFails \/ CommandTimesOut
              \/ PongTimeout \/ SendPingFails) /\ UNCHANGED brokerVars
    BY <1>3, FailuresSeen
  <1>4. CASE CommandAcked /\ UNCHANGED brokerVars
    BY <1>4, AckedSeen
  <1>5. CASE CommandRejected /\ UNCHANGED brokerVars
    BY <1>5, RejectedSeen
  <1>6. CASE (NoPingDue \/ SendPing) /\ UNCHANGED brokerVars
    BY <1>6, LoopSeen
  <1> QED BY <1>1, <1>2, <1>3, <1>4, <1>5, <1>6 DEF Run

LEMMA CallSeen ==
  ASSUME Known, Known', Call
  PROVE  Contract!Methods \/ UNCHANGED Contract!contractVars
  <1>1. CASE (ConnectRefused \/ ConnectStart \/ ConnectFails) /\ UNCHANGED brokerVars
    BY <1>1, ConnectSeen
  <1>2. CASE \E m \in Msgs : /\ PublishQoS0(m) \/ PublishStart(m) \/ PublishFails(m)
                             /\ UNCHANGED brokerVars
    BY <1>2, PublishSeen
  <1>3. CASE \E t \in Topics : /\ SubscribeStart(t) \/ UnsubscribeStart(t) \/ RequestFails(t)
                               /\ UNCHANGED brokerVars
    BY <1>3, RequestsSeen
  <1>4. CASE (PrepareDuplicate \/ Disconnect \/ LoopYields \/ LoopSkipsYield)
             /\ UNCHANGED brokerVars
    BY <1>4, OtherCallSeen
  <1> QED BY <1>1, <1>2, <1>3, <1>4 DEF Call

-----------------------------------------------------------------------------
(* The clock, the board, the link and the broker.                          *)

LEMMA EnvironmentSeen ==
  ASSUME Known, Known', Environment
  PROVE  Contract!Methods \/ Contract!Surroundings \/ UNCHANGED Contract!contractVars
  <1>1. SessionView' = SessionView
    BY SameSession DEF Environment, brokerVars
  <1>2. CASE CommandTimerExpires \/ KeepAliveTimerExpires
    <2>1. UNCHANGED <<net, toBroker, attached, connected, returnCode, cmd, delivered>>
      BY <1>2 DEF CommandTimerExpires, KeepAliveTimerExpires, networkVars, callVars
    <2> QED BY <1>1, <2>1, SameRequest, Unseen DEF MethodView, SocketConnected
  <1>3. CASE LinkStall /\ UNCHANGED clientVars
    <2>1. /\ SocketConnected' = SocketConnected
          /\ UNCHANGED <<toBroker, attached, connected, returnCode, cmd, delivered>>
      BY <1>3 DEF LinkStall, clientVars, SocketConnected
    <2> QED BY <1>1, <2>1, SameRequest, Unseen DEF MethodView
  <1>4. CASE LinkReset /\ UNCHANGED clientVars
    <2>1. /\ SocketConnected /\ SocketConnected' = FALSE
          /\ UNCHANGED <<toBroker, attached, connected, returnCode, cmd, delivered>>
      BY <1>4 DEF LinkReset, SocketStop, clientVars, SocketConnected
    <2>2. Contract!LinkLost
      BY <1>1, <2>1, SameRequest DEF Contract!LinkLost
    <2> QED BY <2>2 DEF Contract!Surroundings
  <1>5. CASE PowerCycle
    <2>1. /\ SocketConnected' = FALSE /\ connected' = FALSE /\ returnCode' = "accepted"
          /\ UNCHANGED <<toBroker, attached, delivered>>
          /\ MethodView' = Contract!NoCall
      BY <1>5, IdleSeen DEF PowerCycle, Close, SocketStop, SocketConnected
    <2>2. Contract!PowerCycle
      BY <1>1, <2>1, SameRequest DEF Contract!PowerCycle, MethodView
    <2> QED BY <2>2 DEF Contract!Methods
  <1> QED BY <1>2, <1>3, <1>4, <1>5 DEF Environment

\* What a step of the broker leaves alone.
LEMMA BrokerUnseen ==
  ASSUME Known, BrokerReads \/ BrokerSends
  PROVE  /\ SocketConnected' = SocketConnected /\ MethodView' = MethodView
         /\ UNCHANGED <<connected, returnCode, delivered>>
  BY BrokerReadsHead DEF BrokerSends, BrokerPush, BrokerResend, clientVars, MethodView,
                         SocketConnected, Known

\* The packets of the broker's steps but the requests change no session, and no
\* attachment that the client has not given up.
LEMMA BrokerOtherSeen ==
  ASSUME Known, Known',
         \/ BrokerSends
         \/ /\ BrokerReads
            /\ \/ BrokerPublishQoS0 \/ BrokerPublishQoS1 \/ BrokerPublishQoS2 \/ BrokerPubrel
               \/ BrokerPingreq \/ BrokerPuback \/ BrokerPubrec \/ BrokerPubcomp
  PROVE  UNCHANGED Contract!contractVars
  <1>1. UNCHANGED <<attached, subs>>
    BY DEF BrokerSends, BrokerPush, BrokerResend, BrokerPublishQoS0, BrokerPublishQoS1,
           BrokerPublishQoS2, BrokerPubrel, BrokerPingreq, BrokerPuback, BrokerPubrec,
           BrokerPubcomp, brokerVars
  <1>2. CASE BrokerSends
    <2>1. toBroker' = toBroker
      BY <1>2 DEF BrokerSends, BrokerPush, BrokerResend
    <2> QED BY <1>1, <1>2, <2>1, BrokerUnseen, SameRequest, SameSession, Unseen
  <1>3. CASE BrokerReads /\ ~BrokerSends
    <2>1. /\ toBroker # <<>> /\ toBroker' = Tail(toBroker)
          /\ Head(toBroker).type \in {"PUBLISH", "PUBREL", "PINGREQ", "PUBACK", "PUBREC", "PUBCOMP"}
      BY <1>3 DEF BrokerPublishQoS0, BrokerPublishQoS1, BrokerPublishQoS2, BrokerPubrel,
                  BrokerPingreq, BrokerPuback, BrokerPubrec, BrokerPubcomp, Consume
    <2>2. ~Asked(Head(toBroker))
      BY <2>1, AskedTypes
    <2>3. RequestView' = RequestView
      BY <2>1, <2>2, ViewAfterRead DEF Known, ExchangeInv
    <2> QED BY <1>1, <1>3, <2>3, BrokerUnseen, SameSession, Unseen
  <1> QED BY <1>2, <1>3

\* The session of the one client id.
LEMMA Sessions ==
  LET sess == [id \in {"client"} |-> SessionView] IN
    /\ [sess EXCEPT !["client"] = Contract!EmptySession]
         = [id \in {"client"} |-> Contract!EmptySession]
    /\ \A t, q : [sess EXCEPT !["client"][t] = q]
                   = [id \in {"client"} |-> [SessionView EXCEPT ![t] = q]]
  OBVIOUS

LEMMA BrokerConnectSeen ==
  ASSUME Known, BrokerReads, NEW ok \in BOOLEAN, BrokerConnect(ok)
  PROVE  Contract!BrokerConnect(ok)
  <1>1. /\ toBroker # <<>> /\ toBroker' = Tail(toBroker) /\ Head(toBroker).type = "CONNECT"
        /\ attached' = ok
        /\ subs' = IF ok /\ CleanSession THEN {} ELSE subs
    BY DEF BrokerConnect
  <1>2. Asked(Head(toBroker)) /\ RequestNames[Head(toBroker).type] = "connect"
    BY <1>1 DEF Asked, RequestNames
  <1>3. RequestView.op = "connect" /\ RequestView' = Contract!NoCall
    BY <1>1, <1>2, ViewOfHead, NoCalls DEF Known, ExchangeInv
  <1>4. [id \in {"client"} |-> SessionView]' =
          IF ok /\ CleanSession
            THEN [[id \in {"client"} |-> SessionView] EXCEPT !["client"] = Contract!EmptySession]
            ELSE [id \in {"client"} |-> SessionView]
    <2>1. CASE ok /\ CleanSession
      <3>1. subs' = {}
        BY <1>1, <2>1
      <3>2. SessionView' = Contract!EmptySession
        BY <3>1 DEF SessionView, Contract!EmptySession, Contract!NoQoS
      <3> QED BY <2>1, <3>2, Sessions
    <2>2. CASE ~(ok /\ CleanSession)
      BY <1>1, <2>2, SameSession
    <2> QED BY <2>1, <2>2
  <1> QED BY <1>1, <1>3, <1>4, BrokerUnseen DEF Contract!BrokerConnect, MethodView

LEMMA BrokerSubscribeSeen ==
  ASSUME Known, BrokerReads, NEW ok \in BOOLEAN, BrokerSubscribe(ok)
  PROVE  Contract!BrokerApplies(ok)
  <1> DEFINE t == Head(toBroker).msg
  <1>1. /\ toBroker # <<>> /\ toBroker' = Tail(toBroker) /\ Head(toBroker).type = "SUBSCRIBE"
        /\ attached /\ attached' = attached
        /\ subs' = IF ok THEN subs \cup {t} ELSE subs
    BY DEF BrokerSubscribe, Consume
  <1>2. Asked(Head(toBroker)) /\ RequestNames[Head(toBroker).type] = "subscribe"
    BY <1>1 DEF Asked, RequestNames
  <1>3. /\ RequestView.op = "subscribe" /\ RequestView.topic = t /\ RequestView.qos = 0
        /\ RequestView' = Contract!NoCall
    BY <1>1, <1>2, ViewOfHead, NoCalls DEF Known, ExchangeInv
  <1> HIDE DEF t
  <1>4. ok => SessionView' = [SessionView EXCEPT ![t] = 0]
    BY <1>1 DEF SessionView
  <1>5. [id \in {"client"} |-> SessionView]' =
          IF ok
            THEN [[id \in {"client"} |-> SessionView] EXCEPT !["client"][RequestView.topic]
                    = RequestView.qos]
            ELSE [id \in {"client"} |-> SessionView]
    BY <1>1, <1>3, <1>4, SameSession, Sessions
  <1> QED BY <1>1, <1>3, <1>5, BrokerUnseen DEF Contract!BrokerApplies, MethodView

LEMMA BrokerUnsubscribeSeen ==
  ASSUME Known, BrokerReads, BrokerUnsubscribe
  PROVE  Contract!BrokerApplies(TRUE)
  <1> DEFINE t == Head(toBroker).msg
  <1>1. /\ toBroker # <<>> /\ toBroker' = Tail(toBroker) /\ Head(toBroker).type = "UNSUBSCRIBE"
        /\ attached /\ attached' = attached
        /\ subs' = subs \ {t}
    BY DEF BrokerUnsubscribe, Consume
  <1>2. Asked(Head(toBroker)) /\ RequestNames[Head(toBroker).type] = "unsubscribe"
    BY <1>1 DEF Asked, RequestNames
  <1>3. /\ RequestView.op = "unsubscribe" /\ RequestView.topic = t
        /\ RequestView.qos = Contract!NoQoS
        /\ RequestView' = Contract!NoCall
    BY <1>1, <1>2, ViewOfHead, NoCalls DEF Known, ExchangeInv
  <1> HIDE DEF t
  <1>4. SessionView' = [SessionView EXCEPT ![t] = Contract!NoQoS]
    BY <1>1 DEF SessionView, Contract!NoQoS
  <1>5. [id \in {"client"} |-> SessionView]' =
          [[id \in {"client"} |-> SessionView] EXCEPT !["client"][RequestView.topic]
             = RequestView.qos]
    BY <1>3, <1>4, Sessions
  <1> QED BY <1>1, <1>3, <1>5, BrokerUnseen DEF Contract!BrokerApplies, MethodView

\* A DISCONNECT is read only after the client closed its end.
LEMMA BrokerDisconnectSeen ==
  ASSUME Known, Known', BrokerReads, BrokerDisconnect
  PROVE  Contract!BrokerForgets
  <1>1. /\ toBroker # <<>> /\ toBroker' = Tail(toBroker) /\ Head(toBroker).type = "DISCONNECT"
        /\ attached /\ attached' = FALSE /\ subs' = subs
    BY DEF BrokerDisconnect, Consume, brokerVars
  <1>2. ~SocketConnected
    <2>1. Head(toBroker) = toBroker[1] /\ 1 \in DOMAIN toBroker
      BY <1>1, Types, TailElements DEF Known
    <2> QED BY <1>1, <2>1 DEF Known, SightInv, LinkSight, Live
  <1>3. RequestView' = RequestView
    BY <1>1, AskedTypes, ViewAfterRead DEF Known, ExchangeInv
  <1> QED BY <1>1, <1>2, <1>3, BrokerUnseen, SameSession DEF Contract!BrokerForgets, MethodView

LEMMA BrokerSeen ==
  ASSUME Known, Known', BrokerReads \/ BrokerSends
  PROVE  Contract!Surroundings \/ UNCHANGED Contract!contractVars
  <1>1. CASE BrokerReads
    BY <1>1, BrokerOtherSeen, BrokerConnectSeen, BrokerSubscribeSeen, BrokerUnsubscribeSeen,
       BrokerDisconnectSeen DEF BrokerReads, Contract!Surroundings
  <1>2. CASE BrokerSends
    BY <1>2, BrokerOtherSeen
  <1> QED BY <1>1, <1>2

-----------------------------------------------------------------------------

LEMMA InitSeen == Init => Contract!ContractInit
  <1> SUFFICES ASSUME Init PROVE Contract!ContractInit
    OBVIOUS
  <1>1. /\ SocketConnected = FALSE /\ connected = FALSE /\ attached = FALSE
        /\ returnCode = "accepted" /\ delivered = [m \in InMsgs |-> 0]
        /\ toBroker = <<>> /\ subs = {} /\ cmd = NoCommand
    BY DEF Init, NetworkInit, BrokerInit, ClientInit, SocketConnected
  <1>2. MethodView = Contract!NoCall
    BY <1>1, NoCalls DEF MethodView, NoCommand, Command, FilterOf
  <1>3. RequestView = Contract!NoCall
    <2>1. DOMAIN toBroker = {}
      BY <1>1
    <2> QED BY <2>1, RequestSeen, NoCalls DEF ViewIsRequest
  <1>4. SessionView = Contract!EmptySession
    BY <1>1 DEF SessionView, Contract!EmptySession, Contract!NoQoS
  <1>5. "client" = CHOOSE id \in {"client"} : TRUE
    OBVIOUS
  <1> QED BY <1>1, <1>2, <1>3, <1>4, <1>5 DEF Contract!ContractInit, MethodView

LEMMA StepSeen ==
  Known /\ Known' /\ [Next]_vars =>
    [Contract!Methods \/ Contract!Surroundings]_(Contract!contractVars)
  <1> SUFFICES ASSUME Known, Known', [Next]_vars
               PROVE  \/ Contract!Methods \/ Contract!Surroundings
                      \/ UNCHANGED Contract!contractVars
    OBVIOUS
  <1>1. CASE UNCHANGED vars
    <2>1. UNCHANGED <<net, toBroker, attached, connected, returnCode, cmd, delivered, subs>>
      BY <1>1 DEF vars, networkVars, brokerVars, clientVars
    <2> QED BY <2>1, SameRequest, SameSession, Unseen DEF MethodView, SocketConnected
  <1> QED BY <1>1, CallSeen, RunSeen, EnvironmentSeen, BrokerSeen DEF Next

LEMMA Subs == Spec => []SubsInv
  <1>1. Init => SubsInv
    BY DEF Init, NetworkInit, ClientInit, SubsInv, Held
  <1> QED BY <1>1, NextSubs, Exchange, TypeCorrect, PTL DEF Spec

\* Every behaviour of the client, the network and the broker is a behaviour of
\* ClientContract: connect() returns true only to a client the broker has
\* accepted on this connection, subscribe() only when the broker holds the
\* filter, a method that failed has closed the connection and its request
\* reaches the broker at most once and on that connection, and the callback
\* runs only inside of a method of an accepted client.
THEOREM ContractImplemented == Spec => ImplementsContract
  <1>1. Spec => []Known
    BY TypeCorrect, Exchange, Subs, Sight, PTL DEF Known
  <1> QED BY <1>1, InitSeen, StepSeen, PTL DEF Spec, ImplementsContract, Contract!ContractSpec

-----------------------------------------------------------------------------
(* Where an inbound message is, for the second refinement.                 *)

\* The broker's PUBLISH of m, the m cycle_once has called back for, the answer
\* to it.
SentTo(m) ==
  {j \in DOMAIN toClient :
     toClient[j].type = "PUBLISH" /\ toClient[j].qos > 0 /\ toClient[j].msg = m}
Handling(m) == pc = "ack" /\ readBuf.type = "PUBLISH" /\ readBuf.msg = m
AnsweredAt(m) ==
  {i \in DOMAIN toBroker : toBroker[i].type \in {"PUBACK", "PUBREC"} /\ toBroker[i].id = m}

\* There is one of the three at most, and then the broker awaits the answer on
\* this connection: it has nothing to settle yet, and sends m no second time.
OneTrace(m) ==
  /\ \A i, j \in SentTo(m) : i = j
  /\ \A i, j \in AnsweredAt(m) : i = j
  /\ SentTo(m) # {} => ~Handling(m) /\ AnsweredAt(m) = {}
  /\ Handling(m) => AnsweredAt(m) = {}
  /\ SentTo(m) # {} \/ Handling(m) \/ AnsweredAt(m) # {} =>
       inflight[m] = "published" /\ m \in onLink

PushedAsTold ==
  \A j \in DOMAIN toClient :
    toClient[j].type = "PUBLISH" => toClient[j].qos = InQoS[toClient[j].msg]

\* A connection begins without answers.
FreshLink ==
  (\E i \in DOMAIN toBroker : toBroker[i].type = "CONNECT") =>
    \A i \in DOMAIN toBroker : toBroker[i].type \notin {"PUBACK", "PUBREC"}

InboundInv ==
  /\ \A m \in InMsgs : OneTrace(m)
  /\ PushedAsTold
  /\ FreshLink

\* No trace of m is new, except for the place in a queue.
LEMMA TraceKept ==
  ASSUME NEW m, OneTrace(m), NEW d \in Nat, NEW e \in Nat,
         SentTo(m)' \subseteq Int, AnsweredAt(m)' \subseteq Int,
         \A j \in SentTo(m)' : j + d \in SentTo(m),
         \A i \in AnsweredAt(m)' : i + e \in AnsweredAt(m),
         Handling(m)' => Handling(m),
         inflight[m] = "published" => inflight'[m] = "published",
         m \in onLink => m \in onLink'
  PROVE  OneTrace(m)'
  <1>1. \A i, j \in SentTo(m)' : i = j
    <2> SUFFICES ASSUME NEW i \in SentTo(m)', NEW j \in SentTo(m)' PROVE i = j
      OBVIOUS
    <2>1. i + d = j + d /\ i \in Int /\ j \in Int
      BY DEF OneTrace
    <2> QED BY <2>1
  <1>2. \A i, j \in AnsweredAt(m)' : i = j
    <2> SUFFICES ASSUME NEW i \in AnsweredAt(m)', NEW j \in AnsweredAt(m)' PROVE i = j
      OBVIOUS
    <2>1. i + e = j + e /\ i \in Int /\ j \in Int
      BY DEF OneTrace
    <2> QED BY <2>1
  <1>3. (SentTo(m)' # {} => SentTo(m) # {}) /\ (AnsweredAt(m)' # {} => AnsweredAt(m) # {})
    OBVIOUS
  <1> QED BY <1>1, <1>2, <1>3 DEF OneTrace

LEMMA TraceIndices ==
  ASSUME TypeOK, TypeOK', NEW m
  PROVE  /\ SentTo(m) \subseteq Int /\ AnsweredAt(m) \subseteq Int
         /\ SentTo(m)' \subseteq Int /\ AnsweredAt(m)' \subseteq Int
         /\ \A j \in SentTo(m)' : j >= 1
         /\ \A i \in AnsweredAt(m)' : i >= 1
  <1>1. /\ DOMAIN toBroker = 1..Len(toBroker) /\ DOMAIN toClient = 1..Len(toClient)
        /\ Len(toBroker) \in Nat /\ Len(toClient) \in Nat
    BY Types, LenProperties
  <1>2. toBroker' \in Seq(ClientPacket) /\ toClient' \in Seq(BrokerPacket)
    BY DEF TypeOK, NetworkTypeOK
  <1>3. /\ DOMAIN toBroker' = 1..Len(toBroker') /\ DOMAIN toClient' = 1..Len(toClient')
        /\ Len(toBroker') \in Nat /\ Len(toClient') \in Nat
    BY <1>2, LenProperties
  <1>4. /\ SentTo(m) \subseteq DOMAIN toClient /\ AnsweredAt(m) \subseteq DOMAIN toBroker
        /\ SentTo(m)' \subseteq DOMAIN toClient' /\ AnsweredAt(m)' \subseteq DOMAIN toBroker'
    BY DEF SentTo, AnsweredAt
  <1> QED BY <1>1, <1>3, <1>4

\* The steps of the client by what they do to the traces: a packet is read, the
\* answer to one is written, or neither.
Neither ==
  /\ \A j \in DOMAIN toClient' : j \in DOMAIN toClient /\ toClient'[j] = toClient[j]
  /\ \/ toBroker' \in {toBroker, <<>>, <<EncodeConnect>>}
     \/ \E p \in ClientPacket : /\ toBroker' = Append(toBroker, p)
                                /\ p.type \notin {"CONNECT", "PUBACK", "PUBREC"}
  /\ pc' # "ack" \/ UNCHANGED <<pc, readBuf>>

Takes ==
  \E p \in Arriving :
    /\ pc = "wait"
    /\ SocketRead(p)
    /\ pc' = "ack" => readBuf' = p /\ (p.type = "PUBLISH" => p.qos # 0)

LEMMA ClientTraces ==
  ASSUME TypeOK, ClientStep
  PROVE  Neither \/ Takes \/ SendAck
  <1>1. CASE \/ ConnectRefused \/ ConnectStart \/ ConnectFails \/ PrepareDuplicate \/ LoopYields
             \/ LoopSkipsYield
             \/ \E m \in Msgs : PublishFails(m)
             \/ \E t \in Topics : RequestFails(t)
    BY <1>1 DEF Neither, ConnectRefused, ConnectStart, ConnectFails, PrepareDuplicate,
                LoopYields, LoopSkipsYield, LoopStarts, PublishFails, RequestFails, SocketOpen,
                SocketStop, Close, Fail, Idle, Wait, networkVars
  <1>2. ASSUME NEW m \in Msgs, PublishQoS0(m) \/ PublishStart(m) PROVE Neither
    <2>1. toBroker' = Append(toBroker, PublishPacket(m)) /\ toClient' = toClient /\ pc' # "ack"
      BY <1>2 DEF PublishQoS0, PublishStart, SendPacket, SocketWrite, Succeed, Idle, Wait
    <2> QED BY <2>1, WrittenPackets, WrittenTypes DEF Neither
  <1>3. ASSUME NEW t \in Topics, SubscribeStart(t) \/ UnsubscribeStart(t) PROVE Neither
    <2>1. PICK p \in {EncodeSubscribe(NextPacketId, t), EncodeUnsubscribe(NextPacketId, t)} :
            toBroker' = Append(toBroker, p) /\ toClient' = toClient /\ pc' # "ack"
      BY <1>3 DEF SubscribeStart, UnsubscribeStart, Request, SendPacket, SocketWrite, Wait
    <2> QED BY <2>1, WrittenPackets, WrittenTypes DEF Neither
  <1>4. CASE Disconnect \/ SendPing
    <2>1. \A t \in {"PINGREQ", "DISCONNECT"} :
            EncodeZero(t) \in ClientPacket /\ EncodeZero(t).type = t
      BY ClientPackets DEF EncodeZero, PacketOf
    <2>2. /\ \/ toBroker' = toBroker
             \/ \E t \in {"PINGREQ", "DISCONNECT"} : toBroker' = Append(toBroker, EncodeZero(t))
          /\ toClient' \in {toClient, <<>>}
          /\ pc' # "ack"
      BY <1>4 DEF Disconnect, SendPing, SendPacket, SocketWrite, Close, SocketStop, Succeed, Idle
    <2> QED BY <2>1, <2>2 DEF Neither
  <1>5. CASE SendAck
    BY <1>5
  <1>6. CASE \/ ReceivePublish \/ ReceiveAckToAnswer \/ ReceivePingresp \/ ReceiveOther
             \/ DropPacket
    BY <1>6 DEF ReceivePublish, ReceiveAckToAnswer, ReceivePingresp, ReceiveOther, DropPacket,
                Receive, Takes
  <1>7. CASE \/ SendAckFails \/ ReadPacketFails \/ ReadFails \/ ReadNothing \/ NextCycle
             \/ CommandAcked \/ CommandRejected \/ CommandTimesOut \/ YieldEnds \/ NoPingDue
             \/ PongTimeout \/ SendPingFails
    BY <1>7 DEF SendAckFails, ReadPacketFails, ReadFails, ReadNothing, NextCycle, CommandAcked,
                CommandRejected, CommandTimesOut, YieldEnds, NoPingDue, PongTimeout,
                SendPingFails, networkVars, Fail, Succeed, Idle, Close, SocketStop, Neither
  <1>8. CASE Environment /\ ~(LinkStall /\ UNCHANGED clientVars)
    BY <1>8 DEF Environment, CommandTimerExpires, KeepAliveTimerExpires, PowerCycle, LinkReset,
                Idle, Close, SocketStop, networkVars, clientVars, Neither
  <1>9. CASE LinkStall /\ UNCHANGED clientVars
    <2>1. PICK k \in 0..Len(toClient) : toClient' = SubSeq(toClient, 1, k)
      BY <1>9 DEF LinkStall
    <2>2. \A j \in DOMAIN toClient' : j \in DOMAIN toClient /\ toClient'[j] = toClient[j]
      BY <2>1, Types, SubSeqProperties, LenProperties
    <2> QED BY <1>9, <2>2 DEF LinkStall, clientVars, Neither
  <1> QED BY <1>1, <1>2, <1>3, <1>4, <1>5, <1>6, <1>7, <1>8, <1>9
          DEF ClientStep, Call, Run

\* While the CONNECT is on its way nothing else is.
LEMMA ConnectIsAlone ==
  ASSUME TypeOK, ExchangeInv, LinkSight, ConnectSight, FreshLink,
         \E i \in DOMAIN toBroker : toBroker[i].type = "CONNECT"
  PROVE  /\ pc # "ack"
         /\ toClient = <<>>
         /\ \A m : AnsweredAt(m) = {}
  <1>1. toClient = <<>>
    <2>1. net = "closed" => toClient = <<>>
      BY DEF ExchangeInv
    <2> QED BY <2>1 DEF LinkSight, Live, SocketConnected
  <1>2. pc # "ack"
    <2> SUFFICES ASSUME pc = "ack" PROVE FALSE
      OBVIOUS
    <2>1. PICK i \in DOMAIN toBroker : toBroker[i].type = "CONNECT"
      OBVIOUS
    <2>2. IsRequest(toBroker[i]) /\ Live
      BY <2>1 DEF IsRequest, Live
    <2>3. Asks(toBroker[i])
      BY <2>2 DEF ExchangeInv, RequestAsks
    <2>4. cmd.needle = "CONNACK"
      BY <2>1, <2>3 DEF Asks
    <2>5. cmd.op = "connect"
      <3>1. cmd.op \in {"none", "connect", "publish", "subscribe", "unsubscribe", "loop"}
        BY DEF TypeOK, MethodTypeOK, Commands
      <3>2. cmd.op = "publish" => cmd.needle # "CONNACK"
        BY AckTypes DEF ExchangeInv, CommandNeedle
      <3> QED BY <2>4, <3>1, <3>2 DEF ExchangeInv, CommandNeedle, NoPacket
    <2> QED BY <2>5 DEF ConnectSight, Connecting
  <1>3. \A m : AnsweredAt(m) = {}
    BY DEF FreshLink, AnsweredAt
  <1> QED BY <1>1, <1>2, <1>3

LEMMA ClientInbound ==
  ASSUME TypeOK, TypeOK', ExchangeInv, LinkSight, ConnectSight, DeliveredInv, InboundInv,
         ClientStep
  PROVE  InboundInv'
  <1>1. UNCHANGED <<inflight, onLink>>
    BY DEF ClientStep, Call, Run, Environment, brokerVars
  <1>2. PushedAsTold'
    <2>1. \A j \in DOMAIN toClient' : \E k \in DOMAIN toClient : toClient'[j] = toClient[k]
      BY ClientReads
    <2> QED BY <2>1 DEF InboundInv, PushedAsTold
  <1>3. CASE Neither
    <2>1. ASSUME NEW m \in InMsgs PROVE OneTrace(m)'
      <3>1. \A i \in DOMAIN toBroker' :
              \/ i \in DOMAIN toBroker /\ toBroker'[i] = toBroker[i]
              \/ toBroker'[i].type \notin {"PUBACK", "PUBREC"}
        <4>1. CASE \E p \in ClientPacket : /\ toBroker' = Append(toBroker, p)
                                           /\ p.type \notin {"CONNECT", "PUBACK", "PUBREC"}
          BY <4>1, Types, AppendElements
        <4>2. CASE toBroker' \in {toBroker, <<>>, <<EncodeConnect>>}
          BY <4>2 DEF EncodeConnect, EncodeZero, PacketOf
        <4> QED BY <1>3, <4>1, <4>2 DEF Neither
      <3>2. \A i \in AnsweredAt(m)' : i + 0 \in AnsweredAt(m)
        BY <3>1, TraceIndices DEF AnsweredAt
      <3>3. \A j \in SentTo(m)' : j + 0 \in SentTo(m)
        BY <1>3, TraceIndices DEF SentTo, Neither
      <3>4. Handling(m)' => Handling(m)
        BY <1>3 DEF Handling, Neither
      <3> QED BY <1>1, <3>2, <3>3, <3>4, TraceIndices, TraceKept DEF InboundInv
    <2>2. FreshLink'
      <3>1. CASE toBroker' \in {toBroker, <<>>, <<EncodeConnect>>}
        BY <3>1 DEF InboundInv, FreshLink, EncodeConnect, EncodeZero, PacketOf
      <3>2. CASE \E p \in ClientPacket : /\ toBroker' = Append(toBroker, p)
                                         /\ p.type \notin {"CONNECT", "PUBACK", "PUBREC"}
        BY <3>2, Types, AppendElements DEF InboundInv, FreshLink
      <3> QED BY <1>3, <3>1, <3>2 DEF Neither
    <2> QED BY <1>2, <2>1, <2>2 DEF InboundInv
  <1>4. CASE Takes
    <2>1. PICK p \in Arriving : /\ pc = "wait"
                                /\ SocketRead(p)
                                /\ pc' = "ack" => /\ readBuf' = p
                                                  /\ p.type = "PUBLISH" => p.qos # 0
      BY <1>4 DEF Takes
    <2>2. /\ toClient # <<>> /\ toClient' = Tail(toClient) /\ toBroker' = toBroker
          /\ p = Head(toClient)
      BY <2>1 DEF SocketRead, Arriving
    <2>3. /\ p = toClient[1] /\ 1 \in DOMAIN toClient /\ p \in BrokerPacket
          /\ \A j \in DOMAIN toClient' :
               j + 1 \in DOMAIN toClient /\ j + 1 # 1 /\ toClient'[j] = toClient[j + 1]
      BY <2>2, Types, TailElements, HeadTailProperties
    <2>4. ASSUME NEW m \in InMsgs PROVE OneTrace(m)'
      <3>1. \A j \in SentTo(m)' : j + 1 \in SentTo(m) /\ j + 1 # 1
        BY <2>3 DEF SentTo
      <3>2. AnsweredAt(m)' = AnsweredAt(m)
        BY <2>2 DEF AnsweredAt
      <3>3. CASE ~Handling(m)'
        <4>1. \A i \in AnsweredAt(m)' : i + 0 \in AnsweredAt(m)
          BY <3>2, TraceIndices
        <4> QED BY <1>1, <3>1, <3>3, <4>1, TraceIndices, TraceKept DEF InboundInv
      <3>4. CASE Handling(m)'
        <4>1. p.type = "PUBLISH" /\ p.msg = m /\ p.qos > 0
          <5>1. p.qos \in 0..2
            BY <2>3 DEF BrokerPacket, Packet
          <5> QED BY <2>1, <3>4, <5>1 DEF Handling
        <4>2. 1 \in SentTo(m)
          BY <2>3, <4>1 DEF SentTo
        <4>3. SentTo(m)' = {}
          BY <3>1, <4>2 DEF InboundInv, OneTrace
        <4>4. AnsweredAt(m)' = {} /\ inflight'[m] = "published" /\ m \in onLink'
          BY <1>1, <3>2, <4>2 DEF InboundInv, OneTrace
        <4> QED BY <4>3, <4>4 DEF OneTrace
      <3> QED BY <3>3, <3>4
    <2>5. FreshLink'
      BY <2>2 DEF InboundInv, FreshLink
    <2> QED BY <1>2, <2>4, <2>5 DEF InboundInv
  <1>5. CASE SendAck
    <2>1. /\ pc = "ack" /\ pc' = "check"
          /\ toBroker' = Append(toBroker, Answer(readBuf))
          /\ toClient' = toClient
      BY <1>5 DEF SendAck, SendPacket, SocketWrite
    <2>2. /\ Answer(readBuf) \in ClientPacket
          /\ readBuf \in BrokerPacket
          /\ readBuf.type \in {"PUBLISH", "PUBREC", "PUBREL"}
      BY <2>1, WrittenPackets DEF TypeOK, MethodTypeOK, EncodeZero, PacketOf, NoPacket
    <2>3. Answer(readBuf).type \in {"PUBACK", "PUBREC"} =>
            readBuf.type = "PUBLISH" /\ Answer(readBuf).id = readBuf.msg
      <3>1. readBuf.type # "PUBLISH" => Answer(readBuf).type \notin {"PUBACK", "PUBREC"}
        BY <2>2 DEF Answer, EncodeAck, PacketOf
      <3>2. readBuf.type = "PUBLISH" => readBuf.id = readBuf.msg
        BY <2>1, <2>2 DEF DeliveredInv, AnswerMeansDelivered, BrokerPacket
      <3>3. readBuf.type = "PUBLISH" => Answer(readBuf).id = readBuf.id
        BY DEF Answer, EncodeAck, PacketOf
      <3> QED BY <3>1, <3>2, <3>3
    <2>4. \A i \in DOMAIN toBroker' :
            \/ i \in DOMAIN toBroker /\ toBroker'[i] = toBroker[i]
            \/ i = Len(toBroker) + 1 /\ toBroker'[i] = Answer(readBuf)
      BY <2>1, <2>2, Types, AppendElements
    <2>5. ASSUME NEW m \in InMsgs PROVE OneTrace(m)'
      <3>1. SentTo(m)' = SentTo(m) /\ ~Handling(m)'
        BY <2>1 DEF SentTo, Handling
      <3>2. CASE Handling(m)
        <4>1. SentTo(m) = {} /\ AnsweredAt(m) = {} /\ inflight[m] = "published" /\ m \in onLink
          BY <3>2 DEF InboundInv, OneTrace
        <4>2. \A i \in AnsweredAt(m)' : i = Len(toBroker) + 1
          BY <2>4, <4>1 DEF AnsweredAt
        <4> QED BY <1>1, <3>1, <4>1, <4>2 DEF OneTrace
      <3>3. CASE ~Handling(m)
        <4>1. \A i \in AnsweredAt(m)' : i + 0 \in AnsweredAt(m)
          BY <2>1, <2>3, <2>4, <3>3, TraceIndices DEF AnsweredAt, Handling
        <4>2. \A j \in SentTo(m)' : j + 0 \in SentTo(m)
          BY <3>1, TraceIndices
        <4> QED BY <1>1, <3>1, <4>1, <4>2, TraceIndices, TraceKept DEF InboundInv
      <3> QED BY <3>2, <3>3
    <2>6. FreshLink'
      <3>1. ~\E i \in DOMAIN toBroker : toBroker[i].type = "CONNECT"
        BY <2>1, ConnectIsAlone DEF InboundInv
      <3>2. Answer(readBuf).type # "CONNECT"
        BY <2>2 DEF Answer, EncodeAck, PacketOf
      <3>3. ~\E i \in DOMAIN toBroker' : toBroker'[i].type = "CONNECT"
        BY <2>4, <3>1, <3>2
      <3> QED BY <3>3 DEF FreshLink
    <2> QED BY <1>2, <2>5, <2>6 DEF InboundInv
  <1> QED BY <1>3, <1>4, <1>5, ClientTraces

\* What the broker sends a client.
LEMMA SentPublishes ==
  ASSUME TypeOK, NEW a, Sent(a), a.type = "PUBLISH"
  PROVE  \E m \in InMsgs :
           /\ BrokerPush(m) \/ (BrokerResend(m) /\ inflight[m] = "published")
           /\ a.msg = m /\ a.qos = InQoS[m]
  <1>1. \/ \E m \in InMsgs :
             /\ BrokerPush(m) \/ (BrokerResend(m) /\ inflight[m] = "published")
             /\ \E dup, id : a = EncodePublish(dup, id, InQoS[m], m)
        \/ \E ok : a = Connack(ok)
        \/ \E t \in {"PUBACK", "PUBREC", "PUBREL", "PUBCOMP", "UNSUBACK"} :
             \E id : a = EncodeAck(t, id)
        \/ \E ok, id : a = Suback(id, ok)
        \/ a = EncodeZero("PINGRESP")
    BY DEF Sent
  <1> QED BY <1>1 DEF Connack, EncodeAck, Suback, EncodeZero, EncodePublish, PacketOf

\* A step in which the broker reads is none in which it sends.
LEMMA ReadOrSent ==
  ASSUME TypeOK, toBroker # <<>>
  PROVE  toBroker # Tail(toBroker)
  BY Types, HeadTailProperties, LenProperties

LEMMA BrokerInbound ==
  ASSUME TypeOK, TypeOK', ExchangeInv, LinkSight, ConnectSight, InboundInv,
         BrokerReads \/ BrokerSends
  PROVE  InboundInv'
  <1>1. UNCHANGED <<net, pc, readBuf>>
    BY BrokerReadsHead DEF BrokerSends, BrokerPush, BrokerResend, clientVars
  <1>2. inflight \in [InMsgs -> Progress] /\ onLink \subseteq InMsgs
    BY DEF TypeOK, BrokerTypeOK
  <1>3. \A j \in DOMAIN toClient' :
          \/ j \in DOMAIN toClient /\ toClient'[j] = toClient[j]
          \/ j = Len(toClient) + 1 /\ Sent(toClient'[j])
    <2>1. \/ toClient' = toClient
          \/ \E a \in BrokerPacket : Sent(a) /\ toClient' = Append(toClient, a)
      BY BrokerAppends
    <2> QED BY <2>1, Types, AppendElements
  <1>4. PushedAsTold'
    BY <1>3, SentPublishes DEF InboundInv, PushedAsTold
  <1>5. FreshLink'
    <2>1. \A i \in DOMAIN toBroker' : \E k \in DOMAIN toBroker : toBroker'[i] = toBroker[k]
      BY BrokerReadsHead DEF BrokerSends, BrokerPush, BrokerResend
    <2> QED BY <2>1 DEF InboundInv, FreshLink
  <1> SUFFICES ASSUME NEW m \in InMsgs PROVE OneTrace(m)'
    BY <1>4, <1>5 DEF InboundInv
  <1>6. OneTrace(m) /\ Handling(m)' = Handling(m)
    BY <1>1 DEF InboundInv, Handling
  <1>7. CASE \E ok \in BOOLEAN : BrokerConnect(ok)
    <2>1. /\ toBroker # <<>> /\ toBroker' = Tail(toBroker)
          /\ Head(toBroker).type = "CONNECT"
      BY <1>7 DEF BrokerConnect
    <2>2. \E i \in DOMAIN toBroker : toBroker[i].type = "CONNECT"
      BY <2>1, Types, TailElements
    <2>3. ~Handling(m) /\ toClient = <<>> /\ AnsweredAt(m) = {}
      BY <2>2, ConnectIsAlone DEF InboundInv, Handling
    <2>4. AnsweredAt(m)' = {}
      <3>1. \A i \in AnsweredAt(m)' : i + 1 \in AnsweredAt(m)
        BY <2>1, Types, TailElements DEF AnsweredAt
      <3> QED BY <2>3, <3>1
    <2>5. SentTo(m)' = {}
      <3>1. \A x : ~BrokerPush(x) /\ ~BrokerResend(x)
        BY <2>1, ReadOrSent DEF BrokerPush, BrokerResend
      <3> QED BY <1>3, <2>3, <3>1, SentPublishes DEF SentTo
    <2> QED BY <1>6, <2>3, <2>4, <2>5 DEF OneTrace
  <1>8. CASE BrokerReads /\ ~\E ok \in BOOLEAN : BrokerConnect(ok)
    <2>1. /\ toBroker # <<>> /\ toBroker' = Tail(toBroker)
          /\ onLink' = onLink
      BY <1>8, BrokerReadsHead
         DEF BrokerReads, BrokerPublishQoS0, BrokerPublishQoS1, BrokerPublishQoS2, BrokerPubrel,
             BrokerSubscribe, BrokerUnsubscribe, BrokerPingreq, BrokerDisconnect, BrokerPuback,
             BrokerPubrec, BrokerPubcomp, brokerVars
    <2>2. \A i \in AnsweredAt(m)' : i + 1 \in AnsweredAt(m) /\ i + 1 # 1
      BY <2>1, Types, TailElements DEF AnsweredAt
    <2>3. \A j \in SentTo(m)' : j + 0 \in SentTo(m)
      <3>1. \A x : ~BrokerPush(x) /\ ~BrokerResend(x)
        BY <2>1, ReadOrSent DEF BrokerPush, BrokerResend
      <3>2. \A j \in SentTo(m)' : j \in SentTo(m)
        BY <1>3, <3>1, SentPublishes DEF SentTo
      <3> QED BY <3>2, TraceIndices
    <2>4. CASE inflight[m] = "published" => inflight'[m] = "published"
      BY <1>6, <2>1, <2>2, <2>3, <2>4, TraceIndices, TraceKept
    <2>5. CASE inflight[m] = "published" /\ inflight'[m] # "published"
      <3>1. BrokerPuback \/ BrokerPubrec
        BY <1>2, <1>8, <2>5
           DEF BrokerReads, BrokerPublishQoS0, BrokerPublishQoS1, BrokerPublishQoS2, BrokerPubrel,
               BrokerSubscribe, BrokerUnsubscribe, BrokerPingreq, BrokerDisconnect, BrokerPubcomp,
               brokerVars
      <3>2. /\ Head(toBroker).type \in {"PUBACK", "PUBREC"}
            /\ \E r : inflight' = [inflight EXCEPT ![Head(toBroker).id] = r]
        BY <3>1 DEF BrokerPuback, BrokerPubrec, Consume
      <3>3. Head(toBroker).id = m
        BY <1>2, <2>5, <3>2
      <3>4. 1 \in AnsweredAt(m)
        BY <2>1, <3>2, <3>3, Types, TailElements DEF AnsweredAt
      <3>5. AnsweredAt(m)' = {}
        BY <1>6, <2>2, <3>4 DEF OneTrace
      <3>6. SentTo(m)' = {} /\ ~Handling(m)'
        BY <1>6, <2>3, <3>4 DEF OneTrace
      <3> QED BY <3>5, <3>6 DEF OneTrace
    <2> QED BY <2>4, <2>5
  <1>9. CASE BrokerSends
    <2>1. PICK x \in InMsgs : BrokerPush(x) \/ BrokerResend(x)
      BY <1>9 DEF BrokerSends
    <2>2. /\ toBroker' = toBroker /\ onLink \subseteq onLink'
          /\ inflight[m] = "published" => inflight'[m] = "published"
      BY <1>2, <2>1 DEF BrokerPush, BrokerResend
    <2>3. AnsweredAt(m)' = AnsweredAt(m)
      BY <2>2 DEF AnsweredAt
    <2>4. CASE SentTo(m)' \subseteq SentTo(m)
      <3>1. /\ \A j \in SentTo(m)' : j + 0 \in SentTo(m)
            /\ \A i \in AnsweredAt(m)' : i + 0 \in AnsweredAt(m)
        BY <2>3, <2>4, TraceIndices
      <3> QED BY <1>6, <2>2, <3>1, TraceIndices, TraceKept
    <2>5. ASSUME NEW j \in SentTo(m)', j \notin SentTo(m) PROVE OneTrace(m)'
      <3>1. Sent(toClient'[j]) /\ toClient'[j].type = "PUBLISH" /\ toClient'[j].msg = m
            /\ toClient'[j].qos > 0
        BY <1>3, <2>5 DEF SentTo
      <3>2. /\ BrokerPush(m) \/ (BrokerResend(m) /\ inflight[m] = "published")
            /\ InQoS[m] > 0
        BY <3>1, SentPublishes
      <3>3. /\ inflight'[m] = "published" /\ m \in onLink'
            /\ inflight[m] # "published" \/ m \notin onLink
        <4>1. CASE BrokerPush(m)
          <5>1. /\ inflight[m] = "new" /\ inflight' = [inflight EXCEPT ![m] = "published"]
                /\ onLink' = onLink \cup {m}
            BY <3>2, <4>1 DEF BrokerPush
          <5> QED BY <1>2, <5>1
        <4>2. CASE BrokerResend(m) /\ inflight[m] = "published"
          BY <4>2 DEF BrokerResend
        <4> QED BY <3>2, <4>1, <4>2
      <3>4. SentTo(m) = {} /\ AnsweredAt(m) = {} /\ ~Handling(m)
        BY <1>6, <3>3 DEF OneTrace
      <3>5. \A i \in SentTo(m)' : i = Len(toClient) + 1
        BY <1>3, <3>4 DEF SentTo
      <3> QED BY <1>6, <2>3, <3>3, <3>4, <3>5 DEF OneTrace
    <2> QED BY <2>4, <2>5
  <1> QED BY <1>7, <1>8, <1>9

LEMMA Inbound == Spec => []InboundInv
  <1>1. Init => InboundInv
    BY DEF Init, NetworkInit, ClientInit, InboundInv, OneTrace, SentTo, Handling, AnsweredAt,
           PushedAsTold, FreshLink
  <1>2. TypeOK /\ TypeOK' /\ ExchangeInv /\ SightInv /\ DeliveredInv /\ InboundInv /\ [Next]_vars
          => InboundInv'
    <2> SUFFICES ASSUME TypeOK, TypeOK', ExchangeInv, SightInv, DeliveredInv, InboundInv,
                        [Next]_vars
                 PROVE  InboundInv'
      OBVIOUS
    <2>1. CASE UNCHANGED vars
      BY <2>1 DEF vars, networkVars, brokerVars, clientVars, InboundInv, OneTrace, SentTo,
                  Handling, AnsweredAt, PushedAsTold, FreshLink
    <2> QED BY <2>1, ClientInbound, BrokerInbound DEF Next, ClientStep, SightInv
  <1> QED BY <1>1, <1>2, Delivered, Sight, Exchange, TypeCorrect, PTL DEF Spec

-----------------------------------------------------------------------------
(* What publish() has returned, for the second refinement.                 *)

Publishing == pc # "idle" /\ cmd.op = "publish"

\* publish() at QoS 1 or 2 has recorded nothing while it runs.
PendingInv == Publishing => outcome[cmd.msg] = "pending"

\* A method starts and is none that records a result, or goes on.
NoResult ==
  /\ UNCHANGED outcome
  /\ Publishing' => Publishing /\ cmd'.msg = cmd.msg

\* publish() of m is called: it returns at once or waits.
PublishCalled(m) ==
  /\ outcome[m] = "none"
  /\ pc = "idle"
  /\ \E r \in {"pending", "failed", "ok"} :
       /\ outcome' = [outcome EXCEPT ![m] = r]
       /\ r = "ok" => OutQoS[m] = 0
       /\ Publishing' => r = "pending" /\ cmd'.msg = m
  /\ UNCHANGED delivered

\* The publish() that waited returns.
PublishEnds(r) ==
  /\ Publishing
  /\ outcome' = [outcome EXCEPT ![cmd.msg] = r]
  /\ pc' = "idle"
  /\ UNCHANGED delivered

LEMMA Results ==
  ASSUME TypeOK, IdleSight, ClientStep
  PROVE  \/ NoResult
         \/ \E m \in Msgs : PublishCalled(m)
         \/ \E r \in {"ok", "failed"} : PublishEnds(r)
  <1>1. ASSUME NEW r \in {"ok", "failed"}, Record(cmd, r), pc' = "idle", UNCHANGED delivered
        PROVE  NoResult \/ PublishEnds(r)
    <2>1. CASE cmd.op # "publish"
      BY <1>1, <2>1 DEF Record, NoResult, Publishing
    <2>2. CASE cmd.op = "publish"
      <3>1. pc # "idle"
        BY <2>2 DEF IdleSight, NoCommand, Command
      <3> QED BY <1>1, <2>2, <3>1 DEF Record, PublishEnds, Publishing
    <2> QED BY <2>1, <2>2
  <1>2. CASE \/ SendAckFails \/ ReadPacketFails \/ ReadFails \/ CommandAcked \/ CommandRejected
             \/ CommandTimesOut \/ NoPingDue \/ PongTimeout \/ SendPing \/ SendPingFails
             \/ PowerCycle
    <2>1. \E r \in {"ok", "failed"} : Record(cmd, r) /\ pc' = "idle" /\ UNCHANGED delivered
      BY <1>2 DEF SendAckFails, ReadPacketFails, ReadFails, CommandAcked, CommandRejected,
                  CommandTimesOut, NoPingDue, PongTimeout, SendPing, SendPingFails, PowerCycle,
                  Fail, Succeed, Idle
    <2> QED BY <1>1, <2>1
  <1>3. CASE \/ ConnectRefused \/ ConnectStart \/ PrepareDuplicate \/ Disconnect \/ LoopYields
             \/ LoopSkipsYield \/ \E t \in Topics : SubscribeStart(t) \/ UnsubscribeStart(t)
    <2>1. /\ UNCHANGED outcome
          /\ pc' = "idle" \/ cmd'.op # "publish"
      BY <1>3 DEF ConnectRefused, ConnectStart, ConnectCommand, PrepareDuplicate, Disconnect,
                  LoopYields, LoopSkipsYield, LoopStarts, LoopCommand, SubscribeStart,
                  SubscribeCommand, UnsubscribeStart, UnsubscribeCommand, Request, Wait,
                  Command, callVars
    <2> QED BY <2>1 DEF NoResult, Publishing
  <1>4. CASE ConnectFails \/ \E t \in Topics : RequestFails(t)
    <2>1. PICK c \in {ConnectCommand} \cup {SubscribeCommand(t) : t \in Topics} :
            Record(c, "failed") /\ pc' = "idle"
      BY <1>4 DEF ConnectFails, RequestFails, Fail, Idle
    <2>2. c.op # "publish"
      BY <2>1 DEF ConnectCommand, SubscribeCommand, Command
    <2> QED BY <2>1, <2>2 DEF Record, NoResult, Publishing
  <1>5. ASSUME NEW m \in Msgs, PublishQoS0(m) \/ PublishStart(m) \/ PublishFails(m)
        PROVE  PublishCalled(m)
    <2>1. /\ outcome[m] = "none" /\ pc = "idle" /\ UNCHANGED delivered
          /\ PublishCommand(m).op = "publish" /\ PublishCommand(m).msg = m
      BY <1>5 DEF PublishQoS0, PublishStart, PublishFails, MayPublish, PublishCommand, Command
    <2>2. CASE PublishStart(m)
      BY <2>1, <2>2 DEF PublishStart, Wait, Publishing, PublishCalled
    <2>3. CASE PublishQoS0(m)
      <3>1. /\ OutQoS[m] = 0 /\ pc' = "idle"
            /\ outcome' = [outcome EXCEPT ![m] = "ok"]
        BY <2>1, <2>3 DEF PublishQoS0, Succeed, Idle, Record
      <3> QED BY <2>1, <3>1 DEF Publishing, PublishCalled
    <2>4. CASE PublishFails(m)
      <3>1. pc' = "idle" /\ outcome' = [outcome EXCEPT ![m] = "failed"]
        BY <2>1, <2>4 DEF PublishFails, Fail, Idle, Record
      <3> QED BY <2>1, <3>1 DEF Publishing, PublishCalled
    <2> QED BY <1>5, <2>2, <2>3, <2>4
  <1>6. CASE \/ ReceivePublish \/ ReceiveAckToAnswer \/ ReceivePingresp \/ ReceiveOther
             \/ SendAck \/ DropPacket \/ ReadNothing \/ NextCycle
    <2>1. /\ UNCHANGED outcome
          /\ pc # "idle" /\ cmd'.op = cmd.op /\ cmd'.msg = cmd.msg
      <3>1. CASE SendAck \/ DropPacket \/ ReadNothing \/ NextCycle
        BY <3>1 DEF SendAck, DropPacket, ReadNothing, NextCycle, callVars
      <3>2. CASE ReceivePublish \/ ReceiveAckToAnswer \/ ReceivePingresp \/ ReceiveOther
        <4>1. /\ pc = "wait" /\ UNCHANGED outcome
              /\ cmd' = [cmd EXCEPT !.available = IF @ > 0 THEN @ - 1 ELSE 0]
          BY <3>2 DEF ReceivePublish, ReceiveAckToAnswer, ReceivePingresp, ReceiveOther,
                      Receive, callVars
        <4> QED BY <4>1 DEF TypeOK, MethodTypeOK, Commands
      <3> QED BY <1>6, <3>1, <3>2
    <2> QED BY <2>1 DEF NoResult, Publishing
  <1>7. CASE YieldEnds
    BY <1>7 DEF YieldEnds, callVars, NoResult, Publishing
  <1>8. CASE Environment /\ ~PowerCycle
    <2>1. UNCHANGED <<outcome, pc, cmd>>
      BY <1>8 DEF Environment, CommandTimerExpires, KeepAliveTimerExpires, LinkReset, LinkStall,
                  callVars, clientVars
    <2> QED BY <2>1 DEF NoResult, Publishing
  <1> QED BY <1>2, <1>3, <1>4, <1>5, <1>6, <1>7, <1>8 DEF ClientStep, Call, Run, Environment

LEMMA Pending == Spec => []PendingInv
  <1>1. Init => PendingInv
    BY DEF Init, ClientInit, PendingInv, Publishing
  <1>2. TypeOK /\ SightInv /\ PendingInv /\ [Next]_vars => PendingInv'
    <2> SUFFICES ASSUME TypeOK, SightInv, PendingInv, [Next]_vars PROVE PendingInv'
      OBVIOUS
    <2>1. CASE UNCHANGED vars \/ BrokerReads \/ BrokerSends
      BY <2>1 DEF vars, clientVars, BrokerReads, BrokerSends, PendingInv, Publishing
    <2>2. CASE NoResult
      BY <2>2 DEF NoResult, PendingInv
    <2>3. ASSUME NEW m \in Msgs, PublishCalled(m) PROVE PendingInv'
      BY <2>3 DEF PublishCalled, PendingInv, TypeOK, MethodTypeOK
    <2>4. ASSUME NEW r, PublishEnds(r) PROVE PendingInv'
      BY <2>4 DEF PublishEnds, PendingInv, Publishing
    <2> QED BY <2>1, <2>2, <2>3, <2>4, Results DEF Next, ClientStep, SightInv
  <1> QED BY <1>1, <1>2, Sight, TypeCorrect, PTL DEF Spec

-----------------------------------------------------------------------------
(* The steps, as the delivery service sees them.                           *)

\* With clean sessions, or without QoS 2, a PUBCOMP says that the message of
\* the running publish() was routed.
CompletedRouted ==
  HeldOf("PUBCOMP") /\ cmd.op = "publish" /\ OutQoS[cmd.msg] = 2 => accepted[cmd.msg] >= 1

\* All that is known of the messages.
Tracked ==
  /\ TypeOK
  /\ ExchangeInv
  /\ SightInv
  /\ DeliveredInv
  /\ InflightQoS
  /\ InboundInv
  /\ PendingInv
  /\ RoutedOnceInv
  /\ QoS1Inv
  /\ CompletedRouted

SettlementView == [m \in InMsgs |-> Settlement(m)]

LEMMA SettlementType ==
  ASSUME TypeOK, NEW m \in InMsgs
  PROVE  /\ Settlement(m) \in {"open", "settled", "dropped"}
         /\ Settlement(m) = "open" <=> inflight[m] \in {"new", "published"}
         /\ Settlement(m) = "settled" <=> inflight[m] \in {"released", "done"}
         /\ Settlement(m) = "dropped" <=> inflight[m] = "dropped"
  <1>1. inflight[m] \in Progress
    BY DEF TypeOK, BrokerTypeOK
  <1>2. CASE inflight[m] \in {"new", "published"}
    BY <1>2 DEF Settlement
  <1>3. CASE inflight[m] \in {"released", "done"}
    BY <1>3 DEF Settlement
  <1>4. CASE inflight[m] = "dropped"
    BY <1>4 DEF Settlement
  <1> QED BY <1>1, <1>2, <1>3, <1>4 DEF Progress

SettlementSeen ==
  \A m \in InMsgs :
    /\ Settlement(m) \in {"open", "settled", "dropped"}
    /\ Settlement(m) = "open" <=> inflight[m] \in {"new", "published"}
    /\ Settlement(m) = "settled" <=> inflight[m] \in {"released", "done"}
    /\ Settlement(m) = "dropped" <=> inflight[m] = "dropped"

LEMMA SettlementNow == TypeOK => SettlementSeen
  BY SettlementType DEF SettlementSeen

LEMMA SettlementNext == TypeOK' => SettlementSeen'
  BY SettlementNow, PTL

LEMMA SameSettlement == inflight' = inflight => SettlementView' = SettlementView
  BY DEF SettlementView, Settlement

LEMMA CallsBack ==
  ASSUME ClientStep
  PROVE  ReceivePublish \/ UNCHANGED delivered
  BY DEF ClientStep, Call, ConnectRefused, ConnectStart, ConnectFails, PublishQoS0, PublishStart,
         PublishFails, PrepareDuplicate, SubscribeStart, UnsubscribeStart, Request, RequestFails,
         Disconnect, LoopYields, LoopSkipsYield, LoopStarts, Run, ReceiveAckToAnswer,
         ReceivePingresp, ReceiveOther, SendAck, SendAckFails, DropPacket, ReadPacketFails,
         ReadFails, ReadNothing, NextCycle, CommandAcked, CommandRejected, CommandTimesOut,
         YieldEnds, NoPingDue, PongTimeout, SendPing, SendPingFails, Environment,
         CommandTimerExpires, KeepAliveTimerExpires, PowerCycle, LinkReset, LinkStall, clientVars

\* The callback gets a message that is not settled: it is at QoS 0, or the
\* broker awaits the answer.
LEMMA ReceiveServed ==
  ASSUME Tracked, ReceivePublish, UNCHANGED brokerVars
  PROVE  \E m \in InMsgs : Delivery!Receive(m)
  <1>1. PICK p \in Arriving : /\ Receive(p)
                              /\ p.type = "PUBLISH"
                              /\ CallBack(p)
    BY DEF ReceivePublish
  <1>2. toClient # <<>> /\ p = Head(toClient)
    BY <1>1 DEF Arriving
  <1>3. p \in BrokerPacket /\ p = toClient[1] /\ 1 \in DOMAIN toClient
    BY <1>2, Types, TailElements, HeadTailProperties DEF Tracked
  <1>4. p.msg \in InMsgs /\ p.qos = InQoS[p.msg] /\ p.qos \in 0..2
    BY <1>1, <1>3 DEF BrokerPacket, Packet, Tracked, InboundInv, PushedAsTold
  <1>5. inflight[p.msg] \in {"new", "published"}
    <2>1. CASE p.qos > 0
      <3>1. 1 \in SentTo(p.msg)
        BY <1>1, <1>3, <2>1 DEF SentTo
      <3> QED BY <1>4, <3>1 DEF Tracked, InboundInv, OneTrace
    <2>2. CASE p.qos = 0
      <3>1. InQoS[p.msg] = 0 /\ ~(0 > 0)
        BY <1>4, <2>2
      <3>2. inflight[p.msg] # "new" => InQoS[p.msg] > 0
        BY <1>4 DEF Tracked, InflightQoS
      <3> QED BY <3>1, <3>2
    <2> QED BY <1>4, <2>1, <2>2
  <1>6. SettlementView[p.msg] = "open" /\ SettlementView' = SettlementView
    BY <1>4, <1>5, SettlementType, SameSettlement DEF SettlementView, Tracked, brokerVars
  <1>7. /\ delivered' = [delivered EXCEPT ![p.msg] = IF @ = 0 THEN 1 ELSE 2]
        /\ UNCHANGED <<outcome, accepted>>
    BY <1>1 DEF CallBack, Receive, callVars, brokerVars
  <1> QED BY <1>4, <1>6, <1>7 DEF Delivery!Receive, SettlementView

\* publish() returns true after a PUBACK or PUBCOMP that came when the message
\* had been routed.
LEMMA ClientServed ==
  ASSUME Tracked, ClientStep
  PROVE  Delivery!DeliveryNext \/ UNCHANGED Delivery!deliveryVars
  <1>1. UNCHANGED brokerVars
    BY DEF ClientStep, Call, Run, Environment
  <1>2. UNCHANGED accepted /\ SettlementView' = SettlementView
    BY <1>1, SameSettlement DEF brokerVars
  <1>3. CASE ReceivePublish
    BY <1>1, <1>3, ReceiveServed DEF Delivery!DeliveryNext
  <1>4. CASE NoResult /\ UNCHANGED delivered
    BY <1>2, <1>4 DEF NoResult, Delivery!deliveryVars, SettlementView
  <1>5. ASSUME NEW m \in Msgs, PublishCalled(m) PROVE Delivery!DeliveryNext
    <2>1. PICK r \in {"pending", "failed", "ok"} :
            /\ outcome' = [outcome EXCEPT ![m] = r]
            /\ r = "ok" => OutQoS[m] = 0
      BY <1>5 DEF PublishCalled
    <2>2. r = "ok" => m \notin {x \in Msgs : OutQoS[x] > 0}
      BY <2>1
    <2>3. /\ outcome[m] = "none" /\ UNCHANGED <<accepted, delivered>>
          /\ SettlementView' = SettlementView
      BY <1>2, <1>5 DEF PublishCalled
    <2>4. Delivery!Publish(m)
      <3>1. CASE r = "pending"
        BY <2>1, <2>3, <3>1 DEF Delivery!Publish, SettlementView
      <3>2. CASE r = "failed"
        BY <2>1, <2>3, <3>2 DEF Delivery!Publish, SettlementView
      <3>3. CASE r = "ok"
        BY <2>1, <2>2, <2>3, <3>3 DEF Delivery!Publish, SettlementView
      <3> QED BY <3>1, <3>2, <3>3
    <2> QED BY <2>4 DEF Delivery!DeliveryNext
  <1>6. ASSUME NEW r \in {"ok", "failed"}, PublishEnds(r) PROVE Delivery!DeliveryNext
    <2>1. cmd.msg \in Msgs /\ outcome[cmd.msg] = "pending" /\ OutQoS[cmd.msg] > 0
      BY <1>6 DEF PublishEnds, Publishing, Tracked, PendingInv, ExchangeInv, CommandNeedle
    <2>2. r = "ok" => accepted[cmd.msg] = 1
      <3> SUFFICES ASSUME r = "ok" PROVE accepted[cmd.msg] = 1
        OBVIOUS
      <3>1. outcome'[cmd.msg] = "ok"
        BY <1>6, <2>1 DEF PublishEnds, Tracked, TypeOK, MethodTypeOK
      <3>2. \/ OutQoS[cmd.msg] = 1 /\ HeldOf("PUBACK")
            \/ OutQoS[cmd.msg] = 2 /\ HeldOf("PUBCOMP")
        BY <2>1, <3>1, OutcomeOk DEF Tracked, Next, ClientStep
      <3>3. accepted[cmd.msg] >= 1
        BY <1>6, <3>2 DEF Tracked, QoS1Inv, CompletedRouted, PublishEnds, Publishing
      <3>4. accepted[cmd.msg] \in 0..2 /\ accepted[cmd.msg] <= 1
        BY <2>1 DEF Tracked, TypeOK, BrokerTypeOK, RoutedOnceInv, InOnePlace
      <3> QED BY <3>3, <3>4
    <2>3. Delivery!PublishReturns(cmd.msg, r = "ok")
      BY <1>2, <1>6, <2>1, <2>2 DEF PublishEnds, Delivery!PublishReturns, SettlementView
    <2> QED BY <2>1, <2>3 DEF Delivery!DeliveryNext
  <1> QED BY <1>3, <1>4, <1>5, <1>6, CallsBack, Results DEF Tracked, SightInv

\* The broker routes a message that was published and not routed.
LEMMA RouteServed ==
  ASSUME Tracked, BrokerPublishQoS0 \/ BrokerPublishQoS1 \/ BrokerPubrel, UNCHANGED clientVars
  PROVE  (\E m \in Msgs : Delivery!Route(m)) \/ UNCHANGED Delivery!deliveryVars
  <1> DEFINE h == Head(toBroker)
  <1>1. /\ toBroker # <<>> /\ UNCHANGED <<outcome, delivered>> /\ SettlementView' = SettlementView
    BY SameSettlement
       DEF BrokerPublishQoS0, BrokerPublishQoS1, BrokerPubrel, Consume, clientVars
  <1>2. h \in ClientPacket /\ h = toBroker[1] /\ 1 \in DOMAIN toBroker
    BY <1>1, Types, TailElements, HeadTailProperties DEF Tracked
  <1> HIDE DEF h
  <1>3. ASSUME NEW m \in Msgs, SentAt(m) # {} \/ StoredAt(m) # {},
               accepted' = [accepted EXCEPT ![m] = OneMore(@)]
        PROVE  Delivery!Route(m)
    <2>1. accepted[m] = 0 /\ outcome[m] # "none"
      BY <1>3 DEF Tracked, RoutedOnceInv, InOnePlace
    <2>2. accepted' = [accepted EXCEPT ![m] = 1]
      BY <1>3, <2>1 DEF OneMore, Tracked, TypeOK, BrokerTypeOK
    <2> QED BY <1>1, <2>1, <2>2 DEF Delivery!Route, SettlementView
  <1>4. CASE BrokerPublishQoS0 \/ BrokerPublishQoS1
    <2>1. h.type = "PUBLISH" /\ accepted' = [accepted EXCEPT ![h.msg] = OneMore(@)]
      BY <1>4 DEF BrokerPublishQoS0, BrokerPublishQoS1, Consume, h
    <2>2. h.msg \in Msgs /\ 1 \in SentAt(h.msg)
      BY <1>2, <2>1 DEF ClientPacket, SentAt
    <2> QED BY <1>3, <2>1, <2>2
  <1>5. CASE BrokerPubrel
    <2>1. /\ h.type = "PUBREL"
          /\ accepted' = IF awaitRel[h.id] = NoMsg THEN accepted
                         ELSE [accepted EXCEPT ![awaitRel[h.id]] = OneMore(@)]
      BY <1>5 DEF BrokerPubrel, Consume, h
    <2>2. h.id \in 1..MaxPacketId
      BY <1>2, <2>1 DEF Tracked, RoutedOnceInv, ReleaseIds
    <2>3. awaitRel[h.id] \in Msgs \cup {NoMsg}
      BY <2>2 DEF Tracked, TypeOK, BrokerTypeOK
    <2>4. CASE awaitRel[h.id] = NoMsg
      BY <1>1, <2>1, <2>4 DEF Delivery!deliveryVars, SettlementView
    <2>5. CASE awaitRel[h.id] # NoMsg
      <3>1. awaitRel[h.id] \in Msgs /\ h.id \in StoredAt(awaitRel[h.id])
        BY <2>2, <2>3, <2>5 DEF StoredAt
      <3> QED BY <1>3, <2>1, <2>5, <3>1
    <2> QED BY <2>4, <2>5
  <1> QED BY <1>4, <1>5

\* A message is settled by the answer that followed the callback.
LEMMA SettleServed ==
  ASSUME Tracked, TypeOK', BrokerPuback \/ BrokerPubrec \/ BrokerPubcomp, UNCHANGED clientVars
  PROVE  (\E m \in InMsgs : Delivery!Settle(m)) \/ UNCHANGED Delivery!deliveryVars
  <1> DEFINE h == Head(toBroker)
  <1>1. toBroker # <<>> /\ UNCHANGED <<outcome, delivered, accepted>>
    BY DEF BrokerPuback, BrokerPubrec, BrokerPubcomp, Consume, clientVars
  <1>2. h = toBroker[1] /\ 1 \in DOMAIN toBroker
    BY <1>1, Types, TailElements DEF Tracked
  <1>3. inflight \in [InMsgs -> Progress]
    BY DEF Tracked, TypeOK, BrokerTypeOK
  <1>4. SettlementSeen /\ SettlementSeen'
    BY SettlementNow, SettlementNext DEF Tracked
  <1> HIDE DEF h
  <1>5. ASSUME \A m \in InMsgs : Settlement(m)' = Settlement(m)
        PROVE  UNCHANGED Delivery!deliveryVars
    <2>1. SettlementView' = SettlementView
      BY <1>5 DEF SettlementView
    <2> QED BY <1>1, <2>1 DEF Delivery!deliveryVars, SettlementView
  <1>6. CASE BrokerPuback \/ BrokerPubrec
    <2>1. PICK r \in {"released", "done"} :
            /\ h.type \in {"PUBACK", "PUBREC"}
            /\ inflight' = [inflight EXCEPT ![h.id] = IF @ = "published" THEN r ELSE @]
      BY <1>6 DEF BrokerPuback, BrokerPubrec, Consume, h
    <2>2. CASE h.id \in InMsgs /\ inflight[h.id] = "published"
      <3>1. \A m \in InMsgs : inflight'[m] = IF m = h.id THEN r ELSE inflight[m]
        BY <1>3, <2>1, <2>2
      <3>2. \A m \in InMsgs : Settlement(m)' = IF m = h.id THEN "settled" ELSE Settlement(m)
        <4> SUFFICES ASSUME NEW m \in InMsgs
                     PROVE  Settlement(m)' = IF m = h.id THEN "settled" ELSE Settlement(m)
          OBVIOUS
        <4>1. CASE m = h.id
          BY <1>4, <2>1, <3>1, <4>1 DEF SettlementSeen
        <4>2. CASE m # h.id
          <5>1. inflight'[m] = inflight[m]
            BY <3>1, <4>2
          <5>2. Settlement(m)' = Settlement(m)
            BY <5>1 DEF Settlement
          <5> QED BY <4>2, <5>2
        <4> QED BY <4>1, <4>2
      <3>3. SettlementView' = [SettlementView EXCEPT ![h.id] = "settled"]
        BY <3>2 DEF SettlementView
      <3>4. SettlementView[h.id] = "open"
        BY <1>4, <2>2 DEF SettlementView, SettlementSeen
      <3>5. delivered[h.id] >= 1
        BY <1>2, <2>1, <2>2 DEF Tracked, DeliveredInv, AnswersMeanDelivered
      <3>6. Delivery!Settle(h.id)
        BY <1>1, <3>3, <3>4, <3>5 DEF Delivery!Settle, SettlementView
      <3> QED BY <2>2, <3>6
    <2>3. CASE ~(h.id \in InMsgs /\ inflight[h.id] = "published")
      <3>1. \A m \in InMsgs : inflight'[m] = inflight[m]
        BY <1>3, <2>1, <2>3
      <3> QED BY <1>5, <3>1 DEF Settlement
    <2> QED BY <2>2, <2>3
  <1>7. CASE BrokerPubcomp
    <2>1. inflight' = [inflight EXCEPT ![h.id] = IF @ = "released" THEN "done" ELSE @]
      BY <1>7 DEF BrokerPubcomp, h
    <2>2. \A m \in InMsgs : \/ inflight'[m] = inflight[m]
                            \/ inflight[m] = "released" /\ inflight'[m] = "done"
      BY <1>3, <2>1
    <2>3. \A m \in InMsgs : Settlement(m)' = Settlement(m)
      <3> SUFFICES ASSUME NEW m \in InMsgs PROVE Settlement(m)' = Settlement(m)
        OBVIOUS
      <3>1. CASE inflight'[m] = inflight[m]
        BY <3>1 DEF Settlement
      <3>2. CASE inflight[m] = "released" /\ inflight'[m] = "done"
        BY <1>4, <3>2 DEF SettlementSeen
      <3> QED BY <2>2, <3>1, <3>2
    <2> QED BY <1>5, <2>3
  <1> QED BY <1>6, <1>7

LEMMA SessionServed ==
  ASSUME Tracked, TypeOK', NEW ok \in BOOLEAN, BrokerConnect(ok), UNCHANGED clientVars
  PROVE  Delivery!NewSession
  <1>1. inflight \in [InMsgs -> Progress]
    BY DEF Tracked, TypeOK, BrokerTypeOK
  <1>2. SettlementSeen /\ SettlementSeen'
    BY SettlementNow, SettlementNext DEF Tracked
  <1>3. \A m \in InMsgs : inflight'[m] \in {inflight[m], "dropped"}
    BY <1>1 DEF BrokerConnect
  <1>4. \A m \in InMsgs : Settlement(m)' \in {Settlement(m), "dropped"}
    <2> SUFFICES ASSUME NEW m \in InMsgs PROVE Settlement(m)' \in {Settlement(m), "dropped"}
      OBVIOUS
    <2>1. CASE inflight'[m] = inflight[m]
      BY <2>1 DEF Settlement
    <2>2. CASE inflight'[m] = "dropped"
      BY <1>2, <2>2 DEF SettlementSeen
    <2> QED BY <1>3, <2>1, <2>2
  <1>5. /\ SettlementView' \in [InMsgs -> {"open", "settled", "dropped"}]
        /\ \A m \in InMsgs : SettlementView'[m] \in {SettlementView[m], "dropped"}
    BY <1>2, <1>4 DEF SettlementView, SettlementSeen
  <1>6. UNCHANGED <<outcome, accepted, delivered>>
    BY DEF BrokerConnect, clientVars
  <1> QED BY <1>5, <1>6 DEF Delivery!NewSession, SettlementView

LEMMA BrokerServed ==
  ASSUME Tracked, TypeOK', BrokerReads \/ BrokerSends
  PROVE  Delivery!DeliveryNext \/ UNCHANGED Delivery!deliveryVars
  <1>0. UNCHANGED clientVars
    BY DEF BrokerReads, BrokerSends
  <1>1. CASE BrokerPublishQoS0 \/ BrokerPublishQoS1 \/ BrokerPubrel
    BY <1>0, <1>1, RouteServed DEF Delivery!DeliveryNext
  <1>2. CASE BrokerPuback \/ BrokerPubrec \/ BrokerPubcomp
    BY <1>0, <1>2, SettleServed DEF Delivery!DeliveryNext
  <1>3. CASE \E ok \in BOOLEAN : BrokerConnect(ok)
    BY <1>0, <1>3, SessionServed DEF Delivery!DeliveryNext
  <1>4. ASSUME UNCHANGED <<accepted, inflight>> PROVE UNCHANGED Delivery!deliveryVars
    BY <1>0, <1>4, SameSettlement DEF clientVars, Delivery!deliveryVars, SettlementView
  <1>5. CASE \/ BrokerPublishQoS2 \/ BrokerUnsubscribe \/ BrokerPingreq \/ BrokerDisconnect
             \/ \E ok \in BOOLEAN : BrokerSubscribe(ok)
    BY <1>4, <1>5 DEF BrokerPublishQoS2, BrokerUnsubscribe, BrokerPingreq, BrokerDisconnect,
                      BrokerSubscribe, brokerVars
  <1>6. CASE BrokerSends
    <2>1. PICK m \in InMsgs : BrokerPush(m) \/ BrokerResend(m)
      BY <1>6 DEF BrokerSends
    <2>2. UNCHANGED accepted
      BY <2>1 DEF BrokerPush, BrokerResend
    <2>3. \A x \in InMsgs : \/ inflight'[x] = inflight[x]
                            \/ inflight[x] = "new" /\ inflight'[x] = "published"
      BY <2>1 DEF BrokerPush, BrokerResend, Tracked, TypeOK, BrokerTypeOK
    <2>4. SettlementSeen /\ SettlementSeen'
      BY SettlementNow, SettlementNext DEF Tracked
    <2>5. \A x \in InMsgs : Settlement(x)' = Settlement(x)
      <3> SUFFICES ASSUME NEW x \in InMsgs PROVE Settlement(x)' = Settlement(x)
        OBVIOUS
      <3>1. CASE inflight'[x] = inflight[x]
        BY <3>1 DEF Settlement
      <3>2. CASE inflight[x] = "new" /\ inflight'[x] = "published"
        BY <2>4, <3>2 DEF SettlementSeen
      <3> QED BY <2>3, <3>1, <3>2
    <2>6. SettlementView' = SettlementView
      BY <2>5 DEF SettlementView
    <2> QED BY <1>0, <2>2, <2>6 DEF clientVars, Delivery!deliveryVars, SettlementView
  <1> QED BY <1>1, <1>2, <1>3, <1>5, <1>6 DEF BrokerReads

-----------------------------------------------------------------------------

LEMMA InitServed == Init => Delivery!DeliveryInit
  <1> SUFFICES ASSUME Init PROVE Delivery!DeliveryInit
    OBVIOUS
  <1>1. /\ outcome = [m \in Msgs |-> "none"] /\ accepted = [m \in Msgs |-> 0]
        /\ delivered = [m \in InMsgs |-> 0] /\ inflight = [m \in InMsgs |-> "new"]
    BY DEF Init, BrokerInit, ClientInit
  <1>2. \A m \in InMsgs : Settlement(m) = "open"
    BY <1>1, SettlementType, InitType
  <1> QED BY <1>1, <1>2 DEF Delivery!DeliveryInit

LEMMA StepServed == Tracked /\ TypeOK' /\ [Next]_vars => [Delivery!DeliveryNext]_(Delivery!deliveryVars)
  <1> SUFFICES ASSUME Tracked, TypeOK', [Next]_vars
               PROVE  Delivery!DeliveryNext \/ UNCHANGED Delivery!deliveryVars
    OBVIOUS
  <1>1. CASE UNCHANGED vars
    <2>1. UNCHANGED <<outcome, accepted, delivered, inflight>>
      BY <1>1 DEF vars, brokerVars, clientVars
    <2> QED BY <2>1, SameSettlement DEF Delivery!deliveryVars, SettlementView
  <1> QED BY <1>1, ClientServed, BrokerServed DEF Next, ClientStep

\* Without QoS 2, or with clean sessions, the messages of every behaviour are
\* those of the delivery service: publish() at QoS 1 or 2 returns true only
\* after the broker routed the message, once; the callback gets an inbound
\* message before it is settled and never after.  A session that survives a
\* restart with a QoS 2 message in it may meet its packet id again, so the
\* hypothesis is needed.
THEOREM DeliveryImplemented ==
  ASSUME CleanSession \/ \A m \in Msgs : OutQoS[m] # 2
  PROVE  Spec => ImplementsDelivery
  <1>1. Spec => []CompletedRouted
    <2>1. CASE CleanSession
      <3>1. QoS2Inv => CompletedRouted
        BY DEF QoS2Inv, CompletedIsRouted, CompletedRouted
      <3>2. Spec => []QoS2Inv
        BY <2>1, QoS2
      <3> QED BY <3>1, <3>2, PTL
    <2>2. CASE \A m \in Msgs : OutQoS[m] # 2
      <3>1. ExchangeInv => CompletedRouted
        BY <2>2 DEF ExchangeInv, CommandNeedle, CompletedRouted
      <3> QED BY <3>1, Exchange, PTL
    <2> QED BY <2>1, <2>2
  <1>2. HandshakeInv => InflightQoS
    BY DEF HandshakeInv
  <1>3. Spec => []Tracked
    BY <1>1, <1>2, TypeCorrect, Exchange, Sight, Delivered, Handshakes, Inbound, Pending,
       RoutedOnce, QoS1, PTL DEF Tracked
  <1> QED BY <1>3, InitServed, StepServed, TypeCorrect, PTL
          DEF Spec, ImplementsDelivery, Delivery!DeliverySpec

=============================================================================
