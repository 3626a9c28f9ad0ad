-------------------------- MODULE MQTTSession_proofs --------------------------
(***************************************************************************)
(* Proofs about MQTTSession, for all values of its constants: its types,   *)
(* that connected() tells the truth about the broker, and that a command   *)
(* takes no answer but its own.                                            *)
(***************************************************************************)
EXTENDS MQTTSession, SequenceTheorems, FiniteSetTheorems, TLAPS

\* What a constructor builds is a packet of the side that sends it.
LEMMA ClientPackets ==
  /\ \A t \in {"CONNECT", "PINGREQ", "DISCONNECT"} : EncodeZero(t) \in ClientPacket
  /\ \A t \in {"PUBACK", "PUBREC", "PUBREL", "PUBCOMP"}, id \in PacketIds :
       EncodeAck(t, id) \in ClientPacket
  /\ \A dup \in BOOLEAN, id \in PacketIds, qos \in 0..2, m \in Msgs :
       EncodePublish(dup, id, qos, m) \in ClientPacket
  /\ \A id \in PacketIds, t \in Topics :
       /\ EncodeSubscribe(id, t) \in ClientPacket
       /\ EncodeUnsubscribe(id, t) \in ClientPacket
  <1> USE DEF ClientPacket, Packet, PacketTypes, NoPacket, PacketOf, EncodeZero
  <1>0. 0 \in PacketIds /\ NoMsg \in Payloads
    BY PacketAssumption DEF PacketIds, Payloads
  <1>1. \A t \in {"CONNECT", "PINGREQ", "DISCONNECT"} : EncodeZero(t) \in ClientPacket
    BY <1>0
  <1>2. ASSUME NEW t \in {"PUBACK", "PUBREC", "PUBREL", "PUBCOMP"}, NEW id \in PacketIds
        PROVE  EncodeAck(t, id) \in ClientPacket
    BY <1>0 DEF EncodeAck
  <1>3. ASSUME NEW dup \in BOOLEAN, NEW id \in PacketIds, NEW qos \in 0..2, NEW m \in Msgs
        PROVE  EncodePublish(dup, id, qos, m) \in ClientPacket
    BY <1>0 DEF EncodePublish, Payloads
  <1>4. ASSUME NEW id \in PacketIds, NEW t \in Topics
        PROVE  /\ EncodeSubscribe(id, t) \in ClientPacket
               /\ EncodeUnsubscribe(id, t) \in ClientPacket
    BY <1>0 DEF EncodeSubscribe, EncodeUnsubscribe, Payloads
  <1> HIDE DEF ClientPacket, EncodeZero
  <1> QED BY <1>1, <1>2, <1>3, <1>4

LEMMA BrokerPackets ==
  /\ EncodeZero("PINGRESP") \in BrokerPacket
  /\ \A ok \in BOOLEAN : Connack(ok) \in BrokerPacket
  /\ \A ok \in BOOLEAN, id \in PacketIds : Suback(id, ok) \in BrokerPacket
  /\ \A t \in {"PUBACK", "PUBREC", "PUBREL", "PUBCOMP", "UNSUBACK"}, id \in PacketIds :
       EncodeAck(t, id) \in BrokerPacket
  /\ \A dup \in BOOLEAN, m \in InMsgs :
       EncodePublish(dup, IF InQoS[m] = 0 THEN 0 ELSE m, InQoS[m], m) \in BrokerPacket
  <1> USE DEF BrokerPacket, Packet, PacketTypes, NoPacket, PacketOf, EncodeZero
  <1>0. 0 \in PacketIds /\ NoMsg \in Payloads
    BY PacketAssumption DEF PacketIds, Payloads
  <1>1. EncodeZero("PINGRESP") \in BrokerPacket
    BY <1>0
  <1>2. ASSUME NEW ok \in BOOLEAN, NEW id \in PacketIds
        PROVE  Connack(ok) \in BrokerPacket /\ Suback(id, ok) \in BrokerPacket
    BY <1>0 DEF Connack, Suback
  <1>3. ASSUME NEW t \in {"PUBACK", "PUBREC", "PUBREL", "PUBCOMP", "UNSUBACK"},
               NEW id \in PacketIds
        PROVE  EncodeAck(t, id) \in BrokerPacket
    BY <1>0 DEF EncodeAck
  <1>4. ASSUME NEW dup \in BOOLEAN, NEW m \in InMsgs
        PROVE  EncodePublish(dup, IF InQoS[m] = 0 THEN 0 ELSE m, InQoS[m], m)
                 \in BrokerPacket
    <2>1. InQoS[m] \in 0..2 /\ m \in Payloads /\ m \in PacketIds
      BY PacketAssumption DEF Payloads, PacketIds
    <2> QED BY <1>0, <2>1 DEF EncodePublish
  <1> HIDE DEF BrokerPacket, EncodeZero
  <1> QED BY <1>0, <1>1, <1>2, <1>3, <1>4

LEMMA NextPacketIdType ==
  ASSUME lastPacketId \in 0..MaxPacketId
  PROVE  NextPacketId \in 1..MaxPacketId
  BY PacketAssumption DEF NextPacketId

-----------------------------------------------------------------------------
(* The types after the pieces client actions are made of.                  *)

LEMMA IdleType ==
  Idle => /\ pc' = "idle"
          /\ cmd' \in Commands
          /\ readBuf' \in BrokerPacket \cup {EncodeZero(NoPacket)}
          /\ expired' \in BOOLEAN
  <1>1. NoCommand \in Commands
    <2>1. 0 \in 0..MaxPacketId /\ NoMsg \in Payloads /\ NoPacket \in PacketTypes
      BY PacketAssumption DEF Payloads, PacketTypes
    <2> QED BY <2>1 DEF NoCommand, Command, Commands
  <1> QED BY <1>1 DEF Idle

LEMMA RecordType ==
  ASSUME MethodTypeOK, NEW c, NEW r \in {"ok", "failed"}, Record(c, r)
  PROVE  outcome' \in [Msgs -> {"none", "pending", "ok", "failed"}]
  BY DEF MethodTypeOK, Record

LEMMA SucceedType ==
  ASSUME TypeOK, NEW c, Succeed(c)
  PROVE  MethodTypeOK'
  <1>1. outcome' \in [Msgs -> {"none", "pending", "ok", "failed"}]
    BY RecordType DEF Succeed, TypeOK
  <1>2. connected' \in BOOLEAN /\ returnCode' \in {"accepted", "unknown", "denied"}
    BY DEF Succeed, TypeOK, MethodTypeOK
  <1> QED BY <1>1, <1>2, IdleType DEF Succeed, MethodTypeOK, Errors

LEMMA FailType ==
  ASSUME TypeOK, NEW c, NEW err \in Errors, Fail(c, err)
  PROVE  /\ MethodTypeOK'
         /\ net' \in {"closed", "open", "half"}
         /\ toClient' \in Seq(BrokerPacket)
         /\ attached' \in BOOLEAN
  <1>1. outcome' \in [Msgs -> {"none", "pending", "ok", "failed"}]
    BY RecordType DEF Fail, TypeOK
  <1>2. returnCode' \in {"accepted", "unknown", "denied"}
    BY DEF Fail, TypeOK, MethodTypeOK
  <1>3. /\ connected' = FALSE
        /\ net' = "closed"
        /\ toClient' = <<>>
        /\ attached' \in BOOLEAN
    BY DEF Fail, Close, SocketStop, TypeOK, NetworkTypeOK
  <1>4. toClient' \in Seq(BrokerPacket)
    BY <1>3, EmptySeq
  <1>5. MethodTypeOK'
    BY <1>1, <1>2, <1>3, IdleType DEF Fail, MethodTypeOK
  <1> QED BY <1>3, <1>4, <1>5

LEMMA SendType ==
  ASSUME TypeOK, NEW p \in ClientPacket, SendPacket(p)
  PROVE  NetworkTypeOK' /\ keepAliveDue' = FALSE
  BY AppendProperties DEF SendPacket, SocketWrite, TypeOK, NetworkTypeOK

LEMMA ReceiveType ==
  ASSUME TypeOK, NEW p \in Arriving, Receive(p)
  PROVE  /\ p \in BrokerPacket
         /\ NetworkTypeOK'
         /\ readBuf' = p
         /\ cmd' \in Commands
         /\ lastPacketId' = lastPacketId
         /\ keepAliveDue' = keepAliveDue
         /\ nextDup' = nextDup
         /\ expired' = expired
         /\ UNCHANGED callVars
  <1>1. p \in BrokerPacket /\ Tail(toClient) \in Seq(BrokerPacket)
    BY HeadTailProperties DEF Arriving, TypeOK, NetworkTypeOK
  <1>2. NetworkTypeOK'
    BY <1>1 DEF Receive, SocketRead, TypeOK, NetworkTypeOK
  <1>3. cmd' \in Commands
    BY DEF Receive, TypeOK, MethodTypeOK, Commands
  <1> QED BY <1>1, <1>2, <1>3 DEF Receive

LEMMA WaitType ==
  ASSUME TypeOK, NEW c \in Commands, Wait(c)
  PROVE  /\ expired' \in BOOLEAN
         /\ pc' = "wait"
         /\ cmd' \in Commands
         /\ readBuf' = readBuf
  BY DEF Wait

\* What a method leaves of the client when it fails before it wrote anything.
LEMMA QuietFailType ==
  ASSUME TypeOK, NEW c, NEW err \in Errors, Fail(c, err),
         UNCHANGED <<toBroker, sessionVars, delivered, brokerVars>>
  PROVE  TypeOK'
  <1>1. SessionTypeOK' /\ BrokerTypeOK' /\ delivered' \in [InMsgs -> 0..2]
    BY DEF TypeOK, SessionTypeOK, BrokerTypeOK, sessionVars, brokerVars
  <1> QED BY <1>1, FailType DEF TypeOK, NetworkTypeOK

\* What it leaves when it succeeds without writing anything.
LEMMA QuietSucceedType ==
  ASSUME TypeOK, NEW c, Succeed(c),
         UNCHANGED <<networkVars, sessionVars, delivered, brokerVars>>
  PROVE  TypeOK'
  <1>1. NetworkTypeOK' /\ SessionTypeOK' /\ BrokerTypeOK' /\ delivered' \in [InMsgs -> 0..2]
    BY DEF TypeOK, NetworkTypeOK, SessionTypeOK, BrokerTypeOK, sessionVars,
           brokerVars, networkVars
  <1> QED BY <1>1, SucceedType DEF TypeOK

\* What a step leaves that moves only pc, cmd, readBuf and expired.
LEMMA StepType ==
  ASSUME TypeOK,
         pc' \in {"idle", "wait", "check", "ping"}, cmd' \in Commands,
         readBuf' \in BrokerPacket \cup {EncodeZero(NoPacket)}, expired' \in BOOLEAN,
         UNCHANGED callVars
  PROVE  MethodTypeOK'
  BY DEF TypeOK, MethodTypeOK, callVars

LEMMA WriteErrorTypes == WriteErrors \subseteq Errors
  BY DEF WriteErrors, Errors

-----------------------------------------------------------------------------
(* One lemma for each group of actions.                                    *)

LEMMA CommandTypes ==
  /\ ConnectCommand \in Commands
  /\ \A n \in Nat : LoopCommand(n) \in Commands
  /\ \A m \in Msgs, id \in 0..MaxPacketId :
       Command("publish", AckType(OutQoS[m]), id, m, 0) \in Commands
  /\ \A t \in Topics, id \in 0..MaxPacketId :
       /\ Command("subscribe", "SUBACK", id, t, 0) \in Commands
       /\ Command("unsubscribe", "UNSUBACK", id, t, 0) \in Commands
  <1>1. 0 \in 0..MaxPacketId /\ NoMsg \in Payloads /\ NoPacket \in PacketTypes
        /\ {"CONNACK", "SUBACK", "UNSUBACK"} \subseteq PacketTypes
    BY PacketAssumption DEF Payloads, PacketTypes
  <1>2. Msgs \subseteq Payloads /\ Topics \subseteq Payloads
    BY DEF Payloads
  <1>3. ASSUME NEW m \in Msgs PROVE AckType(OutQoS[m]) \in PacketTypes
    <2>1. OutQoS[m] \in {0, 1, 2}
      BY PacketAssumption
    <2> QED BY <2>1 DEF AckType, PacketTypes
  <1> QED BY <1>1, <1>2, <1>3 DEF ConnectCommand, LoopCommand, Command, Commands

LEMMA ConnectTypes ==
  ASSUME TypeOK, UNCHANGED brokerVars,
         ConnectRefused \/ ConnectStart \/ ConnectFails
  PROVE  TypeOK'
  <1>1. BrokerTypeOK' /\ delivered' \in [InMsgs -> 0..2]
    BY DEF TypeOK, BrokerTypeOK, brokerVars, ConnectRefused, ConnectStart, ConnectFails
  <1>2. AfterClosing \in BOOLEAN
    BY DEF AfterClosing
  <1>3. <<>> \in Seq(BrokerPacket) /\ <<>> \in Seq(ClientPacket)
    BY EmptySeq
  <1>4. CASE ConnectRefused
    <2>1. NetworkTypeOK' /\ SessionTypeOK'
      BY <1>3, <1>4 DEF ConnectRefused, SocketStop, sessionVars, TypeOK, NetworkTypeOK,
                        SessionTypeOK
    <2>2. MethodTypeOK'
      BY <1>2, <1>4 DEF ConnectRefused, TypeOK, MethodTypeOK, Errors
    <2> QED BY <1>1, <2>1, <2>2 DEF TypeOK
  <1>5. CASE ConnectStart
    <2>1. <<EncodeConnect>> \in Seq(ClientPacket)
      BY ClientPackets DEF EncodeConnect
    <2>2. NetworkTypeOK' /\ SessionTypeOK'
      BY <1>3, <1>5, <2>1 DEF ConnectStart, SocketOpen, ResetKeepAlive, TypeOK,
                              NetworkTypeOK, SessionTypeOK
    <2>3. MethodTypeOK'
      BY <1>2, <1>5, WaitType, CommandTypes DEF ConnectStart, TypeOK, MethodTypeOK
    <2> QED BY <1>1, <2>2, <2>3 DEF TypeOK
  <1>6. CASE ConnectFails
    <2>1. PICK err \in WriteErrors : Fail(ConnectCommand, err)
      BY <1>6 DEF ConnectFails
    <2>2. SessionTypeOK' /\ toBroker' \in Seq(ClientPacket)
      BY <1>3, <1>6 DEF ConnectFails, ResetKeepAlive, TypeOK, SessionTypeOK
    <2> QED BY <1>1, <2>1, <2>2, FailType, WriteErrorTypes DEF TypeOK, NetworkTypeOK
  <1> QED BY <1>4, <1>5, <1>6

LEMMA PublishTypes ==
  ASSUME TypeOK, UNCHANGED brokerVars, NEW m \in Msgs,
         PublishQoS0(m) \/ PublishStart(m) \/ PublishFails(m)
  PROVE  TypeOK'
  <1>1. BrokerTypeOK' /\ delivered' \in [InMsgs -> 0..2]
    BY DEF TypeOK, BrokerTypeOK, brokerVars, PublishQoS0, PublishStart, PublishFails
  <1>2. PublishId(m) \in 0..MaxPacketId /\ IsDup(m) \in BOOLEAN
    BY NextPacketIdType, PacketAssumption
       DEF PublishId, IsDup, DupIdSeen, TypeOK, SessionTypeOK
  <1>3. PublishPacket(m) \in ClientPacket
    <2>1. PublishId(m) \in PacketIds /\ OutQoS[m] \in 0..2
      BY <1>2, PacketAssumption DEF PacketIds
    <2> QED BY <1>2, <2>1, ClientPackets DEF PublishPacket
  <1>4. PublishCommand(m) \in Commands
    BY <1>2, CommandTypes DEF PublishCommand
  <1>5. lastPacketId' \in 0..MaxPacketId /\ nextDup' \in 0..MaxPacketId
    <2>1. TakePublishId(m)
      BY DEF PublishQoS0, PublishStart, PublishFails
    <2> QED BY <1>2, <2>1, PacketAssumption DEF TakePublishId, TypeOK, SessionTypeOK
  <1>6. CASE PublishQoS0(m)
    <2>1. NetworkTypeOK' /\ SessionTypeOK'
      BY <1>3, <1>5, <1>6, SendType DEF PublishQoS0, TypeOK, SessionTypeOK
    <2> QED BY <1>1, <1>6, <2>1, SucceedType DEF PublishQoS0, TypeOK
  <1>7. CASE PublishStart(m)
    <2>1. NetworkTypeOK' /\ SessionTypeOK'
      BY <1>3, <1>5, <1>7, SendType DEF PublishStart, TypeOK, SessionTypeOK
    <2>2. outcome' \in [Msgs -> {"none", "pending", "ok", "failed"}]
      BY <1>7 DEF PublishStart, TypeOK, MethodTypeOK
    <2>3. MethodTypeOK'
      BY <1>4, <1>7, <2>2, WaitType DEF PublishStart, TypeOK, MethodTypeOK
    <2> QED BY <1>1, <2>1, <2>3 DEF TypeOK
  <1>8. CASE PublishFails(m)
    <2>1. PICK err \in WriteErrors : Fail(PublishCommand(m), err)
      BY <1>8 DEF PublishFails
    <2>2. SessionTypeOK' /\ toBroker' \in Seq(ClientPacket)
      BY <1>5, <1>8 DEF PublishFails, TypeOK, SessionTypeOK, NetworkTypeOK
    <2> QED BY <1>1, <2>1, <2>2, FailType, WriteErrorTypes DEF TypeOK, NetworkTypeOK
  <1> QED BY <1>6, <1>7, <1>8

LEMMA RequestTypes ==
  ASSUME TypeOK, UNCHANGED brokerVars, NEW t \in Topics,
         SubscribeStart(t) \/ UnsubscribeStart(t) \/ RequestFails(t)
  PROVE  TypeOK'
  <1>1. NextPacketId \in 0..MaxPacketId /\ NextPacketId \in PacketIds
    BY NextPacketIdType DEF TypeOK, SessionTypeOK, PacketIds
  <1>2. ASSUME NEW c \in Commands, NEW p \in ClientPacket, Request(c, p)
        PROVE  TypeOK'
    <2>1. lastPacketId' \in 0..MaxPacketId
      BY <1>2 DEF Request, Commands
    <2>2. NetworkTypeOK' /\ SessionTypeOK'
      BY <1>2, <2>1, SendType DEF Request, TypeOK, SessionTypeOK
    <2>3. MethodTypeOK'
      BY <1>2, WaitType DEF Request, TypeOK, MethodTypeOK
    <2> QED BY <1>2, <2>2, <2>3 DEF Request, TypeOK, BrokerTypeOK, brokerVars
  <1>3. CASE SubscribeStart(t)
    <2>1. SubscribeCommand(t) \in Commands /\ EncodeSubscribe(NextPacketId, t) \in ClientPacket
      BY <1>1, CommandTypes, ClientPackets DEF SubscribeCommand
    <2> QED BY <1>2, <1>3, <2>1 DEF SubscribeStart
  <1>4. CASE UnsubscribeStart(t)
    <2>1. UnsubscribeCommand(t) \in Commands /\ EncodeUnsubscribe(NextPacketId, t) \in ClientPacket
      BY <1>1, CommandTypes, ClientPackets DEF UnsubscribeCommand
    <2> QED BY <1>2, <1>4, <2>1 DEF UnsubscribeStart
  <1>5. CASE RequestFails(t)
    <2>1. PICK err \in WriteErrors : Fail(SubscribeCommand(t), err)
      BY <1>5 DEF RequestFails
    <2>2. SessionTypeOK' /\ BrokerTypeOK' /\ delivered' \in [InMsgs -> 0..2]
          /\ toBroker' \in Seq(ClientPacket)
      BY <1>1, <1>5 DEF RequestFails, TypeOK, SessionTypeOK, NetworkTypeOK, BrokerTypeOK,
                        brokerVars
    <2> QED BY <2>1, <2>2, FailType, WriteErrorTypes DEF TypeOK, NetworkTypeOK
  <1> QED BY <1>3, <1>4, <1>5

LEMMA OtherCallTypes ==
  ASSUME TypeOK, UNCHANGED brokerVars,
         PrepareDuplicate \/ Disconnect \/ LoopYields \/ LoopSkipsYield
  PROVE  TypeOK'
  <1>1. BrokerTypeOK' /\ delivered' \in [InMsgs -> 0..2]
    BY DEF TypeOK, BrokerTypeOK, brokerVars, PrepareDuplicate, Disconnect, LoopYields,
           LoopSkipsYield, LoopStarts
  <1>2. CASE PrepareDuplicate
    BY <1>1, <1>2 DEF PrepareDuplicate, networkVars, TypeOK, NetworkTypeOK, SessionTypeOK,
                      MethodTypeOK
  <1>3. CASE Disconnect
    <2>1. toBroker' \in Seq(ClientPacket)
      <3>1. EncodeZero("DISCONNECT") \in ClientPacket
        BY ClientPackets
      <3>2. Append(toBroker, EncodeZero("DISCONNECT")) \in Seq(ClientPacket)
        BY <3>1, AppendProperties DEF TypeOK, NetworkTypeOK
      <3> QED BY <1>3, <3>2 DEF Disconnect, TypeOK, NetworkTypeOK
    <2>2. NetworkTypeOK' /\ connected' = FALSE
      BY <1>3, <2>1, EmptySeq DEF Disconnect, Close, SocketStop, TypeOK, NetworkTypeOK
    <2>3. SessionTypeOK'
      BY <1>3 DEF Disconnect, TypeOK, SessionTypeOK
    <2>4. lastError' \in Errors
      BY <1>3, WriteErrorTypes DEF Disconnect, Errors
    <2>5. MethodTypeOK'
      BY <1>3, <2>2, <2>4 DEF Disconnect, TypeOK, MethodTypeOK
    <2> QED BY <1>1, <2>2, <2>3, <2>5 DEF TypeOK
  <1>4. ASSUME NEW n \in Nat, NEW next \in {"wait", "ping"}, LoopStarts(n, next)
        PROVE  TypeOK'
    <2>1. MethodTypeOK'
      BY <1>4, StepType, CommandTypes DEF LoopStarts, TypeOK, MethodTypeOK
    <2> QED BY <1>1, <1>4, <2>1 DEF LoopStarts, TypeOK, NetworkTypeOK, SessionTypeOK,
                                    networkVars, sessionVars
  <1>5. CASE LoopYields
    <2>1. Len(toClient) \in Nat
      BY LenProperties DEF TypeOK, NetworkTypeOK
    <2> QED BY <1>4, <1>5, <2>1 DEF LoopYields
  <1>6. CASE LoopSkipsYield
    BY <1>4, <1>6 DEF LoopSkipsYield
  <1> QED BY <1>2, <1>3, <1>5, <1>6

LEMMA ReceiveTypes ==
  ASSUME TypeOK, UNCHANGED brokerVars,
         ReceivePublish \/ ReceiveAckToAnswer \/ ReceivePingresp \/ ReceiveOther
  PROVE  TypeOK'
  <1>1. PICK p \in Arriving : Receive(p)
    BY DEF ReceivePublish, ReceiveAckToAnswer, ReceivePingresp, ReceiveOther
  <1>2. p = Head(toClient)
    BY DEF Arriving
  <1>3. \A q \in Arriving : q = p
    BY DEF Arriving
  <1>4. delivered' \in [InMsgs -> 0..2]
    <2>1. CASE ReceivePublish
      <3>1. CallBack(p)
        BY <1>3, <2>1 DEF ReceivePublish
      <3>2. (IF delivered[p.msg] = 0 THEN 1 ELSE 2) \in 0..2
        OBVIOUS
      <3>3. delivered \in [InMsgs -> 0..2]
        BY DEF TypeOK
      <3> QED BY <3>1, <3>2, <3>3 DEF CallBack
    <2> QED BY <2>1 DEF ReceiveAckToAnswer, ReceivePingresp, ReceiveOther, TypeOK
  <1>5. pongPending' \in BOOLEAN
    BY DEF ReceivePublish, ReceiveAckToAnswer, ReceivePingresp, ReceiveOther, TypeOK,
           SessionTypeOK
  <1>6. /\ pc' \in {"check", "ack"}
        /\ pc' = "ack" => p.type \in {"PUBLISH", "PUBREC", "PUBREL"}
    BY <1>3 DEF ReceivePublish, ReceiveAckToAnswer, ReceivePingresp, ReceiveOther
  <1>7. MethodTypeOK'
    BY <1>1, <1>6, ReceiveType DEF callVars, TypeOK, MethodTypeOK
  <1>8. NetworkTypeOK' /\ SessionTypeOK' /\ BrokerTypeOK'
    BY <1>1, <1>5, ReceiveType DEF TypeOK, SessionTypeOK, BrokerTypeOK, brokerVars
  <1> QED BY <1>4, <1>7, <1>8 DEF TypeOK

LEMMA CycleTypes ==
  ASSUME TypeOK, UNCHANGED brokerVars,
         SendAck \/ DropPacket \/ ReadNothing \/ NextCycle \/ YieldEnds
  PROVE  TypeOK'
  <1>1. BrokerTypeOK' /\ delivered' \in [InMsgs -> 0..2]
    BY DEF TypeOK, BrokerTypeOK, brokerVars, SendAck, DropPacket, ReadNothing, NextCycle,
           YieldEnds
  <1>2. MethodTypeOK'
    BY StepType DEF SendAck, DropPacket, ReadNothing, NextCycle, YieldEnds, TypeOK, MethodTypeOK
  <1>3. CASE SendAck
    <2>1. readBuf \in BrokerPacket /\ readBuf.type \in {"PUBLISH", "PUBREC", "PUBREL"}
      BY <1>3 DEF SendAck, TypeOK, MethodTypeOK, EncodeZero, PacketOf, NoPacket
    <2>2. readBuf.id \in PacketIds
      BY <2>1 DEF BrokerPacket, Packet
    <2>3. Answer(readBuf) \in ClientPacket
      BY <2>1, <2>2, ClientPackets DEF Answer
    <2>4. NetworkTypeOK' /\ SessionTypeOK'
      BY <1>3, <2>3, SendType DEF SendAck, TypeOK, SessionTypeOK
    <2> QED BY <1>1, <1>2, <2>4 DEF TypeOK
  <1>4. CASE DropPacket
    <2>1. toClient' \in Seq(BrokerPacket)
      BY <1>4, HeadTailProperties DEF DropPacket, SocketRead, Arriving, TypeOK, NetworkTypeOK
    <2> QED BY <1>1, <1>2, <1>4, <2>1 DEF DropPacket, SocketRead, sessionVars, TypeOK,
                                         NetworkTypeOK, SessionTypeOK
  <1>5. CASE ReadNothing \/ NextCycle \/ YieldEnds
    BY <1>1, <1>2, <1>5 DEF ReadNothing, NextCycle, YieldEnds, networkVars, sessionVars, TypeOK,
                            NetworkTypeOK, SessionTypeOK
  <1> QED BY <1>3, <1>4, <1>5

\* A method that fails or succeeds without writing anything.
LEMMA ReturnTypes ==
  ASSUME TypeOK, UNCHANGED brokerVars,
         \/ SendAckFails \/ ReadPacketFails \/ ReadFails
         \/ CommandAcked \/ CommandRejected \/ CommandTimesOut
         \/ NoPingDue \/ PongTimeout \/ SendPingFails
  PROVE  TypeOK'
  <1>1. CASE CommandAcked \/ NoPingDue
    BY <1>1, QuietSucceedType DEF CommandAcked, NoPingDue
  <1>2. CASE SendAckFails
    <2>1. PICK err \in {"NETWORK_FAILED_WRITE", "NETWORK_TIMEOUT"} : Fail(cmd, err)
      BY <1>2 DEF SendAckFails
    <2> QED BY <1>2, <2>1, QuietFailType DEF SendAckFails, Errors
  <1>3. CASE ReadPacketFails
    BY <1>3, QuietFailType DEF ReadPacketFails, Errors
  <1>4. CASE ReadFails \/ CommandTimesOut \/ PongTimeout
    BY <1>4, QuietFailType DEF ReadFails, CommandTimesOut, PongTimeout, Errors
  <1>5. CASE CommandRejected
    <2>1. Verdict(cmd, readBuf) \in Errors
      BY DEF Verdict, Errors
    <2> QED BY <1>5, <2>1, QuietFailType DEF CommandRejected
  <1>6. CASE SendPingFails
    <2>1. PICK err \in WriteErrors : Fail(cmd, err)
      BY <1>6 DEF SendPingFails
    <2> QED BY <1>6, <2>1, QuietFailType, WriteErrorTypes DEF SendPingFails
  <1> QED BY <1>1, <1>2, <1>3, <1>4, <1>5, <1>6

LEMMA SendPingTypes ==
  ASSUME TypeOK, UNCHANGED brokerVars, SendPing
  PROVE  TypeOK'
  <1>1. EncodeZero("PINGREQ") \in ClientPacket
    BY ClientPackets
  <1>2. NetworkTypeOK' /\ SessionTypeOK'
    BY <1>1, SendType DEF SendPing, TypeOK, SessionTypeOK
  <1> QED BY <1>2, SucceedType DEF SendPing, TypeOK, BrokerTypeOK, brokerVars

LEMMA EnvironmentTypes ==
  ASSUME TypeOK, Environment
  PROVE  TypeOK'
  <1>1. CASE CommandTimerExpires /\ UNCHANGED brokerVars
    BY <1>1 DEF CommandTimerExpires, networkVars, sessionVars, callVars, brokerVars, TypeOK,
                NetworkTypeOK, BrokerTypeOK, SessionTypeOK, MethodTypeOK
  <1>2. CASE KeepAliveTimerExpires /\ UNCHANGED brokerVars
    BY <1>2 DEF KeepAliveTimerExpires, networkVars, callVars, brokerVars, TypeOK,
                NetworkTypeOK, BrokerTypeOK, SessionTypeOK, MethodTypeOK
  <1>3. CASE PowerCycle /\ UNCHANGED brokerVars
    <2>1. outcome' \in [Msgs -> {"none", "pending", "ok", "failed"}]
      BY <1>3, RecordType DEF PowerCycle, TypeOK
    <2>2. /\ connected' = FALSE
          /\ net' = "closed"
          /\ toClient' = <<>>
          /\ UNCHANGED <<toBroker, attached>>
      BY <1>3 DEF PowerCycle, Close, SocketStop
    <2>3. NetworkTypeOK'
      BY <2>2, EmptySeq DEF TypeOK, NetworkTypeOK
    <2>4. MethodTypeOK'
      BY <1>3, <2>1, <2>2, IdleType DEF PowerCycle, MethodTypeOK, Errors
    <2>5. SessionTypeOK'
      <3>1. 0 \in 0..MaxPacketId
        BY PacketAssumption
      <3> QED BY <1>3, <3>1 DEF PowerCycle, ResetKeepAlive, SessionTypeOK
    <2> QED BY <1>3, <2>3, <2>4, <2>5 DEF PowerCycle, brokerVars, BrokerTypeOK, TypeOK
  <1>4. ASSUME UNCHANGED <<brokerVars, clientVars>>
        PROVE  BrokerTypeOK' /\ SessionTypeOK' /\ MethodTypeOK' /\ delivered' \in [InMsgs -> 0..2]
    BY <1>4 DEF brokerVars, clientVars, TypeOK, BrokerTypeOK, SessionTypeOK, MethodTypeOK
  <1>5. CASE LinkReset /\ UNCHANGED <<brokerVars, clientVars>>
    <2>1. NetworkTypeOK'
      BY <1>5, EmptySeq DEF LinkReset, SocketStop, TypeOK, NetworkTypeOK
    <2> QED BY <1>4, <1>5, <2>1 DEF TypeOK
  <1>6. CASE LinkStall /\ UNCHANGED <<brokerVars, clientVars>>
    <2>1. PICK k \in 0..Len(toClient) : toClient' = SubSeq(toClient, 1, k)
      BY <1>6 DEF LinkStall
    <2>2. toClient' \in Seq(BrokerPacket)
      BY <2>1, SubSeqProperties DEF TypeOK, NetworkTypeOK
    <2>3. NetworkTypeOK'
      BY <1>6, <2>2 DEF LinkStall, TypeOK, NetworkTypeOK
    <2> QED BY <1>4, <1>6, <2>3 DEF TypeOK
  <1> QED BY <1>1, <1>2, <1>3, <1>5, <1>6 DEF Environment

LEMMA ConsumeType ==
  ASSUME TypeOK, NEW type, NEW answers \in Seq(BrokerPacket), Consume(type, answers)
  PROVE  /\ Head(toBroker) \in ClientPacket
         /\ Head(toBroker).type = type
         /\ net' = net
         /\ toBroker' \in Seq(ClientPacket)
         /\ toClient' \in Seq(BrokerPacket)
  <1>1. Head(toBroker) \in ClientPacket /\ Tail(toBroker) \in Seq(ClientPacket)
    BY HeadTailProperties DEF Consume, TypeOK, NetworkTypeOK
  <1>2. toClient \o answers \in Seq(BrokerPacket)
    BY ConcatProperties DEF TypeOK, NetworkTypeOK
  <1> QED BY <1>1, <1>2 DEF Consume, TypeOK, NetworkTypeOK

LEMMA SingleAnswer ==
  ASSUME NEW p \in BrokerPacket
  PROVE  <<p>> \in Seq(BrokerPacket)
  OBVIOUS

LEMMA OneMoreType == \A n : OneMore(n) \in 0..2
  BY DEF OneMore

\* What the broker's steps leave of the client.
LEMMA ClientUntouched ==
  ASSUME TypeOK, UNCHANGED clientVars
  PROVE  SessionTypeOK' /\ MethodTypeOK' /\ delivered' \in [InMsgs -> 0..2]
  BY DEF clientVars, TypeOK, SessionTypeOK, MethodTypeOK

LEMMA BrokerConnectTypes ==
  ASSUME TypeOK, UNCHANGED clientVars, NEW ok \in BOOLEAN, BrokerConnect(ok)
  PROVE  TypeOK'
  <1>1. Append(toClient, Connack(ok)) \in Seq(BrokerPacket)
    BY AppendProperties, BrokerPackets DEF TypeOK, NetworkTypeOK
  <1>2. Tail(toBroker) \in Seq(ClientPacket)
    BY HeadTailProperties DEF BrokerConnect, TypeOK, NetworkTypeOK
  <1>3. NetworkTypeOK'
    BY <1>1, <1>2 DEF BrokerConnect, TypeOK, NetworkTypeOK
  <1>4. [m \in InMsgs |-> IF inflight[m] \in {"published", "released"}
                            THEN "dropped" ELSE inflight[m]] \in [InMsgs -> Progress]
    BY DEF TypeOK, BrokerTypeOK, Progress
  <1>5. BrokerTypeOK'
    BY <1>4 DEF BrokerConnect, TypeOK, BrokerTypeOK
  <1> QED BY <1>3, <1>5, ClientUntouched DEF TypeOK

LEMMA BrokerReadsTypes ==
  ASSUME TypeOK, UNCHANGED clientVars, UNCHANGED onLink,
         \/ BrokerPublishQoS0 \/ BrokerPublishQoS1 \/ BrokerPublishQoS2 \/ BrokerPubrel
         \/ \E ok \in BOOLEAN : BrokerSubscribe(ok)
         \/ BrokerUnsubscribe \/ BrokerPingreq \/ BrokerDisconnect
         \/ BrokerPuback \/ BrokerPubrec \/ BrokerPubcomp
  PROVE  TypeOK'
  <1> DEFINE h == Head(toBroker)
  <1>0. /\ <<>> \in Seq(BrokerPacket)
        /\ \A id \in PacketIds, t \in {"PUBACK", "PUBREC", "PUBREL", "PUBCOMP", "UNSUBACK"} :
             <<EncodeAck(t, id)>> \in Seq(BrokerPacket)
        /\ \A id \in PacketIds, ok \in BOOLEAN : <<Suback(id, ok)>> \in Seq(BrokerPacket)
        /\ <<EncodeZero("PINGRESP")>> \in Seq(BrokerPacket)
    BY EmptySeq, SingleAnswer, BrokerPackets
  <1>1. \A type : \A answers \in Seq(BrokerPacket) :
          Consume(type, answers) => /\ h \in ClientPacket
                                    /\ h.type = type
                                    /\ net' = net
                                    /\ toBroker' \in Seq(ClientPacket)
                                    /\ toClient' \in Seq(BrokerPacket)
    BY ConsumeType
  <1>2. toBroker # <<>> => h \in ClientPacket /\ h.id \in PacketIds
    BY HeadTailProperties DEF TypeOK, NetworkTypeOK, ClientPacket, Packet
  <1>3. toBroker # <<>>
    BY DEF BrokerPublishQoS0, BrokerPublishQoS1, BrokerPublishQoS2, BrokerPubrel,
           BrokerSubscribe, BrokerUnsubscribe, BrokerPingreq, BrokerDisconnect,
           BrokerPuback, BrokerPubrec, BrokerPubcomp, Consume
  <1>4. PICK type \in PacketTypes, answers \in Seq(BrokerPacket) : Consume(type, answers)
    BY <1>0, <1>2, <1>3
       DEF PacketTypes, BrokerPublishQoS0, BrokerPublishQoS1, BrokerPublishQoS2, BrokerPubrel,
           BrokerSubscribe, BrokerUnsubscribe, BrokerPingreq, BrokerDisconnect,
           BrokerPuback, BrokerPubrec, BrokerPubcomp
  <1>5. attached' \in BOOLEAN
    BY DEF BrokerPublishQoS0, BrokerPublishQoS1, BrokerPublishQoS2, BrokerPubrel,
           BrokerSubscribe, BrokerUnsubscribe, BrokerPingreq, BrokerDisconnect,
           BrokerPuback, BrokerPubrec, BrokerPubcomp, TypeOK, NetworkTypeOK
  <1>6. NetworkTypeOK'
    BY <1>1, <1>4, <1>5 DEF TypeOK, NetworkTypeOK
  <1>7. h.type = "PUBLISH" => h.msg \in Msgs
    BY <1>2, <1>3 DEF ClientPacket
  <1>8. h.type = "SUBSCRIBE" => h.msg \in Topics
    BY <1>2, <1>3 DEF ClientPacket
  <1> HIDE DEF h
  <1>9. subs' \subseteq Topics
    BY <1>8 DEF BrokerPublishQoS0, BrokerPublishQoS1, BrokerPublishQoS2, BrokerPubrel,
           BrokerSubscribe, BrokerUnsubscribe, BrokerPingreq, BrokerDisconnect,
           BrokerPuback, BrokerPubrec, BrokerPubcomp, brokerVars, TypeOK, BrokerTypeOK, Consume, h
  <1>10. awaitRel' \in [1..MaxPacketId -> Msgs \cup {NoMsg}]
    <2>1. CASE BrokerPublishQoS2
      BY <1>7, <2>1 DEF BrokerPublishQoS2, Consume, TypeOK, BrokerTypeOK, h
    <2>2. CASE BrokerPubrel
      BY <2>2 DEF BrokerPubrel, TypeOK, BrokerTypeOK
    <2> QED BY <2>1, <2>2 DEF BrokerPublishQoS0, BrokerPublishQoS1, BrokerSubscribe,
           BrokerUnsubscribe, BrokerPingreq, BrokerDisconnect, BrokerPuback, BrokerPubrec,
           BrokerPubcomp, brokerVars, TypeOK, BrokerTypeOK
  <1>11. accepted' \in [Msgs -> 0..2]
    <2>1. accepted \in [Msgs -> 0..2]
      BY DEF TypeOK, BrokerTypeOK
    <2>2. \A m : [accepted EXCEPT ![m] = OneMore(@)] \in [Msgs -> 0..2]
      BY <2>1, OneMoreType
    <2>3. CASE BrokerPublishQoS0 \/ BrokerPublishQoS1 \/ BrokerPubrel
      BY <2>1, <2>2, <2>3 DEF BrokerPublishQoS0, BrokerPublishQoS1, BrokerPubrel
    <2> QED BY <2>1, <2>3 DEF BrokerPublishQoS2, BrokerSubscribe,
           BrokerUnsubscribe, BrokerPingreq, BrokerDisconnect, BrokerPuback, BrokerPubrec,
           BrokerPubcomp, brokerVars
  <1>12. inflight' \in [InMsgs -> Progress]
    <2>1. inflight \in [InMsgs -> Progress]
      BY DEF TypeOK, BrokerTypeOK
    <2>2. CASE BrokerPuback \/ BrokerPubrec \/ BrokerPubcomp
      BY <2>1, <2>2 DEF BrokerPuback, BrokerPubrec, BrokerPubcomp, Progress
    <2> QED BY <2>1, <2>2 DEF BrokerPublishQoS0, BrokerPublishQoS1, BrokerPublishQoS2,
           BrokerPubrel, BrokerSubscribe, BrokerUnsubscribe, BrokerPingreq, BrokerDisconnect,
           brokerVars
  <1>13. BrokerTypeOK'
    BY <1>9, <1>10, <1>11, <1>12 DEF TypeOK, BrokerTypeOK
  <1> QED BY <1>6, <1>13, ClientUntouched DEF TypeOK

LEMMA BrokerSendsTypes ==
  ASSUME TypeOK, UNCHANGED clientVars, NEW m \in InMsgs, BrokerPush(m) \/ BrokerResend(m)
  PROVE  TypeOK'
  <1>1. EncodePublish(FALSE, IF InQoS[m] = 0 THEN 0 ELSE m, InQoS[m], m) \in BrokerPacket
    BY BrokerPackets
  <1>2. EncodePublish(TRUE, m, InQoS[m], m) \in BrokerPacket
    BY PacketAssumption DEF BrokerPacket, Packet, PacketTypes, EncodePublish, PacketOf,
                            PacketIds, Payloads
  <1>3. EncodeAck("PUBREL", m) \in BrokerPacket
    BY BrokerPackets DEF PacketIds
  <1>4. PICK p \in BrokerPacket : toClient' = Append(toClient, p)
    BY <1>1, <1>2, <1>3 DEF BrokerPush, BrokerResend
  <1>5. NetworkTypeOK'
    BY <1>4, AppendProperties DEF BrokerPush, BrokerResend, TypeOK, NetworkTypeOK
  <1>6. BrokerTypeOK'
    BY DEF BrokerPush, BrokerResend, TypeOK, BrokerTypeOK, Progress
  <1> QED BY <1>5, <1>6, ClientUntouched DEF TypeOK

-----------------------------------------------------------------------------

LEMMA InitType == Init => TypeOK
  <1> SUFFICES ASSUME Init PROVE TypeOK
    OBVIOUS
  <1>1. NetworkTypeOK
    BY EmptySeq DEF Init, NetworkInit, NetworkTypeOK
  <1>2. BrokerTypeOK
    BY DEF Init, BrokerInit, BrokerTypeOK, Progress
  <1>3. SessionTypeOK
    <2>1. 0 \in 0..MaxPacketId
      BY PacketAssumption
    <2> QED BY <2>1 DEF Init, ClientInit, SessionTypeOK
  <1>4. NoCommand \in Commands
    BY PacketAssumption DEF NoCommand, Command, Commands, Payloads, PacketTypes
  <1>5. MethodTypeOK
    BY <1>4 DEF Init, ClientInit, MethodTypeOK, Errors
  <1>6. delivered \in [InMsgs -> 0..2]
    BY DEF Init, ClientInit
  <1> QED BY <1>1, <1>2, <1>3, <1>5, <1>6 DEF TypeOK

LEMMA NextType == TypeOK /\ [Next]_vars => TypeOK'
  <1> SUFFICES ASSUME TypeOK, [Next]_vars PROVE TypeOK'
    OBVIOUS
  <1>1. CASE UNCHANGED vars
    BY <1>1 DEF vars, networkVars, brokerVars, clientVars, TypeOK, NetworkTypeOK, BrokerTypeOK,
                SessionTypeOK, MethodTypeOK
  <1>2. CASE Call
    BY <1>2, ConnectTypes, PublishTypes, RequestTypes, OtherCallTypes DEF Call
  <1>3. CASE Run
    BY <1>3, ReceiveTypes, CycleTypes, ReturnTypes, SendPingTypes DEF Run
  <1>4. CASE Environment
    BY <1>4, EnvironmentTypes
  <1>5. CASE BrokerReads
    <2>1. CASE \E ok \in BOOLEAN : BrokerConnect(ok) /\ UNCHANGED clientVars
      BY <2>1, BrokerConnectTypes
    <2>2. CASE ~ \E ok \in BOOLEAN : BrokerConnect(ok) /\ UNCHANGED clientVars
      <3>1. UNCHANGED onLink /\ UNCHANGED clientVars
        BY <1>5, <2>2 DEF BrokerReads, BrokerPublishQoS0, BrokerPublishQoS1, BrokerPublishQoS2,
           BrokerPubrel, BrokerSubscribe, BrokerUnsubscribe, BrokerPingreq, BrokerDisconnect,
           BrokerPuback, BrokerPubrec, BrokerPubcomp, brokerVars
      <3> QED BY <1>5, <2>2, <3>1, BrokerReadsTypes DEF BrokerReads
    <2> QED BY <2>1, <2>2
  <1>6. CASE BrokerSends
    BY <1>6, BrokerSendsTypes DEF BrokerSends
  <1> QED BY <1>1, <1>2, <1>3, <1>4, <1>5, <1>6 DEF Next

\* Every variable keeps its type: packet ids stay within 16 bits across the
\* wrap in lwmqtt_get_next_packet_id, each side of the link carries only packets
\* that its sender can send, and cycle_once answers only packets it has an
\* answer for.
THEOREM TypeCorrect == Spec => []TypeOK
  <1>1. Init => TypeOK
    BY InitType
  <1>2. TypeOK /\ [Next]_vars => TypeOK'
    BY NextType
  <1> QED BY <1>1, <1>2, PTL DEF Spec

-----------------------------------------------------------------------------
(* The connection: what is on it says how far connect() and the broker are *)

\* While a CONNECT is on its way on an open connection, connect() is waiting
\* and has not seen an answer: a broker reads one CONNECT per connection.
ConnectUnderWay ==
  \A i \in DOMAIN toBroker :
    toBroker[i].type = "CONNECT" =>
      /\ Connecting
      /\ i = 1
      /\ \A j \in DOMAIN toClient : toClient[j].type # "CONNACK"
      /\ ~(pc = "check" /\ readBuf.type = "CONNACK")

\* After a DISCONNECT the client has closed its end.
NoDisconnectUnderWay ==
  \A i \in DOMAIN toBroker : toBroker[i].type # "DISCONNECT"

\* A positive CONNACK, under way or in read_buf, comes from a broker that has
\* accepted the connection.
ConnackUnderWay ==
  \A i \in DOMAIN toClient : toClient[i].type = "CONNACK" /\ toClient[i].ok => attached

ConnackRead ==
  Connecting /\ pc = "check" /\ readBuf.type = "CONNACK" /\ readBuf.ok => attached

\* What the code's position says of the method that is running.
MethodAtPc ==
  /\ Connecting => cmd.needle = "CONNACK"
  /\ pc = "ping" => cmd.op = "loop"

\* The strengthening of ConnectedMeansAttached that every step preserves.
LinkInv ==
  /\ ConnectUnderWay
  /\ NoDisconnectUnderWay
  /\ ConnackUnderWay
  /\ ConnackRead

AttachedInv ==
  /\ ConnectedMeansAttached
  /\ SocketConnected => LinkInv
  /\ MethodAtPc

-----------------------------------------------------------------------------
(* Sequences of packets, element by element.                               *)

LEMMA AppendElements ==
  ASSUME NEW S, NEW s \in Seq(S), NEW p \in S
  PROVE  \A i \in DOMAIN Append(s, p) :
           \/ i \in DOMAIN s /\ Append(s, p)[i] = s[i]
           \/ i = Len(s) + 1 /\ Append(s, p)[i] = p
  BY AppendProperties, LenProperties

LEMMA TailElements ==
  ASSUME NEW S, NEW s \in Seq(S), s # <<>>
  PROVE  /\ Head(s) = s[1]
         /\ 1 \in DOMAIN s
         /\ \A i \in DOMAIN Tail(s) : i + 1 \in DOMAIN s /\ i + 1 # 1 /\ Tail(s)[i] = s[i + 1]
  <1>1. /\ Len(s) \in Nat \ {0}
        /\ DOMAIN s = 1..Len(s)
        /\ DOMAIN Tail(s) = 1..(Len(s) - 1)
        /\ \A i \in 1..(Len(s) - 1) : Tail(s)[i] = s[i + 1]
        /\ Head(s) = s[1]
    BY HeadTailProperties, LenProperties, EmptySeq
  <1> QED BY <1>1

\* The answers of Consume are sequences of at most one packet.
LEMMA AnswerElements ==
  ASSUME NEW S, NEW s \in Seq(S), NEW a \in S
  PROVE  /\ s \o <<>> = s
         /\ s \o <<a>> = Append(s, a)
  OBVIOUS

LEMMA Types ==
  ASSUME TypeOK
  PROVE  toBroker \in Seq(ClientPacket) /\ toClient \in Seq(BrokerPacket)
  BY DEF TypeOK, NetworkTypeOK

-----------------------------------------------------------------------------
(* What a step of one kind does to the invariant.                          *)

\* The client has closed the connection and no method is running.
LEMMA ClosedAttached ==
  ASSUME net' = "closed", pc' = "idle"
  PROVE  AttachedInv'
  BY DEF AttachedInv, ConnectedMeansAttached, Connected, SocketConnected, MethodAtPc, Connecting

LEMMA FailAttached ==
  ASSUME NEW c, NEW err, Fail(c, err)
  PROVE  AttachedInv'
  BY ClosedAttached DEF Fail, Idle, Close, SocketStop

\* A step of the client outside of connect() that writes nothing but what
\* neither opens nor closes a connection, and leaves the rest of the link alone.
LEMMA WriteAttached ==
  ASSUME TypeOK, AttachedInv, SocketConnected, ConnectUnderWay', ConnackRead', MethodAtPc',
         UNCHANGED <<net, toClient, attached>>, Connected' /\ ~Connecting' => attached,
         NEW p \in ClientPacket, p.type \notin {"CONNECT", "DISCONNECT"},
         toBroker' = Append(toBroker, p)
  PROVE  AttachedInv'
  <1>1. NoDisconnectUnderWay'
    BY Types, AppendElements DEF AttachedInv, LinkInv, NoDisconnectUnderWay
  <1>2. ConnackUnderWay'
    BY DEF AttachedInv, LinkInv, ConnackUnderWay
  <1> QED BY <1>1, <1>2 DEF AttachedInv, LinkInv, ConnectedMeansAttached

\* A method other than connect() has sent its packet, or returned.
LEMMA CallAttached ==
  ASSUME TypeOK, AttachedInv, Connected, ~Connecting, ~Connecting',
         UNCHANGED <<net, toClient, attached>>,
         NEW p \in ClientPacket, p.type \notin {"CONNECT", "DISCONNECT"},
         toBroker' = Append(toBroker, p), pc' # "ping"
  PROVE  AttachedInv'
  <1>1. SocketConnected /\ attached
    BY DEF Connected, AttachedInv, ConnectedMeansAttached
  <1>2. ConnectUnderWay'
    <2>1. \A i \in DOMAIN toBroker : toBroker[i].type # "CONNECT"
      BY <1>1 DEF AttachedInv, LinkInv, ConnectUnderWay
    <2>2. \A i \in DOMAIN toBroker' : toBroker'[i].type # "CONNECT"
      BY <2>1, Types, AppendElements
    <2> QED BY <2>2 DEF ConnectUnderWay
  <1> QED BY <1>1, <1>2, WriteAttached DEF ConnackRead, MethodAtPc

\* A step that leaves the link alone, within one method or at its end.
LEMMA StepAttached ==
  ASSUME AttachedInv, UNCHANGED networkVars,
         Connected' /\ ~Connecting' => attached,
         pc' # "check" \/ readBuf'.type # "CONNACK" \/ UNCHANGED <<pc, cmd, readBuf>>,
         Connecting => Connecting' \/ (pc = "check" /\ readBuf.type = "CONNACK"),
         MethodAtPc'
  PROVE  AttachedInv'
  <1>1. SocketConnected' = SocketConnected
    BY DEF SocketConnected, networkVars
  <1>2. CASE SocketConnected
    <2>1. ConnectUnderWay'
      BY <1>2 DEF AttachedInv, LinkInv, ConnectUnderWay, networkVars
    <2>2. NoDisconnectUnderWay' /\ ConnackUnderWay'
      BY <1>2 DEF AttachedInv, LinkInv, NoDisconnectUnderWay, ConnackUnderWay, networkVars
    <2>3. ConnackRead'
      BY <1>2 DEF AttachedInv, LinkInv, ConnackRead, Connecting, networkVars
    <2> QED BY <2>1, <2>2, <2>3 DEF AttachedInv, LinkInv, ConnectedMeansAttached, networkVars
  <1>3. CASE ~SocketConnected
    BY <1>1, <1>3 DEF AttachedInv, ConnectedMeansAttached, Connected
  <1> QED BY <1>2, <1>3

\* cycle_once reads a packet, or drops it.
LEMMA ReadAttached ==
  ASSUME TypeOK, AttachedInv, pc = "wait", NEW p \in Arriving, SocketRead(p),
         readBuf' \in {p, EncodeZero(NoPacket)}, pc' \in {"check", "ack"},
         cmd'.op = cmd.op, cmd'.needle = cmd.needle, UNCHANGED connected
  PROVE  AttachedInv'
  <1>1. /\ UNCHANGED <<net, toBroker, attached>>
        /\ toClient # <<>>
        /\ toClient' = Tail(toClient)
        /\ p = Head(toClient)
    BY DEF SocketRead, Arriving
  <1>2. /\ Head(toClient) = toClient[1]
        /\ 1 \in DOMAIN toClient
        /\ \A i \in DOMAIN toClient' : i + 1 \in DOMAIN toClient /\ toClient'[i] = toClient[i + 1]
    BY <1>1, Types, TailElements
  <1>3. Connecting' = Connecting /\ SocketConnected' = SocketConnected /\ Connected' = Connected
    BY <1>1 DEF Connecting, SocketConnected, Connected
  <1>4. EncodeZero(NoPacket).type # "CONNACK"
    BY DEF EncodeZero, PacketOf, NoPacket
  <1>5. MethodAtPc'
    BY <1>3 DEF AttachedInv, MethodAtPc
  <1>6. ConnectedMeansAttached'
    BY <1>1, <1>3 DEF AttachedInv, ConnectedMeansAttached
  <1>7. ASSUME SocketConnected PROVE LinkInv'
    <2>1. LinkInv
      BY <1>7 DEF AttachedInv
    <2>2. ConnectUnderWay'
      <3> SUFFICES ASSUME NEW i \in DOMAIN toBroker, toBroker[i].type = "CONNECT"
                   PROVE  /\ Connecting'
                          /\ i = 1
                          /\ \A j \in DOMAIN toClient' : toClient'[j].type # "CONNACK"
                          /\ readBuf'.type # "CONNACK"
        BY <1>1 DEF ConnectUnderWay
      <3>1. Connecting /\ i = 1 /\ \A j \in DOMAIN toClient : toClient[j].type # "CONNACK"
        BY <2>1 DEF LinkInv, ConnectUnderWay
      <3> QED BY <1>1, <1>2, <1>3, <1>4, <3>1
    <2>3. NoDisconnectUnderWay' /\ ConnackUnderWay'
      BY <1>1, <1>2, <2>1 DEF LinkInv, NoDisconnectUnderWay, ConnackUnderWay
    <2>4. ConnackRead'
      BY <1>1, <1>2, <1>4, <2>1 DEF LinkInv, ConnackUnderWay, ConnackRead
    <2> QED BY <2>2, <2>3, <2>4 DEF LinkInv
  <1> QED BY <1>3, <1>5, <1>6, <1>7 DEF AttachedInv

\* The broker takes a packet other than CONNECT and DISCONNECT.
LEMMA ConsumeAttached ==
  ASSUME TypeOK, AttachedInv, UNCHANGED <<clientVars, attached>>,
         NEW type, NEW answers, Consume(type, answers),
         \/ answers = <<>>
         \/ \E a \in BrokerPacket : a.type # "CONNACK" /\ answers = <<a>>
  PROVE  AttachedInv'
  <1>1. /\ UNCHANGED net
        /\ attached
        /\ toBroker # <<>>
        /\ toBroker' = Tail(toBroker)
    BY DEF Consume
  <1>2. \A i \in DOMAIN toBroker' :
          i + 1 \in DOMAIN toBroker /\ i + 1 # 1 /\ toBroker'[i] = toBroker[i + 1]
    BY <1>1, Types, TailElements
  <1>3. \A i \in DOMAIN toClient' :
          \/ i \in DOMAIN toClient /\ toClient'[i] = toClient[i]
          \/ toClient'[i].type # "CONNACK"
    <2>1. CASE answers = <<>> \/ net # "open"
      BY <2>1, Types, AnswerElements DEF Consume
    <2>2. CASE net = "open" /\ \E a \in BrokerPacket : a.type # "CONNACK" /\ answers = <<a>>
      <3>1. PICK a \in BrokerPacket : a.type # "CONNACK" /\ answers = <<a>>
        BY <2>2
      <3>2. toClient' = Append(toClient, a)
        BY <2>2, <3>1, Types, AnswerElements DEF Consume
      <3> QED BY <3>1, <3>2, Types, AppendElements
    <2> QED BY <2>1, <2>2
  <1>4. ASSUME SocketConnected PROVE LinkInv'
    <2>1. LinkInv
      BY <1>4 DEF AttachedInv
    <2>2. ConnectUnderWay'
      BY <1>2, <2>1 DEF LinkInv, ConnectUnderWay
    <2>3. NoDisconnectUnderWay'
      BY <1>2, <2>1 DEF LinkInv, NoDisconnectUnderWay
    <2>4. ConnackUnderWay' /\ ConnackRead'
      BY <1>1 DEF ConnackUnderWay, ConnackRead
    <2> QED BY <2>2, <2>3, <2>4 DEF LinkInv
  <1> QED BY <1>1, <1>4 DEF AttachedInv, ConnectedMeansAttached, Connected, SocketConnected,
                            MethodAtPc, Connecting, clientVars

-----------------------------------------------------------------------------
(* One lemma for each group of actions.                                    *)

LEMMA ConnectAttaches ==
  ASSUME AttachedInv, ConnectRefused \/ ConnectStart \/ ConnectFails
  PROVE  AttachedInv'
  <1>1. CASE ConnectRefused
    BY <1>1, ClosedAttached DEF ConnectRefused, SocketStop
  <1>2. CASE ConnectStart
    <2>1. /\ toBroker' = <<EncodeConnect>>
          /\ toClient' = <<>>
          /\ pc' = "wait"
          /\ cmd' = ConnectCommand
      BY <1>2 DEF ConnectStart, SocketOpen, Wait
    <2>2. Connecting' /\ MethodAtPc'
      BY <2>1 DEF Connecting, ConnectCommand, Command, MethodAtPc
    <2>3. EncodeConnect.type = "CONNECT"
      BY DEF EncodeConnect, EncodeZero, PacketOf
    <2>4. ConnectUnderWay' /\ NoDisconnectUnderWay' /\ ConnackUnderWay' /\ ConnackRead'
      BY <2>1, <2>2, <2>3 DEF ConnectUnderWay, NoDisconnectUnderWay, ConnackUnderWay, ConnackRead
    <2> QED BY <2>2, <2>4 DEF AttachedInv, LinkInv, ConnectedMeansAttached
  <1>3. CASE ConnectFails
    BY <1>3, FailAttached DEF ConnectFails
  <1> QED BY <1>1, <1>2, <1>3

LEMMA PublishAttaches ==
  ASSUME TypeOK, AttachedInv, NEW m \in Msgs,
         PublishQoS0(m) \/ PublishStart(m) \/ PublishFails(m)
  PROVE  AttachedInv'
  <1>1. CASE PublishFails(m)
    BY <1>1, FailAttached DEF PublishFails
  <1>2. CASE PublishQoS0(m) \/ PublishStart(m)
    <2>1. PublishId(m) \in 0..MaxPacketId /\ IsDup(m) \in BOOLEAN
      BY NextPacketIdType, PacketAssumption
         DEF PublishId, IsDup, DupIdSeen, TypeOK, SessionTypeOK
    <2>2. PublishPacket(m) \in ClientPacket
      BY <2>1, PacketAssumption, ClientPackets DEF PublishPacket, PacketIds
    <2>3. PublishPacket(m).type = "PUBLISH"
      BY DEF PublishPacket, EncodePublish, PacketOf
    <2>4. /\ toBroker' = Append(toBroker, PublishPacket(m))
          /\ UNCHANGED <<net, toClient, attached>>
          /\ Connected
          /\ pc = "idle"
          /\ \/ pc' = "idle"
             \/ pc' = "wait" /\ cmd' = PublishCommand(m)
      <3>1. CASE PublishQoS0(m)
        BY <3>1 DEF PublishQoS0, MayPublish, SendPacket, SocketWrite, Succeed, Idle
      <3>2. CASE PublishStart(m)
        BY <3>2 DEF PublishStart, MayPublish, SendPacket, SocketWrite, Wait
      <3> QED BY <1>2, <3>1, <3>2
    <2>5. ~Connecting /\ ~Connecting'
      BY <2>4 DEF Connecting, PublishCommand, Command
    <2> QED BY <2>2, <2>3, <2>4, <2>5, CallAttached
  <1> QED BY <1>1, <1>2

LEMMA RequestAttaches ==
  ASSUME TypeOK, AttachedInv, NEW t \in Topics,
         SubscribeStart(t) \/ UnsubscribeStart(t) \/ RequestFails(t)
  PROVE  AttachedInv'
  <1>1. CASE RequestFails(t)
    BY <1>1, FailAttached DEF RequestFails
  <1>2. ASSUME NEW c, NEW p \in ClientPacket, c.op # "connect",
               p.type \notin {"CONNECT", "DISCONNECT"}, Request(c, p)
        PROVE  AttachedInv'
    <2>1. /\ toBroker' = Append(toBroker, p)
          /\ UNCHANGED <<net, toClient, attached>>
          /\ Connected
          /\ pc = "idle" /\ pc' = "wait" /\ cmd' = c
      BY <1>2 DEF Request, SendPacket, SocketWrite, Wait
    <2>2. ~Connecting /\ ~Connecting'
      BY <1>2, <2>1 DEF Connecting
    <2> QED BY <1>2, <2>1, <2>2, CallAttached
  <1>3. NextPacketId \in PacketIds
    BY NextPacketIdType DEF TypeOK, SessionTypeOK, PacketIds
  <1>4. EncodeSubscribe(NextPacketId, t) \in ClientPacket
        /\ EncodeUnsubscribe(NextPacketId, t) \in ClientPacket
    BY <1>3, ClientPackets
  <1>5. EncodeSubscribe(NextPacketId, t).type = "SUBSCRIBE"
        /\ EncodeUnsubscribe(NextPacketId, t).type = "UNSUBSCRIBE"
    BY DEF EncodeSubscribe, EncodeUnsubscribe, PacketOf
  <1>6. SubscribeCommand(t).op # "connect" /\ UnsubscribeCommand(t).op # "connect"
    BY DEF SubscribeCommand, UnsubscribeCommand, Command
  <1>7. CASE SubscribeStart(t)
    BY <1>2, <1>4, <1>5, <1>6, <1>7 DEF SubscribeStart
  <1>8. CASE UnsubscribeStart(t)
    BY <1>2, <1>4, <1>5, <1>6, <1>8 DEF UnsubscribeStart
  <1> QED BY <1>1, <1>7, <1>8

LEMMA OtherCallAttaches ==
  ASSUME AttachedInv, PrepareDuplicate \/ Disconnect \/ LoopYields \/ LoopSkipsYield
  PROVE  AttachedInv'
  <1>1. CASE PrepareDuplicate
    BY <1>1 DEF PrepareDuplicate, networkVars, AttachedInv, ConnectedMeansAttached, Connected,
                SocketConnected, Connecting, LinkInv, ConnectUnderWay, NoDisconnectUnderWay,
                ConnackUnderWay, ConnackRead, MethodAtPc
  <1>2. CASE Disconnect
    BY <1>2, ClosedAttached DEF Disconnect, Close, SocketStop
  <1>3. CASE LoopYields \/ LoopSkipsYield
    <2>1. PICK n \in Nat, next \in {"wait", "ping"} : LoopStarts(n, next)
      <3>1. CASE LoopYields
        <4>1. PICK n \in 1..Len(toClient) : LoopStarts(n, "wait")
          BY <3>1 DEF LoopYields
        <4>2. n \in Nat
          BY <4>1
        <4> QED BY <4>1, <4>2
      <3>2. CASE LoopSkipsYield
        BY <3>2 DEF LoopSkipsYield
      <3> QED BY <1>3, <3>1, <3>2
    <2>2. /\ pc = "idle" /\ Connected
          /\ pc' \in {"wait", "ping"} /\ cmd' = LoopCommand(n)
          /\ UNCHANGED <<networkVars, connected, readBuf>>
      BY <2>1 DEF LoopStarts, callVars
    <2>3. ~Connecting /\ ~Connecting' /\ MethodAtPc'
      BY <2>2 DEF Connecting, LoopCommand, Command, MethodAtPc
    <2>4. attached
      BY <2>2, <2>3 DEF AttachedInv, ConnectedMeansAttached
    <2> QED BY <2>2, <2>3, <2>4, StepAttached
  <1> QED BY <1>1, <1>2, <1>3

LEMMA ReceiveAttaches ==
  ASSUME TypeOK, AttachedInv,
         \/ ReceivePublish \/ ReceiveAckToAnswer \/ ReceivePingresp \/ ReceiveOther
         \/ DropPacket
  PROVE  AttachedInv'
  <1>1. CASE DropPacket
    BY <1>1, ReadAttached DEF DropPacket, callVars
  <1>2. CASE ReceivePublish \/ ReceiveAckToAnswer \/ ReceivePingresp \/ ReceiveOther
    <2>1. PICK p \in Arriving : Receive(p)
      BY <1>2 DEF ReceivePublish, ReceiveAckToAnswer, ReceivePingresp, ReceiveOther
    <2>2. cmd' = [cmd EXCEPT !.available = IF @ > 0 THEN @ - 1 ELSE 0]
      BY <2>1 DEF Receive
    <2>3. cmd'.op = cmd.op /\ cmd'.needle = cmd.needle
      BY <2>2 DEF TypeOK, MethodTypeOK, Commands
    <2>4. pc = "wait" /\ SocketRead(p) /\ readBuf' = p /\ UNCHANGED connected
      BY <2>1 DEF Receive, callVars
    <2>5. pc' \in {"check", "ack"}
      BY <1>2 DEF ReceivePublish, ReceiveAckToAnswer, ReceivePingresp, ReceiveOther
    <2> QED BY <2>1, <2>3, <2>4, <2>5, ReadAttached
  <1> QED BY <1>1, <1>2

LEMMA SendAckAttaches ==
  ASSUME TypeOK, AttachedInv, SendAck
  PROVE  AttachedInv'
  <1>1. readBuf \in BrokerPacket /\ readBuf.type \in {"PUBLISH", "PUBREC", "PUBREL"}
    BY DEF SendAck, TypeOK, MethodTypeOK, EncodeZero, PacketOf, NoPacket
  <1>2. readBuf.id \in PacketIds
    BY <1>1 DEF BrokerPacket, Packet
  <1>3. Answer(readBuf) \in ClientPacket
    BY <1>1, <1>2, ClientPackets DEF Answer
  <1>4. Answer(readBuf).type \notin {"CONNECT", "DISCONNECT"}
    BY <1>1 DEF Answer, EncodeAck, PacketOf
  <1>5. /\ toBroker' = Append(toBroker, Answer(readBuf))
        /\ SocketConnected
        /\ UNCHANGED <<net, toClient, attached, connected, cmd, readBuf>>
        /\ pc = "ack" /\ pc' = "check"
    BY DEF SendAck, SendPacket, SocketWrite, callVars
  <1>6. Connecting' = Connecting
    BY <1>5 DEF Connecting
  <1>7. Connected' = Connected
    BY <1>5 DEF Connected, SocketConnected
  <1>8. Connected' /\ ~Connecting' => attached
    BY <1>6, <1>7 DEF AttachedInv, ConnectedMeansAttached
  <1>9. ConnackRead' /\ MethodAtPc'
    BY <1>1, <1>5, <1>6 DEF ConnackRead, AttachedInv, MethodAtPc
  <1>10. ConnectUnderWay'
    <2>1. \A i \in DOMAIN toBroker' : \/ i \in DOMAIN toBroker /\ toBroker'[i] = toBroker[i]
                                      \/ toBroker'[i].type # "CONNECT"
      BY <1>3, <1>4, <1>5, Types, AppendElements
    <2> QED BY <1>1, <1>5, <1>6, <2>1 DEF AttachedInv, LinkInv, ConnectUnderWay
  <1> QED BY <1>3, <1>4, <1>5, <1>8, <1>9, <1>10, WriteAttached

LEMMA RunAttaches ==
  ASSUME TypeOK, AttachedInv, Run
  PROVE  AttachedInv'
  <1>1. CASE \/ ReceivePublish \/ ReceiveAckToAnswer \/ ReceivePingresp \/ ReceiveOther
             \/ DropPacket
    BY <1>1, ReceiveAttaches
  <1>2. CASE SendAck
    BY <1>2, SendAckAttaches
  <1>3. CASE SendAckFails \/ ReadPacketFails \/ ReadFails \/ CommandRejected \/ CommandTimesOut
             \/ PongTimeout \/ SendPingFails
    BY <1>3, FailAttached DEF SendAckFails, ReadPacketFails, ReadFails, CommandRejected,
                              CommandTimesOut, PongTimeout, SendPingFails
  <1>4. CASE ReadNothing \/ NextCycle \/ YieldEnds
    <2>1. /\ UNCHANGED <<networkVars, connected, cmd>>
          /\ pc \in {"wait", "check"} /\ pc' \in {"check", "wait", "ping"}
          /\ pc' = "check" => readBuf' = EncodeZero(NoPacket)
          /\ pc' = "ping" => cmd.op = "loop"
      BY <1>4 DEF ReadNothing, NextCycle, YieldEnds, callVars
    <2>2. Connecting' = Connecting /\ Connected' = Connected
      BY <2>1 DEF Connecting, Connected, SocketConnected, networkVars
    <2>3. MethodAtPc'
      BY <2>1, <2>2 DEF AttachedInv, MethodAtPc
    <2>4. EncodeZero(NoPacket).type # "CONNACK"
      BY DEF EncodeZero, PacketOf, NoPacket
    <2>5. Connected' /\ ~Connecting' => attached
      BY <2>2 DEF AttachedInv, ConnectedMeansAttached
    <2> QED BY <2>1, <2>2, <2>3, <2>4, <2>5, StepAttached
  <1>5. CASE CommandAcked
    <2>1. /\ pc = "check" /\ pc' = "idle" /\ UNCHANGED networkVars
          /\ readBuf.type = cmd.needle
          /\ cmd.op = "connect" => readBuf.ok
          /\ connected' = (connected \/ cmd.op = "connect")
      BY <1>5 DEF CommandAcked, Found, Verdict, Succeed, Idle
    <2>2. Connecting => readBuf.type = "CONNACK" /\ readBuf.ok
      BY <2>1 DEF AttachedInv, MethodAtPc, Connecting
    <2>3. Connected' => attached
      BY <2>1, <2>2 DEF AttachedInv, LinkInv, ConnackRead, ConnectedMeansAttached, Connected,
                        SocketConnected, Connecting, networkVars
    <2>4. MethodAtPc' /\ ~Connecting'
      BY <2>1 DEF MethodAtPc, Connecting
    <2> QED BY <2>1, <2>2, <2>3, <2>4, StepAttached
  <1>6. CASE NoPingDue
    <2>1. /\ pc = "ping" /\ pc' = "idle" /\ UNCHANGED networkVars
          /\ cmd.op = "loop"
          /\ connected' = connected
      BY <1>6 DEF NoPingDue, Succeed, Idle, AttachedInv, MethodAtPc, TypeOK, MethodTypeOK
    <2>2. ~Connecting /\ ~Connecting' /\ MethodAtPc'
      BY <2>1 DEF MethodAtPc, Connecting
    <2>3. Connected' => attached
      BY <2>1, <2>2 DEF AttachedInv, ConnectedMeansAttached, Connected, SocketConnected,
                        networkVars
    <2> QED BY <2>1, <2>2, <2>3, StepAttached
  <1>7. CASE SendPing
    <2>1. EncodeZero("PINGREQ") \in ClientPacket /\ EncodeZero("PINGREQ").type = "PINGREQ"
      BY ClientPackets DEF EncodeZero, PacketOf
    <2>2. /\ toBroker' = Append(toBroker, EncodeZero("PINGREQ"))
          /\ SocketConnected
          /\ UNCHANGED <<net, toClient, attached>>
          /\ pc = "ping" /\ pc' = "idle"
          /\ cmd.op = "loop"
          /\ connected' = connected
      BY <1>7 DEF SendPing, SendPacket, SocketWrite, Succeed, Idle, AttachedInv, MethodAtPc,
                  TypeOK, MethodTypeOK
    <2>3. ~Connecting /\ ~Connecting' /\ MethodAtPc' /\ ConnackRead'
      BY <2>2 DEF MethodAtPc, Connecting, ConnackRead
    <2>4. Connected' => attached
      BY <2>2, <2>3 DEF AttachedInv, ConnectedMeansAttached, Connected, SocketConnected
    <2>5. ConnectUnderWay'
      <3>1. \A i \in DOMAIN toBroker : toBroker[i].type # "CONNECT"
        BY <2>2, <2>3 DEF AttachedInv, LinkInv, ConnectUnderWay
      <3>2. \A i \in DOMAIN toBroker' : toBroker'[i].type # "CONNECT"
        BY <2>1, <2>2, <3>1, Types, AppendElements
      <3> QED BY <3>2 DEF ConnectUnderWay
    <2> QED BY <2>1, <2>2, <2>3, <2>4, <2>5, WriteAttached
  <1> QED BY <1>1, <1>2, <1>3, <1>4, <1>5, <1>6, <1>7 DEF Run

LEMMA EnvironmentAttaches ==
  ASSUME TypeOK, AttachedInv, Environment
  PROVE  AttachedInv'
  <1>1. CASE CommandTimerExpires \/ KeepAliveTimerExpires
    <2>1. UNCHANGED <<networkVars, connected, pc, cmd, readBuf>>
      BY <1>1 DEF CommandTimerExpires, KeepAliveTimerExpires, callVars
    <2>2. Connecting' = Connecting /\ Connected' = Connected
      BY <2>1 DEF Connecting, Connected, SocketConnected, networkVars
    <2>3. MethodAtPc'
      BY <2>1, <2>2 DEF AttachedInv, MethodAtPc
    <2>4. Connected' /\ ~Connecting' => attached
      BY <2>2 DEF AttachedInv, ConnectedMeansAttached
    <2> QED BY <2>1, <2>2, <2>3, <2>4, StepAttached
  <1>2. CASE PowerCycle
    BY <1>2, ClosedAttached DEF PowerCycle, Idle, Close, SocketStop
  <1>3. CASE LinkReset /\ UNCHANGED clientVars
    <2>1. net' = "closed"
      BY <1>3 DEF LinkReset, SocketStop
    <2> QED BY <1>3, <2>1 DEF AttachedInv, ConnectedMeansAttached, Connected, SocketConnected,
                              MethodAtPc, Connecting, clientVars
  <1>4. CASE LinkStall /\ UNCHANGED clientVars
    <2>1. PICK k \in 0..Len(toClient) : toClient' = SubSeq(toClient, 1, k)
      BY <1>4 DEF LinkStall
    <2>2. \A i \in DOMAIN toClient' : i \in DOMAIN toClient /\ toClient'[i] = toClient[i]
      BY <2>1, Types, SubSeqProperties, LenProperties
    <2>3. SocketConnected /\ SocketConnected' /\ UNCHANGED <<toBroker, attached>>
      BY <1>4 DEF LinkStall, SocketConnected
    <2>4. ConnectUnderWay' /\ NoDisconnectUnderWay'
      BY <1>4, <2>2, <2>3 DEF AttachedInv, LinkInv, ConnectUnderWay, NoDisconnectUnderWay,
                              Connecting, clientVars
    <2>5. ConnackUnderWay' /\ ConnackRead'
      BY <1>4, <2>2, <2>3 DEF AttachedInv, LinkInv, ConnackUnderWay, ConnackRead, Connecting,
                              clientVars
    <2>6. ConnectedMeansAttached' /\ MethodAtPc'
      BY <1>4, <2>3 DEF AttachedInv, ConnectedMeansAttached, Connected, MethodAtPc, Connecting,
                        clientVars
    <2> QED BY <2>4, <2>5, <2>6 DEF AttachedInv, LinkInv
  <1> QED BY <1>1, <1>2, <1>3, <1>4 DEF Environment

\* The broker reads the CONNECT of an open connection only while connect()
\* waits and no answer has been sent; the others it reads from closed ones.
LEMMA BrokerConnectAttaches ==
  ASSUME TypeOK, AttachedInv, UNCHANGED clientVars, NEW ok \in BOOLEAN, BrokerConnect(ok)
  PROVE  AttachedInv'
  <1>1. /\ UNCHANGED net
        /\ toBroker # <<>>
        /\ Head(toBroker).type = "CONNECT"
        /\ toBroker' = Tail(toBroker)
        /\ attached' = ok
        /\ toClient' = IF net = "open" THEN Append(toClient, Connack(ok)) ELSE toClient
    BY DEF BrokerConnect
  <1>2. /\ Head(toBroker) = toBroker[1]
        /\ 1 \in DOMAIN toBroker
        /\ \A i \in DOMAIN toBroker' :
             i + 1 \in DOMAIN toBroker /\ i + 1 # 1 /\ toBroker'[i] = toBroker[i + 1]
    BY <1>1, Types, TailElements
  <1>3. MethodAtPc' /\ Connecting' = Connecting /\ SocketConnected' = SocketConnected
    BY <1>1 DEF AttachedInv, MethodAtPc, Connecting, SocketConnected, clientVars
  <1>4. CASE SocketConnected
    <2>1. LinkInv
      BY <1>4 DEF AttachedInv
    <2>2. /\ Connecting
          /\ \A j \in DOMAIN toClient : toClient[j].type # "CONNACK"
          /\ ~(pc = "check" /\ readBuf.type = "CONNACK")
      BY <1>1, <1>2, <2>1 DEF LinkInv, ConnectUnderWay
    <2>3. ConnectUnderWay' /\ NoDisconnectUnderWay'
      BY <1>2, <2>1 DEF LinkInv, ConnectUnderWay, NoDisconnectUnderWay
    <2>4. ConnackUnderWay'
      <3>1. CASE net = "open"
        <4>1. Connack(ok) \in BrokerPacket /\ Connack(ok).ok = ok
          BY BrokerPackets DEF Connack, PacketOf
        <4>2. \A i \in DOMAIN toClient' : \/ i \in DOMAIN toClient /\ toClient'[i] = toClient[i]
                                          \/ toClient'[i] = Connack(ok)
          BY <1>1, <3>1, <4>1, Types, AppendElements
        <4> QED BY <1>1, <2>2, <4>1, <4>2 DEF ConnackUnderWay
      <3>2. CASE net # "open"
        BY <1>1, <2>2, <3>2 DEF ConnackUnderWay
      <3> QED BY <3>1, <3>2
    <2>5. ConnackRead' /\ ConnectedMeansAttached'
      BY <1>3, <2>2 DEF ConnackRead, ConnectedMeansAttached, clientVars
    <2> QED BY <1>3, <2>3, <2>4, <2>5 DEF AttachedInv, LinkInv
  <1>5. CASE ~SocketConnected
    BY <1>3, <1>5 DEF AttachedInv, ConnectedMeansAttached, Connected
  <1> QED BY <1>4, <1>5

LEMMA BrokerReadsAttach ==
  ASSUME TypeOK, AttachedInv, BrokerReads
  PROVE  AttachedInv'
  <1>0. UNCHANGED clientVars
    BY DEF BrokerReads
  <1>1. CASE \E ok \in BOOLEAN : BrokerConnect(ok)
    BY <1>0, <1>1, BrokerConnectAttaches
  <1>2. CASE BrokerDisconnect
    <2>1. /\ toBroker # <<>>
          /\ Head(toBroker).type = "DISCONNECT"
          /\ UNCHANGED net
      BY <1>2 DEF BrokerDisconnect, Consume
    <2>2. Head(toBroker) = toBroker[1] /\ 1 \in DOMAIN toBroker
      BY <2>1, Types, TailElements
    <2>3. ~SocketConnected
      BY <2>1, <2>2 DEF AttachedInv, LinkInv, NoDisconnectUnderWay
    <2> QED BY <1>0, <2>1, <2>3 DEF AttachedInv, ConnectedMeansAttached, Connected,
                                    SocketConnected, MethodAtPc, Connecting, clientVars
  <1>3. CASE BrokerPublishQoS0 \/ BrokerPuback \/ BrokerPubcomp
    BY <1>0, <1>3, ConsumeAttached DEF BrokerPublishQoS0, BrokerPuback, BrokerPubcomp
  <1>4. CASE BrokerPingreq
    <2>1. EncodeZero("PINGRESP") \in BrokerPacket /\ EncodeZero("PINGRESP").type = "PINGRESP"
      BY BrokerPackets DEF EncodeZero, PacketOf
    <2> QED BY <1>0, <1>4, <2>1, ConsumeAttached DEF BrokerPingreq
  <1>5. CASE BrokerPublishQoS1 \/ BrokerPublishQoS2 \/ BrokerPubrel \/ BrokerPubrec
             \/ BrokerUnsubscribe \/ \E ok \in BOOLEAN : BrokerSubscribe(ok)
    <2>1. toBroker # <<>> /\ UNCHANGED attached
      BY <1>5 DEF BrokerPublishQoS1, BrokerPublishQoS2, BrokerPubrel, BrokerPubrec,
                  BrokerUnsubscribe, BrokerSubscribe
    <2>2. Head(toBroker) \in ClientPacket
      BY <2>1, Types, HeadTailProperties
    <2>3. Head(toBroker).id \in PacketIds
      BY <2>2 DEF ClientPacket, Packet
    <2>4. /\ \A t \in {"PUBACK", "PUBREC", "PUBREL", "PUBCOMP", "UNSUBACK"} :
               /\ EncodeAck(t, Head(toBroker).id) \in BrokerPacket
               /\ EncodeAck(t, Head(toBroker).id).type # "CONNACK"
          /\ \A ok \in BOOLEAN : /\ Suback(Head(toBroker).id, ok) \in BrokerPacket
                                 /\ Suback(Head(toBroker).id, ok).type # "CONNACK"
      BY <2>3, BrokerPackets DEF EncodeAck, Suback, PacketOf
    <2>5. PICK type, a : a \in BrokerPacket /\ a.type # "CONNACK" /\ Consume(type, <<a>>)
      BY <1>5, <2>4 DEF BrokerPublishQoS1, BrokerPublishQoS2, BrokerPubrel, BrokerPubrec,
                        BrokerUnsubscribe, BrokerSubscribe
    <2> QED BY <1>0, <2>1, <2>5, ConsumeAttached
  <1> QED BY <1>1, <1>2, <1>3, <1>4, <1>5 DEF BrokerReads

LEMMA BrokerSendsAttach ==
  ASSUME TypeOK, AttachedInv, BrokerSends
  PROVE  AttachedInv'
  <1>1. PICK m \in InMsgs : (BrokerPush(m) \/ BrokerResend(m)) /\ UNCHANGED clientVars
    BY DEF BrokerSends
  <1>2. /\ EncodePublish(FALSE, IF InQoS[m] = 0 THEN 0 ELSE m, InQoS[m], m) \in BrokerPacket
        /\ EncodePublish(FALSE, IF InQoS[m] = 0 THEN 0 ELSE m, InQoS[m], m).type = "PUBLISH"
    BY BrokerPackets DEF EncodePublish, PacketOf
  <1>3. /\ EncodePublish(TRUE, m, InQoS[m], m) \in BrokerPacket
        /\ EncodePublish(TRUE, m, InQoS[m], m).type = "PUBLISH"
    BY PacketAssumption DEF BrokerPacket, Packet, PacketTypes, EncodePublish, PacketOf,
                            PacketIds, Payloads
  <1>4. EncodeAck("PUBREL", m) \in BrokerPacket /\ EncodeAck("PUBREL", m).type = "PUBREL"
    BY BrokerPackets DEF PacketIds, EncodeAck, PacketOf
  <1>5. PICK p \in BrokerPacket : p.type # "CONNACK" /\ toClient' = Append(toClient, p)
    BY <1>1, <1>2, <1>3, <1>4 DEF BrokerPush, BrokerResend
  <1>6. \A i \in DOMAIN toClient' : \/ i \in DOMAIN toClient /\ toClient'[i] = toClient[i]
                                    \/ toClient'[i].type # "CONNACK"
    BY <1>5, Types, AppendElements
  <1>7. attached /\ UNCHANGED <<net, toBroker, attached>>
    BY <1>1 DEF BrokerPush, BrokerResend
  <1>8. ASSUME SocketConnected PROVE LinkInv'
    <2>1. LinkInv
      BY <1>8 DEF AttachedInv
    <2>2. ConnectUnderWay' /\ NoDisconnectUnderWay'
      BY <1>1, <1>6, <1>7, <2>1 DEF LinkInv, ConnectUnderWay, NoDisconnectUnderWay, Connecting,
                                    clientVars
    <2>3. ConnackUnderWay' /\ ConnackRead'
      BY <1>7 DEF ConnackUnderWay, ConnackRead
    <2> QED BY <2>2, <2>3 DEF LinkInv
  <1> QED BY <1>1, <1>7, <1>8 DEF AttachedInv, ConnectedMeansAttached, Connected,
                                  SocketConnected, MethodAtPc, Connecting, clientVars

-----------------------------------------------------------------------------

\* connected() outside of connect() means that the broker accepted a CONNECT
\* on this very TCP connection: _connected is set only by a positive CONNACK,
\* and although it survives a lost link and a refused TCP connection, nothing
\* but a new connect() opens the socket again.
THEOREM ConnectedAttached == Spec => []ConnectedMeansAttached
  <1>1. Init => AttachedInv
    BY DEF Init, NetworkInit, ClientInit, AttachedInv, ConnectedMeansAttached, Connected,
           SocketConnected, MethodAtPc, Connecting
  <1>2. TypeOK /\ AttachedInv /\ [Next]_vars => AttachedInv'
    <2> SUFFICES ASSUME TypeOK, AttachedInv, [Next]_vars PROVE AttachedInv'
      OBVIOUS
    <2>1. CASE UNCHANGED vars
      <3>1. Connecting' = Connecting /\ Connected' = Connected
        BY <2>1 DEF Connecting, Connected, SocketConnected, vars, networkVars, clientVars
      <3>2. MethodAtPc'
        BY <2>1, <3>1 DEF AttachedInv, MethodAtPc, vars, clientVars
      <3>3. Connected' /\ ~Connecting' => attached
        BY <3>1 DEF AttachedInv, ConnectedMeansAttached
      <3> QED BY <2>1, <3>1, <3>2, <3>3, StepAttached DEF vars, clientVars
    <2>2. CASE Call
      BY <2>2, ConnectAttaches, PublishAttaches, RequestAttaches, OtherCallAttaches DEF Call
    <2>3. CASE Next /\ ~Call
      BY <2>3, RunAttaches, EnvironmentAttaches, BrokerReadsAttach, BrokerSendsAttach DEF Next
    <2> QED BY <2>1, <2>2, <2>3
  <1>3. AttachedInv => ConnectedMeansAttached
    BY DEF AttachedInv
  <1> QED BY <1>1, <1>2, <1>3, TypeCorrect, PTL DEF Spec

-----------------------------------------------------------------------------
(* The exchange a command is: its request, what the broker answers, and    *)
(* for a publish() at QoS 2 the second half of the handshake.  client.c    *)
(* has one command at a time and matches the answer by type and packet id; *)
(* ids come again after a wrap or a restart.                               *)

\* The packets a command sends and then waits, and those that answer them.
IsRequest(p) ==
  \/ p.type \in {"CONNECT", "SUBSCRIBE", "UNSUBSCRIBE", "PUBREL"}
  \/ p.type = "PUBLISH" /\ p.qos > 0

IsAnswer(p) == p.type \in {"CONNACK", "PUBACK", "PUBREC", "PUBCOMP", "SUBACK", "UNSUBACK"}

\* p is the request of the running command.
Asks(p) ==
  /\ p.id = cmd.id
  /\ p.type \in {"SUBSCRIBE", "UNSUBSCRIBE", "PUBLISH"} => p.msg = cmd.msg
  /\ \/ p.type = "CONNECT" /\ cmd.needle = "CONNACK"
     \/ p.type = "SUBSCRIBE" /\ cmd.needle = "SUBACK"
     \/ p.type = "UNSUBSCRIBE" /\ cmd.needle = "UNSUBACK"
     \/ p.type = "PUBLISH" /\ p.qos = 1 /\ cmd.needle = "PUBACK"
     \/ p.type = "PUBLISH" /\ p.qos = 2 /\ cmd.needle = "PUBCOMP"
     \/ p.type = "PUBREL" /\ cmd.needle = "PUBCOMP"

\* p is an answer to the running command.
Replies(p) ==
  /\ p.id = cmd.id
  /\ p.type = cmd.needle \/ (p.type = "PUBREC" /\ cmd.needle = "PUBCOMP")

Waiting == pc \in {"wait", "ack", "check"}

\* The answer is in read_buf, and cycle_until has not looked at it.
Held ==
  \/ pc = "ack" /\ readBuf.type = "PUBREC"
  \/ pc = "check" /\ IsAnswer(readBuf) /\ readBuf.type = cmd.needle

\* What is in the two queues is of the connection of the running command, or
\* of the one that is open.
Live == SocketConnected \/ pc # "idle"

NoAnswerUnderWay == \A j \in DOMAIN toClient : ~IsAnswer(toClient[j])

OneRequest ==
  \A i, j \in DOMAIN toBroker : IsRequest(toBroker[i]) /\ IsRequest(toBroker[j]) => i = j

RequestAsks ==
  Live => \A i \in DOMAIN toBroker :
            IsRequest(toBroker[i]) =>
              Waiting /\ Asks(toBroker[i]) /\ ~Held /\ NoAnswerUnderWay

OneAnswer ==
  \A i, j \in DOMAIN toClient : IsAnswer(toClient[i]) /\ IsAnswer(toClient[j]) => i = j

AnswerReplies ==
  \A j \in DOMAIN toClient : IsAnswer(toClient[j]) => Waiting /\ Replies(toClient[j]) /\ ~Held

HeldReplies == Held => Replies(readBuf)

\* The packet type a command waits for follows from its name.
CommandNeedle ==
  /\ pc # "idle" => cmd.op # "none"
  /\ cmd.op = "none" => cmd.needle = NoPacket
  /\ cmd.op = "loop" => cmd.needle = NoPacket
  /\ cmd.op = "connect" => cmd.needle = "CONNACK" /\ cmd.id = 0
  /\ cmd.op = "subscribe" => cmd.needle = "SUBACK" /\ cmd.msg \in Topics
  /\ cmd.op = "unsubscribe" => cmd.needle = "UNSUBACK" /\ cmd.msg \in Topics
  /\ cmd.op = "publish" =>
       /\ cmd.msg \in Msgs
       /\ OutQoS[cmd.msg] > 0
       /\ cmd.needle = AckType(OutQoS[cmd.msg])
  /\ pc = "ping" => cmd.op = "loop"

\* One packet of the exchange is under way or held, and it fits the command.
ExchangeInv ==
  /\ CommandNeedle
  /\ net = "closed" => toClient = <<>>
  /\ OneRequest
  /\ RequestAsks
  /\ OneAnswer
  /\ AnswerReplies
  /\ HeldReplies

\* The packet ids of the outbound handshakes.
IdsInv ==
  /\ \A i \in DOMAIN toBroker :
       IsRequest(toBroker[i]) /\ toBroker[i].type # "CONNECT" => toBroker[i].id # 0
  /\ \A j \in DOMAIN toClient : toClient[j].type = "PUBREC" => toClient[j].id # 0
  /\ pc = "ack" /\ readBuf.type = "PUBREC" => readBuf.id # 0

\* What a granted or confirmed request made of the session.
SubsInv ==
  /\ \A j \in DOMAIN toClient :
       /\ toClient[j].type = "SUBACK" /\ toClient[j].ok => cmd.msg \in subs
       /\ toClient[j].type = "UNSUBACK" => cmd.msg \notin subs
  /\ Held /\ readBuf.type = "SUBACK" /\ readBuf.ok => cmd.msg \in subs
  /\ Held /\ readBuf.type = "UNSUBACK" => cmd.msg \notin subs

-----------------------------------------------------------------------------
(* What a step of one kind does to the exchange.                           *)

\* Nothing of an exchange is in the queues.
Silent ==
  /\ \A i \in DOMAIN toBroker : ~IsRequest(toBroker[i])
  /\ NoAnswerUnderWay

LEMMA SilentWhen ==
  ASSUME ExchangeInv, Live, ~Waiting \/ Held \/ cmd.op = "loop"
  PROVE  Silent
  <1>1. cmd.op = "loop" => /\ \A p : ~Asks(p)
                           /\ \A p : IsAnswer(p) => ~Replies(p)
    BY DEF ExchangeInv, CommandNeedle, Asks, Replies, IsAnswer, NoPacket
  <1> QED BY <1>1 DEF ExchangeInv, RequestAsks, AnswerReplies, Silent, NoAnswerUnderWay

LEMMA IdleNeedle == Idle => CommandNeedle'
  BY DEF Idle, CommandNeedle, NoCommand, Command

\* What Tail and Append leave of the requests.
LEMMA RequestsAfterTail ==
  ASSUME TypeOK, OneRequest, toBroker # <<>>, toBroker' = Tail(toBroker)
  PROVE  /\ OneRequest'
         /\ IsRequest(Head(toBroker)) => \A i \in DOMAIN toBroker' : ~IsRequest(toBroker'[i])
         /\ \A i \in DOMAIN toBroker' : \E k \in DOMAIN toBroker : toBroker'[i] = toBroker[k]
         /\ \E k \in DOMAIN toBroker : Head(toBroker) = toBroker[k]
  <1>1. /\ Head(toBroker) = toBroker[1]
        /\ 1 \in DOMAIN toBroker
        /\ \A i \in DOMAIN toBroker' :
             i + 1 \in DOMAIN toBroker /\ i + 1 # 1 /\ toBroker'[i] = toBroker[i + 1]
    BY Types, TailElements
  <1>2. DOMAIN toBroker' \subseteq Int
    BY Types, HeadTailProperties
  <1> QED BY <1>1, <1>2 DEF OneRequest

LEMMA RequestsAfterWrite ==
  ASSUME TypeOK, NEW p \in ClientPacket, toBroker' = Append(toBroker, p)
  PROVE  /\ ~IsRequest(p) =>
              /\ OneRequest => OneRequest'
              /\ \A i \in DOMAIN toBroker' :
                   IsRequest(toBroker'[i]) => i \in DOMAIN toBroker /\ toBroker'[i] = toBroker[i]
         /\ (\A i \in DOMAIN toBroker : ~IsRequest(toBroker[i])) =>
              /\ OneRequest'
              /\ \A i \in DOMAIN toBroker' : IsRequest(toBroker'[i]) => toBroker'[i] = p
  BY Types, AppendElements DEF OneRequest

\* The client has closed the connection and no method is running.
LEMMA StopExchange ==
  ASSUME net' = "closed", toClient' = <<>>, pc' = "idle", OneRequest', CommandNeedle'
  PROVE  ExchangeInv'
  <1>1. ~Live' /\ ~Held'
    BY DEF Live, SocketConnected, Held
  <1>2. DOMAIN toClient' = {}
    OBVIOUS
  <1> QED BY <1>1, <1>2 DEF ExchangeInv, RequestAsks, OneAnswer, AnswerReplies, HeldReplies

LEMMA FailExchange ==
  ASSUME NEW c, NEW err, Fail(c, err), OneRequest'
  PROVE  ExchangeInv'
  BY StopExchange, IdleNeedle DEF Fail, Idle, Close, SocketStop

\* A step of the client that writes no request and reads nothing: within one
\* command, or while there is nothing of an exchange.
LEMMA StepExchange ==
  ASSUME TypeOK, ExchangeInv, Live, CommandNeedle', UNCHANGED <<net, toClient>>,
         \/ toBroker' = toBroker
         \/ \E p \in ClientPacket : ~IsRequest(p) /\ toBroker' = Append(toBroker, p),
         \/ Silent /\ ~Held'
         \/ /\ Waiting => Waiting'
            /\ cmd'.id = cmd.id /\ cmd'.needle = cmd.needle /\ cmd'.msg = cmd.msg
            /\ Held' => Held /\ readBuf' = readBuf
  PROVE  ExchangeInv'
  <1>1. /\ OneRequest'
        /\ \A i \in DOMAIN toBroker' :
             IsRequest(toBroker'[i]) => i \in DOMAIN toBroker /\ toBroker'[i] = toBroker[i]
    BY RequestsAfterWrite DEF ExchangeInv, OneRequest
  <1>2. (net = "closed" => toClient = <<>>)' /\ OneAnswer'
    BY DEF ExchangeInv, OneAnswer
  <1>3. CASE Silent /\ ~Held'
    <2>1. \A i \in DOMAIN toBroker' : ~IsRequest(toBroker'[i])
      BY <1>1, <1>3 DEF Silent
    <2>2. \A j \in DOMAIN toClient' : ~IsAnswer(toClient'[j])
      BY <1>3 DEF Silent, NoAnswerUnderWay
    <2> QED BY <1>1, <1>2, <1>3, <2>1, <2>2
            DEF ExchangeInv, RequestAsks, AnswerReplies, HeldReplies
  <1>4. CASE /\ Waiting => Waiting'
             /\ cmd'.id = cmd.id /\ cmd'.needle = cmd.needle /\ cmd'.msg = cmd.msg
             /\ Held' => Held /\ readBuf' = readBuf
    <2>1. \A p : (Asks(p) => Asks(p)') /\ (Replies(p) => Replies(p)')
      BY <1>4 DEF Asks, Replies
    <2>2. RequestAsks'
      BY <1>1, <1>4, <2>1 DEF ExchangeInv, RequestAsks, NoAnswerUnderWay
    <2>3. AnswerReplies' /\ HeldReplies'
      BY <1>4, <2>1 DEF ExchangeInv, AnswerReplies, HeldReplies
    <2> QED BY <1>1, <1>2, <2>2, <2>3 DEF ExchangeInv
  <1> QED BY <1>3, <1>4

\* A command writes its request p: the first one, or the PUBREL.
LEMMA RequestExchange ==
  ASSUME TypeOK, ExchangeInv, Silent, CommandNeedle', UNCHANGED <<net, toClient>>,
         NEW p \in ClientPacket, toBroker' = Append(toBroker, p),
         Waiting', ~Held', Asks(p)'
  PROVE  ExchangeInv'
  <1>1. OneRequest' /\ \A i \in DOMAIN toBroker' : IsRequest(toBroker'[i]) => toBroker'[i] = p
    BY RequestsAfterWrite DEF Silent
  <1>2. NoAnswerUnderWay' /\ OneAnswer' /\ AnswerReplies' /\ HeldReplies'
    BY DEF Silent, NoAnswerUnderWay, OneAnswer, AnswerReplies, HeldReplies
  <1>3. RequestAsks'
    BY <1>1, <1>2 DEF RequestAsks
  <1>4. (net = "closed" => toClient = <<>>)'
    BY DEF ExchangeInv
  <1> QED BY <1>1, <1>2, <1>3, <1>4 DEF ExchangeInv

\* cycle_once reads a packet, or drops it.
LEMMA ReadExchange ==
  ASSUME TypeOK, ExchangeInv, pc = "wait", NEW p \in Arriving, SocketRead(p),
         readBuf' \in {p, EncodeZero(NoPacket)}, pc' \in {"check", "ack"},
         cmd'.op = cmd.op, cmd'.needle = cmd.needle, cmd'.id = cmd.id, cmd'.msg = cmd.msg
  PROVE  ExchangeInv'
  <1>1. /\ UNCHANGED <<net, toBroker>>
        /\ toClient # <<>>
        /\ toClient' = Tail(toClient)
        /\ p = Head(toClient)
    BY DEF SocketRead, Arriving
  <1>2. /\ Head(toClient) = toClient[1]
        /\ 1 \in DOMAIN toClient
        /\ \A i \in DOMAIN toClient' :
             i + 1 \in DOMAIN toClient /\ i + 1 # 1 /\ toClient'[i] = toClient[i + 1]
    BY <1>1, Types, TailElements
  <1>3. DOMAIN toClient' \subseteq Int
    BY <1>1, Types, HeadTailProperties
  <1>4. Waiting /\ Waiting' /\ Live /\ ~Held
    BY DEF Waiting, Live, Held
  <1>5. \A q : (Asks(q)' <=> Asks(q)) /\ (Replies(q)' <=> Replies(q))
    BY DEF Asks, Replies
  <1>6. Held' => readBuf' = p /\ IsAnswer(p)
    <2>1. ~IsAnswer(EncodeZero(NoPacket)) /\ EncodeZero(NoPacket).type # "PUBREC"
      BY DEF IsAnswer, EncodeZero, PacketOf, NoPacket
    <2> QED BY <2>1 DEF Held, IsAnswer
  <1>7. OneAnswer'
    BY <1>2, <1>3 DEF ExchangeInv, OneAnswer
  <1>8. CommandNeedle'
    BY DEF ExchangeInv, CommandNeedle
  <1>9. IsAnswer(p) => /\ Replies(p)
                       /\ \A i \in DOMAIN toBroker : ~IsRequest(toBroker[i])
                       /\ \A j \in DOMAIN toClient' : ~IsAnswer(toClient'[j])
    BY <1>1, <1>2, <1>4 DEF ExchangeInv, AnswerReplies, RequestAsks, NoAnswerUnderWay, OneAnswer
  <1>10. RequestAsks'
    BY <1>1, <1>2, <1>4, <1>5, <1>6, <1>9 DEF ExchangeInv, RequestAsks, NoAnswerUnderWay
  <1>11. AnswerReplies' /\ HeldReplies'
    BY <1>2, <1>4, <1>5, <1>6, <1>9 DEF ExchangeInv, AnswerReplies, HeldReplies
  <1>12. (net = "closed" => toClient = <<>>)'
    BY <1>1 DEF ExchangeInv
  <1> QED BY <1>1, <1>7, <1>8, <1>10, <1>11, <1>12 DEF ExchangeInv, OneRequest

\* The broker takes the next packet of the client and answers with a, or not.
LEMMA ConsumeExchange ==
  ASSUME TypeOK, ExchangeInv, UNCHANGED <<clientVars, net>>,
         toBroker # <<>>, toBroker' = Tail(toBroker),
         NEW a \in BrokerPacket,
         toClient' \in {toClient, IF net = "open" THEN Append(toClient, a) ELSE toClient},
         IsAnswer(a) => IsRequest(Head(toBroker)),
         Asks(Head(toBroker)) => Replies(a)
  PROVE  ExchangeInv'
  <1> DEFINE h == Head(toBroker)
  <1>1. /\ OneRequest'
        /\ IsRequest(h) => \A i \in DOMAIN toBroker' : ~IsRequest(toBroker'[i])
        /\ \A i \in DOMAIN toBroker' : \E k \in DOMAIN toBroker : toBroker'[i] = toBroker[k]
        /\ \E k \in DOMAIN toBroker : h = toBroker[k]
    BY RequestsAfterTail DEF ExchangeInv
  <1>2. \/ toClient' = toClient
        \/ net = "open" /\ toClient' = Append(toClient, a)
    OBVIOUS
  <1>3. \A i \in DOMAIN toClient' :
          \/ i \in DOMAIN toClient /\ toClient'[i] = toClient[i]
          \/ net = "open" /\ toClient'[i] = a /\ i = Len(toClient) + 1
    BY <1>2, Types, AppendElements
  <1>4. /\ (Held' <=> Held) /\ (Waiting' <=> Waiting) /\ (Live' <=> Live)
        /\ (HeldReplies' <=> HeldReplies) /\ (CommandNeedle' <=> CommandNeedle)
        /\ \A q : (Asks(q)' <=> Asks(q)) /\ (Replies(q)' <=> Replies(q))
    BY DEF clientVars, Held, Waiting, Live, SocketConnected, Asks, Replies, HeldReplies,
           CommandNeedle
  <1>5. net = "open" => Live
    BY DEF Live, SocketConnected
  <1>6. Live /\ IsRequest(h) => Waiting /\ Asks(h) /\ ~Held /\ NoAnswerUnderWay
    BY <1>1 DEF ExchangeInv, RequestAsks
  <1> HIDE DEF h
  <1>7. OneAnswer'
    BY <1>3, <1>5, <1>6 DEF ExchangeInv, OneAnswer, NoAnswerUnderWay, h
  <1>8. AnswerReplies'
    BY <1>3, <1>4, <1>5, <1>6 DEF ExchangeInv, AnswerReplies, h
  <1>9. RequestAsks'
    BY <1>1, <1>3, <1>4 DEF ExchangeInv, RequestAsks, NoAnswerUnderWay, h
  <1>10. (net = "closed" => toClient = <<>>)'
    BY <1>2 DEF ExchangeInv
  <1> QED BY <1>1, <1>4, <1>7, <1>8, <1>9, <1>10 DEF ExchangeInv

\* The broker sends a message of its own.
LEMMA PushExchange ==
  ASSUME TypeOK, ExchangeInv, UNCHANGED <<clientVars, net, toBroker>>, net = "open",
         NEW a \in BrokerPacket, ~IsAnswer(a), toClient' = Append(toClient, a)
  PROVE  ExchangeInv'
  <1>1. \A i \in DOMAIN toClient' :
          \/ i \in DOMAIN toClient /\ toClient'[i] = toClient[i]
          \/ ~IsAnswer(toClient'[i])
    BY Types, AppendElements
  <1>2. /\ (Held' <=> Held) /\ (Waiting' <=> Waiting) /\ (Live' <=> Live)
        /\ (HeldReplies' <=> HeldReplies) /\ (CommandNeedle' <=> CommandNeedle)
        /\ \A q : (Asks(q)' <=> Asks(q)) /\ (Replies(q)' <=> Replies(q))
    BY DEF clientVars, Held, Waiting, Live, SocketConnected, Asks, Replies, HeldReplies,
           CommandNeedle
  <1>3. OneAnswer' /\ AnswerReplies' /\ RequestAsks'
    BY <1>1, <1>2 DEF ExchangeInv, OneAnswer, AnswerReplies, RequestAsks, NoAnswerUnderWay
  <1> QED BY <1>2, <1>3 DEF ExchangeInv, OneRequest

\* A step that leaves the exchange alone.
LEMMA SameExchange ==
  ASSUME ExchangeInv, UNCHANGED <<net, toBroker, toClient, pc, cmd, readBuf>>
  PROVE  ExchangeInv'
  BY DEF ExchangeInv, CommandNeedle, OneRequest, RequestAsks, OneAnswer, AnswerReplies,
         HeldReplies, NoAnswerUnderWay, Held, Live, SocketConnected, Waiting, Asks, Replies

-----------------------------------------------------------------------------
(* One lemma for each group of actions.                                    *)

\* A method that failed has closed the connection and written nothing more.
LEMMA FailedExchange ==
  ASSUME ExchangeInv, NEW c, NEW err, Fail(c, err), toBroker' \in {toBroker, <<>>}
  PROVE  ExchangeInv'
  <1>1. OneRequest'
    BY DEF ExchangeInv, OneRequest
  <1> QED BY <1>1, FailExchange

LEMMA ConnectExchange ==
  ASSUME ExchangeInv, ConnectRefused \/ ConnectStart \/ ConnectFails
  PROVE  ExchangeInv'
  <1>1. CASE ConnectRefused
    <2>1. CommandNeedle' /\ OneRequest'
      BY <1>1 DEF ConnectRefused, ExchangeInv, CommandNeedle, OneRequest
    <2> QED BY <1>1, <2>1, StopExchange DEF ConnectRefused, SocketStop
  <1>2. CASE ConnectStart
    <2>1. /\ net' = "open"
          /\ toBroker' = <<EncodeConnect>>
          /\ toClient' = <<>>
          /\ pc' = "wait"
          /\ cmd' = ConnectCommand
      BY <1>2 DEF ConnectStart, SocketOpen, Wait
    <2>2. CommandNeedle'
      BY <2>1 DEF CommandNeedle, ConnectCommand, Command
    <2>3. DOMAIN toBroker' = {1} /\ toBroker'[1] = EncodeConnect /\ DOMAIN toClient' = {}
      BY <2>1
    <2>4. Waiting' /\ ~Held' /\ Asks(EncodeConnect)'
      BY <2>1 DEF Waiting, Held, Asks, EncodeConnect, EncodeZero, PacketOf, ConnectCommand, Command
    <2> QED BY <2>1, <2>2, <2>3, <2>4
            DEF ExchangeInv, OneRequest, RequestAsks, OneAnswer, AnswerReplies, HeldReplies,
                NoAnswerUnderWay
  <1>3. CASE ConnectFails
    BY <1>3, FailedExchange DEF ConnectFails
  <1> QED BY <1>1, <1>2, <1>3

\* Between two methods nothing of an exchange is under way.
LEMMA IdleSilent ==
  ASSUME ExchangeInv, pc = "idle", Connected
  PROVE  Silent /\ Live
  BY SilentWhen DEF Live, Waiting, Connected

\* lwmqtt_publish waits for one type of packet at each QoS.
LEMMA AckTypes ==
  ASSUME NEW m \in Msgs
  PROVE  /\ OutQoS[m] \in {0, 1, 2}
         /\ OutQoS[m] = 1 => AckType(OutQoS[m]) = "PUBACK"
         /\ OutQoS[m] = 2 => AckType(OutQoS[m]) = "PUBCOMP"
  BY PacketAssumption DEF AckType

LEMMA PublishExchange ==
  ASSUME TypeOK, ExchangeInv, NEW m \in Msgs,
         PublishQoS0(m) \/ PublishStart(m) \/ PublishFails(m)
  PROVE  ExchangeInv'
  <1>1. PublishId(m) \in 0..MaxPacketId /\ IsDup(m) \in BOOLEAN
    BY NextPacketIdType, PacketAssumption
       DEF PublishId, IsDup, DupIdSeen, TypeOK, SessionTypeOK
  <1>2. PublishPacket(m) \in ClientPacket
    BY <1>1, PacketAssumption, ClientPackets DEF PublishPacket, PacketIds
  <1>3. CASE PublishFails(m)
    BY <1>3, FailedExchange DEF PublishFails
  <1>4. CASE PublishQoS0(m)
    <2>1. /\ UNCHANGED <<net, toClient>>
          /\ toBroker' = Append(toBroker, PublishPacket(m))
          /\ Idle
          /\ pc = "idle" /\ Connected
          /\ OutQoS[m] = 0
      BY <1>4 DEF PublishQoS0, MayPublish, SendPacket, SocketWrite, Succeed
    <2>2. ~IsRequest(PublishPacket(m))
      BY <2>1 DEF IsRequest, PublishPacket, EncodePublish, PacketOf
    <2>3. CommandNeedle' /\ ~Held'
      BY <2>1, IdleNeedle DEF Idle, Held
    <2> QED BY <1>2, <2>1, <2>2, <2>3, IdleSilent, StepExchange
  <1>5. CASE PublishStart(m)
    <2>1. /\ UNCHANGED <<net, toClient>>
          /\ toBroker' = Append(toBroker, PublishPacket(m))
          /\ pc' = "wait" /\ cmd' = PublishCommand(m)
          /\ pc = "idle" /\ Connected
          /\ OutQoS[m] > 0
      BY <1>5 DEF PublishStart, MayPublish, SendPacket, SocketWrite, Wait
    <2>2. \/ OutQoS[m] = 1 /\ AckType(OutQoS[m]) = "PUBACK"
          \/ OutQoS[m] = 2 /\ AckType(OutQoS[m]) = "PUBCOMP"
      BY <2>1, AckTypes
    <2>3. \A q : q = PublishPacket(m) => Asks(q)'
      BY <2>1, <2>2 DEF Asks, PublishPacket, EncodePublish, PacketOf, PublishCommand, Command
    <2>4. CommandNeedle' /\ Waiting' /\ ~Held'
      BY <2>1, <2>2 DEF CommandNeedle, Waiting, Held, PublishCommand, Command
    <2> QED BY <1>2, <2>1, <2>3, <2>4, IdleSilent, RequestExchange
  <1> QED BY <1>3, <1>4, <1>5

LEMMA SubscribeExchange ==
  ASSUME TypeOK, ExchangeInv, NEW t \in Topics,
         SubscribeStart(t) \/ UnsubscribeStart(t) \/ RequestFails(t)
  PROVE  ExchangeInv'
  <1>1. CASE RequestFails(t)
    BY <1>1, FailedExchange DEF RequestFails
  <1>2. ASSUME NEW c, NEW p \in ClientPacket, Request(c, p),
               pc' = "wait" /\ cmd' = c => Asks(p)' /\ CommandNeedle'
        PROVE  ExchangeInv'
    <2>1. /\ UNCHANGED <<net, toClient>>
          /\ toBroker' = Append(toBroker, p)
          /\ pc' = "wait" /\ cmd' = c
          /\ pc = "idle" /\ Connected
      BY <1>2 DEF Request, SendPacket, SocketWrite, Wait
    <2>2. Waiting' /\ ~Held'
      BY <2>1 DEF Waiting, Held
    <2> QED BY <1>2, <2>1, <2>2, IdleSilent, RequestExchange
  <1>3. NextPacketId \in PacketIds
    BY NextPacketIdType DEF TypeOK, SessionTypeOK, PacketIds
  <1>4. EncodeSubscribe(NextPacketId, t) \in ClientPacket
        /\ EncodeUnsubscribe(NextPacketId, t) \in ClientPacket
    BY <1>3, ClientPackets
  <1>5. \A p : p = EncodeSubscribe(NextPacketId, t) /\ pc' = "wait" /\ cmd' = SubscribeCommand(t)
               => Asks(p)' /\ CommandNeedle'
    BY DEF Asks, EncodeSubscribe, PacketOf, SubscribeCommand, Command, CommandNeedle
  <1>6. \A p : p = EncodeUnsubscribe(NextPacketId, t) /\ pc' = "wait" /\ cmd' = UnsubscribeCommand(t)
               => Asks(p)' /\ CommandNeedle'
    BY DEF Asks, EncodeUnsubscribe, PacketOf, UnsubscribeCommand, Command, CommandNeedle
  <1>7. CASE SubscribeStart(t)
    BY <1>2, <1>4, <1>5, <1>7 DEF SubscribeStart
  <1>8. CASE UnsubscribeStart(t)
    BY <1>2, <1>4, <1>6, <1>8 DEF UnsubscribeStart
  <1> QED BY <1>1, <1>7, <1>8

LEMMA OtherCallExchange ==
  ASSUME TypeOK, ExchangeInv, PrepareDuplicate \/ Disconnect \/ LoopYields \/ LoopSkipsYield
  PROVE  ExchangeInv'
  <1>1. CASE PrepareDuplicate
    BY <1>1, SameExchange DEF PrepareDuplicate, networkVars
  <1>2. CASE Disconnect
    <2>1. /\ net' = "closed" /\ toClient' = <<>> /\ pc = "idle" /\ UNCHANGED <<pc, cmd>>
          /\ \/ toBroker' = Append(toBroker, EncodeZero("DISCONNECT"))
             \/ toBroker' = toBroker
      BY <1>2 DEF Disconnect, Close, SocketStop
    <2>2. EncodeZero("DISCONNECT") \in ClientPacket /\ ~IsRequest(EncodeZero("DISCONNECT"))
      BY ClientPackets DEF IsRequest, EncodeZero, PacketOf
    <2>3. OneRequest'
      BY <2>1, <2>2, RequestsAfterWrite DEF ExchangeInv, OneRequest
    <2>4. CommandNeedle'
      BY <2>1 DEF ExchangeInv, CommandNeedle
    <2> QED BY <2>1, <2>3, <2>4, StopExchange
  <1>3. CASE LoopYields \/ LoopSkipsYield
    <2>1. PICK n, next : next \in {"wait", "ping"} /\ LoopStarts(n, next)
      BY <1>3 DEF LoopYields, LoopSkipsYield
    <2>2. /\ UNCHANGED <<net, toClient, toBroker>>
          /\ pc = "idle" /\ Connected
          /\ pc' = next /\ cmd' = LoopCommand(n)
      BY <2>1 DEF LoopStarts, networkVars
    <2>3. CommandNeedle' /\ ~Held'
      BY <2>1, <2>2 DEF CommandNeedle, Held, LoopCommand, Command
    <2> QED BY <2>2, <2>3, IdleSilent, StepExchange
  <1> QED BY <1>1, <1>2, <1>3

LEMMA ReceiveExchange ==
  ASSUME TypeOK, ExchangeInv,
         \/ ReceivePublish \/ ReceiveAckToAnswer \/ ReceivePingresp \/ ReceiveOther
         \/ DropPacket
  PROVE  ExchangeInv'
  <1>1. CASE DropPacket
    <2>1. PICK p \in Arriving : SocketRead(p)
      BY <1>1 DEF DropPacket
    <2> QED BY <1>1, <2>1, ReadExchange DEF DropPacket
  <1>2. CASE ReceivePublish \/ ReceiveAckToAnswer \/ ReceivePingresp \/ ReceiveOther
    <2>1. PICK p \in Arriving : Receive(p) /\ pc' \in {"check", "ack"}
      BY <1>2 DEF ReceivePublish, ReceiveAckToAnswer, ReceivePingresp, ReceiveOther
    <2>2. /\ pc = "wait"
          /\ SocketRead(p)
          /\ readBuf' = p
          /\ cmd' = [cmd EXCEPT !.available = IF @ > 0 THEN @ - 1 ELSE 0]
      BY <2>1 DEF Receive
    <2>3. cmd'.op = cmd.op /\ cmd'.needle = cmd.needle /\ cmd'.id = cmd.id /\ cmd'.msg = cmd.msg
      BY <2>2 DEF TypeOK, MethodTypeOK, Commands
    <2> QED BY <2>1, <2>2, <2>3, ReadExchange
  <1> QED BY <1>1, <1>2

\* cycle_once answers the packet it holds.  A PUBREC it answers with the
\* second request of the exchange; the other answers are no part of it.
LEMMA SendAckExchange ==
  ASSUME TypeOK, ExchangeInv, SendAck
  PROVE  ExchangeInv'
  <1>1. /\ pc = "ack" /\ pc' = "check"
        /\ UNCHANGED <<net, toClient, cmd, readBuf>>
        /\ toBroker' = Append(toBroker, Answer(readBuf))
        /\ Live
    BY DEF SendAck, SendPacket, SocketWrite, Live
  <1>2. readBuf \in BrokerPacket /\ readBuf.type \in {"PUBLISH", "PUBREC", "PUBREL"}
    BY <1>1 DEF TypeOK, MethodTypeOK, EncodeZero, PacketOf, NoPacket
  <1>3. CommandNeedle'
    BY <1>1 DEF ExchangeInv, CommandNeedle
  <1>4. readBuf.id \in PacketIds
    BY <1>2 DEF BrokerPacket, Packet
  <1>5. CASE readBuf.type = "PUBREC"
    <2>1. Held
      BY <1>1, <1>5 DEF Held
    <2>2. Silent /\ Replies(readBuf)
      BY <1>1, <2>1, SilentWhen DEF ExchangeInv, HeldReplies
    <2>3. readBuf.id = cmd.id /\ cmd.needle \in {"PUBREC", "PUBCOMP"}
      BY <1>5, <2>2 DEF Replies
    <2>4. cmd.needle = "PUBCOMP"
      BY <2>3, AckTypes DEF ExchangeInv, CommandNeedle, TypeOK, MethodTypeOK, Commands, NoPacket
    <2>5. Answer(readBuf) = EncodeAck("PUBREL", cmd.id)
      BY <1>5, <2>3 DEF Answer
    <2>6. Answer(readBuf) \in ClientPacket
      BY <1>4, <2>3, <2>5, ClientPackets
    <2>7. \A q : q = Answer(readBuf) => Asks(q)'
      BY <1>1, <2>4, <2>5 DEF Asks, EncodeAck, PacketOf
    <2>8. Waiting' /\ ~Held'
      BY <1>1, <1>5, <2>4 DEF Waiting, Held
    <2> QED BY <1>1, <1>3, <2>2, <2>6, <2>7, <2>8, RequestExchange
  <1>6. CASE readBuf.type # "PUBREC"
    <2>1. PICK t \in {"PUBACK", "PUBREC", "PUBCOMP"} : Answer(readBuf) = EncodeAck(t, readBuf.id)
      BY <1>2, <1>6 DEF Answer
    <2>2. Answer(readBuf) \in ClientPacket /\ ~IsRequest(Answer(readBuf))
      BY <1>4, <2>1, ClientPackets DEF IsRequest, EncodeAck, PacketOf
    <2>3. Waiting' /\ ~Held'
      BY <1>1, <1>2, <1>6 DEF Waiting, Held, IsAnswer
    <2> QED BY <1>1, <1>3, <2>2, <2>3, StepExchange
  <1> QED BY <1>5, <1>6

LEMMA RunExchange ==
  ASSUME TypeOK, ExchangeInv, Run
  PROVE  ExchangeInv'
  <1>1. CASE \/ ReceivePublish \/ ReceiveAckToAnswer \/ ReceivePingresp \/ ReceiveOther
             \/ DropPacket
    BY <1>1, ReceiveExchange
  <1>2. CASE SendAck
    BY <1>2, SendAckExchange
  <1>3. CASE SendAckFails \/ ReadPacketFails \/ ReadFails \/ CommandRejected \/ CommandTimesOut
             \/ PongTimeout \/ SendPingFails
    BY <1>3, FailedExchange DEF SendAckFails, ReadPacketFails, ReadFails, CommandRejected,
                                CommandTimesOut, PongTimeout, SendPingFails
  <1>4. CASE ReadNothing
    <2>1. /\ UNCHANGED <<networkVars, cmd>>
          /\ pc = "wait" /\ pc' = "check" /\ readBuf' = EncodeZero(NoPacket)
      BY <1>4 DEF ReadNothing
    <2>2. Waiting' /\ ~Held' /\ Live
      BY <2>1 DEF Waiting, Held, Live, IsAnswer, EncodeZero, PacketOf, NoPacket
    <2>3. CommandNeedle'
      BY <2>1 DEF ExchangeInv, CommandNeedle
    <2> QED BY <2>1, <2>2, <2>3, StepExchange DEF networkVars
  <1>5. CASE NextCycle
    <2>1. /\ UNCHANGED <<networkVars, cmd>>
          /\ pc = "check" /\ pc' = "wait"
      BY <1>5 DEF NextCycle
    <2>2. Waiting' /\ ~Held' /\ Live
      BY <2>1 DEF Waiting, Held, Live
    <2>3. CommandNeedle'
      BY <2>1 DEF ExchangeInv, CommandNeedle
    <2> QED BY <2>1, <2>2, <2>3, StepExchange DEF networkVars
  <1>6. CASE YieldEnds \/ NoPingDue
    <2>1. /\ UNCHANGED networkVars
          /\ cmd.op = "loop" /\ Live
          /\ \/ Idle
             \/ pc' = "ping" /\ UNCHANGED cmd
      BY <1>6 DEF YieldEnds, NoPingDue, Succeed, ExchangeInv, CommandNeedle, Live
    <2>2. CommandNeedle' /\ ~Held'
      BY <2>1, IdleNeedle DEF ExchangeInv, CommandNeedle, Idle, Held
    <2> QED BY <2>1, <2>2, SilentWhen, StepExchange DEF networkVars
  <1>7. CASE CommandAcked
    <2>1. /\ UNCHANGED networkVars
          /\ pc = "check" /\ cmd.op # "loop"
          /\ readBuf.type = cmd.needle
          /\ Idle
      BY <1>7 DEF CommandAcked, Found, Succeed
    <2>2. Live /\ Held
      <3>1. IsAnswer(readBuf)
        BY <2>1, AckTypes
           DEF ExchangeInv, CommandNeedle, TypeOK, MethodTypeOK, Commands, IsAnswer
      <3> QED BY <2>1, <3>1 DEF Held, Live
    <2>3. CommandNeedle' /\ ~Held'
      BY <2>1, IdleNeedle DEF Idle, Held
    <2> QED BY <2>1, <2>2, <2>3, SilentWhen, StepExchange DEF networkVars
  <1>8. CASE SendPing
    <2>1. EncodeZero("PINGREQ") \in ClientPacket /\ ~IsRequest(EncodeZero("PINGREQ"))
      BY ClientPackets DEF IsRequest, EncodeZero, PacketOf
    <2>2. /\ UNCHANGED <<net, toClient>>
          /\ toBroker' = Append(toBroker, EncodeZero("PINGREQ"))
          /\ cmd.op = "loop" /\ Live
          /\ Idle
      BY <1>8 DEF SendPing, SendPacket, SocketWrite, Succeed, ExchangeInv, CommandNeedle, Live
    <2>3. CommandNeedle' /\ ~Held'
      BY <2>2, IdleNeedle DEF Idle, Held
    <2> QED BY <2>1, <2>2, <2>3, SilentWhen, StepExchange
  <1> QED BY <1>1, <1>2, <1>3, <1>4, <1>5, <1>6, <1>7, <1>8 DEF Run

LEMMA EnvironmentExchange ==
  ASSUME TypeOK, ExchangeInv, Environment
  PROVE  ExchangeInv'
  <1>1. CASE CommandTimerExpires \/ KeepAliveTimerExpires
    BY <1>1, SameExchange DEF CommandTimerExpires, KeepAliveTimerExpires, networkVars
  <1>2. CASE PowerCycle
    <2>1. CommandNeedle' /\ OneRequest'
      BY <1>2, IdleNeedle DEF PowerCycle, ExchangeInv, OneRequest
    <2> QED BY <1>2, <2>1, StopExchange DEF PowerCycle, Idle, Close, SocketStop
  <1>3. CASE LinkReset /\ UNCHANGED clientVars
    <2>1. net' = "closed" /\ DOMAIN toClient' = {} /\ toClient' = <<>> /\ UNCHANGED toBroker
      BY <1>3 DEF LinkReset, SocketStop
    <2>2. /\ (Held' <=> Held) /\ (Waiting' <=> Waiting) /\ (Live' => Live)
          /\ \A q : (Asks(q)' <=> Asks(q)) /\ (Replies(q)' <=> Replies(q))
      BY <1>3, <2>1 DEF clientVars, Held, Waiting, Live, SocketConnected, Asks, Replies
    <2>3. CommandNeedle' /\ HeldReplies'
      BY <1>3 DEF clientVars, ExchangeInv, CommandNeedle, HeldReplies, Held, Replies
    <2> QED BY <2>1, <2>2, <2>3
            DEF ExchangeInv, OneRequest, RequestAsks, OneAnswer, AnswerReplies, NoAnswerUnderWay
  <1>4. CASE LinkStall /\ UNCHANGED clientVars
    <2>1. PICK k \in 0..Len(toClient) : toClient' = SubSeq(toClient, 1, k)
      BY <1>4 DEF LinkStall
    <2>2. \A i \in DOMAIN toClient' : i \in DOMAIN toClient /\ toClient'[i] = toClient[i]
      BY <2>1, Types, SubSeqProperties, LenProperties
    <2>3. Live /\ net' = "half" /\ UNCHANGED toBroker
      BY <1>4 DEF LinkStall, Live, SocketConnected
    <2>4. /\ (Held' <=> Held) /\ (Waiting' <=> Waiting)
          /\ \A q : (Asks(q)' <=> Asks(q)) /\ (Replies(q)' <=> Replies(q))
      BY <1>4 DEF clientVars, Held, Waiting, Asks, Replies
    <2>5. CommandNeedle' /\ HeldReplies'
      BY <1>4 DEF clientVars, ExchangeInv, CommandNeedle, HeldReplies, Held, Replies
    <2> QED BY <2>2, <2>3, <2>4, <2>5
            DEF ExchangeInv, OneRequest, RequestAsks, OneAnswer, AnswerReplies, NoAnswerUnderWay
  <1> QED BY <1>1, <1>2, <1>3, <1>4 DEF Environment

\* What the broker's answer a to the packet h has to be for ConsumeExchange.
AnswersTo(h, a) ==
  /\ a \in BrokerPacket
  /\ IsAnswer(a) => IsRequest(h)
  /\ Asks(h) => Replies(a)

\* Every packet is answered in its own exchange, or not at all.
LEMMA BrokerAnswers ==
  ASSUME TypeOK, BrokerReads, ~\E ok \in BOOLEAN : BrokerConnect(ok)
  PROVE  /\ toBroker # <<>>
         /\ \E type, a, answers :
              /\ Consume(type, answers)
              /\ AnswersTo(Head(toBroker), a)
              /\ answers = <<>> \/ answers = <<a>>
  <1> DEFINE h == Head(toBroker)
  <1>1. toBroker # <<>>
    BY DEF BrokerReads, BrokerPublishQoS0, BrokerPublishQoS1, BrokerPublishQoS2, BrokerPubrel,
           BrokerSubscribe, BrokerUnsubscribe, BrokerPingreq, BrokerDisconnect, BrokerPuback,
           BrokerPubrec, BrokerPubcomp, Consume
  <1>2. h \in ClientPacket
    BY <1>1, Types, HeadTailProperties
  <1>3. h.id \in PacketIds
    BY <1>2 DEF ClientPacket, Packet
  <1>4. /\ EncodeZero("PINGRESP") \in BrokerPacket
        /\ \A t \in {"PUBACK", "PUBREC", "PUBREL", "PUBCOMP", "UNSUBACK"} :
             EncodeAck(t, h.id) \in BrokerPacket
        /\ \A ok \in BOOLEAN : Suback(h.id, ok) \in BrokerPacket
    BY <1>3, BrokerPackets
  <1> HIDE DEF h
  <1>5. ASSUME NEW type, Consume(type, <<>>), ~IsRequest(h)
        PROVE  AnswersTo(h, EncodeZero("PINGRESP"))
    BY <1>4, <1>5 DEF AnswersTo, IsRequest, IsAnswer, Asks, EncodeZero, PacketOf
  <1>6. CASE BrokerPublishQoS0 \/ BrokerPuback \/ BrokerPubcomp \/ BrokerDisconnect
    <2>1. PICK type : Consume(type, <<>>) /\ ~IsRequest(h)
      BY <1>6 DEF BrokerPublishQoS0, BrokerPuback, BrokerPubcomp, BrokerDisconnect, Consume,
                  IsRequest, h
    <2> QED BY <1>1, <1>5, <2>1 DEF h
  <1>7. CASE BrokerPublishQoS1
    <2>1. Consume("PUBLISH", <<EncodeAck("PUBACK", h.id)>>) /\ h.type = "PUBLISH" /\ h.qos = 1
      BY <1>7 DEF BrokerPublishQoS1, Consume, h
    <2>2. AnswersTo(h, EncodeAck("PUBACK", h.id))
      BY <1>4, <2>1 DEF AnswersTo, IsRequest, IsAnswer, Asks, Replies, EncodeAck, PacketOf
    <2> QED BY <1>1, <2>1, <2>2 DEF h
  <1>8. CASE BrokerPublishQoS2
    <2>1. Consume("PUBLISH", <<EncodeAck("PUBREC", h.id)>>) /\ h.type = "PUBLISH" /\ h.qos = 2
      BY <1>8 DEF BrokerPublishQoS2, Consume, h
    <2>2. AnswersTo(h, EncodeAck("PUBREC", h.id))
      BY <1>4, <2>1 DEF AnswersTo, IsRequest, IsAnswer, Asks, Replies, EncodeAck, PacketOf
    <2> QED BY <1>1, <2>1, <2>2 DEF h
  <1>9. CASE BrokerPubrel
    <2>1. Consume("PUBREL", <<EncodeAck("PUBCOMP", h.id)>>) /\ h.type = "PUBREL"
      BY <1>9 DEF BrokerPubrel, Consume, h
    <2>2. AnswersTo(h, EncodeAck("PUBCOMP", h.id))
      BY <1>4, <2>1 DEF AnswersTo, IsRequest, IsAnswer, Asks, Replies, EncodeAck, PacketOf
    <2> QED BY <1>1, <2>1, <2>2 DEF h
  <1>10. CASE \E ok \in BOOLEAN : BrokerSubscribe(ok)
    <2>1. PICK ok \in BOOLEAN : Consume("SUBSCRIBE", <<Suback(h.id, ok)>>) /\ h.type = "SUBSCRIBE"
      BY <1>10 DEF BrokerSubscribe, Consume, h
    <2>2. AnswersTo(h, Suback(h.id, ok))
      BY <1>4, <2>1 DEF AnswersTo, IsRequest, IsAnswer, Asks, Replies, Suback, PacketOf
    <2> QED BY <1>1, <2>1, <2>2 DEF h
  <1>11. CASE BrokerUnsubscribe
    <2>1. Consume("UNSUBSCRIBE", <<EncodeAck("UNSUBACK", h.id)>>) /\ h.type = "UNSUBSCRIBE"
      BY <1>11 DEF BrokerUnsubscribe, Consume, h
    <2>2. AnswersTo(h, EncodeAck("UNSUBACK", h.id))
      BY <1>4, <2>1 DEF AnswersTo, IsRequest, IsAnswer, Asks, Replies, EncodeAck, PacketOf
    <2> QED BY <1>1, <2>1, <2>2 DEF h
  <1>12. CASE BrokerPingreq
    <2>1. Consume("PINGREQ", <<EncodeZero("PINGRESP")>>) /\ h.type = "PINGREQ"
      BY <1>12 DEF BrokerPingreq, Consume, h
    <2>2. AnswersTo(h, EncodeZero("PINGRESP"))
      BY <1>4, <2>1 DEF AnswersTo, IsRequest, IsAnswer, Asks, Replies, EncodeZero, PacketOf
    <2> QED BY <1>1, <2>1, <2>2 DEF h
  <1>13. CASE BrokerPubrec
    <2>1. Consume("PUBREC", <<EncodeAck("PUBREL", h.id)>>) /\ h.type = "PUBREC"
      BY <1>13 DEF BrokerPubrec, Consume, h
    <2>2. AnswersTo(h, EncodeAck("PUBREL", h.id))
      BY <1>4, <2>1 DEF AnswersTo, IsRequest, IsAnswer, Asks, Replies, EncodeAck, PacketOf
    <2> QED BY <1>1, <2>1, <2>2 DEF h
  <1> QED BY <1>6, <1>7, <1>8, <1>9, <1>10, <1>11, <1>12, <1>13 DEF BrokerReads

LEMMA BrokerReadsExchange ==
  ASSUME TypeOK, ExchangeInv, BrokerReads
  PROVE  ExchangeInv'
  <1>1. UNCHANGED clientVars
    BY DEF BrokerReads
  <1>2. CASE \E ok \in BOOLEAN : BrokerConnect(ok)
    <2>1. PICK ok \in BOOLEAN : BrokerConnect(ok)
      BY <1>2
    <2>2. /\ UNCHANGED net
          /\ toBroker # <<>> /\ toBroker' = Tail(toBroker)
          /\ Head(toBroker).type = "CONNECT"
          /\ toClient' = IF net = "open" THEN Append(toClient, Connack(ok)) ELSE toClient
      BY <2>1 DEF BrokerConnect
    <2>3. Connack(ok) \in BrokerPacket
      BY BrokerPackets
    <2>4. IsRequest(Head(toBroker))
      BY <2>2 DEF IsRequest
    <2>5. Asks(Head(toBroker)) => Replies(Connack(ok))
      <3>1. Asks(Head(toBroker)) => cmd.needle = "CONNACK"
        BY <2>2 DEF Asks
      <3>2. cmd.needle = "CONNACK" => cmd.id = 0
        BY AckTypes DEF ExchangeInv, CommandNeedle, TypeOK, MethodTypeOK, Commands, NoPacket
      <3> QED BY <3>1, <3>2 DEF Replies, Connack, PacketOf
    <2> QED BY <1>1, <2>2, <2>3, <2>4, <2>5, ConsumeExchange
  <1>3. CASE ~\E ok \in BOOLEAN : BrokerConnect(ok)
    <2>1. PICK type, a, answers : /\ Consume(type, answers)
                                  /\ AnswersTo(Head(toBroker), a)
                                  /\ answers = <<>> \/ answers = <<a>>
      BY <1>3, BrokerAnswers
    <2>2. a \in BrokerPacket
      BY <2>1 DEF AnswersTo
    <2>3. toClient' \in {toClient, IF net = "open" THEN Append(toClient, a) ELSE toClient}
      BY <2>1, <2>2, Types, AnswerElements DEF Consume
    <2>4. UNCHANGED net /\ toBroker # <<>> /\ toBroker' = Tail(toBroker)
      BY <2>1 DEF Consume
    <2> QED BY <1>1, <2>1, <2>2, <2>3, <2>4, ConsumeExchange DEF AnswersTo
  <1> QED BY <1>2, <1>3

LEMMA BrokerSendsExchange ==
  ASSUME TypeOK, ExchangeInv, BrokerSends
  PROVE  ExchangeInv'
  <1>1. PICK m \in InMsgs : (BrokerPush(m) \/ BrokerResend(m)) /\ UNCHANGED clientVars
    BY DEF BrokerSends
  <1>2. EncodePublish(FALSE, IF InQoS[m] = 0 THEN 0 ELSE m, InQoS[m], m) \in BrokerPacket
    BY BrokerPackets
  <1>3. EncodePublish(TRUE, m, InQoS[m], m) \in BrokerPacket
    BY PacketAssumption DEF BrokerPacket, Packet, PacketTypes, EncodePublish, PacketOf,
                            PacketIds, Payloads
  <1>4. EncodeAck("PUBREL", m) \in BrokerPacket
    BY BrokerPackets DEF PacketIds
  <1>5. PICK a \in BrokerPacket : ~IsAnswer(a) /\ toClient' = Append(toClient, a)
    BY <1>1, <1>2, <1>3, <1>4
       DEF BrokerPush, BrokerResend, IsAnswer, EncodePublish, EncodeAck, PacketOf
  <1>6. net = "open" /\ UNCHANGED <<net, toBroker>>
    BY <1>1 DEF BrokerPush, BrokerResend
  <1> QED BY <1>1, <1>5, <1>6, PushExchange

LEMMA InitExchange == Init => ExchangeInv
  BY DEF Init, NetworkInit, ClientInit, NoCommand, Command, ExchangeInv, CommandNeedle,
         OneRequest, RequestAsks, OneAnswer, AnswerReplies, HeldReplies, Held

LEMMA NextExchange == TypeOK /\ ExchangeInv /\ [Next]_vars => ExchangeInv'
  <1> SUFFICES ASSUME TypeOK, ExchangeInv, [Next]_vars PROVE ExchangeInv'
    OBVIOUS
  <1>1. CASE UNCHANGED vars
    BY <1>1, SameExchange DEF vars, networkVars, clientVars
  <1>2. CASE Call
    BY <1>2, ConnectExchange, PublishExchange, SubscribeExchange, OtherCallExchange DEF Call
  <1>3. CASE Next /\ ~Call
    BY <1>3, RunExchange, EnvironmentExchange, BrokerReadsExchange, BrokerSendsExchange DEF Next
  <1> QED BY <1>1, <1>2, <1>3

LEMMA Exchange == Spec => []ExchangeInv
  BY InitExchange, NextExchange, TypeCorrect, PTL DEF Spec

-----------------------------------------------------------------------------
(* What every step of the client does to the two queues and to read_buf,   *)
(* for the invariants below and in SessionRefinement_proofs.               *)

\* The packets a client step may add to toBroker.
Written(p) ==
  \/ p.type = "DISCONNECT"
  \/ p.type = "PINGREQ" /\ SendPing
  \/ \E m \in Msgs : MayPublish(m) /\ p = PublishPacket(m) /\ outcome'[m] # "none"
  \/ \E t \in Topics :
       p \in {EncodeSubscribe(NextPacketId, t), EncodeUnsubscribe(NextPacketId, t)}
  \/ pc = "ack" /\ pc' = "check" /\ p = Answer(readBuf)

ClientWrites ==
  \/ toBroker' \in {toBroker, <<>>, <<EncodeConnect>>}
  \/ \E p \in ClientPacket : toBroker' = Append(toBroker, p) /\ Written(p)

\* A step of the client leaves the broker alone.
ClientStep == Call \/ Run \/ Environment

LEMMA WrittenPackets ==
  ASSUME TypeOK
  PROVE  /\ \A m \in Msgs : PublishPacket(m) \in ClientPacket
         /\ \A t \in Topics : /\ EncodeSubscribe(NextPacketId, t) \in ClientPacket
                              /\ EncodeUnsubscribe(NextPacketId, t) \in ClientPacket
         /\ pc = "ack" => Answer(readBuf) \in ClientPacket
  <1>1. NextPacketId \in 1..MaxPacketId
    BY NextPacketIdType DEF TypeOK, SessionTypeOK
  <1>2. ASSUME NEW m \in Msgs PROVE PublishPacket(m) \in ClientPacket
    <2>1. PublishId(m) \in PacketIds /\ IsDup(m) \in BOOLEAN
      BY <1>1, PacketAssumption DEF PublishId, IsDup, DupIdSeen, PacketIds
    <2> QED BY <2>1, PacketAssumption, ClientPackets DEF PublishPacket
  <1>3. ASSUME NEW t \in Topics
        PROVE  /\ EncodeSubscribe(NextPacketId, t) \in ClientPacket
               /\ EncodeUnsubscribe(NextPacketId, t) \in ClientPacket
    BY <1>1, ClientPackets DEF PacketIds
  <1>4. ASSUME pc = "ack" PROVE Answer(readBuf) \in ClientPacket
    <2>1. readBuf \in BrokerPacket /\ readBuf.type \in {"PUBLISH", "PUBREC", "PUBREL"}
      BY <1>4 DEF TypeOK, MethodTypeOK, EncodeZero, PacketOf, NoPacket
    <2>2. PICK t \in {"PUBACK", "PUBREC", "PUBREL", "PUBCOMP"} :
            Answer(readBuf) = EncodeAck(t, readBuf.id)
      BY <2>1 DEF Answer
    <2>3. readBuf.id \in PacketIds
      BY <2>1 DEF BrokerPacket, Packet
    <2> QED BY <2>2, <2>3, ClientPackets
  <1> QED BY <1>2, <1>3, <1>4

LEMMA ClientWritesPackets ==
  ASSUME TypeOK, ClientStep
  PROVE  ClientWrites
  <1>1. CASE \/ ConnectRefused \/ ConnectStart \/ ConnectFails \/ PrepareDuplicate \/ LoopYields
             \/ LoopSkipsYield
             \/ \E m \in Msgs : PublishFails(m)
             \/ \E t \in Topics : RequestFails(t)
    BY <1>1 DEF ClientWrites, ConnectRefused, ConnectStart, ConnectFails, PrepareDuplicate,
                LoopYields, LoopSkipsYield, LoopStarts, PublishFails, RequestFails, SocketOpen,
                networkVars
  <1>2. ASSUME NEW m \in Msgs, PublishQoS0(m) \/ PublishStart(m) PROVE ClientWrites
    <2>1. MayPublish(m) /\ toBroker' = Append(toBroker, PublishPacket(m))
      BY <1>2 DEF PublishQoS0, PublishStart, SendPacket, SocketWrite
    <2>2. outcome'[m] # "none"
      BY <1>2 DEF PublishQoS0, PublishStart, Succeed, Record, PublishCommand, Command, TypeOK,
                  MethodTypeOK
    <2> QED BY <2>1, <2>2, WrittenPackets DEF ClientWrites, Written
  <1>3. ASSUME NEW t \in Topics, SubscribeStart(t) \/ UnsubscribeStart(t) PROVE ClientWrites
    <2>1. PICK p \in {EncodeSubscribe(NextPacketId, t), EncodeUnsubscribe(NextPacketId, t)} :
            toBroker' = Append(toBroker, p)
      BY <1>3 DEF SubscribeStart, UnsubscribeStart, Request, SendPacket, SocketWrite
    <2> QED BY <2>1, WrittenPackets DEF ClientWrites, Written
  <1>4. CASE Disconnect \/ SendPing
    <2>1. \A t \in {"PINGREQ", "DISCONNECT"} :
            EncodeZero(t) \in ClientPacket /\ EncodeZero(t).type = t
      BY ClientPackets DEF EncodeZero, PacketOf
    <2>2. \/ toBroker' = toBroker
          \/ toBroker' = Append(toBroker, EncodeZero("DISCONNECT"))
          \/ SendPing /\ toBroker' = Append(toBroker, EncodeZero("PINGREQ"))
      BY <1>4 DEF Disconnect, SendPing, SendPacket, SocketWrite
    <2> QED BY <2>1, <2>2 DEF ClientWrites, Written
  <1>5. CASE SendAck
    <2>1. pc = "ack" /\ pc' = "check" /\ toBroker' = Append(toBroker, Answer(readBuf))
      BY <1>5 DEF SendAck, SendPacket, SocketWrite
    <2> QED BY <2>1, WrittenPackets DEF ClientWrites, Written
  <1>6. CASE \/ ReceivePublish \/ ReceiveAckToAnswer \/ ReceivePingresp \/ ReceiveOther
             \/ DropPacket
    BY <1>6 DEF ReceivePublish, ReceiveAckToAnswer, ReceivePingresp, ReceiveOther, DropPacket,
                Receive, SocketRead, ClientWrites
  <1>7. CASE \/ SendAckFails \/ ReadPacketFails \/ ReadFails \/ ReadNothing \/ NextCycle
             \/ CommandAcked \/ CommandRejected \/ CommandTimesOut \/ YieldEnds \/ NoPingDue
             \/ PongTimeout \/ SendPingFails
    BY <1>7 DEF SendAckFails, ReadPacketFails, ReadFails, ReadNothing, NextCycle, CommandAcked,
                CommandRejected, CommandTimesOut, YieldEnds, NoPingDue, PongTimeout,
                SendPingFails, networkVars, ClientWrites
  <1>8. CASE Environment
    BY <1>8 DEF Environment, CommandTimerExpires, KeepAliveTimerExpires, PowerCycle, LinkReset,
                LinkStall, networkVars, ClientWrites
  <1> QED BY <1>1, <1>2, <1>3, <1>4, <1>5, <1>6, <1>7, <1>8 DEF ClientStep, Call, Run

\* What is on its way to the client after a step of the client was so before,
\* and what cycle_once is to answer came from there.
LEMMA ClientReads ==
  ASSUME TypeOK, ClientStep
  PROVE  /\ \A j \in DOMAIN toClient' : \E k \in DOMAIN toClient : toClient'[j] = toClient[k]
         /\ pc' \in {"ack", "check"} =>
              \/ readBuf' = readBuf /\ pc \in {"ack", pc'}
              \/ pc' = "check" /\ readBuf' = EncodeZero(NoPacket)
              \/ \E k \in DOMAIN toClient : readBuf' = toClient[k]
  <1>1. CASE \/ ReceivePublish \/ ReceiveAckToAnswer \/ ReceivePingresp \/ ReceiveOther
             \/ DropPacket
    <2>1. PICK p \in Arriving : /\ SocketRead(p)
                                /\ \/ readBuf' = p
                                   \/ pc' = "check" /\ readBuf' = EncodeZero(NoPacket)
      <3>1. CASE DropPacket
        BY <3>1 DEF DropPacket
      <3>2. CASE ReceivePublish \/ ReceiveAckToAnswer \/ ReceivePingresp \/ ReceiveOther
        BY <3>2 DEF ReceivePublish, ReceiveAckToAnswer, ReceivePingresp, ReceiveOther, Receive
      <3> QED BY <1>1, <3>1, <3>2
    <2>2. toClient # <<>> /\ toClient' = Tail(toClient) /\ p = Head(toClient)
      BY <2>1 DEF SocketRead, Arriving
    <2> QED BY <2>1, <2>2, Types, TailElements
  <1>2. CASE LinkStall /\ UNCHANGED clientVars
    <2>1. PICK k \in 0..Len(toClient) : toClient' = SubSeq(toClient, 1, k)
      BY <1>2 DEF LinkStall
    <2> QED BY <1>2, <2>1, Types, SubSeqProperties, LenProperties DEF clientVars
  <1>3. CASE Call
    <2>1. toClient' \in {toClient, <<>>} /\ (pc' \notin {"ack", "check"} \/ UNCHANGED <<pc, readBuf>>)
      BY <1>3 DEF Call, ConnectRefused, ConnectStart, ConnectFails, PublishQoS0, PublishStart,
                  PublishFails, PrepareDuplicate, SubscribeStart, UnsubscribeStart, Request,
                  RequestFails, Disconnect, LoopYields, LoopSkipsYield, LoopStarts, SocketOpen,
                  SocketStop, Close, SendPacket, SocketWrite, Wait, Succeed, Fail, Idle,
                  networkVars
    <2> QED BY <2>1
  <1>4. CASE \/ SendAck \/ SendAckFails \/ ReadPacketFails \/ ReadFails \/ ReadNothing
             \/ NextCycle \/ CommandAcked \/ CommandRejected \/ CommandTimesOut \/ YieldEnds
             \/ NoPingDue \/ PongTimeout \/ SendPing \/ SendPingFails
    <2>1. /\ toClient' \in {toClient, <<>>} /\ pc' # "ack"
          /\ \/ pc' # "check"
             \/ readBuf' = EncodeZero(NoPacket)
             \/ pc = "ack" /\ readBuf' = readBuf
      BY <1>4 DEF SendAck, SendAckFails, ReadPacketFails, ReadFails, ReadNothing, NextCycle,
                  CommandAcked, CommandRejected, CommandTimesOut, YieldEnds, NoPingDue,
                  PongTimeout, SendPing, SendPingFails, SocketStop, Close, SendPacket,
                  SocketWrite, Succeed, Fail, Idle, networkVars
    <2> QED BY <2>1
  <1>5. CASE Environment /\ ~(LinkStall /\ UNCHANGED clientVars)
    <2>1. toClient' \in {toClient, <<>>} /\ (pc' \notin {"ack", "check"} \/ UNCHANGED <<pc, readBuf>>)
      BY <1>5 DEF Environment, CommandTimerExpires, KeepAliveTimerExpires, PowerCycle, Idle,
                  Close, LinkReset, SocketStop, networkVars, clientVars
    <2> QED BY <2>1
  <1> QED BY <1>1, <1>2, <1>3, <1>4, <1>5 DEF ClientStep, Run

\* The other side of the two lemmas: what a step of the client keeps of the
\* link unless it ends it.
Writes ==
  /\ UNCHANGED <<net, toClient, attached>>
  /\ SendPing \/ UNCHANGED pongPending
  /\ \/ toBroker' = toBroker /\ ~SendPing /\ (pc = "ack" => pc' = "ack" /\ readBuf' = readBuf)
     \/ \E p \in ClientPacket :
          /\ toBroker' = Append(toBroker, p)
          /\ Written(p)
          /\ SendPing => p.type = "PINGREQ"
          /\ pc = "ack" => p = Answer(readBuf)

Reads ==
  \E p \in Arriving :
    /\ pc = "wait"
    /\ SocketRead(p)
    /\ pongPending' = IF Fits(p) /\ p.type = "PINGRESP" THEN FALSE ELSE pongPending
    /\ Fits(p) => /\ readBuf' = p
                  /\ p.type \in {"PUBREC", "PUBREL"} => pc' = "ack"
                  /\ p.type = "PUBLISH" /\ p.qos # 0 => pc' = "ack"

LEMMA ClientLink ==
  ASSUME TypeOK, ClientStep
  PROVE  \/ net' = "closed"
         \/ ConnectStart
         \/ LinkStall /\ UNCHANGED clientVars
         \/ Writes
         \/ Reads
  <1>1. CASE ConnectRefused \/ ConnectFails \/ (\E m \in Msgs : PublishFails(m))
             \/ (\E t \in Topics : RequestFails(t)) \/ Disconnect
             \/ SendAckFails \/ ReadPacketFails \/ ReadFails \/ CommandRejected
             \/ CommandTimesOut \/ PongTimeout \/ SendPingFails
             \/ PowerCycle \/ LinkReset
    BY <1>1 DEF ConnectRefused, ConnectFails, PublishFails, RequestFails, Disconnect,
                SendAckFails, ReadPacketFails, ReadFails, CommandRejected, CommandTimesOut,
                PongTimeout, SendPingFails, PowerCycle, LinkReset, Fail, Close, SocketStop
  <1>2. CASE \/ PrepareDuplicate \/ LoopYields \/ LoopSkipsYield \/ ReadNothing \/ NextCycle
             \/ CommandAcked \/ YieldEnds \/ NoPingDue \/ CommandTimerExpires
             \/ KeepAliveTimerExpires
    <2>1. /\ UNCHANGED <<net, toClient, attached, toBroker, pongPending>>
          /\ pc = "ack" => pc' = "ack" /\ readBuf' = readBuf
      BY <1>2 DEF PrepareDuplicate, LoopYields, LoopSkipsYield, LoopStarts, ReadNothing,
                  NextCycle, CommandAcked, YieldEnds, NoPingDue, CommandTimerExpires,
                  KeepAliveTimerExpires, networkVars, sessionVars
    <2>2. ~SendPing
      <3>1. ~\E p : toBroker = Append(toBroker, p)
        <4> SUFFICES ASSUME NEW p, toBroker = Append(toBroker, p) PROVE FALSE
          OBVIOUS
        <4>1. toBroker \in Seq(ClientPacket \cup {p})
          BY Types
        <4> QED BY <4>1, AppendProperties, LenProperties
      <3> QED BY <2>1, <3>1 DEF SendPing, SendPacket, SocketWrite
    <2> QED BY <2>1, <2>2 DEF Writes
  <1>3. ASSUME NEW m \in Msgs, PublishQoS0(m) \/ PublishStart(m) PROVE Writes
    <2>1. /\ MayPublish(m) /\ pc = "idle" /\ UNCHANGED <<net, toClient, attached, pongPending>>
          /\ toBroker' = Append(toBroker, PublishPacket(m))
      BY <1>3 DEF PublishQoS0, PublishStart, MayPublish, SendPacket, SocketWrite
    <2>2. outcome'[m] # "none"
      BY <1>3 DEF PublishQoS0, PublishStart, Succeed, Record, PublishCommand, Command, TypeOK,
                  MethodTypeOK
    <2>3. ~SendPing
      BY <2>1 DEF SendPing
    <2> QED BY <2>1, <2>2, <2>3, WrittenPackets DEF Writes, Written
  <1>4. ASSUME NEW t \in Topics, SubscribeStart(t) \/ UnsubscribeStart(t) PROVE Writes
    <2>1. PICK p \in {EncodeSubscribe(NextPacketId, t), EncodeUnsubscribe(NextPacketId, t)} :
            /\ pc = "idle" /\ UNCHANGED <<net, toClient, attached, pongPending>>
            /\ toBroker' = Append(toBroker, p)
      BY <1>4 DEF SubscribeStart, UnsubscribeStart, Request, SendPacket, SocketWrite
    <2>2. ~SendPing
      BY <2>1 DEF SendPing
    <2> QED BY <2>1, <2>2, WrittenPackets DEF Writes, Written
  <1>5. CASE SendAck
    <2>1. /\ UNCHANGED <<net, toClient, attached, pongPending>>
          /\ pc = "ack" /\ pc' = "check" /\ toBroker' = Append(toBroker, Answer(readBuf))
      BY <1>5 DEF SendAck, SendPacket, SocketWrite
    <2>2. ~SendPing
      BY <2>1 DEF SendPing
    <2> QED BY <2>1, <2>2, WrittenPackets DEF Writes, Written
  <1>6. CASE SendPing
    <2>1. /\ UNCHANGED <<net, toClient, attached>>
          /\ pc = "ping" /\ toBroker' = Append(toBroker, EncodeZero("PINGREQ"))
      BY <1>6 DEF SendPing, SendPacket, SocketWrite
    <2>2. EncodeZero("PINGREQ") \in ClientPacket /\ EncodeZero("PINGREQ").type = "PINGREQ"
      BY ClientPackets DEF EncodeZero, PacketOf
    <2> QED BY <1>6, <2>1, <2>2 DEF Writes, Written
  <1>7. CASE \/ ReceivePublish \/ ReceiveAckToAnswer \/ ReceivePingresp \/ ReceiveOther
    BY <1>7 DEF ReceivePublish, ReceiveAckToAnswer, ReceivePingresp, ReceiveOther, Receive, Reads,
                TypeOK, SessionTypeOK
  <1>8. CASE DropPacket
    BY <1>8 DEF DropPacket, Reads, sessionVars
  <1> QED BY <1>1, <1>2, <1>3, <1>4, <1>5, <1>6, <1>7, <1>8 DEF ClientStep, Call, Run, Environment

\* What the broker finds on its way to it after one of its steps was so before.
LEMMA BrokerReadsHead ==
  ASSUME TypeOK, BrokerReads
  PROVE  /\ toBroker # <<>>
         /\ toBroker' = Tail(toBroker)
         /\ Head(toBroker) \in ClientPacket
         /\ \A i \in DOMAIN toBroker' : \E k \in DOMAIN toBroker : toBroker'[i] = toBroker[k]
         /\ \E k \in DOMAIN toBroker : Head(toBroker) = toBroker[k]
         /\ UNCHANGED <<clientVars, net>>
  <1>1. toBroker # <<>> /\ toBroker' = Tail(toBroker) /\ UNCHANGED <<clientVars, net>>
    BY DEF BrokerReads, BrokerConnect, BrokerPublishQoS0, BrokerPublishQoS1, BrokerPublishQoS2,
           BrokerPubrel, BrokerSubscribe, BrokerUnsubscribe, BrokerPingreq, BrokerDisconnect,
           BrokerPuback, BrokerPubrec, BrokerPubcomp, Consume
  <1>2. /\ \A i \in DOMAIN toBroker' : \E k \in DOMAIN toBroker : toBroker'[i] = toBroker[k]
        /\ \E k \in DOMAIN toBroker : Head(toBroker) = toBroker[k]
    BY <1>1, Types, TailElements
  <1>3. Head(toBroker) \in ClientPacket
    BY <1>1, Types, HeadTailProperties
  <1> QED BY <1>1, <1>2, <1>3

\* The packets a step of the broker may add to toClient.
Sent(a) ==
  LET h == Head(toBroker) IN
    \/ \E ok \in BOOLEAN : BrokerConnect(ok) /\ a = Connack(ok)
    \/ BrokerPublishQoS1 /\ a = EncodeAck("PUBACK", h.id)
    \/ BrokerPublishQoS2 /\ a = EncodeAck("PUBREC", h.id)
    \/ BrokerPubrel /\ a = EncodeAck("PUBCOMP", h.id)
    \/ \E ok \in BOOLEAN : BrokerSubscribe(ok) /\ a = Suback(h.id, ok)
    \/ BrokerUnsubscribe /\ a = EncodeAck("UNSUBACK", h.id)
    \/ BrokerPingreq /\ a = EncodeZero("PINGRESP")
    \/ BrokerPubrec /\ a = EncodeAck("PUBREL", h.id)
    \/ \E m \in InMsgs : BrokerPush(m) /\ a = EncodePublish(FALSE, IF InQoS[m] = 0 THEN 0 ELSE m,
                                                           InQoS[m], m)
    \/ \E m \in InMsgs : BrokerResend(m) /\ a = IF inflight[m] = "published"
                                               THEN EncodePublish(TRUE, m, InQoS[m], m)
                                               ELSE EncodeAck("PUBREL", m)

LEMMA SentPackets ==
  ASSUME TypeOK, NEW a, Sent(a)
  PROVE  a \in BrokerPacket
  <1>1. \/ \E ok \in BOOLEAN : a = Connack(ok)
        \/ a = EncodeZero("PINGRESP")
        \/ /\ toBroker # <<>>
           /\ \/ \E t \in {"PUBACK", "PUBREC", "PUBREL", "PUBCOMP", "UNSUBACK"} :
                   a = EncodeAck(t, Head(toBroker).id)
              \/ \E ok \in BOOLEAN : a = Suback(Head(toBroker).id, ok)
        \/ \E m \in InMsgs :
             \/ a = EncodePublish(FALSE, IF InQoS[m] = 0 THEN 0 ELSE m, InQoS[m], m)
             \/ a = EncodePublish(TRUE, m, InQoS[m], m)
             \/ a = EncodeAck("PUBREL", m)
    BY DEF Sent, BrokerPublishQoS1, BrokerPublishQoS2, BrokerPubrel, BrokerSubscribe,
           BrokerUnsubscribe, BrokerPubrec
  <1>2. toBroker # <<>> => Head(toBroker).id \in PacketIds
    BY Types, HeadTailProperties DEF ClientPacket, Packet
  <1>3. \A m \in InMsgs :
          /\ EncodePublish(FALSE, IF InQoS[m] = 0 THEN 0 ELSE m, InQoS[m], m) \in BrokerPacket
          /\ EncodeAck("PUBREL", m) \in BrokerPacket
    BY BrokerPackets DEF PacketIds
  <1>4. \A m \in InMsgs : EncodePublish(TRUE, m, InQoS[m], m) \in BrokerPacket
    BY PacketAssumption DEF BrokerPacket, Packet, PacketTypes, EncodePublish, PacketOf,
                            PacketIds, Payloads
  <1> QED BY <1>1, <1>2, <1>3, <1>4, BrokerPackets

LEMMA BrokerAppends ==
  ASSUME TypeOK, BrokerReads \/ BrokerSends
  PROVE  \/ toClient' = toClient
         \/ \E a \in BrokerPacket : net = "open" /\ Sent(a) /\ toClient' = Append(toClient, a)
  <1>1. \/ toClient' = toClient
        \/ \E a : net = "open" /\ Sent(a) /\ toClient' = toClient \o <<a>>
        \/ \E a : net = "open" /\ Sent(a) /\ toClient' = Append(toClient, a)
    <2>1. CASE BrokerSends \/ \E ok \in BOOLEAN : BrokerConnect(ok)
      BY <2>1 DEF BrokerSends, BrokerConnect, BrokerPush, BrokerResend, Sent
    <2>2. CASE BrokerPublishQoS0 \/ BrokerPuback \/ BrokerPubcomp \/ BrokerDisconnect
      <3>1. toClient' \in {toClient, toClient \o <<>>}
        BY <2>2 DEF BrokerPublishQoS0, BrokerPuback, BrokerPubcomp, BrokerDisconnect, Consume
      <3> QED BY <3>1, Types, AnswerElements
    <2>3. CASE \/ BrokerPublishQoS1 \/ BrokerPublishQoS2 \/ BrokerPubrel \/ BrokerUnsubscribe
               \/ BrokerPingreq \/ BrokerPubrec \/ \E ok \in BOOLEAN : BrokerSubscribe(ok)
      <3>1. \E a : Sent(a) /\ toClient' = IF net = "open" THEN toClient \o <<a>> ELSE toClient
        BY <2>3 DEF BrokerPublishQoS1, BrokerPublishQoS2, BrokerPubrel, BrokerUnsubscribe,
                    BrokerPingreq, BrokerPubrec, BrokerSubscribe, Consume, Sent
      <3> QED BY <3>1
    <2> QED BY <2>1, <2>2, <2>3 DEF BrokerReads
  <1> QED BY <1>1, SentPackets, Types, AnswerElements

LEMMA BrokerWrites ==
  ASSUME TypeOK, BrokerReads \/ BrokerSends
  PROVE  \A j \in DOMAIN toClient' :
           \/ j \in DOMAIN toClient /\ toClient'[j] = toClient[j]
           \/ net = "open" /\ Sent(toClient'[j])
  BY BrokerAppends, Types, AppendElements

\* The broker takes nothing back.
LEMMA BrokerKeeps ==
  ASSUME TypeOK, BrokerReads \/ BrokerSends
  PROVE  \A j \in DOMAIN toClient : j \in DOMAIN toClient' /\ toClient'[j] = toClient[j]
  <1>1. \/ toClient' = toClient
        \/ \E a \in BrokerPacket : toClient' = Append(toClient, a)
    BY BrokerAppends
  <1> QED BY <1>1, Types, AppendProperties, LenProperties, SMTT(30)

-----------------------------------------------------------------------------
(* Packet ids.                                                             *)

LEMMA WrittenIds ==
  ASSUME TypeOK, IdsInv, NEW p, Written(p), IsRequest(p)
  PROVE  p.id # 0
  <1>1. NextPacketId # 0
    BY NextPacketIdType DEF TypeOK, SessionTypeOK
  <1>2. CASE p.type \in {"PINGREQ", "DISCONNECT"}
    BY <1>2 DEF IsRequest
  <1>3. CASE \E m \in Msgs : p = PublishPacket(m)
    <2>1. PICK m \in Msgs : p = PublishPacket(m)
      BY <1>3
    <2>2. OutQoS[m] # 0
      BY <2>1 DEF IsRequest, PublishPacket, EncodePublish, PacketOf
    <2> QED BY <1>1, <2>1, <2>2
            DEF PublishPacket, EncodePublish, PacketOf, PublishId, IsDup, DupIdSeen
  <1>4. CASE \E t \in Topics :
               p \in {EncodeSubscribe(NextPacketId, t), EncodeUnsubscribe(NextPacketId, t)}
    BY <1>1, <1>4 DEF EncodeSubscribe, EncodeUnsubscribe, PacketOf
  <1>5. CASE pc = "ack" /\ p = Answer(readBuf)
    <2>1. readBuf.type \in {"PUBLISH", "PUBREC", "PUBREL"}
      BY <1>5 DEF TypeOK, MethodTypeOK
    <2>2. readBuf.type = "PUBREC"
      BY <1>5, <2>1 DEF IsRequest, Answer, EncodeAck, PacketOf
    <2> QED BY <1>5, <2>2 DEF IdsInv, Answer, EncodeAck, PacketOf
  <1> QED BY <1>2, <1>3, <1>4, <1>5 DEF Written

LEMMA NextIds == TypeOK /\ TypeOK' /\ IdsInv /\ [Next]_vars => IdsInv'
  <1> SUFFICES ASSUME TypeOK, TypeOK', IdsInv, [Next]_vars PROVE IdsInv'
    OBVIOUS
  <1>1. CASE UNCHANGED vars
    BY <1>1 DEF vars, networkVars, clientVars, IdsInv
  <1>2. CASE ClientStep
    <2>1. ASSUME NEW i \in DOMAIN toBroker', IsRequest(toBroker'[i]), toBroker'[i].type # "CONNECT"
          PROVE  toBroker'[i].id # 0
      <3>1. CASE toBroker' \in {toBroker, <<>>, <<EncodeConnect>>}
        BY <2>1, <3>1 DEF IdsInv, EncodeConnect, EncodeZero, PacketOf
      <3>2. CASE \E p \in ClientPacket : toBroker' = Append(toBroker, p) /\ Written(p)
        <4>1. PICK p \in ClientPacket : toBroker' = Append(toBroker, p) /\ Written(p)
          BY <3>2
        <4>2. \/ i \in DOMAIN toBroker /\ toBroker'[i] = toBroker[i]
              \/ toBroker'[i] = p
          BY <4>1, Types, AppendElements
        <4> QED BY <2>1, <4>1, <4>2, WrittenIds DEF IdsInv
      <3> QED BY <1>2, <3>1, <3>2, ClientWritesPackets DEF ClientWrites
    <2>2. \A j \in DOMAIN toClient' : toClient'[j].type = "PUBREC" => toClient'[j].id # 0
      BY <1>2, ClientReads DEF IdsInv
    <2>3. pc' = "ack" /\ readBuf'.type = "PUBREC" => readBuf'.id # 0
      BY <1>2, ClientReads DEF IdsInv
    <2> QED BY <2>1, <2>2, <2>3 DEF IdsInv
  <1>3. CASE BrokerReads \/ BrokerSends
    <2>1. UNCHANGED clientVars
      BY <1>3 DEF BrokerReads, BrokerSends
    <2>2. \A i \in DOMAIN toBroker' : \E k \in DOMAIN toBroker : toBroker'[i] = toBroker[k]
      <3>1. CASE BrokerReads
        BY <3>1, BrokerReadsHead
      <3>2. CASE BrokerSends
        BY <3>2 DEF BrokerSends, BrokerPush, BrokerResend
      <3> QED BY <1>3, <3>1, <3>2
    <2>3. ASSUME NEW a, Sent(a), a.type = "PUBREC" PROVE a.id # 0
      <3>1. BrokerPublishQoS2 /\ a = EncodeAck("PUBREC", Head(toBroker).id)
        BY <2>3 DEF Sent, Connack, Suback, EncodeAck, EncodeZero, EncodePublish, PacketOf
      <3>2. toBroker # <<>> /\ Head(toBroker).type = "PUBLISH" /\ Head(toBroker).qos = 2
        BY <3>1 DEF BrokerPublishQoS2, Consume
      <3>3. PICK k \in DOMAIN toBroker : Head(toBroker) = toBroker[k]
        BY <3>2, Types, TailElements
      <3> QED BY <3>1, <3>2, <3>3 DEF IdsInv, IsRequest, EncodeAck, PacketOf
    <2>4. \A j \in DOMAIN toClient' : toClient'[j].type = "PUBREC" => toClient'[j].id # 0
      BY <1>3, <2>3, BrokerWrites DEF IdsInv
    <2> QED BY <2>1, <2>2, <2>4 DEF IdsInv, clientVars
  <1> QED BY <1>1, <1>2, <1>3 DEF Next, ClientStep

-----------------------------------------------------------------------------
(* Subscriptions.                                                          *)

\* While one method waits, its command stays what it is.
LEMMA SameCommand ==
  ASSUME TypeOK, ClientStep, Waiting, Waiting'
  PROVE  cmd'.op = cmd.op /\ cmd'.needle = cmd.needle /\ cmd'.id = cmd.id /\ cmd'.msg = cmd.msg
  <1>1. cmd \in Commands
    BY DEF TypeOK, MethodTypeOK
  <1>2. CASE Call
    BY <1>2 DEF Waiting, Call, ConnectRefused, ConnectStart, ConnectFails, PublishQoS0,
                PublishStart, PublishFails, MayPublish, PrepareDuplicate, SubscribeStart,
                UnsubscribeStart, Request, RequestFails, Disconnect, LoopYields,
                LoopSkipsYield, LoopStarts
  <1>3. CASE \/ ReceivePublish \/ ReceiveAckToAnswer \/ ReceivePingresp \/ ReceiveOther
    <2>1. cmd' = [cmd EXCEPT !.available = IF @ > 0 THEN @ - 1 ELSE 0]
      BY <1>3 DEF ReceivePublish, ReceiveAckToAnswer, ReceivePingresp, ReceiveOther, Receive
    <2> QED BY <1>1, <2>1 DEF Commands
  <1>4. CASE \/ DropPacket \/ SendAck \/ SendAckFails \/ ReadPacketFails \/ ReadFails
             \/ ReadNothing \/ NextCycle \/ CommandAcked \/ CommandRejected
             \/ CommandTimesOut \/ YieldEnds \/ NoPingDue \/ PongTimeout \/ SendPing
             \/ SendPingFails
    BY <1>4 DEF Waiting, DropPacket, SendAck, SendAckFails, ReadPacketFails, ReadFails,
                ReadNothing, NextCycle, CommandAcked, CommandRejected, CommandTimesOut,
                YieldEnds, NoPingDue, PongTimeout, SendPing, SendPingFails, Succeed, Fail, Idle
  <1>5. CASE Environment
    BY <1>5 DEF Waiting, Environment, CommandTimerExpires, KeepAliveTimerExpires, PowerCycle,
                Idle, LinkReset, LinkStall, clientVars
  <1> QED BY <1>2, <1>3, <1>4, <1>5 DEF ClientStep, Run

\* An answer of another type than PUBREC that the client holds after one of
\* its steps it held before, or it was on its way.
LEMMA HeldAnswer ==
  ASSUME TypeOK, ExchangeInv, ExchangeInv', ClientStep, Held', readBuf'.type # "PUBREC"
  PROVE  \/ Held /\ readBuf' = readBuf /\ cmd'.msg = cmd.msg /\ cmd'.needle = cmd.needle
         \/ /\ \E k \in DOMAIN toClient : readBuf' = toClient[k]
            /\ Waiting /\ cmd'.msg = cmd.msg /\ cmd'.needle = cmd.needle
  <1>1. pc' = "check" /\ IsAnswer(readBuf') /\ readBuf'.type = cmd'.needle /\ Waiting'
    BY DEF Held, Waiting
  <1>2. CASE readBuf' = readBuf /\ pc \in {"ack", pc'}
    <2>1. pc = "check"
      BY <1>1, <1>2 DEF TypeOK, MethodTypeOK, IsAnswer
    <2>2. cmd'.msg = cmd.msg /\ cmd'.needle = cmd.needle
      BY <1>1, <2>1, SameCommand DEF Waiting
    <2> QED BY <1>1, <1>2, <2>1, <2>2 DEF Held
  <1>3. CASE readBuf' = EncodeZero(NoPacket)
    BY <1>1, <1>3 DEF IsAnswer, EncodeZero, PacketOf, NoPacket
  <1>4. CASE \E k \in DOMAIN toClient : readBuf' = toClient[k]
    <2>1. Waiting
      BY <1>1, <1>4 DEF ExchangeInv, AnswerReplies
    <2> QED BY <1>1, <1>4, <2>1, SameCommand
  <1> QED BY <1>1, <1>2, <1>3, <1>4, ClientReads

\* Of the broker's steps only those that read a request touch the session's
\* subscriptions, and then nothing of the exchange is elsewhere.
LEMMA BrokerTakesRequest ==
  ASSUME TypeOK, ExchangeInv, BrokerReads, IsRequest(Head(toBroker))
  PROVE  /\ NoAnswerUnderWay /\ ~Held
         /\ net = "open" => Asks(Head(toBroker))
  <1>1. PICK k \in DOMAIN toBroker : Head(toBroker) = toBroker[k]
    BY BrokerReadsHead
  <1>2. CASE Live
    BY <1>1, <1>2 DEF ExchangeInv, RequestAsks
  <1>3. CASE ~Live
    BY <1>3 DEF ExchangeInv, Live, SocketConnected, Held, NoAnswerUnderWay
  <1> QED BY <1>2, <1>3

LEMMA NextSubs == TypeOK /\ ExchangeInv /\ ExchangeInv' /\ SubsInv /\ [Next]_vars => SubsInv'
  <1> SUFFICES ASSUME TypeOK, ExchangeInv, ExchangeInv', SubsInv, [Next]_vars PROVE SubsInv'
    OBVIOUS
  <1>1. CASE UNCHANGED vars
    BY <1>1 DEF vars, networkVars, clientVars, brokerVars, SubsInv, Held
  <1>2. CASE ClientStep
    <2>1. UNCHANGED subs
      BY <1>2 DEF ClientStep, Call, Run, Environment, brokerVars
    <2>2. ASSUME NEW j \in DOMAIN toClient', toClient'[j].type \in {"SUBACK", "UNSUBACK"}
          PROVE  /\ toClient'[j].type = "SUBACK" /\ toClient'[j].ok => cmd'.msg \in subs
                 /\ toClient'[j].type = "UNSUBACK" => cmd'.msg \notin subs
      <3>1. PICK k \in DOMAIN toClient : toClient'[j] = toClient[k]
        BY <1>2, ClientReads
      <3>2. Waiting /\ Waiting'
        BY <2>2, <3>1 DEF ExchangeInv, AnswerReplies, IsAnswer
      <3>3. cmd'.msg = cmd.msg
        BY <1>2, <3>2, SameCommand
      <3> QED BY <3>1, <3>3 DEF SubsInv
    <2>3. ASSUME Held', readBuf'.type \in {"SUBACK", "UNSUBACK"}
          PROVE  /\ readBuf'.type = "SUBACK" /\ readBuf'.ok => cmd'.msg \in subs
                 /\ readBuf'.type = "UNSUBACK" => cmd'.msg \notin subs
      BY <1>2, <2>3, HeldAnswer DEF SubsInv
    <2> QED BY <2>1, <2>2, <2>3 DEF SubsInv
  <1>3. CASE BrokerReads \/ BrokerSends
    <2>1. UNCHANGED clientVars
      BY <1>3 DEF BrokerReads, BrokerSends
    <2>2. Held' <=> Held
      BY <2>1 DEF clientVars, Held
    <2>3. CASE subs' = subs /\ ~\E ok \in BOOLEAN : BrokerSubscribe(ok) \/ BrokerUnsubscribe
      <3>1. \A a : Sent(a) => a.type \notin {"SUBACK", "UNSUBACK"}
        <4>1. ASSUME NEW a, Sent(a)
              PROVE  \/ \E ok : a = Connack(ok)
                     \/ \E t \in {"PUBACK", "PUBREC", "PUBCOMP", "PUBREL"} :
                          \E id : a = EncodeAck(t, id)
                     \/ a = EncodeZero("PINGRESP")
                     \/ \E dup, id, qos, m : a = EncodePublish(dup, id, qos, m)
          BY <2>3, <4>1 DEF Sent
        <4> QED BY <4>1 DEF Connack, EncodeAck, EncodeZero, EncodePublish, PacketOf
      <3> QED BY <1>3, <2>1, <2>2, <2>3, <3>1, BrokerWrites DEF SubsInv, clientVars
    <2>4. CASE \E ok \in BOOLEAN : BrokerConnect(ok) /\ subs' # subs
      <3>1. BrokerReads /\ IsRequest(Head(toBroker))
        BY <2>1, <2>4 DEF BrokerConnect, BrokerReads, IsRequest
      <3>2. NoAnswerUnderWay /\ ~Held
        BY <3>1, BrokerTakesRequest
      <3>3. \A j \in DOMAIN toClient' : toClient'[j].type \notin {"SUBACK", "UNSUBACK"}
        <4>1. PICK ok \in BOOLEAN : BrokerConnect(ok)
          BY <2>4
        <4>2. Connack(ok) \in BrokerPacket
          BY BrokerPackets
        <4>3. \A j \in DOMAIN toClient' : \/ j \in DOMAIN toClient /\ toClient'[j] = toClient[j]
                                          \/ toClient'[j] = Connack(ok)
          BY <4>1, <4>2, Types, AppendElements DEF BrokerConnect
        <4> QED BY <3>2, <4>3 DEF NoAnswerUnderWay, IsAnswer, Connack, PacketOf
      <3> QED BY <2>2, <3>2, <3>3 DEF SubsInv
    <2>5. CASE (\E ok \in BOOLEAN : BrokerSubscribe(ok)) \/ BrokerUnsubscribe
      <3>1. /\ BrokerReads /\ toBroker # <<>>
            /\ Head(toBroker).type \in {"SUBSCRIBE", "UNSUBSCRIBE"}
        BY <2>1, <2>5 DEF BrokerSubscribe, BrokerUnsubscribe, Consume, BrokerReads
      <3>2. NoAnswerUnderWay /\ ~Held /\ (net = "open" => Asks(Head(toBroker)))
        BY <3>1, BrokerTakesRequest DEF IsRequest
      <3>3. net = "open" => Head(toBroker).msg = cmd.msg
        BY <3>1, <3>2 DEF Asks
      <3>4. CASE \E ok \in BOOLEAN : BrokerSubscribe(ok)
        <4>1. PICK ok \in BOOLEAN : BrokerSubscribe(ok)
          BY <3>4
        <4>2. /\ subs' = IF ok THEN subs \cup {Head(toBroker).msg} ELSE subs
              /\ toClient' = IF net = "open" THEN toClient \o <<Suback(Head(toBroker).id, ok)>>
                            ELSE toClient
          BY <4>1 DEF BrokerSubscribe, Consume
        <4>3. Suback(Head(toBroker).id, ok) \in BrokerPacket
          <5>1. Head(toBroker).id \in PacketIds
            BY <3>1, BrokerReadsHead DEF ClientPacket, Packet
          <5> QED BY <5>1, BrokerPackets
        <4>4. \A j \in DOMAIN toClient' :
                \/ j \in DOMAIN toClient /\ toClient'[j] = toClient[j]
                \/ net = "open" /\ toClient'[j] = Suback(Head(toBroker).id, ok)
          BY <4>2, <4>3, Types, AnswerElements, AppendElements
        <4> QED BY <2>1, <2>2, <3>2, <3>3, <4>2, <4>4
                DEF SubsInv, NoAnswerUnderWay, IsAnswer, Suback, PacketOf, clientVars
      <3>5. CASE BrokerUnsubscribe
        <4>1. /\ subs' = subs \ {Head(toBroker).msg}
              /\ toClient' = IF net = "open"
                            THEN toClient \o <<EncodeAck("UNSUBACK", Head(toBroker).id)>>
                            ELSE toClient
          BY <3>5 DEF BrokerUnsubscribe, Consume
        <4>2. EncodeAck("UNSUBACK", Head(toBroker).id) \in BrokerPacket
          <5>1. Head(toBroker).id \in PacketIds
            BY <3>1, BrokerReadsHead DEF ClientPacket, Packet
          <5> QED BY <5>1, BrokerPackets
        <4>3. \A j \in DOMAIN toClient' :
                \/ j \in DOMAIN toClient /\ toClient'[j] = toClient[j]
                \/ net = "open" /\ toClient'[j] = EncodeAck("UNSUBACK", Head(toBroker).id)
          BY <4>1, <4>2, Types, AnswerElements, AppendElements
        <4> QED BY <2>1, <2>2, <3>2, <3>3, <4>1, <4>3
                DEF SubsInv, NoAnswerUnderWay, IsAnswer, EncodeAck, PacketOf, clientVars
      <3> QED BY <2>5, <3>4, <3>5
    <2>6. subs' = subs \/ (\E ok \in BOOLEAN : BrokerConnect(ok) \/ BrokerSubscribe(ok))
          \/ BrokerUnsubscribe
      BY <1>3 DEF BrokerReads, BrokerSends, BrokerPublishQoS0, BrokerPublishQoS1,
                  BrokerPublishQoS2, BrokerPubrel, BrokerPingreq, BrokerDisconnect, BrokerPuback,
                  BrokerPubrec, BrokerPubcomp, BrokerPush, BrokerResend, brokerVars
    <2> QED BY <2>3, <2>4, <2>5, <2>6
  <1> QED BY <1>1, <1>2, <1>3 DEF Next, ClientStep

-----------------------------------------------------------------------------
(* The ping is an exchange of its own, and pong_pending its only record.   *)

Pings == {i \in DOMAIN toBroker : toBroker[i].type = "PINGREQ"}
Pongs == {j \in DOMAIN toClient : toClient[j].type = "PINGRESP"}

\* These carry no message, so drop_overflow drops none of them.
BareAnswers ==
  \A j \in DOMAIN toClient : toClient[j].type \in {"PINGRESP", "PUBREL"} => toClient[j].msg = NoMsg

\* The strengthening of PongPendingMirrorsLink that every step preserves.
PongInv ==
  SocketConnected =>
    /\ \A i, j \in Pings : i = j
    /\ \A i, j \in Pongs : i = j
    /\ Pings = {} \/ Pongs = {}
    /\ ~pongPending => Pings = {} /\ Pongs = {}
    /\ net = "open" /\ pongPending => Pings # {} \/ Pongs # {}

LEMMA NextBare == TypeOK /\ BareAnswers /\ [Next]_vars => BareAnswers'
  <1> SUFFICES ASSUME TypeOK, BareAnswers, [Next]_vars PROVE BareAnswers'
    OBVIOUS
  <1>1. CASE UNCHANGED vars
    BY <1>1 DEF vars, networkVars, BareAnswers
  <1>2. CASE ClientStep
    BY <1>2, ClientReads DEF BareAnswers
  <1>3. CASE BrokerReads \/ BrokerSends
    <2>1. ASSUME NEW a, Sent(a), a.type \in {"PINGRESP", "PUBREL"} PROVE a.msg = NoMsg
      <3>1. \/ \E ok : a = Connack(ok) \/ \E id : a = Suback(id, ok)
            \/ \E t, id : a = EncodeAck(t, id)
            \/ a = EncodeZero("PINGRESP")
            \/ \E dup, id, qos, m : a = EncodePublish(dup, id, qos, m)
        BY <2>1 DEF Sent
      <3> QED BY <2>1, <3>1 DEF Connack, Suback, EncodeAck, EncodeZero, EncodePublish, PacketOf
    <2> QED BY <1>3, <2>1, BrokerWrites DEF BareAnswers
  <1> QED BY <1>1, <1>2, <1>3 DEF Next, ClientStep

LEMMA ClientPong ==
  ASSUME TypeOK, BareAnswers, PongInv, ClientStep
  PROVE  PongInv'
  <1>1. CASE net' = "closed"
    BY <1>1 DEF PongInv, SocketConnected
  <1>2. CASE ConnectStart
    <2>1. toBroker' = <<EncodeConnect>> /\ toClient' = <<>> /\ pongPending' = FALSE
      BY <1>2 DEF ConnectStart, SocketOpen, ResetKeepAlive
    <2>2. Pings' = {} /\ Pongs' = {}
      BY <2>1 DEF Pings, Pongs, EncodeConnect, EncodeZero, PacketOf
    <2> QED BY <2>1, <2>2 DEF PongInv
  <1>3. CASE LinkStall /\ UNCHANGED clientVars
    <2>1. PICK k \in 0..Len(toClient) : toClient' = SubSeq(toClient, 1, k)
      BY <1>3 DEF LinkStall
    <2>2. \A i \in DOMAIN toClient' : i \in DOMAIN toClient /\ toClient'[i] = toClient[i]
      BY <2>1, Types, SubSeqProperties, LenProperties
    <2>3. Pings' = Pings /\ Pongs' \subseteq Pongs
      BY <1>3, <2>2 DEF LinkStall, Pings, Pongs
    <2>4. SocketConnected /\ net' = "half" /\ pongPending' = pongPending
      BY <1>3 DEF LinkStall, SocketConnected, clientVars
    <2> QED BY <2>3, <2>4 DEF PongInv
  <1>4. CASE Writes
    <2>1. Pongs' = Pongs /\ SocketConnected' = SocketConnected
      BY <1>4 DEF Writes, Pongs, SocketConnected
    <2>2. CASE SendPing
      <3>1. PICK p \in ClientPacket : toBroker' = Append(toBroker, p) /\ p.type = "PINGREQ"
        BY <1>4, <2>2 DEF Writes
      <3>2. SocketConnected /\ ~pongPending /\ pongPending' = TRUE
        BY <2>2 DEF SendPing, SendPacket, SocketWrite
      <3>3. Pings = {} /\ Pongs = {}
        BY <3>2 DEF PongInv
      <3>4. Len(toBroker) + 1 \in DOMAIN toBroker' /\ toBroker'[Len(toBroker) + 1] = p
        BY <3>1, Types, AppendProperties, LenProperties
      <3>5. Pings' = {Len(toBroker) + 1}
        BY <3>1, <3>3, <3>4, Types, AppendElements DEF Pings
      <3> QED BY <2>1, <3>2, <3>3, <3>5 DEF PongInv
    <2>3. CASE ~SendPing
      <3>1. /\ pongPending' = pongPending /\ net' = net
            /\ \/ toBroker' = toBroker
               \/ \E p \in ClientPacket : toBroker' = Append(toBroker, p) /\ Written(p)
        BY <1>4, <2>3 DEF Writes
      <3>2. \A p : Written(p) => p.type # "PINGREQ"
        <4>1. \A m : PublishPacket(m).type # "PINGREQ"
          BY DEF PublishPacket, EncodePublish, PacketOf
        <4>2. \A t : /\ EncodeSubscribe(NextPacketId, t).type # "PINGREQ"
                     /\ EncodeUnsubscribe(NextPacketId, t).type # "PINGREQ"
          BY DEF EncodeSubscribe, EncodeUnsubscribe, PacketOf
        <4>3. pc = "ack" => Answer(readBuf).type # "PINGREQ"
          <5>1. pc = "ack" => readBuf.type \in {"PUBLISH", "PUBREC", "PUBREL"}
            BY DEF TypeOK, MethodTypeOK
          <5> QED BY <5>1 DEF Answer, EncodeAck, PacketOf
        <4> QED BY <2>3, <4>1, <4>2, <4>3 DEF Written
      <3>3. Pings' = Pings
        <4>1. CASE toBroker' = toBroker
          BY <4>1 DEF Pings
        <4>2. CASE \E p \in ClientPacket : toBroker' = Append(toBroker, p) /\ Written(p)
          <5>1. PICK p \in ClientPacket : toBroker' = Append(toBroker, p) /\ p.type # "PINGREQ"
            BY <3>2, <4>2
          <5>2. \A i \in DOMAIN toBroker : i \in DOMAIN toBroker' /\ toBroker'[i] = toBroker[i]
            BY <5>1, Types, AppendProperties, LenProperties
          <5> QED BY <5>1, <5>2, Types, AppendElements DEF Pings
        <4> QED BY <3>1, <4>1, <4>2
      <3> QED BY <2>1, <3>1, <3>3 DEF PongInv
    <2> QED BY <2>2, <2>3
  <1>5. CASE Reads
    <2>1. PICK p \in Arriving :
            /\ SocketRead(p)
            /\ pongPending' = IF Fits(p) /\ p.type = "PINGRESP" THEN FALSE ELSE pongPending
      BY <1>5 DEF Reads
    <2>2. /\ toClient # <<>> /\ toClient' = Tail(toClient) /\ p = Head(toClient)
          /\ UNCHANGED <<net, toBroker>>
      BY <2>1 DEF SocketRead, Arriving
    <2>3. /\ p = toClient[1] /\ 1 \in DOMAIN toClient
          /\ DOMAIN toClient \subseteq Int /\ DOMAIN toClient' \subseteq Int
          /\ \A i \in DOMAIN toClient' :
               i + 1 \in DOMAIN toClient /\ i + 1 # 1 /\ toClient'[i] = toClient[i + 1]
          /\ \A i \in DOMAIN toClient : i # 1 => i - 1 \in DOMAIN toClient'
                                               /\ toClient'[i - 1] = toClient[i]
      BY <2>2, Types, TailElements, HeadTailProperties, LenProperties
    <2>4. Pings' = Pings /\ SocketConnected' = SocketConnected
      BY <2>2 DEF Pings, SocketConnected
    <2>5. p.type = "PINGRESP" => Fits(p)
      BY <2>3, PacketAssumption, ClientAssumption DEF BareAnswers, Fits
    <2>6. CASE p.type = "PINGRESP"
      <3>1. 1 \in Pongs
        BY <2>3, <2>6 DEF Pongs
      <3>2. \A i \in Pongs' : i + 1 \in Pongs /\ i + 1 # 1
        BY <2>3 DEF Pongs
      <3>3. SocketConnected => Pongs' = {} /\ Pings = {}
        BY <3>1, <3>2 DEF PongInv
      <3> QED BY <2>1, <2>4, <2>5, <2>6, <3>3 DEF PongInv
    <2>7. CASE p.type # "PINGRESP"
      <3>1. \A i \in Pongs' : i + 1 \in Pongs /\ i \in Int
        BY <2>3 DEF Pongs
      <3>2. \A i \in Pongs : i - 1 \in Pongs'
        BY <2>3, <2>7 DEF Pongs
      <3>3. Pongs' = {} <=> Pongs = {}
        BY <3>1, <3>2
      <3>4. (\A i, j \in Pongs : i = j) => \A i, j \in Pongs' : i = j
        BY <3>1
      <3> QED BY <2>1, <2>2, <2>4, <2>7, <3>3, <3>4 DEF PongInv
    <2> QED BY <2>6, <2>7
  <1> QED BY <1>1, <1>2, <1>3, <1>4, <1>5, ClientLink

LEMMA BrokerPong ==
  ASSUME TypeOK, PongInv, BrokerReads \/ BrokerSends
  PROVE  PongInv'
  <1>1. UNCHANGED <<net, pongPending>>
    BY DEF BrokerReads, BrokerSends, clientVars, BrokerPush, BrokerResend, BrokerConnect,
           BrokerPublishQoS0, BrokerPublishQoS1, BrokerPublishQoS2, BrokerPubrel, BrokerSubscribe,
           BrokerUnsubscribe, BrokerPingreq, BrokerDisconnect, BrokerPuback, BrokerPubrec,
           BrokerPubcomp, Consume
  <1>2. \A j \in DOMAIN toClient : j \in DOMAIN toClient' /\ toClient'[j] = toClient[j]
    BY BrokerKeeps
  <1>3. CASE BrokerPingreq
    <2>1. /\ toBroker # <<>> /\ toBroker' = Tail(toBroker) /\ Head(toBroker).type = "PINGREQ"
          /\ toClient' = IF net = "open" THEN toClient \o <<EncodeZero("PINGRESP")>> ELSE toClient
      BY <1>3 DEF BrokerPingreq, Consume
    <2>2. /\ Head(toBroker) = toBroker[1] /\ 1 \in DOMAIN toBroker
          /\ \A i \in DOMAIN toBroker' :
               i + 1 \in DOMAIN toBroker /\ i + 1 # 1 /\ toBroker'[i] = toBroker[i + 1]
      BY <2>1, Types, TailElements
    <2>3. 1 \in Pings /\ \A i \in Pings' : i + 1 \in Pings /\ i + 1 # 1
      BY <2>1, <2>2 DEF Pings
    <2>4. SocketConnected => pongPending /\ Pings' = {} /\ Pongs = {}
      BY <2>3 DEF PongInv
    <2>5. CASE net = "open"
      <3>1. EncodeZero("PINGRESP") \in BrokerPacket /\ EncodeZero("PINGRESP").type = "PINGRESP"
        BY BrokerPackets DEF EncodeZero, PacketOf
      <3>2. toClient' = Append(toClient, EncodeZero("PINGRESP"))
        BY <2>1, <2>5, <3>1, Types, AnswerElements
      <3>3. /\ Len(toClient) + 1 \in DOMAIN toClient'
            /\ toClient'[Len(toClient) + 1] = EncodeZero("PINGRESP")
        BY <3>1, <3>2, Types, AppendProperties, LenProperties
      <3>4. Pongs = {} => Pongs' = {Len(toClient) + 1}
        BY <3>1, <3>2, <3>3, Types, AppendElements DEF Pongs
      <3> QED BY <1>1, <2>4, <2>5, <3>4 DEF PongInv, SocketConnected
    <2>6. CASE net # "open"
      <3>1. Pongs' = Pongs
        BY <2>1, <2>6 DEF Pongs
      <3> QED BY <1>1, <2>4, <2>6, <3>1 DEF PongInv, SocketConnected
    <2> QED BY <2>5, <2>6
  <1>4. CASE ~BrokerPingreq
    <2>1. Pongs' = Pongs
      <3>1. \A a : Sent(a) => a.type # "PINGRESP"
        <4>1. ASSUME NEW a, Sent(a)
              PROVE  \/ \E ok : a = Connack(ok) \/ \E id : a = Suback(id, ok)
                     \/ \E t \in {"PUBACK", "PUBREC", "PUBREL", "PUBCOMP", "UNSUBACK"} :
                          \E id : a = EncodeAck(t, id)
                     \/ \E dup, id, qos, m : a = EncodePublish(dup, id, qos, m)
          BY <1>4, <4>1 DEF Sent
        <4> QED BY <4>1 DEF Connack, Suback, EncodeAck, EncodePublish, PacketOf
      <3> QED BY <1>2, <3>1, BrokerWrites DEF Pongs
    <2>2. /\ \A i \in Pings' : i \in Pings \/ (i \in Int /\ i + 1 \in Pings)
          /\ (\A i, j \in Pings : i = j) => \A i, j \in Pings' : i = j
          /\ Pings' = {} <=> Pings = {}
      <3>1. CASE BrokerSends
        <4>1. toBroker' = toBroker
          BY <3>1 DEF BrokerSends, BrokerPush, BrokerResend
        <4> QED BY <4>1 DEF Pings
      <3>2. CASE BrokerReads
        <4>1. /\ toBroker # <<>> /\ toBroker' = Tail(toBroker)
              /\ Head(toBroker).type # "PINGREQ"
          <5>1. ASSUME Head(toBroker).type = "PINGREQ" PROVE FALSE
            BY <1>4, <3>2, <5>1
               DEF BrokerReads, BrokerConnect, BrokerPublishQoS0, BrokerPublishQoS1,
                   BrokerPublishQoS2, BrokerPubrel, BrokerSubscribe, BrokerUnsubscribe,
                   BrokerDisconnect, BrokerPuback, BrokerPubrec, BrokerPubcomp, Consume
          <5> QED BY <3>2, <5>1, BrokerReadsHead
        <4>2. /\ Head(toBroker) = toBroker[1] /\ 1 \in DOMAIN toBroker
              /\ DOMAIN toBroker \subseteq Int /\ DOMAIN toBroker' \subseteq Int
              /\ \A i \in DOMAIN toBroker' :
                   i + 1 \in DOMAIN toBroker /\ toBroker'[i] = toBroker[i + 1]
              /\ \A i \in DOMAIN toBroker : i # 1 => i - 1 \in DOMAIN toBroker'
                                                   /\ toBroker'[i - 1] = toBroker[i]
          BY <4>1, Types, TailElements, HeadTailProperties, LenProperties
        <4>3. \A i \in Pings' : i + 1 \in Pings /\ i \in Int
          BY <4>2 DEF Pings
        <4>4. \A i \in Pings : i - 1 \in Pings'
          BY <4>1, <4>2 DEF Pings
        <4> QED BY <4>3, <4>4
      <3> QED BY <3>1, <3>2
    <2> QED BY <1>1, <2>1, <2>2 DEF PongInv, SocketConnected
  <1> QED BY <1>3, <1>4

-----------------------------------------------------------------------------

\* An acknowledgement on its way to the client is the answer to the method
\* that is running, across retries, restarts and the reuse of packet ids: a
\* method that gives up closes the connection, and the answer with it.
THEOREM AckIsForCurrentCommand == Spec => []AckForCurrentCommand
  <1>1. ExchangeInv => AckForCurrentCommand
    BY DEF ExchangeInv, AnswerReplies, AckForCurrentCommand, IsAnswer, Replies, Waiting
  <1> QED BY <1>1, Exchange, PTL

\* The ids of the requests: lwmqtt_get_next_packet_id wraps to 1, the PUBREL
\* takes the id of the PUBREC, which the broker took from the PUBLISH, so 0
\* appears in none of them.
THEOREM IdsNonZero == Spec => []PacketIdsNonZero
  <1>1. Init => IdsInv
    BY DEF Init, NetworkInit, ClientInit, IdsInv
  <1>2. IdsInv => PacketIdsNonZero
    BY DEF IdsInv, PacketIdsNonZero, IsRequest
  <1> QED BY <1>1, <1>2, NextIds, TypeCorrect, PTL DEF Spec

\* subscribe() that returns true leaves a subscription that the broker holds,
\* unsubscribe() one that it does not hold: the SUBACK that matched answers
\* this request and no earlier one, and nothing changed the session since.
THEOREM SubscriptionsHonoured == Spec => SubscriptionHonoured
  <1> DEFINE Honoured ==
        pc = "check" /\ pc' = "idle" /\ connected' /\ lastError' = "SUCCESS" =>
          /\ cmd.op = "subscribe" => cmd.msg \in subs
          /\ cmd.op = "unsubscribe" => cmd.msg \notin subs
  <1>1. Init => SubsInv
    BY DEF Init, NetworkInit, ClientInit, SubsInv, Held
  <1>2. ExchangeInv /\ SubsInv /\ [Next]_vars => [Honoured]_vars
    <2> SUFFICES ASSUME ExchangeInv, SubsInv, Next,
                        pc = "check", pc' = "idle", connected', lastError' = "SUCCESS"
                 PROVE  /\ cmd.op = "subscribe" => cmd.msg \in subs
                        /\ cmd.op = "unsubscribe" => cmd.msg \notin subs
      OBVIOUS
    <2>1. CommandAcked
      <3>1. ~BrokerReads /\ ~BrokerSends
        BY DEF BrokerReads, BrokerSends, clientVars
      <3>2. ~Call
        BY DEF Call, ConnectRefused, ConnectStart, ConnectFails, PublishQoS0, PublishStart,
               PublishFails, MayPublish, PrepareDuplicate, SubscribeStart, UnsubscribeStart,
               Request, RequestFails, Disconnect, LoopYields, LoopSkipsYield, LoopStarts
      <3>3. ~Environment
        BY DEF Environment, CommandTimerExpires, KeepAliveTimerExpires, PowerCycle, Close,
               LinkReset, LinkStall, clientVars
      <3>4. Run => CommandAcked
        BY DEF Run, ReceivePublish, ReceiveAckToAnswer, ReceivePingresp, ReceiveOther, Receive,
               SendAck, SendAckFails, DropPacket, ReadPacketFails, ReadFails, ReadNothing,
               NextCycle, CommandRejected, CommandTimesOut, YieldEnds, NoPingDue, PongTimeout,
               SendPing, SendPingFails, Fail, Close
      <3> QED BY <3>1, <3>2, <3>3, <3>4 DEF Next
    <2>2. readBuf.type = cmd.needle /\ (cmd.op = "subscribe" => readBuf.ok)
      BY <2>1 DEF CommandAcked, Found, Verdict
    <2>3. /\ cmd.op = "subscribe" => cmd.needle = "SUBACK"
          /\ cmd.op = "unsubscribe" => cmd.needle = "UNSUBACK"
      BY DEF ExchangeInv, CommandNeedle
    <2> QED BY <2>2, <2>3 DEF SubsInv, Held, IsAnswer
  <1>3. Spec => []SubsInv
    BY <1>1, NextSubs, Exchange, TypeCorrect, PTL DEF Spec
  <1> HIDE DEF Honoured
  <1>4. Spec => [][Honoured]_vars
    BY <1>2, <1>3, Exchange, PTL DEF Spec
  <1> QED BY <1>4 DEF Honoured, SubscriptionHonoured

\* pong_pending mirrors the link, whatever was sent, lost or dropped before:
\* lwmqtt_connect clears it together with the link, and a PINGRESP is never
\* too long for read_buf.
THEOREM PongMirrorsLink == Spec => []PongPendingMirrorsLink
  <1>1. Init => BareAnswers /\ PongInv
    BY DEF Init, NetworkInit, BareAnswers, PongInv, SocketConnected
  <1>2. TypeOK /\ BareAnswers /\ PongInv /\ [Next]_vars => PongInv'
    <2> SUFFICES ASSUME TypeOK, BareAnswers, PongInv, [Next]_vars PROVE PongInv'
      OBVIOUS
    <2>1. CASE UNCHANGED vars
      BY <2>1 DEF vars, networkVars, clientVars, PongInv, SocketConnected, Pings, Pongs
    <2> QED BY <2>1, ClientPong, BrokerPong DEF Next, ClientStep
  <1>3. PongInv => PongPendingMirrorsLink
    <2> SUFFICES ASSUME PongInv PROVE PongPendingMirrorsLink
      OBVIOUS
    <2>1. ASSUME SocketConnected, ~pongPending PROVE PingsUnderWay = {}
      BY <2>1 DEF PongInv, Pings, Pongs, PingsUnderWay
    <2>2. ASSUME net = "open", pongPending PROVE Cardinality(PingsUnderWay) = 1
      <3>1. \E x : PingsUnderWay = {x}
        <4>1. SocketConnected
          BY <2>2 DEF SocketConnected
        <4>2. CASE Pings # {}
          <5>1. PICK i : Pings = {i} /\ Pongs = {}
            BY <2>2, <4>1, <4>2 DEF PongInv
          <5>2. PingsUnderWay = {<<"toBroker", i>>}
            BY <5>1 DEF Pings, Pongs, PingsUnderWay
          <5> QED BY <5>2
        <4>3. CASE Pings = {}
          <5>1. PICK j : Pongs = {j}
            BY <2>2, <4>1, <4>3 DEF PongInv
          <5>2. PingsUnderWay = {<<"toClient", j>>}
            BY <4>3, <5>1 DEF Pings, Pongs, PingsUnderWay
          <5> QED BY <5>2
        <4> QED BY <4>2, <4>3
      <3> QED BY <3>1, FS_Singleton
    <2> QED BY <2>1, <2>2 DEF PongPendingMirrorsLink
  <1> QED BY <1>1, <1>2, <1>3, NextBare, TypeCorrect, PTL DEF Spec

=============================================================================
