---------------------------- MODULE PacketFormat ----------------------------
(***************************************************************************)
(* packet.c: how each control packet is encoded into a buffer with some    *)
(* room and decoded from the bytes of a buffer.  An encoder gives back     *)
(* [err, bytes], a decoder [err] and, with Success, what it found.  What a *)
(* decoder is given may be more or less than one packet: client.c hands    *)
(* the whole read buffer to every decoder.                                 *)
(***************************************************************************)
EXTENDS PacketHelpers

CONSTANT None   \* no will

\* lwmqtt_packet_type_t
TypeCode == [ CONNECT |-> 1, CONNACK |-> 2, PUBLISH |-> 3, PUBACK |-> 4, PUBREC |-> 5,
              PUBREL |-> 6, PUBCOMP |-> 7, SUBSCRIBE |-> 8, SUBACK |-> 9,
              UNSUBSCRIBE |-> 10, UNSUBACK |-> 11, PINGREQ |-> 12, PINGRESP |-> 13,
              DISCONNECT |-> 14 ]

Header(type, flags) == WriteBits(TypeCode[type], 4) + flags

\* The headers of a type, whatever the flags.
AnyHeader(type) == {Header(type, flags) : flags \in 0..15}

Flag(cond) == IF cond THEN 1 ELSE 0

-----------------------------------------------------------------------------
(* Encoders                                                                *)

Encode(header, length, fields, room) ==
  IF VarnumLength(length) = 0 THEN [err |-> LengthOverflow, bytes |-> <<>>]
  ELSE Write(<< <<header>>, VarnumBytes(length) >> \o fields, room)

EncodeZero(type, room) == Encode(Header(type, 0), 0, <<>>, room)

AckFlags(type) == IF type = "PUBREL" THEN 2 ELSE 0

EncodeAck(type, id, room) == Encode(Header(type, AckFlags(type)), 2, <<Num(id)>>, room)

\* Fault: a password alone has no user name field before it.
HasUserName(o) == o.username # <<>>

\* Is there a user name field?  Also a password alone needs one.
HasUser(o) == o.username # <<>> \/ o.password # <<>>
HasPassword(o) == o.password # <<>>
HasWill(o) == o.will # None

ConnectLength(o) ==
  10 + Len(o.id) + 2
  + (IF HasWill(o) THEN Len(o.will.topic) + 2 + Len(o.will.payload) + 2 ELSE 0)
  + (IF HasUser(o) THEN Len(o.username) + 2 ELSE 0)
  + (IF HasPassword(o) THEN Len(o.password) + 2 ELSE 0)

ConnectFlags(o) ==
  WriteBits(Flag(o.clean), 1)
  + (IF HasWill(o) THEN WriteBits(1, 2) + WriteBits(o.will.qos, 3)
                        + WriteBits(Flag(o.will.retained), 5) ELSE 0)
  + WriteBits(Flag(HasUser(o)), 7) + WriteBits(Flag(HasPassword(o)), 6)

Protocol == <<77, 81, 84, 84>>   \* "MQTT"

ConnectFields(o) ==
  Str(Protocol) \o << <<4, ConnectFlags(o)>>, Num(o.keepAlive) >> \o Str(o.id)
  \o (IF HasWill(o) THEN Str(o.will.topic) \o Str(o.will.payload) ELSE <<>>)
  \o (IF HasUser(o) THEN Str(o.username) ELSE <<>>)
  \o (IF HasPassword(o) THEN Str(o.password) ELSE <<>>)

EncodeConnect(o, room) ==
  Encode(Header("CONNECT", 0), ConnectLength(o), ConnectFields(o), room)

PublishFlags(m) ==
  WriteBits(Flag(m.dup), 3) + WriteBits(m.qos, 1) + WriteBits(Flag(m.retained), 0)

\* All but the payload, which lwmqtt_publish writes to the network by itself.
PublishFields(m) == Str(m.topic) \o (IF m.qos > 0 THEN <<Num(m.packetId)>> ELSE <<>>)

EncodePublish(m, room) ==
  Encode(Header("PUBLISH", PublishFlags(m)),
         2 + Len(m.topic) + Len(m.payload) + (IF m.qos > 0 THEN 2 ELSE 0),
         PublishFields(m), room)

\* Fault: what comes with a filter is counted once.
FiltersLengthOnce(filters, each) ==
  each + MapThenSumSet(LAMBDA i : Len(filters[i]), DOMAIN filters)

\* The sum over the filters of `each` plus their lengths.
FiltersLength(filters, each) ==
  LET ofFirst[n \in 0..Len(filters)] ==
        IF n = 0 THEN 0 ELSE ofFirst[n - 1] + each + Len(filters[n])
  IN ofFirst[Len(filters)]

\* The fields of the filters of a request, with their QoS or without.
SubscribeFields(r) == [i \in DOMAIN r.filters |-> Str(r.filters[i]) \o << <<r.qos[i]>> >>]
UnsubscribeFields(r) == [i \in DOMAIN r.filters |-> Str(r.filters[i])]

EncodeSubscribe(r, room) ==
  Encode(Header("SUBSCRIBE", 2), 2 + FiltersLength(r.filters, 3),
         << Num(r.packetId) >> \o FlattenSeq(SubscribeFields(r)), room)

EncodeUnsubscribe(r, room) ==
  Encode(Header("UNSUBSCRIBE", 2), 2 + FiltersLength(r.filters, 2),
         << Num(r.packetId) >> \o FlattenSeq(UnsubscribeFields(r)), room)

-----------------------------------------------------------------------------
(* Decoders                                                                *)

Failed(err) == [err |-> err]

\* The types a client can be sent; the first byte alone decides.
ReceivableTypes == {"CONNACK", "PUBLISH", "PUBACK", "PUBREC", "PUBREL", "PUBCOMP",
                    "SUBACK", "UNSUBACK", "PINGRESP"}

DetectType(buf) ==
  LET types == {t \in ReceivableTypes : TypeCode[t] = ReadBits(buf[1], 4, 4)} IN
    IF buf = <<>> THEN Failed(TooShort)
    ELSE IF types = {} THEN Failed(WrongPacket)
    ELSE [err |-> Success, type |-> CHOOSE t \in types : TRUE]

\* The header, if it is one of `headers`, and the remaining length.
Open(buf, headers) ==
  IF buf = <<>> THEN Failed(TooShort)
  ELSE IF buf[1] \notin headers THEN Failed(WrongPacket)
  ELSE LET n == ReadVarnum(buf, 2) IN [err |-> n.err, length |-> n.value, at |-> n.next]

DecodeConnack(buf) ==
  LET p == Open(buf, AnyHeader("CONNACK")) IN
    IF p.err # Success THEN Failed(p.err)
    ELSE IF p.length # 2 THEN Failed(LengthMismatch)
    ELSE IF Left(buf, p.at) < 2 THEN Failed(TooShort)
    ELSE [err |-> Success, sessionPresent |-> ReadBits(buf[p.at], 0, 1) = 1,
          returnCode |-> Min({buf[p.at + 1], 6})]

DecodeAck(buf, type) ==
  LET p == Open(buf, {Header(type, AckFlags(type))}) IN
    IF p.err # Success THEN Failed(p.err)
    ELSE IF p.length # 2 THEN Failed(LengthMismatch)
    ELSE IF Left(buf, p.at) < 2 THEN Failed(TooShort)
    ELSE [err |-> Success, packetId |-> ReadNum(buf, p.at)]

\* Fault: the end of the buffer is taken for the end of the packet.
PacketEndOfBuffer(buf, p) == Len(buf)

\* The last byte of the packet in the buffer.
PacketEnd(buf, p) == p.at + p.length - 1

DecodePublish(buf) ==
  LET p == Open(buf, {Header("PUBLISH", flags) : flags \in {f \in 0..15 : ReadBits(f, 1, 2) # 3}})
      end == PacketEnd(buf, p)
      qos == ReadBits(buf[1], 1, 2)
      topicEnd == p.at + 1 + ReadNum(buf, p.at)
      header == IF qos > 0 THEN topicEnd + 2 ELSE topicEnd
      id == IF qos > 0 THEN ReadNum(buf, topicEnd + 1) ELSE 0
  IN IF p.err # Success THEN Failed(p.err)
     ELSE IF p.length < 2 THEN Failed(LengthMismatch)
     ELSE IF Left(buf, p.at) < p.length THEN Failed(TooShort)
     ELSE IF header > end THEN Failed(TooShort)
     ELSE IF qos > 0 /\ id = 0 THEN Failed(WrongPacket)
     ELSE [err |-> Success, dup |-> ReadBits(buf[1], 3, 1) = 1, qos |-> qos,
           retained |-> ReadBits(buf[1], 0, 1) = 1, packetId |-> id,
           topic |-> SubSeq(buf, p.at + 2, topicEnd),
           payload |-> SubSeq(buf, header + 1, end)]

\* A code of a SUBACK: a granted QoS, or 128.
GrantedQoS(code) == IF code \in 0..2 THEN code ELSE 128

\* Fault: one code more than there is room for.
TooManyCodesLate(count, maxCount) == count > maxCount + 1

TooManyCodes(count, maxCount) == count > maxCount

\* At most maxCount codes: the one after them is an overflow, if it is there
\* or not.
DecodeSuback(buf, maxCount) ==
  LET p == Open(buf, AnyHeader("SUBACK"))
      count == p.length - 2
      present == Left(buf, p.at) - 2
  IN IF p.err # Success THEN Failed(p.err)
     ELSE IF p.length < 3 THEN Failed(LengthMismatch)
     ELSE IF present < 0 THEN Failed(TooShort)
     ELSE IF TooManyCodes(count, maxCount) /\ present >= maxCount THEN Failed(SubackOverflow)
     ELSE IF count > present THEN Failed(TooShort)
     ELSE [err |-> Success, packetId |-> ReadNum(buf, p.at),
           granted |-> [i \in 1..count |-> GrantedQoS(buf[p.at + 1 + i])]]

=============================================================================
