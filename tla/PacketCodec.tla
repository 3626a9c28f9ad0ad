---------------------------- MODULE PacketCodec ----------------------------
(***************************************************************************)
(* Packets on their way: one is encoded, by the client into a write buffer *)
(* of `room` bytes or by the broker, and its bytes arrive one by one in    *)
(* the reader's buffer, where older bytes may lie behind them.  Or bytes   *)
(* that nobody encoded arrive.  The decoders may be run at any moment.     *)
(***************************************************************************)
EXTENDS PacketFormat

CONSTANTS
  Requests,   \* what is encoded, records with the field op
  Rooms,      \* the sizes of the write buffer
  Stale,      \* older bytes in the reader's buffer
  AnyBytes,   \* bytes that nobody encoded: a function from positions to sets
  MaxCount    \* the number of filters the client asked for in a SUBSCRIBE

\* lwmqtt_string_t: the length has 16 bits.
Data == {s \in Seq(Bytes) : Len(s) \in Words}

\* What can be encoded: a will and the options of a CONNECT, a message, the
\* filters of a request, and the answers of a broker.
Will == [topic : Data, payload : Data, qos : 0..2, retained : BOOLEAN]

ConnectRequest == [op : {"CONNECT"}, clean : BOOLEAN, keepAlive : Words, id : Data,
                   will : {None} \cup Will, username : Data, password : Data]

PublishRequest ==
  {m \in [op : {"PUBLISH"}, dup : BOOLEAN, qos : 0..2, retained : BOOLEAN,
          packetId : Words, topic : Data, payload : Seq(Bytes)] : m.packetId = 0 <=> m.qos = 0}

SubscribeRequest ==
  {r \in [op : {"SUBSCRIBE"}, packetId : Words, filters : Seq(Data), qos : Seq(0..2)] :
     Len(r.qos) = Len(r.filters)}

UnsubscribeRequest == [op : {"UNSUBSCRIBE"}, packetId : Words, filters : Seq(Data)]

AckTypes == {"PUBACK", "PUBREC", "PUBREL", "PUBCOMP", "UNSUBACK"}

ShortRequest == [op : AckTypes, packetId : Words] \cup [op : {"PINGREQ", "DISCONNECT"}]

\* The packets of the broker, as the standard lays them out.
BrokerBody(r) ==
  IF r.op = "CONNACK" THEN <<Flag(r.sessionPresent), r.returnCode>>
                      ELSE Num(r.packetId) \o r.granted

BrokerPacket(r) ==
  <<Header(r.op, 0)>> \o VarnumBytes(Len(BrokerBody(r))) \o BrokerBody(r)

BrokerAnswer ==
  {r \in [op : {"CONNACK"}, sessionPresent : BOOLEAN, returnCode : 0..5]
         \cup [op : {"SUBACK"}, packetId : Words, granted : Seq({0, 1, 2, 128}) \ {<<>>}] :
     VarnumLength(Len(BrokerBody(r))) # 0}

ASSUME CodecAssumption ==
  /\ Requests \subseteq ConnectRequest \cup PublishRequest \cup SubscribeRequest
                        \cup UnsubscribeRequest \cup ShortRequest \cup BrokerAnswer
  /\ Rooms \subseteq Nat
  /\ Stale \subseteq Seq(Bytes)
  /\ \A i \in DOMAIN AnyBytes : AnyBytes[i] \subseteq Bytes
  /\ MaxCount \in Nat

VARIABLES
  request,    \* what is encoded, or None: the peer sends what it likes
  room,       \* the room for it
  sent,       \* what the encoder returned, with the bytes to send
  arrived     \* the reader's buffer

vars == <<request, room, sent, arrived>>

NotSent == [err |-> "none", bytes |-> <<>>]

Init ==
  /\ request \in Requests \cup {None}
  /\ room \in Rooms
  /\ sent = NotSent
  /\ arrived = <<>>

\* The encoder for a request, and what goes to the network: lwmqtt_publish
\* sends the payload behind the encoded bytes.
Encoded(r) ==
  LET e == CASE r.op = "CONNECT" -> EncodeConnect(r, room)
             [] r.op = "PUBLISH" -> EncodePublish(r, room)
             [] r.op = "SUBSCRIBE" -> EncodeSubscribe(r, room)
             [] r.op = "UNSUBSCRIBE" -> EncodeUnsubscribe(r, room)
             [] r.op \in AckTypes -> EncodeAck(r.op, r.packetId, room)
             [] r.op \in {"PINGREQ", "DISCONNECT"} -> EncodeZero(r.op, room)
             [] OTHER -> [err |-> Success, bytes |-> BrokerPacket(r)]
  IN IF r.op = "PUBLISH" /\ e.err = Success THEN [e EXCEPT !.bytes = @ \o r.payload] ELSE e

Send ==
  /\ request # None
  /\ sent = NotSent
  /\ sent' = Encoded(request)
  /\ UNCHANGED <<request, room, arrived>>

Arrive ==
  /\ sent.err = Success
  /\ Len(arrived) < Len(sent.bytes)
  /\ arrived' = Append(arrived, sent.bytes[Len(arrived) + 1])
  /\ UNCHANGED <<request, room, sent>>

\* What an earlier packet left in the buffer.
ArriveStale ==
  /\ sent.err = Success
  /\ Len(arrived) = Len(sent.bytes)
  /\ \E s \in Stale : arrived' = arrived \o s
  /\ UNCHANGED <<request, room, sent>>

ArriveAny ==
  /\ request = None
  /\ Len(arrived) + 1 \in DOMAIN AnyBytes
  /\ \E b \in AnyBytes[Len(arrived) + 1] : arrived' = Append(arrived, b)
  /\ UNCHANGED <<request, room, sent>>

Next == Send \/ Arrive \/ ArriveStale \/ ArriveAny

Spec == Init /\ [][Next]_vars

-----------------------------------------------------------------------------
(* How a peer that follows the standard reads the client's packets         *)

ByteAt(b, i) == IF i \in DOMAIN b THEN b[i] ELSE 0
NumAt(b, i) == 256 * ByteAt(b, i) + ByteAt(b, i + 1)
Behind(b, i) == i + 2 + NumAt(b, i)
StringAt(b, i) == [k \in 1..NumAt(b, i) |-> ByteAt(b, i + 1 + k)]

\* The optional field at i, and the position behind it.
BehindIf(cond, b, i) == IF cond THEN Behind(b, i) ELSE i
StringIf(cond, b, i) == IF cond THEN StringAt(b, i) ELSE <<>>

\* The body of a packet: what follows the remaining length.
Body(packet) == SubSeq(packet, ReadVarnum(packet, 2).next, Len(packet))

ConnectRead(b) ==
  LET flags == ByteAt(b, 8)
      bit(i) == ReadBits(flags, i, 1) = 1
      will == Behind(b, 11)
      payload == BehindIf(bit(2), b, will)
      user == BehindIf(bit(2), b, payload)
      password == BehindIf(bit(7), b, user)
      end == BehindIf(bit(6), b, password)
  IN [ wellFormed |-> /\ SubSeq(b, 1, 7) = <<0, 4, 77, 81, 84, 84, 4>>
                      /\ bit(6) => bit(7)
                      /\ ~bit(0)
                      /\ end = Len(b) + 1,
       request |-> [ op |-> "CONNECT", clean |-> bit(1), keepAlive |-> NumAt(b, 9),
                     id |-> StringAt(b, 11),
                     will |-> IF bit(2)
                                THEN [topic |-> StringAt(b, will), payload |-> StringAt(b, payload),
                                      qos |-> ReadBits(flags, 3, 2), retained |-> bit(5)]
                                ELSE None,
                     username |-> StringIf(bit(7), b, user),
                     password |-> StringIf(bit(6), b, password) ] ]

\* The positions of the n filters of a request with `each` bytes behind a filter.
FilterAt(b, n, each) ==
  LET at[i \in 1..(n + 1)] == IF i = 1 THEN 3 ELSE Behind(b, at[i - 1]) + each IN at

-----------------------------------------------------------------------------

Whole == sent.err = Success /\ arrived = sent.bytes

\* The remaining length in the fixed header of everything that is sent is the
\* number of bytes that follow it, payload included: each encoder computes it
\* from the request before it writes the fields.  A wrong one would put the
\* peer out of step with all packets after this one.
LengthIsTrue ==
  sent.err = Success =>
    LET n == ReadVarnum(sent.bytes, 2) IN
      n.err = Success /\ n.value = Left(sent.bytes, n.next)

\* A peer that reads a request by the standard finds in it what was asked
\* for: every option of connect() by the flags that announce it, every filter
\* with its QoS.
PeerUnderstands ==
  Whole =>
    LET b == Body(arrived)
        n == Len(request.filters)
    IN CASE request.op = "CONNECT" ->
              ConnectRead(b).wellFormed /\ ConnectRead(b).request = request
         [] request.op \in {"SUBSCRIBE", "UNSUBSCRIBE"} ->
              LET each == IF request.op = "SUBSCRIBE" THEN 1 ELSE 0
                  at == FilterAt(b, n, each)
              IN /\ NumAt(b, 1) = request.packetId
                 /\ at[n + 1] = Len(b) + 1
                 /\ \A i \in 1..n :
                      /\ StringAt(b, at[i]) = request.filters[i]
                      /\ each = 1 => ByteAt(b, at[i + 1] - 1) = request.qos[i]
         [] OTHER -> TRUE

\* The decoder for the packet of request r.
Decoded(r, buf) ==
  CASE r.op = "PUBLISH" -> DecodePublish(buf)
    [] r.op \in AckTypes -> DecodeAck(buf, r.op)
    [] r.op = "CONNACK" -> DecodeConnack(buf)
    [] r.op = "SUBACK" -> DecodeSuback(buf, MaxCount)

IsDecodable(r) == r.op \in AckTypes \cup {"PUBLISH", "CONNACK", "SUBACK"}

\* Decoding undoes encoding, whatever lies in the buffer behind the packet; a
\* packet of which bytes are missing is too short and never another packet.
\* Only a SUBACK with more codes than filters is refused.
DecodeInvertsEncode ==
  sent.err = Success /\ IsDecodable(request) =>
    LET d == Decoded(request, arrived) IN
      IF Len(arrived) < Len(sent.bytes)
        THEN d.err = TooShort \/ (request.op = "SUBACK" /\ d.err = SubackOverflow)
      ELSE IF request.op = "SUBACK" /\ Len(request.granted) > MaxCount
        THEN d.err = SubackOverflow
      ELSE /\ d.err = Success
           /\ \A f \in DOMAIN d \ {"err"} : d[f] = request[f]

\* On bytes of any origin a decoder that succeeds has found a packet that is
\* there: as many bytes as the remaining length says are in the buffer, the
\* fields fill them, and the type is one that lwmqtt_detect_packet_type lets
\* through.  (That no decoder looks behind the buffer shows in that it can be
\* evaluated on every prefix.)
DecodedIsThere ==
  LET n == ReadVarnum(arrived, 2)
      there(length) == n.value = length /\ Left(arrived, n.next) >= length
      connack == DecodeConnack(arrived)
      publish == DecodePublish(arrived)
      suback == DecodeSuback(arrived, MaxCount)
      found(type) == DetectType(arrived).err = Success /\ DetectType(arrived).type = type
  IN arrived # <<>> =>
       /\ connack.err = Success => there(2) /\ found("CONNACK")
       /\ suback.err = Success =>
            there(2 + Len(suback.granted)) /\ found("SUBACK") /\ Len(suback.granted) \in 1..MaxCount
       /\ publish.err = Success =>
            /\ there(2 + Len(publish.topic) + Len(publish.payload) + (IF publish.qos > 0 THEN 2 ELSE 0))
            /\ found("PUBLISH")
            /\ publish.qos > 0 <=> publish.packetId # 0
       /\ \A t \in AckTypes : DecodeAck(arrived, t).err = Success => there(2) /\ found(t)

=============================================================================
