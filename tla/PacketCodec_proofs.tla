------------------------- MODULE PacketCodec_proofs -------------------------
(***************************************************************************)
(* Proofs about PacketCodec, for all requests, write buffers, stale and    *)
(* arbitrary bytes: what every encoder writes is a packet, that is, a      *)
(* header, the length of the body and the body; what has arrived is a      *)
(* beginning of it, perhaps with older bytes behind it; and what the       *)
(* decoders and the peer find is read off the bytes of the packet.         *)
(***************************************************************************)
EXTENDS PacketCodec, PacketFormat_proofs

-----------------------------------------------------------------------------
(* What the encoders write                                                 *)

\* An encoder has failed, or has written the packet with this header and body.
Framed(e, header, body) ==
  /\ header \in Bytes
  /\ body \in Seq(Bytes)
  /\ \/ e.err # Success /\ e.bytes = <<>>
     \/ /\ e.err = Success
        /\ VarnumLength(Len(body)) # 0
        /\ e.bytes = PacketOf(header, body)

LEMMA FramesFields ==
  ASSUME NEW header \in Bytes, NEW fields \in Seq(Seq(Bytes)), NEW space,
         NEW length \in Nat, length = Len(FlattenSeq(fields))
  PROVE  Framed(Encode(header, length, fields, space), header, FlattenSeq(fields))
<1> DEFINE e == Encode(header, length, fields, space)
<1> DEFINE flat == FlattenSeq(fields)
<1>1. flat \in Seq(Bytes)
  BY FlattenType
<1>2. \/ e.err # Success /\ e.bytes = <<>>
      \/ /\ e.err = Success
         /\ VarnumLength(length) # 0
         /\ e.bytes = <<header>> \o VarnumBytes(length) \o flat
  BY EncodeGives
<1>3. length = Len(flat)
  OBVIOUS
<1> HIDE DEF e, flat
<1>4. Framed(e, header, flat)
  BY <1>1, <1>2, <1>3 DEF Framed, PacketOf
<1> QED BY <1>4 DEF e, flat

LEMMA HeaderType ==
  \A type \in DOMAIN TypeCode : \A flags \in 0..15 : Header(type, flags) \in Bytes
<1> SUFFICES ASSUME NEW type \in DOMAIN TypeCode, NEW flags \in 0..15
             PROVE  Header(type, flags) \in Bytes
  OBVIOUS
<1>1. TypeCode[type] \in 1..14
  BY DEF TypeCode
<1>2. 2^4 = 16
  OBVIOUS
<1> QED BY <1>1, <1>2 DEF Header, WriteBits, Bytes

LEMMA FlattenNone == FlattenSeq(<<>>) = <<>>
<1>1. <<>> \in Seq(Seq(Bytes)) /\ Len(<<>>) = 0
  OBVIOUS
<1>2. \A s \in Seq(Seq(Bytes)) : Len(s) = 0 => FlattenSeq(s) = <<>>
  <2> TAKE s \in Seq(Seq(Bytes))
  <2>1. PICK g \in [0..Len(s) -> Seq(Bytes)] :
           /\ g[0] = <<>>
           /\ \A n \in 1..Len(s) : g[n] = g[n - 1] \o s[n]
    BY FlattenBy
  <2>2. FlattenSeq(s) = g[Len(s)]
    BY <2>1, FlattenIs
  <2> QED BY <2>1, <2>2
<1> QED BY <1>1, <1>2, Zenon

LEMMA FramesZero ==
  ASSUME NEW type \in {"PINGREQ", "DISCONNECT"}, NEW space
  PROVE  Framed(EncodeZero(type, space), Header(type, 0), <<>>)
<1>1. Header(type, 0) \in Bytes
  BY HeaderType DEF TypeCode
<1>2. <<>> \in Seq(Seq(Bytes)) /\ Len(<<>>) = 0
  OBVIOUS
<1> QED BY <1>1, <1>2, FlattenNone, FramesFields DEF EncodeZero

LEMMA FramesAck ==
  ASSUME NEW type \in AckTypes, NEW id \in Words, NEW space
  PROVE  Framed(EncodeAck(type, id, space), Header(type, AckFlags(type)), Num(id))
<1>1. AckFlags(type) \in 0..15 /\ type \in DOMAIN TypeCode
  BY DEF AckFlags, AckTypes, TypeCode
<1>2. Header(type, AckFlags(type)) \in Bytes
  BY <1>1, HeaderType
<1> DEFINE n == Num(id)
<1>3. n \in Seq(Bytes) /\ Len(n) = 2
  BY NumBytes
<1> HIDE DEF n
<1>4. <<n>> \in Seq(Seq(Bytes)) /\ FlattenSeq(<<n>>) = n
  BY <1>3, FlattenOne
<1>5. Framed(Encode(Header(type, AckFlags(type)), 2, <<n>>, space), Header(type, AckFlags(type)), n)
  BY <1>2, <1>3, <1>4, FramesFields
<1> QED BY <1>5 DEF n, EncodeAck

LEMMA DataIs == \A s \in Data : s \in Seq(Bytes) /\ Len(s) \in Words
BY DEF Data

LEMMA WordsAreNumbers == Words \subseteq Nat
BY WordRange

\* A string or nothing.
LEMMA FieldsIf ==
  ASSUME NEW cond \in BOOLEAN, NEW fields \in Seq(Seq(Bytes))
  PROVE  LET f == IF cond THEN fields ELSE <<>> IN
           /\ f \in Seq(Seq(Bytes))
           /\ FlattenSeq(f) = IF cond THEN FlattenSeq(fields) ELSE <<>>
BY FlattenNone

\* The body of a PUBLISH: the fields in front of the payload, and the payload.
PublishId(m) == IF m.qos > 0 THEN Num(m.packetId) ELSE <<>>
PublishFront(m) == Stretch(m.topic) \o PublishId(m)
PublishBody(m) == PublishFront(m) \o m.payload

LEMMA PublishTypes ==
  ASSUME NEW m \in PublishRequest
  PROVE  /\ m.op = "PUBLISH" /\ m.dup \in BOOLEAN /\ m.qos \in 0..2 /\ m.retained \in BOOLEAN
         /\ m.packetId \in Words /\ m.topic \in Data /\ m.payload \in Seq(Bytes)
         /\ m.packetId = 0 <=> m.qos = 0
BY Zenon DEF PublishRequest

LEMMA PublishFrontIs ==
  ASSUME NEW m \in PublishRequest
  PROVE  /\ PublishFields(m) \in Seq(Seq(Bytes))
         /\ FlattenSeq(PublishFields(m)) = PublishFront(m)
         /\ PublishId(m) \in Seq(Bytes)
         /\ Len(PublishId(m)) = IF m.qos > 0 THEN 2 ELSE 0
         /\ PublishFront(m) \in Seq(Bytes)
         /\ Len(PublishFront(m)) = 2 + Len(m.topic) + (IF m.qos > 0 THEN 2 ELSE 0)
<1>1. m.topic \in Seq(Bytes) /\ Len(m.topic) \in Words /\ m.packetId \in Words /\ m.qos \in 0..2
  BY PublishTypes, DataIs
<1> DEFINE t == Str(m.topic)
<1> DEFINE n == Num(m.packetId)
<1> DEFINE i == IF m.qos > 0 THEN <<n>> ELSE <<>>
<1>2. /\ t \in Seq(Seq(Bytes)) /\ FlattenSeq(t) = Stretch(m.topic)
      /\ Stretch(m.topic) \in Seq(Bytes) /\ Len(Stretch(m.topic)) = Len(m.topic) + 2
  BY <1>1, StrFields
<1>3. n \in Seq(Bytes) /\ Len(n) = 2
  BY <1>1, NumBytes
<1>4. <<n>> \in Seq(Seq(Bytes)) /\ FlattenSeq(<<n>>) = n
  <2> HIDE DEF n
  <2> QED BY <1>3, FlattenOne
<1>5. i \in Seq(Seq(Bytes)) /\ FlattenSeq(i) = PublishId(m)
  <2> HIDE DEF n
  <2>1. (m.qos > 0) \in BOOLEAN
    OBVIOUS
  <2>2. i \in Seq(Seq(Bytes)) /\ FlattenSeq(i) = IF m.qos > 0 THEN n ELSE <<>>
    BY <2>1, <1>4, FieldsIf
  <2> QED BY <2>2 DEF PublishId, n
<1>6. PublishId(m) \in Seq(Bytes) /\ Len(PublishId(m)) = IF m.qos > 0 THEN 2 ELSE 0
  <2> HIDE DEF n
  <2>1. PublishId(m) = IF m.qos > 0 THEN n ELSE <<>>
    BY DEF PublishId, n
  <2>2. <<>> \in Seq(Bytes) /\ Len(<<>>) = 0
    OBVIOUS
  <2>3. CASE m.qos > 0
    BY <2>1, <2>3, <1>3, Zenon
  <2>4. CASE ~(m.qos > 0)
    BY <2>1, <2>2, <2>4, Zenon
  <2> QED BY <2>3, <2>4
<1>7. PublishFields(m) = t \o i
  BY DEF PublishFields
<1> HIDE DEF t, i
<1>8. /\ t \o i \in Seq(Seq(Bytes))
      /\ FlattenSeq(t \o i) = FlattenSeq(t) \o FlattenSeq(i)
      /\ FlattenSeq(t \o i) \in Seq(Bytes)
      /\ Len(FlattenSeq(t \o i)) = Len(FlattenSeq(t)) + Len(FlattenSeq(i))
  BY <1>2, <1>5, FlattenJoin
<1>9. /\ PublishFields(m) \in Seq(Seq(Bytes))
      /\ FlattenSeq(PublishFields(m)) = PublishFront(m)
      /\ PublishFront(m) \in Seq(Bytes)
      /\ Len(PublishFront(m)) = Len(Stretch(m.topic)) + Len(PublishId(m))
  BY <1>2, <1>5, <1>7, <1>8, Zenon DEF PublishFront
<1>10. Len(m.topic) \in Nat
  BY <1>1, WordsAreNumbers
<1>11. Len(PublishFront(m)) = 2 + Len(m.topic) + (IF m.qos > 0 THEN 2 ELSE 0)
  <2> DEFINE extra == IF m.qos > 0 THEN 2 ELSE 0
  <2> DEFINE front == Len(PublishFront(m))
  <2> DEFINE topic == Len(m.topic)
  <2>1. extra \in Nat /\ topic \in Nat
    BY <1>10
  <2>2. front = (topic + 2) + extra
    BY <1>2, <1>6, <1>9, Zenon
  <2> HIDE DEF extra, front, topic
  <2>3. front = 2 + topic + extra
    BY <2>1, <2>2
  <2> QED BY <2>3 DEF extra, front, topic
<1> QED BY <1>6, <1>9, <1>11

LEMMA EncodeRecord ==
  ASSUME NEW header, NEW length, NEW fields, NEW space
  PROVE  \E err, bytes : Encode(header, length, fields, space) = [err |-> err, bytes |-> bytes]
BY DEF Encode, Write

LEMMA PublishHeader ==
  ASSUME NEW m \in PublishRequest
  PROVE  /\ PublishFlags(m) \in 0..15
         /\ PublishFlags(m) = 8 * Flag(m.dup) + 2 * m.qos + Flag(m.retained)
         /\ Header("PUBLISH", PublishFlags(m)) = 48 + PublishFlags(m)
         /\ Header("PUBLISH", PublishFlags(m)) \in Bytes
<1>1. m.dup \in BOOLEAN /\ m.qos \in 0..2 /\ m.retained \in BOOLEAN
  BY PublishTypes
<1>2. 2^3 = 8 /\ 2^1 = 2 /\ 2^0 = 1 /\ 2^4 = 16
  OBVIOUS
<1>3. Flag(m.dup) \in 0..1 /\ Flag(m.retained) \in 0..1
  BY <1>1 DEF Flag
<1>4. PublishFlags(m) = 8 * Flag(m.dup) + 2 * m.qos + Flag(m.retained)
  BY <1>1, <1>2, <1>3 DEF PublishFlags, WriteBits
<1>5. PublishFlags(m) \in 0..15
  BY <1>1, <1>3, <1>4
<1>6. TypeCode["PUBLISH"] = 3 /\ "PUBLISH" \in DOMAIN TypeCode
  BY DEF TypeCode
<1> QED BY <1>2, <1>4, <1>5, <1>6, HeaderType DEF Header, WriteBits

LEMMA FramesPublish ==
  ASSUME NEW m \in PublishRequest, NEW space
  PROVE  LET e == EncodePublish(m, space) IN
           Framed(IF e.err = Success THEN [e EXCEPT !.bytes = @ \o m.payload] ELSE e,
                  Header("PUBLISH", PublishFlags(m)), PublishBody(m))
<1> DEFINE header == Header("PUBLISH", PublishFlags(m))
<1> DEFINE length == 2 + Len(m.topic) + Len(m.payload) + (IF m.qos > 0 THEN 2 ELSE 0)
<1> DEFINE fields == PublishFields(m)
<1> DEFINE payload == m.payload
<1> DEFINE e == Encode(header, length, fields, space)
<1>1. header \in Bytes
  BY PublishHeader
<1>2. fields \in Seq(Seq(Bytes)) /\ FlattenSeq(fields) = PublishFront(m)
  BY PublishFrontIs
<1>3. payload \in Seq(Bytes) /\ Len(payload) \in Nat
  BY PublishTypes, LenProperties
<1>4. Len(m.topic) \in Nat /\ m.qos \in 0..2
  BY PublishTypes, DataIs, WordsAreNumbers
<1>5. length \in Nat /\ length = Len(PublishFront(m)) + Len(payload)
  <2> DEFINE extra == IF m.qos > 0 THEN 2 ELSE 0
  <2> DEFINE front == Len(PublishFront(m))
  <2> DEFINE topic == Len(m.topic)
  <2> DEFINE rest == Len(payload)
  <2>1. extra \in Nat /\ topic \in Nat /\ rest \in Nat
    BY <1>3, <1>4
  <2>2. front = 2 + topic + extra
    BY PublishFrontIs
  <2>3. length = 2 + topic + rest + extra
    OBVIOUS
  <2> HIDE DEF extra, front, topic, rest, length
  <2>4. length \in Nat /\ length = front + rest
    BY <2>1, <2>2, <2>3
  <2> QED BY <2>4 DEF front, rest
<1>6. EncodePublish(m, space) = e
  BY DEF EncodePublish
<1> HIDE DEF header, length, fields
<1>7. PICK err, bytes : e = [err |-> err, bytes |-> bytes]
  BY EncodeRecord
<1> HIDE DEF e
<1>8. SentAs(e, header, FlattenSeq(fields) \o payload, payload)
  <2>1. length = Len(FlattenSeq(fields)) + Len(payload)
    BY <1>2, <1>5
  <2>2. /\ header \in Bytes /\ fields \in Seq(Seq(Bytes))
        /\ payload \in Seq(Bytes) /\ length \in Nat
    BY <1>1, <1>2, <1>3, <1>5
  <2> HIDE DEF payload
  <2> QED BY <2>1, <2>2, EncodeFrames DEF e
<1>9. FlattenSeq(fields) \o payload = PublishBody(m)
  BY <1>2 DEF PublishBody
<1> DEFINE whole == [e EXCEPT !.bytes = @ \o payload]
<1>10. whole.err = e.err /\ whole.bytes = e.bytes \o payload
  <2> HIDE DEF payload
  <2> QED BY <1>7
<1> HIDE DEF whole
<1>11. Framed(IF e.err = Success THEN whole ELSE e, header, PublishBody(m))
  BY <1>1, <1>8, <1>9, <1>10, Zenon DEF Framed, SentAs
<1> QED BY <1>6, <1>11, Zenon DEF whole, header

\* A string that is there only under a condition, on the wire.
StretchIf(cond, s) == IF cond THEN Stretch(s) ELSE <<>>

LEMMA StrFieldsIf ==
  ASSUME NEW cond \in BOOLEAN, NEW s, cond => s \in Data
  PROVE  LET f == IF cond THEN Str(s) ELSE <<>> IN
           /\ f \in Seq(Seq(Bytes))
           /\ FlattenSeq(f) = StretchIf(cond, s)
           /\ StretchIf(cond, s) \in Seq(Bytes)
           /\ Len(StretchIf(cond, s)) = IF cond THEN Len(s) + 2 ELSE 0
<1>1. CASE cond
  <2>1. s \in Seq(Bytes) /\ Len(s) \in Words
    BY <1>1, DataIs
  <2>2. /\ Str(s) \in Seq(Seq(Bytes)) /\ FlattenSeq(Str(s)) = Stretch(s)
        /\ Stretch(s) \in Seq(Bytes) /\ Len(Stretch(s)) = Len(s) + 2
    BY <2>1, StrFields
  <2> QED BY <1>1, <2>2, Zenon DEF StretchIf
<1>2. CASE ~cond
  <2>1. <<>> \in Seq(Bytes) /\ <<>> \in Seq(Seq(Bytes)) /\ Len(<<>>) = 0
    OBVIOUS
  <2>2. StretchIf(cond, s) = <<>>
    BY <1>2 DEF StretchIf
  <2>3. (IF cond THEN Str(s) ELSE <<>>) = <<>> /\ (IF cond THEN Len(s) + 2 ELSE 0) = 0
    BY <1>2
  <2> QED BY <2>1, <2>2, <2>3, FlattenNone, Zenon
<1> QED BY <1>1, <1>2

LEMMA ConnectTypes ==
  ASSUME NEW o \in ConnectRequest
  PROVE  /\ o.op = "CONNECT" /\ o.clean \in BOOLEAN /\ o.keepAlive \in Words
         /\ o.id \in Data /\ o.username \in Data /\ o.password \in Data
         /\ HasWill(o) \in BOOLEAN
         /\ HasWill(o) => /\ o.will \in Will
                          /\ o.will.topic \in Data /\ o.will.payload \in Data
                          /\ o.will.qos \in 0..2 /\ o.will.retained \in BOOLEAN
BY Zenon DEF ConnectRequest, HasWill, Will

LEMMA ConnectFlagsByte ==
  ASSUME NEW o \in ConnectRequest
  PROVE  /\ ConnectFlags(o) =
              2 * Flag(o.clean)
              + (IF HasWill(o) THEN 4 + 8 * o.will.qos + 32 * Flag(o.will.retained) ELSE 0)
              + 128 * Flag(HasUser(o)) + 64 * Flag(HasPassword(o))
         /\ ConnectFlags(o) \in Bytes
<1>1. 2^1 = 2 /\ 2^2 = 4 /\ 2^3 = 8 /\ 2^5 = 32 /\ 2^6 = 64 /\ 2^7 = 128
  OBVIOUS
<1>2. \A cond : Flag(cond) \in 0..1
  BY DEF Flag
<1>3. HasWill(o) => o.will.qos \in 0..2
  BY ConnectTypes
<1>4. CASE HasWill(o)
  BY <1>1, <1>2, <1>3, <1>4 DEF ConnectFlags, WriteBits, Bytes
<1>5. CASE ~HasWill(o)
  BY <1>1, <1>2, <1>5 DEF ConnectFlags, WriteBits, Bytes
<1> QED BY <1>4, <1>5

\* The body of a CONNECT.
ConnectNumbers(o) == <<4, ConnectFlags(o)>> \o Num(o.keepAlive)
WillBody(o) == IF HasWill(o) THEN Stretch(o.will.topic) \o Stretch(o.will.payload) ELSE <<>>
ConnectBody(o) ==
  Stretch(Protocol) \o ConnectNumbers(o) \o Stretch(o.id) \o WillBody(o)
  \o StretchIf(HasUser(o), o.username) \o StretchIf(HasPassword(o), o.password)

LEMMA ProtocolFields ==
  /\ Protocol \in Data /\ Len(Protocol) = 4
  /\ Str(Protocol) \in Seq(Seq(Bytes))
  /\ FlattenSeq(Str(Protocol)) = Stretch(Protocol)
  /\ Stretch(Protocol) \in Seq(Bytes)
  /\ Len(Stretch(Protocol)) = 6
<1>1. Protocol \in Seq(Bytes) /\ Len(Protocol) = 4
  BY DEF Protocol, Bytes
<1>2. 4 \in Words
  BY WordRange
<1>3. Len(Protocol) \in Words
  BY <1>1, <1>2
<1>4. /\ Str(Protocol) \in Seq(Seq(Bytes)) /\ FlattenSeq(Str(Protocol)) = Stretch(Protocol)
      /\ Stretch(Protocol) \in Seq(Bytes) /\ Len(Stretch(Protocol)) = Len(Protocol) + 2
  BY <1>1, <1>3, StrFields
<1>5. Protocol \in Data
  BY <1>1, <1>3 DEF Data
<1>6. Len(Stretch(Protocol)) = 6
  BY <1>1, <1>4
<1> QED BY <1>1, <1>4, <1>5, <1>6, Zenon

LEMMA NumberFields ==
  ASSUME NEW o \in ConnectRequest
  PROVE  LET f == << <<4, ConnectFlags(o)>>, Num(o.keepAlive) >> IN
           /\ f \in Seq(Seq(Bytes))
           /\ FlattenSeq(f) = ConnectNumbers(o)
           /\ ConnectNumbers(o) \in Seq(Bytes)
           /\ Len(ConnectNumbers(o)) = 4
<1> DEFINE a == <<4, ConnectFlags(o)>>
<1> DEFINE n == Num(o.keepAlive)
<1>1. a \in Seq(Bytes) /\ Len(a) = 2
  <2>1. 4 \in Bytes
    BY DEF Bytes
  <2>2. ConnectFlags(o) \in Bytes
    BY ConnectFlagsByte
  <2> QED BY <2>1, <2>2
<1>2. n \in Seq(Bytes) /\ Len(n) = 2
  BY ConnectTypes, NumBytes
<1>3. ConnectNumbers(o) = a \o n
  BY DEF ConnectNumbers
<1> HIDE DEF a, n
<1>4. <<a, n>> \in Seq(Seq(Bytes))
  BY <1>1, <1>2
<1>5. FlattenSeq(<<a, n>>) = a \o n
  BY <1>1, <1>2, FlattenTwo
<1>6. a \o n \in Seq(Bytes) /\ Len(a \o n) = Len(a) + Len(n)
  BY <1>1, <1>2, ConcatProperties
<1>7. Len(a \o n) = 4
  BY <1>1, <1>2, <1>6
<1>8. LET f == <<a, n>> IN
        /\ f \in Seq(Seq(Bytes))
        /\ FlattenSeq(f) = ConnectNumbers(o)
        /\ ConnectNumbers(o) \in Seq(Bytes)
        /\ Len(ConnectNumbers(o)) = 4
  BY <1>3, <1>4, <1>5, <1>6, <1>7, Zenon
<1> QED BY <1>8 DEF a, n

LEMMA WillFields ==
  ASSUME NEW o \in ConnectRequest
  PROVE  LET f == IF HasWill(o) THEN Str(o.will.topic) \o Str(o.will.payload) ELSE <<>> IN
           /\ f \in Seq(Seq(Bytes))
           /\ FlattenSeq(f) = WillBody(o)
           /\ WillBody(o) \in Seq(Bytes)
           /\ Len(WillBody(o)) =
                IF HasWill(o) THEN Len(o.will.topic) + 2 + Len(o.will.payload) + 2 ELSE 0
<1>1. CASE HasWill(o)
  <2> DEFINE t == Str(o.will.topic)
  <2> DEFINE p == Str(o.will.payload)
  <2>1. /\ o.will.topic \in Seq(Bytes) /\ Len(o.will.topic) \in Words
        /\ o.will.payload \in Seq(Bytes) /\ Len(o.will.payload) \in Words
    BY <1>1, ConnectTypes, DataIs
  <2>2. /\ t \in Seq(Seq(Bytes)) /\ FlattenSeq(t) = Stretch(o.will.topic)
        /\ Len(Stretch(o.will.topic)) = Len(o.will.topic) + 2
    BY <2>1, StrFields
  <2>3. /\ p \in Seq(Seq(Bytes)) /\ FlattenSeq(p) = Stretch(o.will.payload)
        /\ Len(Stretch(o.will.payload)) = Len(o.will.payload) + 2
    BY <2>1, StrFields
  <2> HIDE DEF t, p
  <2>4. /\ t \o p \in Seq(Seq(Bytes))
        /\ FlattenSeq(t \o p) = FlattenSeq(t) \o FlattenSeq(p)
        /\ FlattenSeq(t \o p) \in Seq(Bytes)
        /\ Len(FlattenSeq(t \o p)) = Len(FlattenSeq(t)) + Len(FlattenSeq(p))
    BY <2>2, <2>3, FlattenJoin
  <2>5. WillBody(o) = FlattenSeq(t \o p)
    BY <1>1, <2>2, <2>3, <2>4, Zenon DEF WillBody
  <2>6. Len(WillBody(o)) = Len(o.will.topic) + 2 + Len(o.will.payload) + 2
    <3> DEFINE x == Len(o.will.topic)
    <3> DEFINE y == Len(o.will.payload)
    <3>1. x \in Nat /\ y \in Nat
      BY <2>1, WordsAreNumbers
    <3>2. Len(WillBody(o)) = (x + 2) + (y + 2)
      BY <2>2, <2>3, <2>4, <2>5, Zenon
    <3> HIDE DEF x, y
    <3>3. Len(WillBody(o)) = x + 2 + y + 2
      BY <3>1, <3>2
    <3> QED BY <3>3 DEF x, y
  <2> QED BY <1>1, <2>4, <2>5, <2>6, Zenon DEF t, p
<1>2. CASE ~HasWill(o)
  <2>1. <<>> \in Seq(Bytes) /\ <<>> \in Seq(Seq(Bytes)) /\ Len(<<>>) = 0
    OBVIOUS
  <2>2. WillBody(o) = <<>>
    BY <1>2 DEF WillBody
  <2>3. /\ (IF HasWill(o) THEN Str(o.will.topic) \o Str(o.will.payload) ELSE <<>>) = <<>>
        /\ (IF HasWill(o) THEN Len(o.will.topic) + 2 + Len(o.will.payload) + 2 ELSE 0) = 0
    BY <1>2
  <2> QED BY <2>1, <2>2, <2>3, FlattenNone, Zenon
<1> QED BY <1>1, <1>2

\* These fields write this body, of this length.
Writes(fields, body, length) ==
  fields \in Seq(Seq(Bytes)) /\ FlattenSeq(fields) = body /\ Len(body) = length

LEMMA WritesBehind ==
  \A s, t, x, y, m, n : Writes(s, x, m) /\ Writes(t, y, n) => Writes(s \o t, x \o y, m + n)
<1> SUFFICES ASSUME NEW s, NEW t, NEW x, NEW y, NEW m, NEW n, Writes(s, x, m), Writes(t, y, n)
             PROVE  Writes(s \o t, x \o y, m + n)
  OBVIOUS
<1>1. /\ s \in Seq(Seq(Bytes)) /\ FlattenSeq(s) = x /\ Len(x) = m
      /\ t \in Seq(Seq(Bytes)) /\ FlattenSeq(t) = y /\ Len(y) = n
  BY DEF Writes
<1>2. /\ s \o t \in Seq(Seq(Bytes))
      /\ FlattenSeq(s \o t) = FlattenSeq(s) \o FlattenSeq(t)
      /\ Len(FlattenSeq(s \o t)) = Len(FlattenSeq(s)) + Len(FlattenSeq(t))
  BY <1>1, FlattenJoin
<1>3. FlattenSeq(s \o t) = x \o y
  BY <1>1, <1>2, Zenon
<1>4. Len(x \o y) = m + n
  BY <1>1, <1>2, <1>3, Zenon
<1> QED BY <1>2, <1>3, <1>4, Zenon DEF Writes

LEMMA ConnectBodyIs ==
  ASSUME NEW o \in ConnectRequest
  PROVE  /\ Writes(ConnectFields(o), ConnectBody(o), ConnectLength(o))
         /\ ConnectLength(o) \in Nat
<1> DEFINE user == StretchIf(HasUser(o), o.username)
<1> DEFINE password == StretchIf(HasPassword(o), o.password)
<1> DEFINE idLength == Len(o.id)
<1> DEFINE willLength == IF HasWill(o) THEN Len(o.will.topic) + 2 + Len(o.will.payload) + 2 ELSE 0
<1> DEFINE userLength == IF HasUser(o) THEN Len(o.username) + 2 ELSE 0
<1> DEFINE passwordLength == IF HasPassword(o) THEN Len(o.password) + 2 ELSE 0
<1> DEFINE f1 == Str(Protocol)
<1> DEFINE f2 == << <<4, ConnectFlags(o)>>, Num(o.keepAlive) >>
<1> DEFINE f3 == Str(o.id)
<1> DEFINE f4 == IF HasWill(o) THEN Str(o.will.topic) \o Str(o.will.payload) ELSE <<>>
<1> DEFINE f5 == IF HasUser(o) THEN Str(o.username) ELSE <<>>
<1> DEFINE f6 == IF HasPassword(o) THEN Str(o.password) ELSE <<>>
<1> DEFINE b1 == Stretch(Protocol)
<1> DEFINE b2 == ConnectNumbers(o)
<1> DEFINE b3 == Stretch(o.id)
<1> DEFINE b4 == WillBody(o)
<1>1. Writes(f1, b1, 6)
  BY ProtocolFields DEF Writes
<1>2. Writes(f2, b2, 4)
  BY NumberFields DEF Writes
<1>3. Writes(f3, b3, idLength + 2)
  <2>1. o.id \in Seq(Bytes) /\ Len(o.id) \in Words
    BY ConnectTypes, DataIs
  <2> QED BY <2>1, StrFields DEF Writes
<1>4. Writes(f4, b4, willLength)
  BY WillFields DEF Writes
<1>5. Writes(f5, user, userLength)
  <2>1. HasUser(o) \in BOOLEAN /\ o.username \in Data
    BY ConnectTypes DEF HasUser
  <2> QED BY <2>1, StrFieldsIf DEF Writes
<1>6. Writes(f6, password, passwordLength)
  <2>1. HasPassword(o) \in BOOLEAN /\ o.password \in Data
    BY ConnectTypes DEF HasPassword
  <2> QED BY <2>1, StrFieldsIf DEF Writes
<1>7. ConnectFields(o) = f1 \o f2 \o f3 \o f4 \o f5 \o f6
  BY DEF ConnectFields
<1>8. ConnectBody(o) = b1 \o b2 \o b3 \o b4 \o user \o password
  BY DEF ConnectBody
<1>9. ConnectLength(o) = 10 + idLength + 2 + willLength + userLength + passwordLength
  BY DEF ConnectLength
<1>10. idLength \in Nat /\ willLength \in Nat /\ userLength \in Nat /\ passwordLength \in Nat
  <2> DEFINE name == Len(o.username)
  <2> DEFINE word == Len(o.password)
  <2> DEFINE topic == Len(o.will.topic)
  <2> DEFINE payload == Len(o.will.payload)
  <2>1. \A s \in Data : Len(s) \in Nat
    BY DataIs, WordsAreNumbers
  <2>2. /\ idLength \in Nat /\ name \in Nat /\ word \in Nat
        /\ HasWill(o) => topic \in Nat /\ payload \in Nat
    BY <2>1, ConnectTypes, Zenon
  <2>3. /\ willLength = IF HasWill(o) THEN topic + 2 + payload + 2 ELSE 0
        /\ userLength = IF HasUser(o) THEN name + 2 ELSE 0
        /\ passwordLength = IF HasPassword(o) THEN word + 2 ELSE 0
    OBVIOUS
  <2> HIDE DEF idLength, willLength, userLength, passwordLength, name, word, topic, payload
  <2> QED BY <2>2, <2>3
<1> HIDE DEF user, password, idLength, willLength, userLength, passwordLength, f1, f2, f3, f4, f5, f6, b1, b2, b3, b4
<1>11. Writes(f1 \o f2, b1 \o b2, 6 + 4)
  BY <1>1, <1>2, WritesBehind, Zenon
<1>12. Writes(f1 \o f2 \o f3, b1 \o b2 \o b3, 6 + 4 + (idLength + 2))
  BY <1>11, <1>3, WritesBehind, Zenon
<1>13. Writes(f1 \o f2 \o f3 \o f4, b1 \o b2 \o b3 \o b4, 6 + 4 + (idLength + 2) + willLength)
  BY <1>12, <1>4, WritesBehind, Zenon
<1>14. Writes(f1 \o f2 \o f3 \o f4 \o f5, b1 \o b2 \o b3 \o b4 \o user,
              6 + 4 + (idLength + 2) + willLength + userLength)
  BY <1>13, <1>5, WritesBehind, Zenon
<1>15. Writes(f1 \o f2 \o f3 \o f4 \o f5 \o f6, b1 \o b2 \o b3 \o b4 \o user \o password,
              6 + 4 + (idLength + 2) + willLength + userLength + passwordLength)
  BY <1>14, <1>6, WritesBehind, Zenon
<1>16. ConnectLength(o) = 6 + 4 + (idLength + 2) + willLength + userLength + passwordLength
  BY <1>9, <1>10
<1>17. ConnectLength(o) \in Nat
  BY <1>9, <1>10
<1> QED BY <1>7, <1>8, <1>15, <1>16, <1>17, Zenon

LEMMA FramesConnect ==
  ASSUME NEW o \in ConnectRequest, NEW space
  PROVE  Framed(EncodeConnect(o, space), Header("CONNECT", 0), ConnectBody(o))
<1>1. Header("CONNECT", 0) \in Bytes
  BY HeaderType DEF TypeCode
<1> DEFINE fields == ConnectFields(o)
<1>2. /\ fields \in Seq(Seq(Bytes)) /\ FlattenSeq(fields) = ConnectBody(o)
      /\ ConnectLength(o) \in Nat /\ ConnectLength(o) = Len(FlattenSeq(fields))
  BY ConnectBodyIs DEF Writes
<1> HIDE DEF fields
<1>3. Framed(Encode(Header("CONNECT", 0), ConnectLength(o), fields, space), Header("CONNECT", 0), FlattenSeq(fields))
  BY <1>1, <1>2, FramesFields
<1> QED BY <1>2, <1>3, Zenon DEF EncodeConnect, fields

\* What a list of lists of fields writes is what its lists write, one after
\* the other.
Grows(g, bodies, n) ==
  /\ g \in [0..n -> Seq(Bytes)]
  /\ g[0] = <<>>
  /\ \A k \in 1..n : g[k] = g[k - 1] \o bodies[k]

LEMMA ListsWrite ==
  ASSUME NEW lists \in Seq(Seq(Seq(Bytes)))
  PROVE  \E g : /\ Grows(g, [k \in 1..Len(lists) |-> FlattenSeq(lists[k])], Len(lists))
                /\ FlattenSeq(lists) \in Seq(Seq(Bytes))
                /\ FlattenSeq(FlattenSeq(lists)) = g[Len(lists)]
<1> DEFINE n == Len(lists)
<1>1. n \in Nat
  BY LenProperties
<1>2. PICK f \in [0..n -> Seq(Seq(Bytes))] :
         /\ f[0] = <<>>
         /\ \A k \in 1..n : f[k] = f[k - 1] \o lists[k]
  BY FlattenBy
<1>3. FlattenSeq(lists) = f[n]
  BY <1>2, FlattenIs
<1>4. \A k \in 1..n : lists[k] \in Seq(Seq(Bytes))
  OBVIOUS
<1> DEFINE g == [k \in 0..n |-> FlattenSeq(f[k])]
<1> DEFINE bodies == [k \in 1..n |-> FlattenSeq(lists[k])]
<1> HIDE DEF n
<1>5. g \in [0..n -> Seq(Bytes)]
  <2>1. \A k \in 0..n : FlattenSeq(f[k]) \in Seq(Bytes)
    <3> TAKE k \in 0..n
    <3>1. f[k] \in Seq(Seq(Bytes))
      BY <1>2
    <3> QED BY <3>1, FlattenType
  <2> QED BY <2>1
<1>6. g[0] = <<>>
  <2>1. g[0] = FlattenSeq(f[0])
    BY <1>1
  <2> QED BY <2>1, <1>2, FlattenNone, Zenon
<1>7. \A k \in 1..n : g[k] = g[k - 1] \o bodies[k]
  <2> TAKE k \in 1..n
  <2> DEFINE s == f[k - 1]
  <2> DEFINE t == lists[k]
  <2>1. k - 1 \in 0..n /\ k \in 0..n
    BY <1>1
  <2>2. s \in Seq(Seq(Bytes)) /\ t \in Seq(Seq(Bytes)) /\ f[k] = s \o t
    BY <2>1, <1>2, <1>4
  <2>3. g[k] = FlattenSeq(f[k]) /\ g[k - 1] = FlattenSeq(s) /\ bodies[k] = FlattenSeq(t)
    BY <2>1
  <2> HIDE DEF s, t, g, bodies
  <2>4. FlattenSeq(s \o t) = FlattenSeq(s) \o FlattenSeq(t)
    BY <2>2, FlattenJoin
  <2> QED BY <2>2, <2>3, <2>4, Zenon
<1>8. g[n] = FlattenSeq(f[n]) /\ f[n] \in Seq(Seq(Bytes))
  BY <1>1, <1>2
<1>9. Grows(g, bodies, n) /\ FlattenSeq(lists) \in Seq(Seq(Bytes)) /\ FlattenSeq(FlattenSeq(lists)) = g[n]
  <2> HIDE DEF g, bodies
  <2> QED BY <1>3, <1>5, <1>6, <1>7, <1>8, Zenon DEF Grows
<1> QED BY <1>9 DEF n

\* The sum over the filters.
SumsUp(f, filters, each) ==
  f = [n \in 0..Len(filters) |-> IF n = 0 THEN 0 ELSE f[n - 1] + each + Len(filters[n])]

LEMMA FiltersLengthIs ==
  ASSUME NEW filters \in Seq(Data), NEW each \in Nat, NEW bodies, NEW g,
         Grows(g, bodies, Len(filters)),
         \A k \in 1..Len(filters) : bodies[k] \in Seq(Bytes) /\ Len(bodies[k]) = Len(filters[k]) + each
  PROVE  FiltersLength(filters, each) = Len(g[Len(filters)])
<1> DEFINE n == Len(filters)
<1>1. n \in Nat
  BY LenProperties
<1>2. \A k \in 1..n : Len(filters[k]) \in Nat
  <2> TAKE k \in 1..n
  <2>1. filters[k] \in Data
    OBVIOUS
  <2> QED BY <2>1, DataIs, WordsAreNumbers
<1> DEFINE L(k) == Len(filters[k])
<1>3. /\ g \in [0..n -> Seq(Bytes)] /\ g[0] = <<>>
      /\ \A k \in 1..n : g[k] = g[k - 1] \o bodies[k]
      /\ \A k \in 1..n : bodies[k] \in Seq(Bytes) /\ Len(bodies[k]) = L(k) + each
  BY DEF Grows
<1>4. \A k \in 1..n : L(k) \in Nat
  BY <1>2
<1>5. \A f : SumsUp(f, filters, each) <=> f = [k \in 0..n |-> IF k = 0 THEN 0 ELSE f[k - 1] + each + L(k)]
  BY DEF SumsUp
<1>6. FiltersLength(filters, each) = (CHOOSE f : SumsUp(f, filters, each))[n]
  BY DEF FiltersLength, SumsUp
<1> HIDE DEF n, L
<1>7. \A k \in 1..n : Len(g[k]) = Len(g[k - 1]) + each + L(k)
  <2> TAKE k \in 1..n
  <2> DEFINE a == g[k - 1]
  <2> DEFINE b == bodies[k]
  <2>1. k - 1 \in 0..n
    BY <1>1
  <2>2. a \in Seq(Bytes) /\ b \in Seq(Bytes) /\ g[k] = a \o b /\ Len(b) = L(k) + each
    BY <1>3, <2>1
  <2> HIDE DEF a, b
  <2>3. Len(a \o b) = Len(a) + Len(b) /\ Len(a) \in Nat
    BY <2>2, ConcatProperties, LenProperties
  <2>4. L(k) \in Nat
    BY <1>4
  <2>5. Len(g[k]) = Len(a) + each + L(k)
    BY <2>2, <2>3, <2>4
  <2> QED BY <2>5 DEF a
<1>8. Len(g[0]) = 0
  BY <1>3
<1> DEFINE sum == [k \in 0..n |-> Len(g[k])]
<1>9. SumsUp(sum, filters, each)
  <2>1. \A k \in 0..n : Len(g[k]) = IF k = 0 THEN 0 ELSE sum[k - 1] + each + L(k)
    <3> TAKE k \in 0..n
    <3>1. CASE k = 0
      BY <3>1, <1>8
    <3>2. CASE k # 0
      <4>1. k \in 1..n /\ k - 1 \in 0..n
        BY <3>2, <1>1
      <4>2. sum[k - 1] = Len(g[k - 1])
        BY <4>1
      <4> HIDE DEF sum
      <4> QED BY <4>1, <4>2, <1>7, <3>2
    <3> QED BY <3>1, <3>2
  <2>2. sum = [k \in 0..n |-> IF k = 0 THEN 0 ELSE sum[k - 1] + each + L(k)]
    BY <2>1, Zenon
  <2> HIDE DEF sum
  <2> QED BY <2>2, <1>5, Zenon
<1> DEFINE c == CHOOSE f : SumsUp(f, filters, each)
<1>10. SumsUp(c, filters, each)
  <2> HIDE DEF sum
  <2> QED BY <1>9
<1> HIDE DEF c, sum
<1>11. \A k \in 0..n : c[k] = IF k = 0 THEN 0 ELSE c[k - 1] + each + L(k)
  <2>1. c = [k \in 0..n |-> IF k = 0 THEN 0 ELSE c[k - 1] + each + L(k)]
    BY <1>5, <1>10, Zenon
  <2> QED BY <2>1, Zenon
<1> DEFINE S == {k \in 0..n : c[k] = Len(g[k])}
<1>12. 0 \in S
  BY <1>1, <1>8, <1>11
<1>13. \A k \in 0..(n - 1) : k \in S => k + 1 \in S
  <2> TAKE k \in 0..(n - 1)
  <2> HAVE k \in S
  <2>1. k + 1 \in 1..n /\ k + 1 \in 0..n /\ (k + 1) - 1 = k
    BY <1>1
  <2>2. c[k + 1] = c[k] + each + L(k + 1)
    BY <1>11, <2>1
  <2>3. Len(g[k + 1]) = Len(g[k]) + each + L(k + 1)
    BY <1>7, <2>1
  <2> QED BY <2>1, <2>2, <2>3
<1> HIDE DEF S
<1>14. \A k \in 0..n : k \in S
  BY <1>1, <1>12, <1>13, InductionUpTo
<1>15. c[n] = Len(g[n])
  BY <1>1, <1>14 DEF S
<1> QED BY <1>6, <1>15 DEF c, n

LEMMA SequenceOf ==
  ASSUME NEW S, NEW n \in Nat, NEW f \in [1..n -> S]
  PROVE  f \in Seq(S) /\ Len(f) = n
OBVIOUS

\* A request with filters: its number, and what comes with each filter.
LEMMA FramesFilters ==
  ASSUME NEW type \in {"SUBSCRIBE", "UNSUBSCRIBE"}, NEW id \in Words, NEW filters \in Seq(Data),
         NEW each \in Nat, NEW lists, NEW bodies, NEW space,
         lists \in [1..Len(filters) -> Seq(Seq(Bytes))], DOMAIN bodies = 1..Len(filters),
         bodies = [k \in DOMAIN bodies |-> bodies[k]],
         \A k \in 1..Len(filters) : Writes(lists[k], bodies[k], Len(filters[k]) + each)
  PROVE  \E g : /\ Grows(g, bodies, Len(filters))
                /\ Framed(Encode(Header(type, 2), 2 + FiltersLength(filters, each),
                                 <<Num(id)>> \o FlattenSeq(lists), space),
                          Header(type, 2), Num(id) \o g[Len(filters)])
<1> DEFINE n == Len(filters)
<1> DEFINE header == Header(type, 2)
<1> DEFINE number == Num(id)
<1>1. n \in Nat
  BY LenProperties
<1>2. lists \in Seq(Seq(Seq(Bytes))) /\ Len(lists) = n
  <2>1. lists \in [1..n -> Seq(Seq(Bytes))]
    OBVIOUS
  <2> HIDE DEF n
  <2> QED BY <1>1, <2>1, SequenceOf
<1>3. \A k \in 1..n : /\ FlattenSeq(lists[k]) = bodies[k]
                      /\ bodies[k] \in Seq(Bytes)
                      /\ Len(bodies[k]) = Len(filters[k]) + each
  <2> TAKE k \in 1..n
  <2>1. /\ lists[k] \in Seq(Seq(Bytes)) /\ FlattenSeq(lists[k]) = bodies[k]
        /\ Len(bodies[k]) = Len(filters[k]) + each
    BY DEF Writes
  <2>2. FlattenSeq(lists[k]) \in Seq(Bytes)
    BY <2>1, FlattenType
  <2> QED BY <2>1, <2>2, Zenon
<1>4. bodies = [k \in 1..n |-> FlattenSeq(lists[k])]
  <2>1. bodies = [k \in 1..n |-> bodies[k]]
    OBVIOUS
  <2> HIDE DEF n
  <2> QED BY <2>1, <1>3, Zenon
<1>5. PICK g : /\ Grows(g, bodies, n)
               /\ FlattenSeq(lists) \in Seq(Seq(Bytes))
               /\ FlattenSeq(FlattenSeq(lists)) = g[n]
  <2>1. \E g : /\ Grows(g, [k \in 1..Len(lists) |-> FlattenSeq(lists[k])], Len(lists))
               /\ FlattenSeq(lists) \in Seq(Seq(Bytes))
               /\ FlattenSeq(FlattenSeq(lists)) = g[Len(lists)]
    BY <1>2, ListsWrite
  <2> HIDE DEF n
  <2> QED BY <1>2, <1>4, <2>1
<1>6. FiltersLength(filters, each) = Len(g[n])
  <2>1. Grows(g, bodies, Len(filters))
    BY <1>5
  <2>2. \A k \in 1..Len(filters) : bodies[k] \in Seq(Bytes) /\ Len(bodies[k]) = Len(filters[k]) + each
    BY <1>3
  <2> QED BY <2>1, <2>2, FiltersLengthIs, SMTT(30)
<1> DEFINE all == FlattenSeq(lists)
<1>7. Writes(all, g[n], FiltersLength(filters, each))
  BY <1>5, <1>6 DEF Writes
<1>8. Writes(<<number>>, number, 2)
  <2>1. number \in Seq(Bytes) /\ Len(number) = 2
    BY NumBytes
  <2> HIDE DEF number
  <2>2. <<number>> \in Seq(Seq(Bytes)) /\ FlattenSeq(<<number>>) = number
    BY <2>1, FlattenOne
  <2> QED BY <2>1, <2>2 DEF Writes
<1> DEFINE fields == <<number>> \o all
<1> DEFINE length == 2 + FiltersLength(filters, each)
<1>9. Writes(fields, number \o g[n], length)
  <2> HIDE DEF number, all, n
  <2> QED BY <1>7, <1>8, WritesBehind, Zenon
<1>10. length \in Nat
  <2>1. g[n] \in Seq(Bytes)
    <3>1. g \in [0..n -> Seq(Bytes)]
      BY <1>5 DEF Grows
    <3> HIDE DEF n
    <3> QED BY <1>1, <3>1
  <2>2. Len(g[n]) \in Nat
    BY <2>1, LenProperties
  <2> QED BY <1>6, <2>2
<1>11. header \in Bytes
  BY HeaderType DEF TypeCode
<1> HIDE DEF header, fields, length
<1>12. fields \in Seq(Seq(Bytes)) /\ FlattenSeq(fields) = number \o g[n] /\ length = Len(FlattenSeq(fields))
  BY <1>9, Zenon DEF Writes
<1>13. Framed(Encode(header, length, fields, space), header, FlattenSeq(fields))
  BY <1>10, <1>11, <1>12, FramesFields
<1>14. Grows(g, bodies, n) /\ Framed(Encode(header, length, fields, space), header, number \o g[n])
  BY <1>5, <1>12, <1>13, Zenon
<1> QED BY <1>14 DEF header, fields, length

\* What comes with the filters of a request.
SubscribeBodies(r) == [k \in 1..Len(r.filters) |-> Stretch(r.filters[k]) \o <<r.qos[k]>>]
UnsubscribeBodies(r) == [k \in 1..Len(r.filters) |-> Stretch(r.filters[k])]

LEMMA StrWrites ==
  ASSUME NEW s \in Data
  PROVE  Writes(Str(s), Stretch(s), Len(s) + 2)
<1>1. s \in Seq(Bytes) /\ Len(s) \in Words
  BY DataIs
<1> QED BY <1>1, StrFields DEF Writes

LEMMA ByteWrites ==
  ASSUME NEW b \in Bytes
  PROVE  Writes(<< <<b>> >>, <<b>>, 1)
<1> DEFINE a == <<b>>
<1>1. a \in Seq(Bytes) /\ Len(a) = 1
  OBVIOUS
<1> HIDE DEF a
<1>2. <<a>> \in Seq(Seq(Bytes)) /\ FlattenSeq(<<a>>) = a
  BY <1>1, FlattenOne
<1>3. Writes(<<a>>, a, 1)
  BY <1>1, <1>2, Zenon DEF Writes
<1> QED BY <1>3 DEF a

LEMMA FramesSubscribe ==
  ASSUME NEW r \in SubscribeRequest, NEW space
  PROVE  \E g : /\ Grows(g, SubscribeBodies(r), Len(r.filters))
                /\ Framed(EncodeSubscribe(r, space), Header("SUBSCRIBE", 2),
                          Num(r.packetId) \o g[Len(r.filters)])
<1> DEFINE filters == r.filters
<1> DEFINE lists == SubscribeFields(r)
<1> DEFINE bodies == SubscribeBodies(r)
<1>1. /\ r.packetId \in Words /\ filters \in Seq(Data) /\ r.qos \in Seq(0..2)
      /\ Len(r.qos) = Len(filters)
  BY Zenon DEF SubscribeRequest
<1>2. DOMAIN filters = 1..Len(filters)
  BY <1>1
<1>3. lists = [k \in 1..Len(filters) |-> Str(filters[k]) \o << <<r.qos[k]>> >>]
  BY <1>2, Zenon DEF SubscribeFields
<1>4. \A k \in 1..Len(filters) : Writes(lists[k], bodies[k], Len(filters[k]) + 3)
  <2> TAKE k \in 1..Len(filters)
  <2> DEFINE s == filters[k]
  <2> DEFINE q == r.qos[k]
  <2>1. s \in Data
    BY <1>1
  <2>2. q \in Bytes
    <3>1. q \in 0..2
      BY <1>1
    <3> QED BY <3>1 DEF Bytes
  <2>3. lists[k] = Str(s) \o << <<q>> >> /\ bodies[k] = Stretch(s) \o <<q>>
    BY <1>3 DEF SubscribeBodies
  <2> HIDE DEF s, q, lists, bodies
  <2>4. Writes(Str(s), Stretch(s), Len(s) + 2) /\ Writes(<< <<q>> >>, <<q>>, 1)
    BY <2>1, <2>2, StrWrites, ByteWrites
  <2>5. Writes(Str(s) \o << <<q>> >>, Stretch(s) \o <<q>>, Len(s) + 2 + 1)
    BY <2>4, WritesBehind, Zenon
  <2>6. Len(s) + 2 + 1 = Len(s) + 3
    BY <2>1, DataIs, WordsAreNumbers
  <2> QED BY <2>3, <2>5, <2>6, Zenon DEF s
<1>5. lists \in [1..Len(filters) -> Seq(Seq(Bytes))]
  <2>1. \A k \in 1..Len(filters) : lists[k] \in Seq(Seq(Bytes))
    BY <1>4 DEF Writes
  <2>2. lists = [k \in 1..Len(filters) |-> lists[k]]
    BY <1>3
  <2> HIDE DEF lists
  <2> QED BY <2>1, <2>2
<1>6. DOMAIN bodies = 1..Len(filters) /\ bodies = [k \in DOMAIN bodies |-> bodies[k]]
  BY DEF SubscribeBodies
<1> HIDE DEF lists, bodies, filters
<1>7. \E g : /\ Grows(g, bodies, Len(filters))
             /\ Framed(Encode(Header("SUBSCRIBE", 2), 2 + FiltersLength(filters, 3),
                              <<Num(r.packetId)>> \o FlattenSeq(lists), space),
                       Header("SUBSCRIBE", 2), Num(r.packetId) \o g[Len(filters)])
  BY <1>1, <1>4, <1>5, <1>6, FramesFilters
<1> QED BY <1>7 DEF filters, lists, bodies, EncodeSubscribe

LEMMA FramesUnsubscribe ==
  ASSUME NEW r \in UnsubscribeRequest, NEW space
  PROVE  \E g : /\ Grows(g, UnsubscribeBodies(r), Len(r.filters))
                /\ Framed(EncodeUnsubscribe(r, space), Header("UNSUBSCRIBE", 2),
                          Num(r.packetId) \o g[Len(r.filters)])
<1> DEFINE filters == r.filters
<1> DEFINE lists == UnsubscribeFields(r)
<1> DEFINE bodies == UnsubscribeBodies(r)
<1>1. r.packetId \in Words /\ filters \in Seq(Data)
  BY Zenon DEF UnsubscribeRequest
<1>2. DOMAIN filters = 1..Len(filters)
  BY <1>1
<1>3. lists = [k \in 1..Len(filters) |-> Str(filters[k])]
  BY <1>2, Zenon DEF UnsubscribeFields
<1>4. \A k \in 1..Len(filters) : Writes(lists[k], bodies[k], Len(filters[k]) + 2)
  <2> TAKE k \in 1..Len(filters)
  <2> DEFINE s == filters[k]
  <2>1. s \in Data
    BY <1>1
  <2>2. lists[k] = Str(s) /\ bodies[k] = Stretch(s)
    BY <1>3 DEF UnsubscribeBodies
  <2> HIDE DEF s, lists, bodies
  <2>3. Writes(Str(s), Stretch(s), Len(s) + 2)
    BY <2>1, StrWrites
  <2> QED BY <2>2, <2>3, Zenon DEF s
<1>5. lists \in [1..Len(filters) -> Seq(Seq(Bytes))]
  <2>1. \A k \in 1..Len(filters) : lists[k] \in Seq(Seq(Bytes))
    BY <1>4 DEF Writes
  <2>2. lists = [k \in 1..Len(filters) |-> lists[k]]
    BY <1>3
  <2> HIDE DEF lists
  <2> QED BY <2>1, <2>2
<1>6. DOMAIN bodies = 1..Len(filters) /\ bodies = [k \in DOMAIN bodies |-> bodies[k]]
  BY DEF UnsubscribeBodies
<1> HIDE DEF lists, bodies, filters
<1>7. \E g : /\ Grows(g, bodies, Len(filters))
             /\ Framed(Encode(Header("UNSUBSCRIBE", 2), 2 + FiltersLength(filters, 2),
                              <<Num(r.packetId)>> \o FlattenSeq(lists), space),
                       Header("UNSUBSCRIBE", 2), Num(r.packetId) \o g[Len(filters)])
  BY <1>1, <1>4, <1>5, <1>6, FramesFilters
<1> QED BY <1>7 DEF filters, lists, bodies, EncodeUnsubscribe

\* The packet of a request has this header and this body.
Carries(r, header, body) ==
  /\ r.op = "CONNECT" => header = Header("CONNECT", 0) /\ body = ConnectBody(r)
  /\ r.op = "PUBLISH" => header = Header("PUBLISH", PublishFlags(r)) /\ body = PublishBody(r)
  /\ r.op = "SUBSCRIBE" =>
       \E g : Grows(g, SubscribeBodies(r), Len(r.filters)) /\ body = Num(r.packetId) \o g[Len(r.filters)]
  /\ r.op = "UNSUBSCRIBE" =>
       \E g : Grows(g, UnsubscribeBodies(r), Len(r.filters)) /\ body = Num(r.packetId) \o g[Len(r.filters)]
  /\ r.op \in AckTypes => header = Header(r.op, AckFlags(r.op)) /\ body = Num(r.packetId)
  /\ r.op \in {"CONNACK", "SUBACK"} => header = Header(r.op, 0) /\ body = BrokerBody(r)

LEMMA BrokerTypes ==
  ASSUME NEW r \in BrokerAnswer
  PROVE  /\ r.op \in {"CONNACK", "SUBACK"}
         /\ r.op = "CONNACK" => r.sessionPresent \in BOOLEAN /\ r.returnCode \in 0..5
         /\ r.op = "SUBACK" => /\ r.packetId \in Words
                               /\ r.granted \in Seq({0, 1, 2, 128}) /\ r.granted # <<>>
         /\ VarnumLength(Len(BrokerBody(r))) # 0
BY Zenon DEF BrokerAnswer

LEMMA BrokerBodyType ==
  ASSUME NEW r \in BrokerAnswer
  PROVE  /\ BrokerBody(r) \in Seq(Bytes)
         /\ r.op = "CONNACK" => BrokerBody(r) = <<Flag(r.sessionPresent), r.returnCode>>
         /\ r.op = "SUBACK" => /\ BrokerBody(r) = Num(r.packetId) \o r.granted
                               /\ r.granted \in Seq(Bytes)
                               /\ Len(BrokerBody(r)) = 2 + Len(r.granted)
<1>1. CASE r.op = "CONNACK"
  <2>1. r.returnCode \in Bytes /\ Flag(r.sessionPresent) \in Bytes
    <3>1. r.returnCode \in 0..5
      BY <1>1, BrokerTypes
    <3> QED BY <3>1 DEF Bytes, Flag
  <2>2. <<Flag(r.sessionPresent), r.returnCode>> \in Seq(Bytes)
    BY <2>1
  <2>3. BrokerBody(r) = <<Flag(r.sessionPresent), r.returnCode>>
    BY <1>1 DEF BrokerBody
  <2> QED BY <1>1, <2>2, <2>3
<1>2. CASE r.op = "SUBACK"
  <2> DEFINE n == Num(r.packetId)
  <2> DEFINE g == r.granted
  <2>1. r.packetId \in Words /\ g \in Seq({0, 1, 2, 128})
    BY <1>2, BrokerTypes
  <2>2. n \in Seq(Bytes) /\ Len(n) = 2
    BY <2>1, NumBytes
  <2>3. BrokerBody(r) = n \o g
    BY <1>2 DEF BrokerBody
  <2> HIDE DEF n, g
  <2>4. g \in Seq(Bytes)
    <3>1. {0, 1, 2, 128} \subseteq Bytes
      BY DEF Bytes
    <3> QED BY <2>1, <3>1
  <2>5. n \o g \in Seq(Bytes) /\ Len(n \o g) = Len(n) + Len(g)
    BY <2>2, <2>4, ConcatProperties
  <2>6. Len(n \o g) = 2 + Len(g)
    BY <2>2, <2>5
  <2> QED BY <1>2, <2>3, <2>4, <2>5, <2>6 DEF n, g
<1> QED BY <1>1, <1>2, BrokerTypes

\* What is sent for a request is its packet, if it is sent at all.
Packed(r, e) == \E header, body : Carries(r, header, body) /\ Framed(e, header, body)

LEMMA EncodedFrames ==
  ASSUME NEW r \in Requests
  PROVE  Packed(r, Encoded(r))
<1>0. SUFFICES \E header, body : Carries(r, header, body) /\ Framed(Encoded(r), header, body)
  BY DEF Packed
<1>1. CASE r \in ConnectRequest
  <2>1. r.op = "CONNECT"
    BY <1>1, ConnectTypes
  <2>2. Encoded(r) = EncodeConnect(r, room)
    BY <2>1 DEF Encoded, AckTypes
  <2>3. Framed(Encoded(r), Header("CONNECT", 0), ConnectBody(r))
    BY <1>1, <2>2, FramesConnect
  <2>4. Carries(r, Header("CONNECT", 0), ConnectBody(r))
    BY <2>1 DEF Carries, AckTypes
  <2> QED BY <2>3, <2>4
<1>2. CASE r \in PublishRequest
  <2>1. r.op = "PUBLISH"
    BY <1>2, PublishTypes
  <2> DEFINE e == EncodePublish(r, room)
  <2>2. Encoded(r) = IF e.err = Success THEN [e EXCEPT !.bytes = @ \o r.payload] ELSE e
    BY <2>1 DEF Encoded, AckTypes
  <2>3. Framed(IF e.err = Success THEN [e EXCEPT !.bytes = @ \o r.payload] ELSE e,
               Header("PUBLISH", PublishFlags(r)), PublishBody(r))
    BY <1>2, FramesPublish
  <2>4. Carries(r, Header("PUBLISH", PublishFlags(r)), PublishBody(r))
    BY <2>1 DEF Carries, AckTypes
  <2> HIDE DEF e
  <2> QED BY <2>2, <2>3, <2>4
<1>3. CASE r \in SubscribeRequest
  <2>1. r.op = "SUBSCRIBE"
    BY <1>3, Zenon DEF SubscribeRequest
  <2>2. Encoded(r) = EncodeSubscribe(r, room)
    BY <2>1 DEF Encoded, AckTypes
  <2>3. PICK g : /\ Grows(g, SubscribeBodies(r), Len(r.filters))
                 /\ Framed(EncodeSubscribe(r, room), Header("SUBSCRIBE", 2),
                           Num(r.packetId) \o g[Len(r.filters)])
    BY <1>3, FramesSubscribe
  <2> DEFINE body == Num(r.packetId) \o g[Len(r.filters)]
  <2>4. \E h : Grows(h, SubscribeBodies(r), Len(r.filters)) /\ body = Num(r.packetId) \o h[Len(r.filters)]
    BY <2>3
  <2> HIDE DEF body
  <2>5. Carries(r, Header("SUBSCRIBE", 2), body)
    BY <2>1, <2>4, Zenon DEF Carries, AckTypes
  <2>6. Framed(Encoded(r), Header("SUBSCRIBE", 2), body)
    BY <2>2, <2>3, Zenon DEF body
  <2> QED BY <2>5, <2>6, Zenon
<1>4. CASE r \in UnsubscribeRequest
  <2>1. r.op = "UNSUBSCRIBE"
    BY <1>4, Zenon DEF UnsubscribeRequest
  <2>2. Encoded(r) = EncodeUnsubscribe(r, room)
    BY <2>1 DEF Encoded, AckTypes
  <2>3. PICK g : /\ Grows(g, UnsubscribeBodies(r), Len(r.filters))
                 /\ Framed(EncodeUnsubscribe(r, room), Header("UNSUBSCRIBE", 2),
                           Num(r.packetId) \o g[Len(r.filters)])
    BY <1>4, FramesUnsubscribe
  <2> DEFINE body == Num(r.packetId) \o g[Len(r.filters)]
  <2>4. \E h : Grows(h, UnsubscribeBodies(r), Len(r.filters)) /\ body = Num(r.packetId) \o h[Len(r.filters)]
    BY <2>3
  <2> HIDE DEF body
  <2>5. Carries(r, Header("UNSUBSCRIBE", 2), body)
    BY <2>1, <2>4, Zenon DEF Carries, AckTypes
  <2>6. Framed(Encoded(r), Header("UNSUBSCRIBE", 2), body)
    BY <2>2, <2>3, Zenon DEF body
  <2> QED BY <2>5, <2>6, Zenon
<1>5. CASE r \in [op : AckTypes, packetId : Words]
  <2>1. r.op \in AckTypes /\ r.packetId \in Words
    BY <1>5, Zenon
  <2>2. Encoded(r) = EncodeAck(r.op, r.packetId, room)
    BY <2>1 DEF Encoded, AckTypes
  <2>3. Framed(Encoded(r), Header(r.op, AckFlags(r.op)), Num(r.packetId))
    BY <2>1, <2>2, FramesAck
  <2>4. Carries(r, Header(r.op, AckFlags(r.op)), Num(r.packetId))
    BY <2>1 DEF Carries, AckTypes
  <2> QED BY <2>3, <2>4
<1>6. CASE r \in [op : {"PINGREQ", "DISCONNECT"}]
  <2>1. r.op \in {"PINGREQ", "DISCONNECT"}
    BY <1>6, Zenon
  <2>2. Encoded(r) = EncodeZero(r.op, room)
    BY <2>1 DEF Encoded, AckTypes
  <2>3. Framed(Encoded(r), Header(r.op, 0), <<>>)
    BY <2>1, <2>2, FramesZero
  <2>4. Carries(r, Header(r.op, 0), <<>>)
    BY <2>1 DEF Carries, AckTypes
  <2> QED BY <2>3, <2>4
<1>7. CASE r \in BrokerAnswer
  <2>1. r.op \in {"CONNACK", "SUBACK"} /\ VarnumLength(Len(BrokerBody(r))) # 0
    BY <1>7, BrokerTypes
  <2>2. Encoded(r) = [err |-> Success, bytes |-> BrokerPacket(r)]
    BY <2>1 DEF Encoded, AckTypes
  <2> DEFINE body == BrokerBody(r)
  <2>3. body \in Seq(Bytes)
    BY <1>7, BrokerBodyType
  <2>4. BrokerPacket(r) = PacketOf(Header(r.op, 0), body)
    BY DEF BrokerPacket, PacketOf
  <2>5. Header(r.op, 0) \in Bytes
    BY <2>1, HeaderType DEF TypeCode
  <2>6. Carries(r, Header(r.op, 0), body)
    BY <2>1 DEF Carries, AckTypes
  <2>7. VarnumLength(Len(body)) # 0
    BY <2>1
  <2> HIDE DEF body
  <2>8. Framed(Encoded(r), Header(r.op, 0), body)
    BY <2>2, <2>3, <2>4, <2>5, <2>7 DEF Framed
  <2> QED BY <2>6, <2>8
<1> QED BY <1>1, <1>2, <1>3, <1>4, <1>5, <1>6, <1>7, CodecAssumption, Zenon DEF ShortRequest

-----------------------------------------------------------------------------
(* What has arrived                                                        *)

\* Of a request, nothing is sent, or what its encoder returned; what has
\* arrived agrees with it, byte by byte, as far as both go.
ArrivalInv ==
  /\ request \in Requests \cup {None}
  /\ sent = NotSent \/ (request # None /\ Packed(request, sent))
  /\ sent.bytes \in Seq(Bytes)
  /\ arrived \in Seq(Bytes)
  /\ request # None => Lies(sent.bytes, arrived, 1)
  /\ request # None /\ sent.err # Success => arrived = <<>>

LEMMA PacketType ==
  ASSUME NEW e, NEW header, NEW body, Framed(e, header, body)
  PROVE  e.bytes \in Seq(Bytes)
<1>1. CASE e.bytes = <<>>
  BY <1>1
<1>2. CASE e.bytes # <<>>
  <2>1. /\ header \in Bytes /\ body \in Seq(Bytes) /\ VarnumLength(Len(body)) # 0
        /\ e.bytes = PacketOf(header, body)
    BY <1>2 DEF Framed
  <2>2. PacketOf(header, body) \in Seq(Bytes)
    BY <2>1, PacketParts
  <2> QED BY <2>1, <2>2, Zenon
<1> QED BY <1>1, <1>2

LEMMA EncodedType ==
  ASSUME NEW r \in Requests
  PROVE  Encoded(r).bytes \in Seq(Bytes)
<1>1. PICK header, body : Framed(Encoded(r), header, body)
  BY EncodedFrames DEF Packed
<1> QED BY <1>1, PacketType

LEMMA ArrivalInduct ==
  Spec => []ArrivalInv
<1> USE DEF ArrivalInv
<1>1. Init => ArrivalInv
  BY DEF Init, NotSent, Lies, Success
<1>2. ArrivalInv /\ [Next]_vars => ArrivalInv'
  <2> SUFFICES ASSUME ArrivalInv, [Next]_vars PROVE ArrivalInv'
    OBVIOUS
  <2>1. CASE Send
    <3>1. request \in Requests /\ request # None /\ sent = NotSent
      BY <2>1 DEF Send
    <3>2. sent' = Encoded(request) /\ UNCHANGED <<request, room, arrived>>
      BY <2>1 DEF Send
    <3>3. Packed(request, sent') /\ sent'.bytes \in Seq(Bytes)
      BY <3>1, <3>2, EncodedFrames, EncodedType
    <3>4. arrived = <<>>
      BY <3>1 DEF NotSent, Success
    <3>5. Lies(sent'.bytes, arrived', 1)
      <4>1. Len(arrived') = 0 /\ Len(sent'.bytes) \in Nat
        BY <3>2, <3>3, <3>4
      <4> QED BY <4>1 DEF Lies
    <3> QED BY <3>1, <3>2, <3>3, <3>4, <3>5
  <2>2. CASE Arrive
    <3> DEFINE b == sent.bytes
    <3> DEFINE n == Len(arrived)
    <3>1. /\ sent.err = Success /\ n < Len(b) /\ arrived' = Append(arrived, b[n + 1])
          /\ UNCHANGED <<request, room, sent>>
      BY <2>2 DEF Arrive
    <3>2. n \in Nat /\ Len(b) \in Nat
      BY LenProperties
    <3>3. n + 1 \in 1..Len(b)
      BY <3>1, <3>2
    <3>4. b[n + 1] \in Bytes
      BY <3>3
    <3>5. arrived' \in Seq(Bytes) /\ Len(arrived') = n + 1
      BY <3>1, <3>4
    <3>6. \A i \in 1..n : arrived'[i] = arrived[i]
      BY <3>1, <3>4
    <3>7. arrived'[n + 1] = b[n + 1]
      BY <3>1, <3>4
    <3>8. request # None => Lies(b, arrived', 1)
      <4> HAVE request # None
      <4> SUFFICES ASSUME NEW i \in 1..Len(b), i <= n + 1 PROVE arrived'[i] = b[i]
        BY <3>2, <3>5 DEF Lies
      <4>1. CASE i = n + 1
        BY <4>1, <3>7
      <4>2. CASE i # n + 1
        <5>1. i \in 1..n /\ 1 + i - 1 = i /\ i <= n
          BY <4>2, <3>2
        <5>2. arrived[i] = b[i]
          BY <5>1 DEF Lies
        <5> QED BY <5>1, <5>2, <3>6
      <4> QED BY <4>1, <4>2
    <3>9. sent' = sent /\ request' = request
      BY <3>1
    <3> QED BY <3>1, <3>5, <3>8, <3>9
  <2>3. CASE ArriveStale
    <3> DEFINE b == sent.bytes
    <3> DEFINE n == Len(arrived)
    <3>1. /\ sent.err = Success /\ n = Len(b) /\ UNCHANGED <<request, room, sent>>
      BY <2>3 DEF ArriveStale
    <3>2. PICK s \in Stale : arrived' = arrived \o s
      BY <2>3 DEF ArriveStale
    <3>3. s \in Seq(Bytes)
      BY CodecAssumption
    <3>4. n \in Nat /\ Len(b) \in Nat /\ Len(s) \in Nat
      BY <3>3, LenProperties
    <3>5. /\ arrived' \in Seq(Bytes) /\ Len(arrived') = n + Len(s)
          /\ \A i \in 1..n : arrived'[i] = arrived[i]
      BY <3>2, <3>3, <3>4, ConcatProperties
    <3>6. request # None => Lies(b, arrived', 1)
      <4> HAVE request # None
      <4> SUFFICES ASSUME NEW i \in 1..Len(b) PROVE arrived'[i] = b[i]
        BY <3>4 DEF Lies
      <4>1. i \in 1..n /\ 1 + i - 1 = i /\ i <= n
        BY <3>1, <3>4
      <4>2. arrived[i] = b[i]
        BY <4>1 DEF Lies
      <4> QED BY <4>1, <4>2, <3>5
    <3>7. sent' = sent /\ request' = request
      BY <3>1
    <3> QED BY <3>1, <3>5, <3>6, <3>7
  <2>4. CASE ArriveAny
    <3>1. request = None /\ UNCHANGED <<request, room, sent>> /\ Len(arrived) + 1 \in DOMAIN AnyBytes
      BY <2>4 DEF ArriveAny
    <3>2. PICK b \in AnyBytes[Len(arrived) + 1] : arrived' = Append(arrived, b)
      BY <2>4 DEF ArriveAny
    <3>3. b \in Bytes
      BY <3>1, CodecAssumption
    <3>4. arrived' \in Seq(Bytes)
      BY <3>2, <3>3
    <3>5. sent' = sent /\ request' = request
      BY <3>1
    <3> QED BY <3>1, <3>4, <3>5
  <2>5. CASE UNCHANGED vars
    BY <2>5 DEF vars
  <2> QED BY <2>1, <2>2, <2>3, <2>4, <2>5 DEF Next
<1> QED BY <1>1, <1>2, PTL DEF Spec

-----------------------------------------------------------------------------
(* What is sent has the length it says                                     *)

\* The remaining length in the fixed header of everything that is sent is the
\* number of bytes that follow it (lwmqtt_encode_*, lwmqtt_publish).
THEOREM LengthsAreTrue == Spec => []LengthIsTrue
<1>1. ArrivalInv => LengthIsTrue
  <2> SUFFICES ASSUME ArrivalInv, sent.err = Success
               PROVE  LET n == ReadVarnum(sent.bytes, 2) IN
                        n.err = Success /\ n.value = Left(sent.bytes, n.next)
    BY DEF LengthIsTrue
  <2>1. Packed(request, sent)
    BY DEF ArrivalInv, NotSent, Success
  <2>2. PICK header, body : Framed(sent, header, body)
    BY <2>1 DEF Packed
  <2> DEFINE b == sent.bytes
  <2>3. /\ header \in Bytes /\ body \in Seq(Bytes) /\ VarnumLength(Len(body)) # 0
        /\ b = PacketOf(header, body)
    BY <2>2 DEF Framed
  <2> HIDE DEF b
  <2>4. /\ Len(body) \in Nat /\ InFront(body) \in Nat /\ InFront(body) >= 2
        /\ b \in Seq(Bytes) /\ Len(b) = InFront(body) + Len(body)
    BY <2>3, PacketParts
  <2>5. Lies(b, b, 1)
    BY <2>4 DEF Lies
  <2>6. Len(b) >= InFront(body)
    BY <2>4
  <2>7. /\ ReadVarnum(b, 2).err = Success
        /\ ReadVarnum(b, 2).value = Len(body)
        /\ ReadVarnum(b, 2).next = InFront(body) + 1
    BY <2>3, <2>4, <2>5, <2>6, PacketRead
  <2>8. Left(b, InFront(body) + 1) = Len(body)
    BY <2>4 DEF Left
  <2> QED BY <2>7, <2>8, Zenon DEF b
<1> QED BY <1>1, ArrivalInduct, PTL

-----------------------------------------------------------------------------
(* What a decoder finds is there                                           *)

\* The first byte decides on the type.
LEMMA Detects ==
  ASSUME NEW buf \in Seq(Bytes), buf # <<>>, NEW type \in ReceivableTypes, NEW flags \in 0..15,
         buf[1] = Header(type, flags)
  PROVE  DetectType(buf).err = Success /\ DetectType(buf).type = type
<1> DEFINE code == TypeCode[type]
<1> DEFINE types == {t \in ReceivableTypes : TypeCode[t] = ReadBits(buf[1], 4, 4)}
<1>1. 2^4 = 16
  OBVIOUS
<1>2. code \in 1..14
  BY DEF ReceivableTypes, TypeCode
<1>3. buf[1] = code * 16 + flags
  BY <1>1 DEF Header, WriteBits
<1>4. ((code * 16 + flags) \div 16) % 16 = code
  <2> HIDE DEF code
  <2> QED BY <1>2
<1>5. ReadBits(buf[1], 4, 4) = code
  BY <1>1, <1>3, <1>4 DEF ReadBits
<1>6. \A t \in ReceivableTypes : TypeCode[t] = TypeCode[type] => t = type
  BY SMTT(30) DEF ReceivableTypes, TypeCode
<1>7. types = {type}
  BY <1>5, <1>6
<1>8. DetectType(buf) = [err |-> Success, type |-> CHOOSE t \in types : TRUE]
  <2>1. types # {}
    BY <1>7
  <2> QED BY <2>1 DEF DetectType
<1>9. (CHOOSE t \in types : TRUE) = type
  BY <1>7
<1> QED BY <1>8, <1>9

\* What a decoder knows when it has opened a packet.
LEMMA Opened ==
  ASSUME NEW buf \in Seq(Bytes), NEW headers, Open(buf, headers).err = Success
  PROVE  LET p == Open(buf, headers)
             n == ReadVarnum(buf, 2)
         IN /\ buf # <<>> /\ buf[1] \in headers
            /\ n.err = Success
            /\ p.length = n.value /\ n.value \in Nat
            /\ p.at = n.next /\ n.next \in Nat /\ n.next > 2 /\ n.next <= Len(buf) + 1
<1> DEFINE n == ReadVarnum(buf, 2)
<1>1. /\ buf # <<>> /\ buf[1] \in headers
      /\ Open(buf, headers) = [err |-> n.err, length |-> n.value, at |-> n.next]
  <2> HIDE DEF n
  <2>1. Open(buf, headers) = IF buf = <<>> THEN Failed(TooShort)
                             ELSE IF buf[1] \notin headers THEN Failed(WrongPacket)
                             ELSE [err |-> n.err, length |-> n.value, at |-> n.next]
    BY DEF Open, n
  <2> QED BY <2>1 DEF Failed, TooShort, WrongPacket, Success
<1>2. n.err = Success
  BY <1>1
<1>3. 2 \in Nat \ {0}
  OBVIOUS
<1>4. n.value \in Nat /\ n.next \in Nat /\ n.next > 2 /\ n.next <= Len(buf) + 1
  BY <1>2, <1>3, VarnumTypes
<1> HIDE DEF n
<1> QED BY <1>1, <1>2, <1>4 DEF n

\* As many bytes as the remaining length says, and a type that is let through.
There(buf, length) ==
  LET n == ReadVarnum(buf, 2) IN n.value = length /\ Left(buf, n.next) >= length
Found(buf, type) == DetectType(buf).err = Success /\ DetectType(buf).type = type

LEMMA AckThere ==
  ASSUME NEW buf \in Seq(Bytes), NEW type \in AckTypes, DecodeAck(buf, type).err = Success
  PROVE  There(buf, 2) /\ Found(buf, type)
<1> DEFINE headers == {Header(type, AckFlags(type))}
<1> DEFINE p == Open(buf, headers)
<1>1. DecodeAck(buf, type) =
        IF p.err # Success THEN Failed(p.err)
        ELSE IF p.length # 2 THEN Failed(LengthMismatch)
        ELSE IF Left(buf, p.at) < 2 THEN Failed(TooShort)
        ELSE [err |-> Success, packetId |-> ReadNum(buf, p.at)]
  BY DEF DecodeAck
<1>2. Left(buf, p.at) < 2 \/ ~(Left(buf, p.at) < 2)
  OBVIOUS
<1> HIDE DEF p
<1>3. p.err = Success /\ p.length = 2 /\ ~(Left(buf, p.at) < 2)
  BY <1>1 DEF Failed, Success, LengthMismatch, TooShort
<1> DEFINE n == ReadVarnum(buf, 2)
<1>4. /\ buf # <<>> /\ buf[1] \in headers
      /\ p.length = n.value /\ p.at = n.next /\ n.next \in Nat
  BY <1>3, Opened DEF p
<1>5. Len(buf) \in Nat
  BY LenProperties
<1> HIDE DEF n
<1>6. n.value = 2 /\ Left(buf, n.next) >= 2
  BY <1>3, <1>4, <1>5 DEF Left
<1>7. AckFlags(type) \in 0..15 /\ type \in ReceivableTypes
  BY DEF AckFlags, AckTypes, ReceivableTypes
<1>8. Found(buf, type)
  BY <1>4, <1>7, Detects DEF Found
<1> QED BY <1>6, <1>8 DEF n, There

LEMMA ConnackThere ==
  ASSUME NEW buf \in Seq(Bytes), DecodeConnack(buf).err = Success
  PROVE  There(buf, 2) /\ Found(buf, "CONNACK")
<1> DEFINE headers == AnyHeader("CONNACK")
<1> DEFINE p == Open(buf, headers)
<1>1. DecodeConnack(buf) =
        IF p.err # Success THEN Failed(p.err)
        ELSE IF p.length # 2 THEN Failed(LengthMismatch)
        ELSE IF Left(buf, p.at) < 2 THEN Failed(TooShort)
        ELSE [err |-> Success, sessionPresent |-> ReadBits(buf[p.at], 0, 1) = 1,
              returnCode |-> Min({buf[p.at + 1], 6})]
  BY DEF DecodeConnack
<1> HIDE DEF p
<1>2. p.err = Success /\ p.length = 2 /\ ~(Left(buf, p.at) < 2)
  BY <1>1 DEF Failed, Success, LengthMismatch, TooShort
<1> DEFINE n == ReadVarnum(buf, 2)
<1>3. /\ buf # <<>> /\ buf[1] \in headers
      /\ p.length = n.value /\ p.at = n.next /\ n.next \in Nat
  BY <1>2, Opened DEF p
<1>4. Len(buf) \in Nat
  BY LenProperties
<1> HIDE DEF n
<1>5. n.value = 2 /\ Left(buf, n.next) >= 2
  BY <1>2, <1>3, <1>4 DEF Left
<1>6. PICK flags \in 0..15 : buf[1] = Header("CONNACK", flags)
  BY <1>3 DEF AnyHeader
<1>7. Found(buf, "CONNACK")
  BY <1>3, <1>6, Detects DEF Found, ReceivableTypes
<1> QED BY <1>5, <1>7 DEF n, There

LEMMA SubackThere ==
  ASSUME NEW buf \in Seq(Bytes), DecodeSuback(buf, MaxCount).err = Success
  PROVE  LET granted == DecodeSuback(buf, MaxCount).granted IN
           There(buf, 2 + Len(granted)) /\ Found(buf, "SUBACK") /\ Len(granted) \in 1..MaxCount
<1> DEFINE headers == AnyHeader("SUBACK")
<1> DEFINE p == Open(buf, headers)
<1> DEFINE count == p.length - 2
<1> DEFINE present == Left(buf, p.at) - 2
<1> DEFINE granted == [i \in 1..count |-> GrantedQoS(buf[p.at + 1 + i])]
<1>1. DecodeSuback(buf, MaxCount) =
        IF p.err # Success THEN Failed(p.err)
        ELSE IF p.length < 3 THEN Failed(LengthMismatch)
        ELSE IF present < 0 THEN Failed(TooShort)
        ELSE IF count > MaxCount /\ present >= MaxCount THEN Failed(SubackOverflow)
        ELSE IF count > present THEN Failed(TooShort)
        ELSE [err |-> Success, packetId |-> ReadNum(buf, p.at), granted |-> granted]
  BY DEF DecodeSuback, TooManyCodes
<1> HIDE DEF granted, count, present
<1>2. /\ p.err = Success /\ ~(p.length < 3) /\ ~(present < 0)
      /\ ~(count > MaxCount /\ present >= MaxCount) /\ ~(count > present)
      /\ DecodeSuback(buf, MaxCount).granted = granted
  BY <1>1 DEF Failed, Success, LengthMismatch, TooShort, SubackOverflow
<1> DEFINE n == ReadVarnum(buf, 2)
<1> HIDE DEF p
<1>3. /\ buf # <<>> /\ buf[1] \in headers
      /\ p.length = n.value /\ n.value \in Nat /\ p.at = n.next /\ n.next \in Nat
  BY <1>2, Opened DEF p
<1>4. Len(buf) \in Nat /\ MaxCount \in Nat
  BY LenProperties, CodecAssumption
<1> HIDE DEF n
<1>5. /\ count = n.value - 2 /\ present = Left(buf, n.next) - 2
      /\ Left(buf, n.next) \in Int
  BY <1>3, <1>4 DEF count, present, Left
<1>6. count \in 1..MaxCount /\ n.value = 2 + count /\ Left(buf, n.next) >= 2 + count
  BY <1>2, <1>3, <1>4, <1>5
<1>7. Len(granted) = count
  BY <1>6 DEF granted
<1>8. PICK flags \in 0..15 : buf[1] = Header("SUBACK", flags)
  BY <1>3 DEF AnyHeader
<1>9. Found(buf, "SUBACK")
  BY <1>3, <1>8, Detects DEF Found, ReceivableTypes
<1>10. There(buf, 2 + count)
  BY <1>6 DEF n, There
<1> QED BY <1>2, <1>6, <1>7, <1>9, <1>10, Zenon

\* The headers of a PUBLISH that are let through.
PublishHeaders == {Header("PUBLISH", flags) : flags \in {f \in 0..15 : ReadBits(f, 1, 2) # 3}}

LEMMA PublishThere ==
  ASSUME NEW buf \in Seq(Bytes), DecodePublish(buf).err = Success
  PROVE  LET d == DecodePublish(buf) IN
           /\ There(buf, 2 + Len(d.topic) + Len(d.payload) + (IF d.qos > 0 THEN 2 ELSE 0))
           /\ Found(buf, "PUBLISH")
           /\ d.qos > 0 <=> d.packetId # 0
<1> DEFINE p == Open(buf, PublishHeaders)
<1> DEFINE end == PacketEnd(buf, p)
<1> DEFINE qos == ReadBits(buf[1], 1, 2)
<1> DEFINE topicEnd == p.at + 1 + ReadNum(buf, p.at)
<1> DEFINE header == IF qos > 0 THEN topicEnd + 2 ELSE topicEnd
<1> DEFINE id == IF qos > 0 THEN ReadNum(buf, topicEnd + 1) ELSE 0
<1> DEFINE topic == SubSeq(buf, p.at + 2, topicEnd)
<1> DEFINE payload == SubSeq(buf, header + 1, end)
<1> DEFINE d == [err |-> Success, dup |-> ReadBits(buf[1], 3, 1) = 1, qos |-> qos,
                 retained |-> ReadBits(buf[1], 0, 1) = 1, packetId |-> id,
                 topic |-> topic, payload |-> payload]
<1>1. DecodePublish(buf) =
        IF p.err # Success THEN Failed(p.err)
        ELSE IF p.length < 2 THEN Failed(LengthMismatch)
        ELSE IF Left(buf, p.at) < p.length THEN Failed(TooShort)
        ELSE IF header > end THEN Failed(TooShort)
        ELSE IF qos > 0 /\ id = 0 THEN Failed(WrongPacket)
        ELSE d
  BY DEF DecodePublish, PublishHeaders
<1>2. d.qos = qos /\ d.packetId = id /\ d.topic = topic /\ d.payload = payload
  OBVIOUS
<1> HIDE DEF d, header, end, qos, id
<1>3. /\ p.err = Success /\ ~(p.length < 2) /\ ~(Left(buf, p.at) < p.length)
      /\ ~(header > end) /\ ~(qos > 0 /\ id = 0) /\ DecodePublish(buf) = d
  BY <1>1 DEF Failed, Success, LengthMismatch, TooShort, WrongPacket
<1> DEFINE n == ReadVarnum(buf, 2)
<1> HIDE DEF p, topic, payload, topicEnd
<1>4. /\ buf # <<>> /\ buf[1] \in PublishHeaders
      /\ p.length = n.value /\ n.value \in Nat
      /\ p.at = n.next /\ n.next \in Nat /\ n.next > 2 /\ n.next <= Len(buf) + 1
  BY <1>3, Opened DEF p
<1>5. Len(buf) \in Nat
  BY LenProperties
<1> DEFINE at == n.next
<1> DEFINE length == n.value
<1>6. at \in Nat /\ at > 2 /\ length \in Nat /\ p.at = at /\ p.length = length
  BY <1>4
<1> HIDE DEF n, at, length
<1>7. length >= 2 /\ Len(buf) - at + 1 >= length
  BY <1>3, <1>5, <1>6 DEF Left
<1>8. at \in 1..Len(buf) /\ at + 1 \in 1..Len(buf)
  BY <1>5, <1>6, <1>7
<1>9. buf[at] \in Bytes /\ buf[at + 1] \in Bytes
  BY <1>8
<1> DEFINE size == ReadNum(buf, at)
<1>10. size \in Nat
  BY <1>9, ByteRange DEF ReadNum
<1> HIDE DEF size
<1>11. topicEnd = at + 1 + size /\ end = at + length - 1
  BY <1>6 DEF topicEnd, end, size, PacketEnd
<1>12. header = (IF qos > 0 THEN at + 3 + size ELSE at + 1 + size) /\ header <= end
  BY <1>3, <1>6, <1>10, <1>11 DEF header
<1>13. end <= Len(buf) /\ end \in Int /\ header \in Nat /\ topicEnd \in Nat /\ topicEnd <= end
  BY <1>5, <1>6, <1>7, <1>10, <1>11, <1>12
<1>14. \A i \in 1..Len(buf) : buf[i] \in Bytes
  OBVIOUS
<1>15. Len(topic) = size
  <2>1. \A i \in (at + 2)..topicEnd : buf[i] \in Bytes
    BY <1>5, <1>6, <1>13, <1>14
  <2>2. Len(SubSeq(buf, at + 2, topicEnd)) = IF at + 2 <= topicEnd THEN topicEnd - (at + 2) + 1 ELSE 0
    BY <1>6, <1>13, <2>1, SubSeqProperties
  <2>3. topic = SubSeq(buf, at + 2, topicEnd)
    BY <1>6 DEF topic
  <2>4. (IF at + 2 <= topicEnd THEN topicEnd - (at + 2) + 1 ELSE 0) = size
    BY <1>6, <1>10, <1>11
  <2> QED BY <2>2, <2>3, <2>4
<1>16. Len(payload) = end - header
  <2>1. \A i \in (header + 1)..end : buf[i] \in Bytes
    BY <1>5, <1>13, <1>14
  <2>2. Len(SubSeq(buf, header + 1, end)) = IF header + 1 <= end THEN end - (header + 1) + 1 ELSE 0
    BY <1>13, <2>1, SubSeqProperties
  <2>3. (IF header + 1 <= end THEN end - (header + 1) + 1 ELSE 0) = end - header
    BY <1>12, <1>13
  <2>4. payload = SubSeq(buf, header + 1, end)
    BY DEF payload
  <2> QED BY <2>2, <2>3, <2>4, Zenon
<1>17. 2 + Len(topic) + Len(payload) + (IF qos > 0 THEN 2 ELSE 0) = length
  BY <1>6, <1>10, <1>11, <1>12, <1>13, <1>15, <1>16
<1>18. There(buf, length)
  BY <1>5, <1>6, <1>7 DEF There, Left, n, at, length
<1>19. There(buf, 2 + Len(topic) + Len(payload) + (IF qos > 0 THEN 2 ELSE 0))
  BY <1>17, <1>18
<1>20. PICK flags \in 0..15 : buf[1] = Header("PUBLISH", flags)
  BY <1>4 DEF PublishHeaders
<1>21. Found(buf, "PUBLISH")
  BY <1>4, <1>20, Detects DEF Found, ReceivableTypes
<1>22. qos > 0 <=> id # 0
  BY <1>3 DEF id
<1> QED BY <1>2, <1>3, <1>19, <1>21, <1>22, Zenon

\* On bytes of any origin, a decoder that succeeds has found a packet that is
\* there and fills its bytes (lwmqtt_decode_*, lwmqtt_detect_packet_type).
THEOREM DecodedAreThere == Spec => []DecodedIsThere
<1>1. ArrivalInv => DecodedIsThere
  <2> SUFFICES ASSUME arrived \in Seq(Bytes), arrived # <<>> PROVE DecodedIsThere
    BY DEF ArrivalInv, DecodedIsThere
  <2>1. DecodeConnack(arrived).err = Success => There(arrived, 2) /\ Found(arrived, "CONNACK")
    BY ConnackThere
  <2>2. DecodeSuback(arrived, MaxCount).err = Success =>
          /\ There(arrived, 2 + Len(DecodeSuback(arrived, MaxCount).granted))
          /\ Found(arrived, "SUBACK")
          /\ Len(DecodeSuback(arrived, MaxCount).granted) \in 1..MaxCount
    BY SubackThere
  <2>3. DecodePublish(arrived).err = Success =>
          LET d == DecodePublish(arrived) IN
            /\ There(arrived, 2 + Len(d.topic) + Len(d.payload) + (IF d.qos > 0 THEN 2 ELSE 0))
            /\ Found(arrived, "PUBLISH")
            /\ d.qos > 0 <=> d.packetId # 0
    BY PublishThere
  <2>4. \A t \in AckTypes : DecodeAck(arrived, t).err = Success => There(arrived, 2) /\ Found(arrived, t)
    BY AckThere
  <2> QED BY <2>1, <2>2, <2>3, <2>4, Zenon DEF DecodedIsThere, There, Found
<1> QED BY <1>1, ArrivalInduct, PTL

-----------------------------------------------------------------------------
(* Bytes at a position                                                     *)

Holds(b, i, x) ==
  /\ i + Len(x) <= Len(b) + 1
  /\ \A j \in 1..Len(x) : b[i + j - 1] = x[j]

LEMMA HoldsBoth ==
  ASSUME NEW b \in Seq(Bytes), NEW i \in Nat \ {0}, NEW x \in Seq(Bytes), NEW y \in Seq(Bytes),
         Holds(b, i, x \o y)
  PROVE  /\ Holds(b, i, x)
         /\ Holds(b, i + Len(x), y)
         /\ i + Len(x) \in Nat \ {0}
<1> DEFINE z == x \o y
<1> DEFINE l == Len(x)
<1> DEFINE m == Len(y)
<1>1. l \in Nat /\ m \in Nat /\ Len(b) \in Nat
  BY LenProperties
<1>2. /\ z \in Seq(Bytes) /\ Len(z) = l + m
      /\ \A j \in 1..(l + m) : z[j] = IF j <= l THEN x[j] ELSE y[j - l]
  BY ConcatProperties
<1>3. i + Len(z) <= Len(b) + 1 /\ \A j \in 1..Len(z) : b[i + j - 1] = z[j]
  BY DEF Holds
<1> HIDE DEF z, l, m
<1>4. i + l <= Len(b) + 1 /\ (i + l) + m <= Len(b) + 1 /\ i + l \in Nat \ {0}
  BY <1>1, <1>2, <1>3
<1>5. \A j \in 1..l : b[i + j - 1] = x[j]
  BY <1>1, <1>2, <1>3
<1>6. \A j \in 1..m : b[(i + l) + j - 1] = y[j]
  <2> TAKE j \in 1..m
  <2>1. l + j \in 1..(l + m) /\ ~(l + j <= l) /\ (l + j) - l = j
    BY <1>1
  <2>2. z[l + j] = y[j]
    BY <1>2, <2>1
  <2>3. b[i + (l + j) - 1] = z[l + j]
    BY <1>2, <1>3, <2>1
  <2>4. i + (l + j) - 1 = (i + l) + j - 1
    BY <1>1
  <2> QED BY <2>2, <2>3, <2>4
<1> QED BY <1>4, <1>5, <1>6 DEF Holds, l, m

LEMMA HoldsNum ==
  ASSUME NEW b \in Seq(Bytes), NEW i \in Nat \ {0}, NEW n \in Words, Holds(b, i, Num(n))
  PROVE  ReadNum(b, i) = n /\ i \in 1..Len(b) /\ i + 1 \in 1..Len(b)
<1> DEFINE z == Num(n)
<1>1. Len(z) = 2 /\ 256 * z[1] + z[2] = n
  BY NumBytes
<1>2. i + Len(z) <= Len(b) + 1 /\ \A j \in 1..Len(z) : b[i + j - 1] = z[j]
  BY DEF Holds
<1> HIDE DEF z
<1>3. 1 \in 1..Len(z) /\ 2 \in 1..Len(z) /\ i + 1 - 1 = i /\ i + 2 - 1 = i + 1
  BY <1>1
<1>4. b[i] = z[1] /\ b[i + 1] = z[2]
  <2>1. b[i + 1 - 1] = z[1] /\ b[i + 2 - 1] = z[2]
    BY <1>2, <1>3
  <2> QED BY <1>3, <2>1
<1>5. i + 2 <= Len(b) + 1 /\ Len(b) \in Nat
  BY <1>1, <1>2, LenProperties
<1> QED BY <1>1, <1>4, <1>5 DEF ReadNum

LEMMA HoldsSub ==
  ASSUME NEW b \in Seq(Bytes), NEW i \in Nat \ {0}, NEW x \in Seq(Bytes), Holds(b, i, x)
  PROVE  SubSeq(b, i, i + Len(x) - 1) = x
<1> DEFINE l == Len(x)
<1> DEFINE n == i + l - 1
<1> DEFINE z == SubSeq(b, i, n)
<1>1. l \in Nat /\ Len(b) \in Nat
  BY LenProperties
<1>2. i + l <= Len(b) + 1 /\ \A j \in 1..l : b[i + j - 1] = x[j]
  BY DEF Holds
<1> HIDE DEF l
<1>3. n \in Int /\ n <= Len(b) /\ n - i + 1 = l
  BY <1>1, <1>2
<1> HIDE DEF n
<1>4. \A j \in i..n : b[j] \in Bytes
  <2> TAKE j \in i..n
  <2>1. j \in 1..Len(b)
    BY <1>1, <1>3
  <2> QED BY <2>1
<1>5. /\ z \in Seq(Bytes)
      /\ Len(z) = IF i <= n THEN n - i + 1 ELSE 0
      /\ \A j \in 1..(n - i + 1) : z[j] = b[i + j - 1]
  BY <1>3, <1>4, SubSeqProperties
<1>6. Len(z) = l
  BY <1>1, <1>3, <1>5
<1>7. \A j \in 1..l : z[j] = x[j]
  BY <1>2, <1>3, <1>5
<1> HIDE DEF z
<1>8. \A u, v \in Seq(Bytes) : Len(u) = Len(v) /\ (\A j \in 1..Len(u) : u[j] = v[j]) => u = v
  BY SeqEqual
<1>9. z = x
  BY <1>5, <1>6, <1>7, <1>8 DEF l
<1> QED BY <1>9 DEF z, n, l

LEMMA HoldsByte ==
  ASSUME NEW b \in Seq(Bytes), NEW i \in Nat \ {0}, NEW a \in Bytes, Holds(b, i, <<a>>)
  PROVE  b[i] = a /\ i \in 1..Len(b)
<1>1. Len(<<a>>) = 1 /\ <<a>>[1] = a
  OBVIOUS
<1>2. i + 1 <= Len(b) + 1 /\ b[i + 1 - 1] = a
  BY <1>1 DEF Holds
<1>3. Len(b) \in Nat /\ i + 1 - 1 = i
  BY LenProperties
<1> QED BY <1>2, <1>3

-----------------------------------------------------------------------------
(* Decoding undoes encoding                                                *)

\* What a decoder knows when it has opened the packet that has arrived, or the
\* beginning of it.
OpensAs(p, k, header, body, buf) ==
  /\ k \in Nat /\ k >= 2
  /\ IF Len(buf) >= k
       THEN /\ p.err = Success /\ p.length = Len(body) /\ p.at = k + 1
            /\ Left(buf, p.at) = Len(buf) - k
            /\ buf[1] = header
            /\ \A i \in 1..Len(body) : k + i <= Len(buf) => buf[k + i] = body[i]
            /\ Len(buf) >= k + Len(body) => Holds(buf, k + 1, body)
       ELSE p.err = TooShort

LEMMA OpensPacket ==
  ASSUME NEW header \in Bytes, NEW body \in Seq(Bytes), VarnumLength(Len(body)) # 0,
         NEW buf \in Seq(Bytes), Lies(PacketOf(header, body), buf, 1),
         NEW headers, header \in headers
  PROVE  OpensAs(Open(buf, headers), InFront(body), header, body, buf)
<1> DEFINE p == Open(buf, headers)
<1> DEFINE k == InFront(body)
<1> DEFINE n == ReadVarnum(buf, 2)
<1> DEFINE m == Len(body)
<1>1. k \in Nat /\ k >= 2 /\ m \in Nat
  BY PacketParts
<1>2. /\ Len(buf) >= 1 => buf[1] = header
      /\ IF Len(buf) >= k
           THEN /\ n.err = Success /\ n.value = m /\ n.next = k + 1
                /\ \A i \in 1..m : k + i <= Len(buf) => buf[k + i] = body[i]
           ELSE n.err = TooShort
  BY PacketRead
<1>3. Len(buf) \in Nat
  BY LenProperties
<1>4. p = IF buf = <<>> THEN Failed(TooShort)
          ELSE IF buf[1] \notin headers THEN Failed(WrongPacket)
          ELSE [err |-> n.err, length |-> n.value, at |-> n.next]
  BY DEF Open
<1>5. buf # <<>> => Len(buf) >= 1
  <2> SUFFICES ASSUME buf # <<>> PROVE Len(buf) # 0
    BY <1>3
  <2> QED BY EmptySeq
<1>6. buf = <<>> => Len(buf) = 0
  OBVIOUS
<1> HIDE DEF p, k, n, m
<1>7. CASE Len(buf) >= k
  <2>1. Len(buf) >= 1 /\ buf # <<>> /\ buf[1] = header
    BY <1>1, <1>2, <1>3, <1>6, <1>7
  <2>2. p = [err |-> n.err, length |-> n.value, at |-> n.next]
    BY <1>4, <2>1
  <2>3. p.err = Success /\ p.length = m /\ p.at = k + 1
    BY <1>2, <1>7, <2>2
  <2>4. Left(buf, p.at) = Len(buf) - k
    BY <1>1, <1>3, <2>3 DEF Left
  <2>5. \A i \in 1..m : k + i <= Len(buf) => buf[k + i] = body[i]
    BY <1>2, <1>7
  <2>6. Len(buf) >= k + m => Holds(buf, k + 1, body)
    <3> HAVE Len(buf) >= k + m
    <3>1. (k + 1) + m <= Len(buf) + 1
      BY <1>1, <1>3
    <3>2. \A i \in 1..m : buf[(k + 1) + i - 1] = body[i]
      <4> TAKE i \in 1..m
      <4>1. (k + 1) + i - 1 = k + i /\ k + i <= Len(buf)
        BY <1>1, <1>3
      <4> QED BY <4>1, <2>5
    <3> QED BY <3>1, <3>2 DEF Holds, m
  <2> QED BY <1>1, <1>7, <2>1, <2>3, <2>4, <2>5, <2>6, Zenon DEF p, k, m, OpensAs
<1>8. CASE ~(Len(buf) >= k)
  <2>1. n.err = TooShort
    BY <1>2, <1>8
  <2>2. p.err = TooShort
    BY <1>2, <1>4, <1>5, <2>1 DEF Failed
  <2> QED BY <1>1, <1>8, <2>2, Zenon DEF p, k, OpensAs
<1> QED BY <1>7, <1>8

LEMMA AckDecodes ==
  ASSUME NEW type \in AckTypes, NEW id \in Words, NEW buf \in Seq(Bytes),
         VarnumLength(Len(Num(id))) # 0,
         Lies(PacketOf(Header(type, AckFlags(type)), Num(id)), buf, 1)
  PROVE  LET d == DecodeAck(buf, type)
         IN IF Len(buf) < InFront(Num(id)) + 2 THEN d.err = TooShort
            ELSE d = [err |-> Success, packetId |-> id]
<1> DEFINE header == Header(type, AckFlags(type))
<1> DEFINE body == Num(id)
<1> DEFINE k == InFront(body)
<1> DEFINE p == Open(buf, {header})
<1>1. header \in Bytes
  <2>1. AckFlags(type) \in 0..15 /\ type \in DOMAIN TypeCode
    BY DEF AckFlags, AckTypes, TypeCode
  <2> QED BY <2>1, HeaderType
<1>2. body \in Seq(Bytes) /\ Len(body) = 2
  BY NumBytes
<1>3. Len(buf) \in Nat
  BY LenProperties
<1>4. DecodeAck(buf, type) =
        IF p.err # Success THEN Failed(p.err)
        ELSE IF p.length # 2 THEN Failed(LengthMismatch)
        ELSE IF Left(buf, p.at) < 2 THEN Failed(TooShort)
        ELSE [err |-> Success, packetId |-> ReadNum(buf, p.at)]
  BY DEF DecodeAck
<1>5. VarnumLength(Len(body)) # 0 /\ Lies(PacketOf(header, body), buf, 1) /\ header \in {header}
  OBVIOUS
<1> HIDE DEF header, body
<1>6a. OpensAs(p, k, header, body, buf)
  BY <1>1, <1>2, <1>5, OpensPacket
<1> HIDE DEF p, k
<1>6. /\ k \in Nat /\ k >= 2
      /\ IF Len(buf) >= k
           THEN /\ p.err = Success /\ p.length = Len(body) /\ p.at = k + 1
                /\ Left(buf, p.at) = Len(buf) - k
                /\ Len(buf) >= k + Len(body) => Holds(buf, k + 1, body)
           ELSE p.err = TooShort
  BY <1>6a DEF OpensAs
<1>7. CASE Len(buf) < k + 2
  <2>1. DecodeAck(buf, type).err = TooShort
    BY <1>2, <1>3, <1>4, <1>6, <1>7 DEF Failed, Success, TooShort
  <2> QED BY <1>7, <2>1, Zenon DEF k, body
<1>8. CASE ~(Len(buf) < k + 2)
  <2>1. Holds(buf, k + 1, body) /\ k + 1 \in Nat \ {0}
    BY <1>2, <1>3, <1>6, <1>8
  <2>2. ReadNum(buf, k + 1) = id
    BY <2>1, HoldsNum DEF body
  <2>3. DecodeAck(buf, type) = [err |-> Success, packetId |-> id]
    BY <1>2, <1>3, <1>4, <1>6, <1>8, <2>2
  <2> QED BY <1>8, <2>3, Zenon DEF k, body
<1> QED BY <1>7, <1>8

LEMMA ConnackDecodes ==
  ASSUME NEW r \in BrokerAnswer, r.op = "CONNACK", NEW buf \in Seq(Bytes),
         Lies(PacketOf(Header("CONNACK", 0), BrokerBody(r)), buf, 1)
  PROVE  LET d == DecodeConnack(buf)
         IN IF Len(buf) < InFront(BrokerBody(r)) + Len(BrokerBody(r)) THEN d.err = TooShort
            ELSE d = [err |-> Success, sessionPresent |-> r.sessionPresent, returnCode |-> r.returnCode]
<1> DEFINE header == Header("CONNACK", 0)
<1> DEFINE body == BrokerBody(r)
<1> DEFINE k == InFront(body)
<1> DEFINE headers == AnyHeader("CONNACK")
<1> DEFINE p == Open(buf, headers)
<1>1. header \in Bytes /\ header \in headers
  BY HeaderType DEF TypeCode, AnyHeader
<1>2. body \in Seq(Bytes) /\ body = <<Flag(r.sessionPresent), r.returnCode>>
  BY BrokerBodyType
<1>3. Len(body) = 2 /\ body[1] = Flag(r.sessionPresent) /\ body[2] = r.returnCode
  BY <1>2
<1>4. Len(buf) \in Nat
  BY LenProperties
<1>5. DecodeConnack(buf) =
        IF p.err # Success THEN Failed(p.err)
        ELSE IF p.length # 2 THEN Failed(LengthMismatch)
        ELSE IF Left(buf, p.at) < 2 THEN Failed(TooShort)
        ELSE [err |-> Success, sessionPresent |-> ReadBits(buf[p.at], 0, 1) = 1,
              returnCode |-> Min({buf[p.at + 1], 6})]
  BY DEF DecodeConnack
<1>6. VarnumLength(Len(body)) # 0 /\ Lies(PacketOf(header, body), buf, 1)
  BY BrokerTypes
<1> HIDE DEF header, headers, body
<1>7a. OpensAs(p, k, header, body, buf)
  BY <1>1, <1>2, <1>6, OpensPacket
<1> HIDE DEF p, k
<1>7. /\ k \in Nat /\ k >= 2
      /\ IF Len(buf) >= k
           THEN /\ p.err = Success /\ p.length = Len(body) /\ p.at = k + 1
                /\ Left(buf, p.at) = Len(buf) - k
                /\ \A i \in 1..Len(body) : k + i <= Len(buf) => buf[k + i] = body[i]
           ELSE p.err = TooShort
  BY <1>7a DEF OpensAs
<1>8. CASE Len(buf) < k + 2
  <2>1. DecodeConnack(buf).err = TooShort
    BY <1>3, <1>4, <1>5, <1>7, <1>8 DEF Failed, Success, TooShort
  <2> QED BY <1>3, <1>8, <2>1, Zenon DEF k, body
<1>9. CASE ~(Len(buf) < k + 2)
  <2>1. buf[k + 1] = Flag(r.sessionPresent) /\ buf[k + 1 + 1] = r.returnCode
    <3>1. 1 \in 1..Len(body) /\ 2 \in 1..Len(body) /\ k + 1 + 1 = k + 2
      BY <1>3, <1>7
    <3>2. k + 1 <= Len(buf) /\ k + 2 <= Len(buf) /\ Len(buf) >= k
      BY <1>4, <1>7, <1>9
    <3> QED BY <1>3, <1>7, <3>1, <3>2
  <2>2. (ReadBits(Flag(r.sessionPresent), 0, 1) = 1) = r.sessionPresent
    <3>1. r.sessionPresent \in BOOLEAN
      BY BrokerTypes
    <3>2. 2^0 = 1 /\ 2^1 = 2
      OBVIOUS
    <3>3. CASE r.sessionPresent = TRUE
      <4>1. Flag(r.sessionPresent) = 1
        BY <3>3 DEF Flag
      <4>2. ReadBits(Flag(r.sessionPresent), 0, 1) = 1
        BY <3>2, <4>1 DEF ReadBits
      <4> QED BY <3>3, <4>2, Zenon
    <3>4. CASE r.sessionPresent = FALSE
      <4>1. Flag(r.sessionPresent) = 0
        BY <3>4 DEF Flag
      <4>2. ReadBits(Flag(r.sessionPresent), 0, 1) = 0
        BY <3>2, <4>1 DEF ReadBits
      <4>3. (ReadBits(Flag(r.sessionPresent), 0, 1) = 1) = FALSE
        BY <4>2
      <4> QED BY <3>4, <4>3, Zenon
    <3> QED BY <3>1, <3>3, <3>4
  <2>3. Min({r.returnCode, 6}) = r.returnCode
    <3>1. r.returnCode \in 0..5
      BY BrokerTypes
    <3>2. r.returnCode \in Int /\ 6 \in Int /\ r.returnCode <= 6
      BY <3>1
    <3> QED BY <3>2, Lesser
  <2>4. p.err = Success /\ p.length = 2 /\ ~(Left(buf, p.at) < 2) /\ p.at = k + 1
    BY <1>3, <1>4, <1>7, <1>9
  <2>5. DecodeConnack(buf) =
          [err |-> Success, sessionPresent |-> ReadBits(buf[k + 1], 0, 1) = 1,
           returnCode |-> Min({buf[k + 1 + 1], 6})]
    BY <1>5, <2>4, Zenon
  <2>6. DecodeConnack(buf) =
          [err |-> Success, sessionPresent |-> r.sessionPresent, returnCode |-> r.returnCode]
    BY <2>1, <2>2, <2>3, <2>5, Zenon
  <2> QED BY <1>3, <1>9, <2>6, Zenon DEF k, body
<1> QED BY <1>8, <1>9

LEMMA SubackDecodes ==
  ASSUME NEW r \in BrokerAnswer, r.op = "SUBACK", NEW buf \in Seq(Bytes),
         Lies(PacketOf(Header("SUBACK", 0), BrokerBody(r)), buf, 1)
  PROVE  LET d == DecodeSuback(buf, MaxCount)
         IN IF Len(buf) < InFront(BrokerBody(r)) + Len(BrokerBody(r))
              THEN d.err = TooShort \/ d.err = SubackOverflow
            ELSE IF Len(r.granted) > MaxCount THEN d.err = SubackOverflow
            ELSE d = [err |-> Success, packetId |-> r.packetId, granted |-> r.granted]
<1> DEFINE header == Header("SUBACK", 0)
<1> DEFINE body == BrokerBody(r)
<1> DEFINE id == r.packetId
<1> DEFINE codes == r.granted
<1> DEFINE m == Len(codes)
<1> DEFINE k == InFront(body)
<1> DEFINE headers == AnyHeader("SUBACK")
<1> DEFINE p == Open(buf, headers)
<1> DEFINE count == p.length - 2
<1> DEFINE present == Left(buf, p.at) - 2
<1> DEFINE granted == [i \in 1..count |-> GrantedQoS(buf[p.at + 1 + i])]
<1>1. header \in Bytes /\ header \in headers
  BY HeaderType DEF TypeCode, AnyHeader
<1>2. /\ body \in Seq(Bytes) /\ body = Num(id) \o codes
      /\ codes \in Seq(Bytes) /\ Len(body) = 2 + m
  BY BrokerBodyType
<1>3. id \in Words /\ codes \in Seq({0, 1, 2, 128}) /\ codes # <<>>
  BY BrokerTypes
<1>4. m \in Nat /\ m >= 1 /\ Len(buf) \in Nat /\ MaxCount \in Nat
  <2>1. m \in Nat /\ Len(buf) \in Nat
    BY <1>2, LenProperties
  <2>2. m # 0
    BY <1>3, EmptySeq
  <2> QED BY <2>1, <2>2, CodecAssumption
<1>5. DecodeSuback(buf, MaxCount) =
        IF p.err # Success THEN Failed(p.err)
        ELSE IF p.length < 3 THEN Failed(LengthMismatch)
        ELSE IF present < 0 THEN Failed(TooShort)
        ELSE IF count > MaxCount /\ present >= MaxCount THEN Failed(SubackOverflow)
        ELSE IF count > present THEN Failed(TooShort)
        ELSE [err |-> Success, packetId |-> ReadNum(buf, p.at), granted |-> granted]
  BY DEF DecodeSuback, TooManyCodes
<1>6. VarnumLength(Len(body)) # 0 /\ Lies(PacketOf(header, body), buf, 1)
  BY BrokerTypes
<1> HIDE DEF header, headers, body, id, codes, m, granted
<1>7a. OpensAs(p, k, header, body, buf)
  BY <1>1, <1>2, <1>6, OpensPacket
<1> HIDE DEF p, k
<1>7. /\ k \in Nat /\ k >= 2
      /\ IF Len(buf) >= k
           THEN /\ p.err = Success /\ p.length = Len(body) /\ p.at = k + 1
                /\ Left(buf, p.at) = Len(buf) - k
                /\ Len(buf) >= k + Len(body) => Holds(buf, k + 1, body)
           ELSE p.err = TooShort
  BY <1>7a DEF OpensAs
<1> DEFINE d == DecodeSuback(buf, MaxCount)
<1> HIDE DEF d
<1>8. CASE Len(buf) < k
  <2>1. d.err = TooShort
    BY <1>4, <1>5, <1>7, <1>8 DEF Failed, Success, TooShort, d
  <2>2. Len(buf) < k + Len(body)
    BY <1>2, <1>4, <1>7, <1>8
  <2> QED BY <2>1, <2>2, Zenon DEF d, k, body
<1>9. CASE ~(Len(buf) < k)
  <2>1. p.err = Success /\ p.length = 2 + m /\ p.at = k + 1 /\ Left(buf, p.at) = Len(buf) - k
    BY <1>2, <1>4, <1>7, <1>9
  <2>2. count = m /\ present = Len(buf) - k - 2
    BY <1>4, <1>7, <2>1
  <2> HIDE DEF count, present
  <2>3. d = IF present < 0 THEN Failed(TooShort)
            ELSE IF count > MaxCount /\ present >= MaxCount THEN Failed(SubackOverflow)
            ELSE IF count > present THEN Failed(TooShort)
            ELSE [err |-> Success, packetId |-> ReadNum(buf, p.at), granted |-> granted]
    BY <1>4, <1>5, <2>1 DEF d
  <2>4. CASE Len(buf) < k + Len(body)
    <3>1. present < 0 \/ count > present
      BY <1>2, <1>4, <1>7, <2>2, <2>4
    <3>2. d.err = TooShort \/ d.err = SubackOverflow
      BY <2>3, <3>1 DEF Failed
    <3> QED BY <2>4, <3>2, Zenon DEF d, k, body
  <2>5. CASE ~(Len(buf) < k + Len(body))
    <3>1. ~(present < 0) /\ ~(count > present) /\ present >= count
      BY <1>2, <1>4, <1>7, <2>2, <2>5
    <3>2. CASE m > MaxCount
      <4>1. count > MaxCount /\ present >= MaxCount
        <5>1. present \in Int /\ count \in Int
          BY <1>4, <1>7, <2>2
        <5> QED BY <1>4, <2>2, <3>1, <3>2, <5>1
      <4>2. d.err = SubackOverflow
        BY <2>3, <3>1, <4>1 DEF Failed
      <4> QED BY <2>5, <3>2, <4>2, Zenon DEF d, k, body, m, codes
    <3>3. CASE ~(m > MaxCount)
      <4>1. ~(count > MaxCount)
        BY <2>2, <3>3
      <4>2. d = [err |-> Success, packetId |-> ReadNum(buf, k + 1), granted |-> granted]
        BY <2>1, <2>3, <3>1, <4>1
      <4>3. Holds(buf, k + 1, body) /\ k + 1 \in Nat \ {0}
        BY <1>2, <1>4, <1>7, <2>5
      <4> DEFINE n == Num(id)
      <4>4. n \in Seq(Bytes) /\ Len(n) = 2
        BY <1>3, NumBytes
      <4>5. Holds(buf, k + 1, n) /\ Holds(buf, k + 1 + Len(n), codes)
        <5>1. Holds(buf, k + 1, n \o codes)
          BY <1>2, <4>3
        <5> HIDE DEF n
        <5> QED BY <1>2, <4>3, <4>4, <5>1, HoldsBoth
      <4>6. ReadNum(buf, k + 1) = id
        BY <1>3, <4>3, <4>5, HoldsNum
      <4>7. \A i \in 1..m : GrantedQoS(buf[p.at + 1 + i]) = codes[i]
        <5> TAKE i \in 1..m
        <5> HIDE DEF n
        <5>1. k + 1 + Len(n) + i - 1 = p.at + 1 + i
          BY <1>4, <1>7, <2>1, <4>4
        <5>2. buf[p.at + 1 + i] = codes[i]
          BY <4>5, <5>1 DEF Holds, m
        <5>3. codes[i] \in {0, 1, 2, 128}
          BY <1>3 DEF m
        <5> QED BY <5>2, <5>3 DEF GrantedQoS
      <4>8. granted = codes
        <5>1. granted = [i \in 1..m |-> GrantedQoS(buf[p.at + 1 + i])]
          BY <2>2 DEF granted, count
        <5>2. granted = [i \in 1..m |-> codes[i]]
          BY <4>7, <5>1, Zenon
        <5>3. codes = [i \in 1..m |-> codes[i]]
          BY <1>2 DEF m
        <5> QED BY <5>2, <5>3, Zenon
      <4>9. d = [err |-> Success, packetId |-> id, granted |-> codes]
        BY <4>2, <4>6, <4>8
      <4> QED BY <2>5, <3>3, <4>9, Zenon DEF d, k, body, m, codes, id
    <3> QED BY <3>2, <3>3
  <2> QED BY <2>4, <2>5
<1> QED BY <1>8, <1>9

LEMMA FlagIs == \A c \in BOOLEAN : Flag(c) \in 0..1 /\ (Flag(c) = 1) = c
<1> TAKE c \in BOOLEAN
<1>1. CASE c = TRUE
  <2>1. Flag(c) = 1
    BY <1>1 DEF Flag
  <2>2. (Flag(c) = 1) = TRUE /\ Flag(c) \in 0..1
    BY <2>1
  <2> QED BY <1>1, <2>2, Zenon
<1>2. CASE c = FALSE
  <2>1. Flag(c) = 0
    BY <1>2 DEF Flag
  <2>2. (Flag(c) = 1) = FALSE /\ Flag(c) \in 0..1
    BY <2>1
  <2> QED BY <1>2, <2>2, Zenon
<1> QED BY <1>1, <1>2

\* The flags in the header of a PUBLISH, read back.
LEMMA PublishFlagsRead ==
  ASSUME NEW m \in PublishRequest
  PROVE  LET b == Header("PUBLISH", PublishFlags(m)) IN
           /\ b \in PublishHeaders
           /\ ReadBits(b, 1, 2) = m.qos
           /\ (ReadBits(b, 3, 1) = 1) = m.dup
           /\ (ReadBits(b, 0, 1) = 1) = m.retained
<1> DEFINE f == PublishFlags(m)
<1> DEFINE b == Header("PUBLISH", f)
<1> DEFINE dup == Flag(m.dup)
<1> DEFINE ret == Flag(m.retained)
<1> DEFINE q == m.qos
<1>1. /\ f \in 0..15 /\ f = 8 * dup + 2 * q + ret /\ b = 48 + f
  BY PublishHeader
<1>2. m.dup \in BOOLEAN /\ m.retained \in BOOLEAN /\ q \in 0..2
  BY PublishTypes
<1>3. /\ dup \in 0..1 /\ ret \in 0..1
      /\ (dup = 1) = m.dup /\ (ret = 1) = m.retained
  BY <1>2, FlagIs
<1> HIDE DEF f, b, dup, ret, q
<1>4. 2^0 = 1 /\ 2^1 = 2 /\ 2^2 = 4 /\ 2^3 = 8
  OBVIOUS
<1>5. (f \div 2) % 4 = q /\ (b \div 2) % 4 = q /\ (b \div 8) % 2 = dup /\ (b \div 1) % 2 = ret
  <2>1. (f \div 2) % 4 = q
    BY <1>1, <1>2, <1>3
  <2>2. (b \div 2) % 4 = q
    BY <1>1, <1>2, <1>3
  <2>3. (b \div 8) % 2 = dup
    BY <1>1, <1>2, <1>3
  <2>4. (b \div 1) % 2 = ret
    BY <1>1, <1>2, <1>3
  <2> QED BY <2>1, <2>2, <2>3, <2>4
<1>6. ReadBits(f, 1, 2) = q /\ ReadBits(b, 1, 2) = q /\ ReadBits(b, 3, 1) = dup /\ ReadBits(b, 0, 1) = ret
  BY <1>4, <1>5 DEF ReadBits
<1>7. b \in PublishHeaders
  <2>1. f \in {g \in 0..15 : ReadBits(g, 1, 2) # 3}
    BY <1>1, <1>2, <1>6
  <2> QED BY <2>1 DEF PublishHeaders, b
<1>8. (ReadBits(b, 3, 1) = 1) = m.dup /\ (ReadBits(b, 0, 1) = 1) = m.retained
  BY <1>3, <1>6, Zenon
<1> QED BY <1>6, <1>7, <1>8 DEF b, f, q

LEMMA PublishDecodes ==
  ASSUME NEW m \in PublishRequest, NEW buf \in Seq(Bytes),
         VarnumLength(Len(PublishBody(m))) # 0,
         Lies(PacketOf(Header("PUBLISH", PublishFlags(m)), PublishBody(m)), buf, 1)
  PROVE  LET d == DecodePublish(buf)
         IN IF Len(buf) < InFront(PublishBody(m)) + Len(PublishBody(m)) THEN d.err = TooShort
            ELSE d = [err |-> Success, dup |-> m.dup, qos |-> m.qos, retained |-> m.retained,
                      packetId |-> m.packetId, topic |-> m.topic, payload |-> m.payload]
<1> DEFINE first == Header("PUBLISH", PublishFlags(m))
<1> DEFINE body == PublishBody(m)
<1> DEFINE front == PublishFront(m)
<1> DEFINE t == Len(m.topic)
<1> DEFINE l == Len(m.payload)
<1> DEFINE extra == IF m.qos > 0 THEN 2 ELSE 0
<1> DEFINE k == InFront(body)
<1> DEFINE p == Open(buf, PublishHeaders)
<1>1. first \in Bytes /\ first \in PublishHeaders
  BY PublishHeader, PublishFlagsRead
<1>2. /\ m.qos \in 0..2 /\ m.packetId \in Words /\ m.topic \in Seq(Bytes) /\ m.payload \in Seq(Bytes)
      /\ m.qos > 0 => m.packetId # 0
      /\ m.qos = 0 => m.packetId = 0
  BY PublishTypes, DataIs
<1>3. t \in Nat /\ t \in Words /\ l \in Nat /\ extra \in Nat /\ Len(buf) \in Nat
  BY <1>2, PublishTypes, DataIs, LenProperties
<1>4. /\ front \in Seq(Bytes) /\ Len(front) = 2 + t + extra
      /\ PublishId(m) \in Seq(Bytes)
  BY PublishFrontIs
<1>5. body = front \o m.payload
  BY DEF PublishBody
<1> DEFINE end == PacketEnd(buf, p)
<1> DEFINE qos == ReadBits(buf[1], 1, 2)
<1> DEFINE topicEnd == p.at + 1 + ReadNum(buf, p.at)
<1> DEFINE header == IF qos > 0 THEN topicEnd + 2 ELSE topicEnd
<1> DEFINE id == IF qos > 0 THEN ReadNum(buf, topicEnd + 1) ELSE 0
<1> DEFINE topic == SubSeq(buf, p.at + 2, topicEnd)
<1> DEFINE payload == SubSeq(buf, header + 1, end)
<1> DEFINE dup == ReadBits(buf[1], 3, 1) = 1
<1> DEFINE retained == ReadBits(buf[1], 0, 1) = 1
<1> DEFINE found == [err |-> Success, dup |-> dup, qos |-> qos, retained |-> retained, packetId |-> id,
                     topic |-> topic, payload |-> payload]
<1> DEFINE d == DecodePublish(buf)
<1>6. d = IF p.err # Success THEN Failed(p.err)
          ELSE IF p.length < 2 THEN Failed(LengthMismatch)
          ELSE IF Left(buf, p.at) < p.length THEN Failed(TooShort)
          ELSE IF header > end THEN Failed(TooShort)
          ELSE IF qos > 0 /\ id = 0 THEN Failed(WrongPacket)
          ELSE found
  BY DEF DecodePublish, PublishHeaders
<1>7. VarnumLength(Len(body)) # 0 /\ Lies(PacketOf(first, body), buf, 1)
  OBVIOUS
<1> HIDE DEF first, body, front
<1>8. body \in Seq(Bytes) /\ Len(body) = 2 + t + extra + l
  <2> DEFINE y == m.payload
  <2>1. y \in Seq(Bytes) /\ body = front \o y /\ Len(y) = l
    BY <1>2, <1>5
  <2> HIDE DEF y, l, t, extra
  <2>2. front \o y \in Seq(Bytes) /\ Len(front \o y) = Len(front) + Len(y)
    BY <1>4, <2>1, ConcatProperties
  <2> QED BY <1>3, <1>4, <2>1, <2>2
<1> HIDE DEF t, l, extra, d, found, payload, topic, id, header, topicEnd, qos, end, dup, retained
<1>9. OpensAs(p, k, first, body, buf)
  BY <1>1, <1>7, <1>8, OpensPacket
<1> HIDE DEF p, k
<1>10. /\ k \in Nat /\ k >= 2
       /\ IF Len(buf) >= k
            THEN /\ p.err = Success /\ p.length = Len(body) /\ p.at = k + 1
                 /\ Left(buf, p.at) = Len(buf) - k
                 /\ buf[1] = first
                 /\ Len(buf) >= k + Len(body) => Holds(buf, k + 1, body)
            ELSE p.err = TooShort
  BY <1>9 DEF OpensAs
<1>11. CASE Len(buf) < k + Len(body)
  <2>1. CASE Len(buf) >= k
    <3>1. p.err = Success /\ ~(p.length < 2) /\ Left(buf, p.at) < p.length
      BY <1>3, <1>8, <1>10, <1>11, <2>1
    <3>2. d.err = TooShort
      BY <1>6, <3>1 DEF Failed
    <3> QED BY <1>11, <3>2, Zenon DEF d, k, body
  <2>2. CASE ~(Len(buf) >= k)
    <3>1. p.err = TooShort /\ TooShort # Success
      BY <1>10, <2>2 DEF TooShort, Success
    <3>2. d.err = TooShort
      BY <1>6, <3>1 DEF Failed
    <3> QED BY <1>11, <3>2, Zenon DEF d, k, body
  <2> QED BY <2>1, <2>2
<1>12. CASE ~(Len(buf) < k + Len(body))
  <2> DEFINE at == k + 1
  <2>1. /\ p.err = Success /\ p.length = Len(body) /\ p.at = at
        /\ Left(buf, p.at) = Len(buf) - k
        /\ buf[1] = first /\ Holds(buf, at, body)
    BY <1>3, <1>8, <1>10, <1>12
  <2>2. at \in Nat \ {0}
    BY <1>10
  <2>3. Left(buf, p.at) >= Len(body) /\ Len(body) >= 2 /\ end = k + Len(body)
    BY <1>3, <1>8, <1>10, <1>12, <2>1 DEF end, PacketEnd
  <2> HIDE DEF at
  <2>4. Holds(buf, at, front) /\ Holds(buf, at + Len(front), m.payload)
    <3>1. Holds(buf, at, front \o m.payload)
      BY <1>5, <2>1
    <3> DEFINE y == m.payload
    <3> HIDE DEF y
    <3>2. y \in Seq(Bytes) /\ Holds(buf, at, front \o y)
      BY <1>2, <3>1 DEF y
    <3>3. Holds(buf, at, front) /\ Holds(buf, at + Len(front), y)
      BY <1>4, <2>2, <3>2, HoldsBoth
    <3> QED BY <3>3 DEF y
  <2> DEFINE s == Stretch(m.topic)
  <2>5. s \in Seq(Bytes) /\ Len(s) = t + 2
    BY <1>2, <1>3, StrFields DEF t
  <2>6. Holds(buf, at, s) /\ Holds(buf, at + Len(s), PublishId(m))
    <3>1. front = s \o PublishId(m)
      BY DEF front, PublishFront
    <3> HIDE DEF s
    <3> QED BY <1>4, <2>2, <2>4, <2>5, <3>1, HoldsBoth
  <2> DEFINE n == Num(t)
  <2>7. n \in Seq(Bytes) /\ Len(n) = 2
    BY <1>3, NumBytes
  <2>8. Holds(buf, at, n) /\ Holds(buf, at + Len(n), m.topic) /\ at + Len(n) \in Nat \ {0}
    <3> DEFINE y == m.topic
    <3>1. s = n \o y /\ y \in Seq(Bytes)
      BY <1>2 DEF Stretch, t
    <3> HIDE DEF s, n, y
    <3>2. Holds(buf, at, n) /\ Holds(buf, at + Len(n), y) /\ at + Len(n) \in Nat \ {0}
      BY <2>2, <2>6, <2>7, <3>1, HoldsBoth
    <3> QED BY <3>2 DEF y
  <2>9. ReadNum(buf, at) = t
    BY <1>3, <2>2, <2>8, HoldsNum
  <2> HIDE DEF s, n
  <2>10. topicEnd = at + 1 + t /\ topicEnd \in Nat
    BY <1>3, <2>1, <2>2, <2>9 DEF topicEnd
  <2>11. qos = m.qos /\ dup = m.dup /\ retained = m.retained
    BY <2>1, PublishFlagsRead, Zenon DEF qos, dup, retained, first
  <2>12. header = at + 1 + t + extra /\ header \in Nat
    BY <1>2, <1>3, <2>2, <2>10, <2>11 DEF header, extra
  <2>13. header <= end /\ end = header + l /\ end \in Int
    BY <1>3, <1>8, <1>10, <2>2, <2>3, <2>12 DEF at
  <2>14. id = m.packetId
    <3>1. CASE m.qos > 0
      <4>1. topicEnd + 1 = at + Len(s)
        BY <1>3, <2>2, <2>5, <2>10
      <4>2. topicEnd + 1 \in Nat \ {0}
        BY <2>10
      <4>3. Holds(buf, topicEnd + 1, Num(m.packetId))
        BY <2>6, <3>1, <4>1 DEF PublishId
      <4>4. ReadNum(buf, topicEnd + 1) = m.packetId
        BY <1>2, <4>2, <4>3, HoldsNum
      <4> QED BY <2>11, <3>1, <4>4 DEF id
    <3>2. CASE ~(m.qos > 0)
      <4>1. m.packetId = 0
        BY <1>2, <3>2
      <4> QED BY <2>11, <3>2, <4>1 DEF id
    <3> QED BY <3>1, <3>2
  <2>15. ~(qos > 0 /\ id = 0)
    BY <1>2, <2>11, <2>14
  <2>16. topic = m.topic
    <3>1. p.at + 2 = at + Len(n) /\ topicEnd = at + Len(n) + t - 1
      BY <1>3, <2>1, <2>2, <2>7, <2>10
    <3>2. SubSeq(buf, at + Len(n), at + Len(n) + Len(m.topic) - 1) = m.topic
      BY <1>2, <2>8, HoldsSub
    <3> QED BY <3>1, <3>2, Zenon DEF topic, t
  <2>17. payload = m.payload
    <3>1. at + Len(front) = header + 1 /\ end = header + 1 + l - 1
      BY <1>3, <1>4, <2>2, <2>12, <2>13
    <3>2. Holds(buf, header + 1, m.payload) /\ header + 1 \in Nat \ {0}
      BY <2>4, <2>12, <3>1
    <3>3. SubSeq(buf, header + 1, header + 1 + Len(m.payload) - 1) = m.payload
      BY <1>2, <3>2, HoldsSub
    <3> QED BY <3>1, <3>3, Zenon DEF payload, l
  <2>18. d = found
    <3>1. ~(p.length < 2) /\ ~(Left(buf, p.at) < p.length) /\ ~(header > end)
      BY <1>3, <1>8, <1>10, <2>1, <2>3, <2>12, <2>13, SMTT(30)
    <3> QED BY <1>6, <2>1, <2>15, <3>1, Zenon
  <2>19. found = [err |-> Success, dup |-> m.dup, qos |-> m.qos, retained |-> m.retained,
                  packetId |-> m.packetId, topic |-> m.topic, payload |-> m.payload]
    BY <2>11, <2>14, <2>16, <2>17, Zenon DEF found
  <2> QED BY <1>12, <2>18, <2>19, Zenon DEF d, k, body
<1> QED BY <1>11, <1>12

\* The decoder of a request finds what was encoded, or too little.
LEMMA Inverts ==
  ASSUME NEW r \in Requests, IsDecodable(r), NEW e, Packed(r, e), e.err = Success,
         NEW buf \in Seq(Bytes), Lies(e.bytes, buf, 1)
  PROVE  LET d == Decoded(r, buf) IN
           IF Len(buf) < Len(e.bytes)
             THEN d.err = TooShort \/ (r.op = "SUBACK" /\ d.err = SubackOverflow)
           ELSE IF r.op = "SUBACK" /\ Len(r.granted) > MaxCount THEN d.err = SubackOverflow
           ELSE /\ d.err = Success
                /\ \A f \in DOMAIN d \ {"err"} : d[f] = r[f]
<1>1. PICK header, body : Carries(r, header, body) /\ Framed(e, header, body)
  BY DEF Packed
<1>2. /\ header \in Bytes /\ body \in Seq(Bytes) /\ VarnumLength(Len(body)) # 0
      /\ e.bytes = PacketOf(header, body)
  BY <1>1 DEF Framed
<1>3. Len(e.bytes) = InFront(body) + Len(body)
  BY <1>2, PacketParts
<1>4. Lies(PacketOf(header, body), buf, 1)
  BY <1>2
<1>5. CASE r.op \in AckTypes
  <2> DEFINE d == DecodeAck(buf, r.op)
  <2>1. Decoded(r, buf) = d /\ r.op # "SUBACK"
    BY <1>5 DEF Decoded, AckTypes
  <2>2. header = Header(r.op, AckFlags(r.op)) /\ body = Num(r.packetId)
    BY <1>1, <1>5 DEF Carries
  <2>3. r.packetId \in Words
    <3>1. r \in [op : AckTypes, packetId : Words]
      BY <1>5, CodecAssumption, ConnectTypes, PublishTypes, BrokerTypes
         DEF AckTypes, ShortRequest, SubscribeRequest, UnsubscribeRequest
    <3> QED BY <3>1
  <2>4. Len(body) = 2
    BY <2>2, <2>3, NumBytes
  <2>5. IF Len(buf) < InFront(body) + 2 THEN d.err = TooShort
        ELSE d = [err |-> Success, packetId |-> r.packetId]
    BY <1>2, <1>4, <1>5, <2>2, <2>3, AckDecodes
  <2> HIDE DEF d
  <2>6. d = [err |-> Success, packetId |-> r.packetId] =>
          d.err = Success /\ \A f \in DOMAIN d \ {"err"} : d[f] = r[f]
    OBVIOUS
  <2> QED BY <1>3, <2>1, <2>4, <2>5, <2>6
<1>6. CASE r.op = "PUBLISH"
  <2> DEFINE d == DecodePublish(buf)
  <2>1. Decoded(r, buf) = d /\ r.op # "SUBACK"
    BY <1>6 DEF Decoded, AckTypes
  <2>2. header = Header("PUBLISH", PublishFlags(r)) /\ body = PublishBody(r)
    BY <1>1, <1>6 DEF Carries
  <2>3. r \in PublishRequest
    BY <1>6, CodecAssumption, ConnectTypes, BrokerTypes
       DEF AckTypes, ShortRequest, SubscribeRequest, UnsubscribeRequest
  <2> DEFINE found == [err |-> Success, dup |-> r.dup, qos |-> r.qos, retained |-> r.retained,
                       packetId |-> r.packetId, topic |-> r.topic, payload |-> r.payload]
  <2>4. IF Len(buf) < InFront(body) + Len(body) THEN d.err = TooShort ELSE d = found
    BY <1>2, <1>4, <2>2, <2>3, PublishDecodes
  <2>5. found.err = Success /\ \A f \in DOMAIN found \ {"err"} : found[f] = r[f]
    OBVIOUS
  <2> HIDE DEF d, found
  <2> QED BY <1>3, <2>1, <2>4, <2>5
<1>7. CASE r.op = "CONNACK"
  <2> DEFINE d == DecodeConnack(buf)
  <2>1. Decoded(r, buf) = d /\ r.op # "SUBACK"
    BY <1>7 DEF Decoded, AckTypes
  <2>2. header = Header("CONNACK", 0) /\ body = BrokerBody(r)
    BY <1>1, <1>7 DEF Carries
  <2>3. r \in BrokerAnswer
    BY <1>7, CodecAssumption, ConnectTypes, PublishTypes
       DEF AckTypes, ShortRequest, SubscribeRequest, UnsubscribeRequest
  <2> DEFINE found == [err |-> Success, sessionPresent |-> r.sessionPresent, returnCode |-> r.returnCode]
  <2>4. IF Len(buf) < InFront(body) + Len(body) THEN d.err = TooShort ELSE d = found
    BY <1>4, <1>7, <2>2, <2>3, ConnackDecodes
  <2>5. found.err = Success /\ \A f \in DOMAIN found \ {"err"} : found[f] = r[f]
    OBVIOUS
  <2> HIDE DEF d, found
  <2> QED BY <1>3, <2>1, <2>4, <2>5
<1>8. CASE r.op = "SUBACK"
  <2> DEFINE d == DecodeSuback(buf, MaxCount)
  <2>1. Decoded(r, buf) = d
    BY <1>8 DEF Decoded, AckTypes
  <2>2. header = Header("SUBACK", 0) /\ body = BrokerBody(r)
    BY <1>1, <1>8 DEF Carries
  <2>3. r \in BrokerAnswer
    BY <1>8, CodecAssumption, ConnectTypes, PublishTypes
       DEF AckTypes, ShortRequest, SubscribeRequest, UnsubscribeRequest
  <2> DEFINE found == [err |-> Success, packetId |-> r.packetId, granted |-> r.granted]
  <2>4. IF Len(buf) < InFront(body) + Len(body) THEN d.err = TooShort \/ d.err = SubackOverflow
        ELSE IF Len(r.granted) > MaxCount THEN d.err = SubackOverflow
        ELSE d = found
    BY <1>4, <1>8, <2>2, <2>3, SubackDecodes
  <2>5. found.err = Success /\ \A f \in DOMAIN found \ {"err"} : found[f] = r[f]
    OBVIOUS
  <2> HIDE DEF d, found
  <2> QED BY <1>3, <1>8, <2>1, <2>4, <2>5
<1> QED BY <1>5, <1>6, <1>7, <1>8 DEF IsDecodable

\* Decoding undoes encoding, whatever lies behind the packet in the buffer; the
\* beginning of a packet is too short (lwmqtt_encode_*, lwmqtt_decode_*).
THEOREM DecodingInvertsEncoding == Spec => []DecodeInvertsEncode
<1>1. ArrivalInv => DecodeInvertsEncode
  <2> SUFFICES ASSUME ArrivalInv, sent.err = Success, IsDecodable(request)
               PROVE  LET d == Decoded(request, arrived) IN
                        IF Len(arrived) < Len(sent.bytes)
                          THEN d.err = TooShort \/ (request.op = "SUBACK" /\ d.err = SubackOverflow)
                        ELSE IF request.op = "SUBACK" /\ Len(request.granted) > MaxCount
                          THEN d.err = SubackOverflow
                        ELSE /\ d.err = Success
                             /\ \A f \in DOMAIN d \ {"err"} : d[f] = request[f]
    BY DEF DecodeInvertsEncode
  <2>1. /\ request \in Requests /\ Packed(request, sent)
        /\ arrived \in Seq(Bytes) /\ Lies(sent.bytes, arrived, 1)
    BY DEF ArrivalInv, NotSent, Success
  <2> QED BY <2>1, Inverts
<1> QED BY <1>1, ArrivalInduct, PTL

-----------------------------------------------------------------------------
(* What a peer reads                                                       *)

LEMMA BytesRead ==
  ASSUME NEW b \in Seq(Bytes)
  PROVE  /\ \A i : ByteAt(b, i) \in Nat /\ NumAt(b, i) \in Nat
         /\ \A i \in 1..Len(b) : ByteAt(b, i) = b[i]
<1>1. \A i : ByteAt(b, i) \in Nat
  <2> TAKE i
  <2>1. CASE i \in DOMAIN b
    <3>1. b[i] \in Bytes
      BY <2>1
    <3>2. b[i] \in Nat
      BY <3>1, ByteRange
    <3> QED BY <2>1, <3>2 DEF ByteAt
  <2>2. CASE i \notin DOMAIN b
    BY <2>2 DEF ByteAt
  <2> QED BY <2>1, <2>2
<1>2. \A i : NumAt(b, i) \in Nat
  BY <1>1 DEF NumAt
<1>3. \A i \in 1..Len(b) : ByteAt(b, i) = b[i]
  BY DEF ByteAt
<1> QED BY <1>1, <1>2, <1>3

LEMMA NumHeld ==
  ASSUME NEW b \in Seq(Bytes), NEW i \in Nat \ {0}, NEW n \in Words, Holds(b, i, Num(n))
  PROVE  NumAt(b, i) = n
<1>1. ReadNum(b, i) = n /\ i \in 1..Len(b) /\ i + 1 \in 1..Len(b)
  BY HoldsNum
<1>2. ByteAt(b, i) = b[i] /\ ByteAt(b, i + 1) = b[i + 1]
  BY <1>1, BytesRead
<1> QED BY <1>1, <1>2 DEF ReadNum, NumAt

LEMMA StringHeld ==
  ASSUME NEW b \in Seq(Bytes), NEW i \in Nat \ {0}, NEW s \in Data, Holds(b, i, Stretch(s))
  PROVE  StringAt(b, i) = s /\ Behind(b, i) = i + Len(Stretch(s))
<1> DEFINE n == Num(Len(s))
<1> DEFINE l == Len(s)
<1>1. s \in Seq(Bytes) /\ l \in Words /\ l \in Nat
  BY DataIs, WordsAreNumbers
<1>2. n \in Seq(Bytes) /\ Len(n) = 2
  BY <1>1, NumBytes
<1>3. Holds(b, i, n) /\ Holds(b, i + Len(n), s) /\ i + Len(n) \in Nat \ {0}
  <2>1. Holds(b, i, n \o s)
    BY DEF Stretch
  <2> HIDE DEF n
  <2> QED BY <1>1, <1>2, <2>1, HoldsBoth
<1>4. NumAt(b, i) = l
  BY <1>1, <1>3, NumHeld
<1>5. Len(Stretch(s)) = l + 2
  BY <1>1, StrFields
<1>6. Behind(b, i) = i + Len(Stretch(s))
  BY <1>1, <1>4, <1>5 DEF Behind
<1> HIDE DEF n
<1>7. i + 2 + l <= Len(b) + 1 /\ \A j \in 1..l : b[i + 2 + j - 1] = s[j]
  BY <1>2, <1>3 DEF Holds
<1>8. \A j \in 1..l : ByteAt(b, i + 1 + j) = s[j]
  <2> TAKE j \in 1..l
  <2>1. Len(b) \in Nat
    BY LenProperties
  <2>2. i + 1 + j \in 1..Len(b) /\ i + 1 + j = i + 2 + j - 1
    BY <1>1, <1>7, <2>1
  <2>3. ByteAt(b, i + 1 + j) = b[i + 1 + j]
    BY <2>2, BytesRead
  <2> QED BY <1>7, <2>2, <2>3
<1>9. StringAt(b, i) = s
  <2>1. StringAt(b, i) = [j \in 1..l |-> ByteAt(b, i + 1 + j)]
    BY <1>4 DEF StringAt
  <2>2. s = [j \in 1..l |-> s[j]]
    BY <1>1
  <2> HIDE DEF l
  <2> QED BY <1>8, <2>1, <2>2, Zenon
<1> QED BY <1>6, <1>9

LEMMA HoldsItself ==
  ASSUME NEW b \in Seq(Bytes)
  PROVE  Holds(b, 1, b)
BY DEF Holds

\* The body of a packet that has arrived as a whole.
LEMMA BodyIs ==
  ASSUME NEW header \in Bytes, NEW body \in Seq(Bytes), VarnumLength(Len(body)) # 0
  PROVE  Body(PacketOf(header, body)) = body
<1> DEFINE b == PacketOf(header, body)
<1> DEFINE k == InFront(body)
<1>1. /\ Len(body) \in Nat /\ k \in Nat /\ k >= 2
      /\ b \in Seq(Bytes) /\ Len(b) = k + Len(body)
      /\ \A i \in 1..Len(body) : b[k + i] = body[i]
  BY PacketParts
<1>2. Lies(b, b, 1)
  BY <1>1 DEF Lies
<1>3. IF Len(b) >= k
        THEN ReadVarnum(b, 2).next = k + 1
        ELSE ReadVarnum(b, 2).err = TooShort
  BY <1>1, <1>2, PacketRead
<1> HIDE DEF b, k
<1>4. ReadVarnum(b, 2).next = k + 1
  BY <1>1, <1>3
<1>5. Holds(b, k + 1, body) /\ k + 1 \in Nat \ {0} /\ k + 1 + Len(body) - 1 = Len(b)
  <2>1. \A i \in 1..Len(body) : b[k + 1 + i - 1] = body[i]
    <3> TAKE i \in 1..Len(body)
    <3>1. k + 1 + i - 1 = k + i
      BY <1>1
    <3> QED BY <1>1, <3>1
  <2> QED BY <1>1, <2>1 DEF Holds
<1>6. SubSeq(b, k + 1, Len(b)) = body
  <2>1. SubSeq(b, k + 1, k + 1 + Len(body) - 1) = body
    BY <1>1, <1>5, HoldsSub
  <2> QED BY <1>5, <2>1
<1> QED BY <1>4, <1>6 DEF Body, b

\* The filters of a request, from first to last.
StartsAt(f, b, n, each) ==
  f = [i \in 1..(n + 1) |-> IF i = 1 THEN 3 ELSE Behind(b, f[i - 1]) + each]

\* A body with a number and the filters, each with a tail of so many bytes.
ListsFilters(b, id, filters, each, bodies, tails, g, n) ==
  /\ id \in Words /\ filters \in Seq(Data) /\ each \in Nat
  /\ n = Len(filters)
  /\ Grows(g, bodies, n)
  /\ b = Num(id) \o g[n]
  /\ \A k \in 1..n : /\ tails[k] \in Seq(Bytes) /\ Len(tails[k]) = each
                     /\ bodies[k] = Stretch(filters[k]) \o tails[k]

LEMMA FiltersHeld ==
  ASSUME NEW b \in Seq(Bytes), NEW id, NEW filters, NEW each, NEW bodies, NEW tails, NEW g, NEW n,
         ListsFilters(b, id, filters, each, bodies, tails, g, n)
  PROVE  LET at == FilterAt(b, n, each) IN
           /\ NumAt(b, 1) = id
           /\ at[n + 1] = Len(b) + 1
           /\ \A i \in 1..n : /\ StringAt(b, at[i]) = filters[i]
                              /\ at[i + 1] - each \in Nat \ {0}
                              /\ Holds(b, at[i + 1] - each, tails[i])
<1>0. each \in Nat /\ id \in Words
  BY DEF ListsFilters
<1>1. n \in Nat
  BY LenProperties DEF ListsFilters
<1>2. g \in [0..n -> Seq(Bytes)] /\ g[0] = <<>> /\ \A k \in 1..n : g[k] = g[k - 1] \o bodies[k]
  BY DEF Grows, ListsFilters
<1> DEFINE L(k) == Len(g[k])
<1> DEFINE s(k) == Stretch(filters[k])
<1>3. \A k \in 0..n : g[k] \in Seq(Bytes) /\ L(k) \in Nat
  BY <1>2, LenProperties
<1>4. \A k \in 1..n : /\ filters[k] \in Data /\ s(k) \in Seq(Bytes) /\ Len(s(k)) \in Nat
                      /\ bodies[k] \in Seq(Bytes) /\ Len(bodies[k]) = Len(s(k)) + each
  <2> TAKE k \in 1..n
  <2>1. filters[k] \in Data
    BY DEF ListsFilters
  <2> DEFINE x == s(k)
  <2> DEFINE y == tails[k]
  <2>2. x \in Seq(Bytes)
    BY <2>1, DataIs, StrFields
  <2>3. y \in Seq(Bytes) /\ Len(y) = each /\ bodies[k] = x \o y
    BY DEF ListsFilters
  <2> HIDE DEF x, y
  <2>4. x \o y \in Seq(Bytes) /\ Len(x \o y) = Len(x) + Len(y) /\ Len(x) \in Nat
    BY <2>2, <2>3, ConcatProperties, LenProperties
  <2>5. bodies[k] \in Seq(Bytes) /\ Len(bodies[k]) = Len(x) + each
    BY <2>3, <2>4
  <2> QED BY <2>1, <2>2, <2>4, <2>5 DEF x
<1>5. \A k \in 1..n : L(k) = L(k - 1) + Len(s(k)) + each
  <2> TAKE k \in 1..n
  <2> DEFINE x == g[k - 1]
  <2> DEFINE y == bodies[k]
  <2>1. k - 1 \in 0..n
    BY <1>1
  <2>2. x \in Seq(Bytes) /\ y \in Seq(Bytes) /\ g[k] = x \o y /\ Len(y) = Len(s(k)) + each
    BY <1>2, <1>4, <2>1
  <2>3. Len(s(k)) \in Nat
    BY <1>4
  <2> HIDE DEF x, y, s
  <2>4. Len(x \o y) = Len(x) + Len(y) /\ Len(x) \in Nat
    BY <2>2, ConcatProperties, LenProperties
  <2>5. L(k - 1) = Len(x)
    BY DEF x
  <2>6. L(k) = Len(x) + (Len(s(k)) + each)
    BY <2>2, <2>4
  <2> HIDE DEF L
  <2>7. L(k) = Len(x) + Len(s(k)) + each
    BY <1>0, <2>3, <2>4, <2>6
  <2> QED BY <2>5, <2>7
<1> DEFINE num == Num(id)
<1>6. num \in Seq(Bytes) /\ Len(num) = 2
  BY <1>0, NumBytes
<1>7. Holds(b, 1, num) /\ Holds(b, 3, g[n]) /\ Len(b) = 2 + L(n)
  <2> DEFINE x == g[n]
  <2>1. x \in Seq(Bytes)
    BY <1>1, <1>3
  <2>2. b = num \o x
    BY DEF ListsFilters
  <2>3. Holds(b, 1, b)
    BY HoldsItself
  <2> HIDE DEF num, x
  <2>6. Holds(b, 1, num \o x)
    BY <2>2, <2>3, Zenon
  <2>7. 1 \in Nat \ {0}
    OBVIOUS
  <2>4. Holds(b, 1, num) /\ Holds(b, 1 + Len(num), x)
    BY <1>6, <2>1, <2>6, <2>7, HoldsBoth
  <2>5. Len(b) = Len(num) + Len(x)
    BY <1>6, <2>1, <2>2, ConcatProperties
  <2> QED BY <1>6, <2>4, <2>5 DEF x
<1>8. NumAt(b, 1) = id
  <2>1. 1 \in Nat \ {0}
    OBVIOUS
  <2> QED BY <1>0, <1>7, <2>1, NumHeld
<1> HIDE DEF num, L, s
<1>9. \A k \in 0..n : Holds(b, 3, g[k])
  <2> DEFINE S == {j \in 0..n : Holds(b, 3, g[n - j])}
  <2>1. 0 \in S
    BY <1>1, <1>7
  <2>2. \A j \in 0..(n - 1) : j \in S => j + 1 \in S
    <3> TAKE j \in 0..(n - 1)
    <3> HAVE j \in S
    <3> DEFINE k == n - j
    <3>1. k \in 1..n /\ k - 1 \in 0..n /\ n - (j + 1) = k - 1 /\ j + 1 \in 0..n
      BY <1>1
    <3> DEFINE x == g[k - 1]
    <3> DEFINE y == bodies[k]
    <3>2. Holds(b, 3, g[k]) /\ 3 \in Nat \ {0}
      OBVIOUS
    <3>3. x \in Seq(Bytes) /\ y \in Seq(Bytes) /\ g[k] = x \o y
      BY <1>2, <1>3, <1>4, <3>1
    <3> HIDE DEF k, x, y
    <3>4. Holds(b, 3, x)
      <4>1. Holds(b, 3, x \o y)
        BY <3>2, <3>3
      <4> QED BY <3>2, <3>3, <4>1, HoldsBoth
    <3> QED BY <3>1, <3>4 DEF x
  <2> HIDE DEF S
  <2>3. \A j \in 0..n : j \in S
    BY <1>1, <2>1, <2>2, InductionUpTo
  <2> TAKE k \in 0..n
  <2>4. n - k \in 0..n /\ n - (n - k) = k
    BY <1>1
  <2> QED BY <2>3, <2>4 DEF S
<1>10. \A k \in 1..n : /\ 3 + L(k - 1) \in Nat \ {0}
                       /\ Holds(b, 3 + L(k - 1), s(k))
                       /\ 3 + L(k - 1) + Len(s(k)) \in Nat \ {0}
                       /\ Holds(b, 3 + L(k - 1) + Len(s(k)), tails[k])
  <2> TAKE k \in 1..n
  <2> DEFINE x == g[k - 1]
  <2> DEFINE y == bodies[k]
  <2> DEFINE t == tails[k]
  <2>1. k - 1 \in 0..n /\ k \in 0..n
    BY <1>1
  <2>2. x \in Seq(Bytes) /\ y \in Seq(Bytes) /\ g[k] = x \o y /\ Len(x) = L(k - 1)
    BY <1>2, <1>3, <1>4, <2>1 DEF L
  <2>3. t \in Seq(Bytes) /\ s(k) \in Seq(Bytes) /\ y = s(k) \o t
    BY <1>4 DEF s, ListsFilters
  <2>4. Holds(b, 3, g[k])
    BY <1>9, <2>1
  <2> HIDE DEF x, y, t
  <2>8. Holds(b, 3, x \o y)
    BY <2>2, <2>4, Zenon
  <2>9. 3 \in Nat \ {0}
    OBVIOUS
  <2>5. Holds(b, 3 + Len(x), y) /\ 3 + Len(x) \in Nat \ {0}
    BY <2>2, <2>8, <2>9, HoldsBoth
  <2> DEFINE i == 3 + Len(x)
  <2> DEFINE z == s(k)
  <2>6. i \in Nat \ {0} /\ Holds(b, i, z \o t) /\ z \in Seq(Bytes)
    BY <2>3, <2>5
  <2> HIDE DEF i, z
  <2>7. Holds(b, i, z) /\ Holds(b, i + Len(z), t) /\ i + Len(z) \in Nat \ {0}
    BY <2>3, <2>6, HoldsBoth
  <2> QED BY <2>2, <2>6, <2>7 DEF i, z, t
<1>11. \A k \in 1..n : StringAt(b, 3 + L(k - 1)) = filters[k] /\ Behind(b, 3 + L(k - 1)) + each = 3 + L(k)
  <2> TAKE k \in 1..n
  <2> DEFINE i == 3 + L(k - 1)
  <2>1. i \in Nat \ {0} /\ Holds(b, i, s(k)) /\ filters[k] \in Data
    BY <1>4, <1>10
  <2> HIDE DEF i
  <2>2. StringAt(b, i) = filters[k] /\ Behind(b, i) = i + Len(s(k))
    BY <2>1, StringHeld DEF s
  <2>3. L(k) = L(k - 1) + Len(s(k)) + each /\ L(k - 1) \in Nat /\ Len(s(k)) \in Nat
    <3>1. k - 1 \in 0..n
      BY <1>1
    <3> QED BY <1>3, <1>4, <1>5, <3>1
  <2>4. Behind(b, i) + each = 3 + L(k)
    BY <1>0, <2>2, <2>3 DEF i
  <2> QED BY <2>2, <2>4 DEF i
<1> DEFINE c == CHOOSE f : StartsAt(f, b, n, each)
<1>12. FilterAt(b, n, each) = c
  BY DEF FilterAt, StartsAt
<1>13. StartsAt(c, b, n, each)
  <2> DEFINE f == [i \in 1..(n + 1) |-> 3 + L(i - 1)]
  <2>1. \A i \in 1..(n + 1) : 3 + L(i - 1) = IF i = 1 THEN 3 ELSE Behind(b, f[i - 1]) + each
    <3> TAKE i \in 1..(n + 1)
    <3>1. CASE i = 1
      <4>1. i - 1 = 0 /\ L(0) = 0
        BY <1>2, <3>1 DEF L
      <4> QED BY <3>1, <4>1
    <3>2. CASE i # 1
      <4>1. i - 1 \in 1..n /\ i - 1 \in 1..(n + 1)
        BY <1>1, <3>2
      <4>2. f[i - 1] = 3 + L((i - 1) - 1)
        BY <4>1
      <4> HIDE DEF f
      <4>3. Behind(b, 3 + L((i - 1) - 1)) + each = 3 + L(i - 1)
        BY <1>11, <4>1
      <4> QED BY <3>2, <4>2, <4>3
    <3> QED BY <3>1, <3>2
  <2>2. f = [i \in 1..(n + 1) |-> IF i = 1 THEN 3 ELSE Behind(b, f[i - 1]) + each]
    BY <2>1, Zenon
  <2> HIDE DEF f
  <2>3. StartsAt(f, b, n, each)
    BY <2>2 DEF StartsAt
  <2> QED BY <2>3
<1> HIDE DEF c
<1>14. \A i \in 1..(n + 1) : c[i] = IF i = 1 THEN 3 ELSE Behind(b, c[i - 1]) + each
  <2>1. c = [i \in 1..(n + 1) |-> IF i = 1 THEN 3 ELSE Behind(b, c[i - 1]) + each]
    BY <1>13 DEF StartsAt
  <2> QED BY <2>1, Zenon
<1>15. \A k \in 0..n : c[k + 1] = 3 + L(k)
  <2> DEFINE S == {k \in 0..n : c[k + 1] = 3 + L(k)}
  <2>1. 0 \in S
    <3>1. c[1] = 3 /\ L(0) = 0
      BY <1>1, <1>2, <1>14 DEF L
    <3> QED BY <1>1, <3>1
  <2>2. \A k \in 0..(n - 1) : k \in S => k + 1 \in S
    <3> TAKE k \in 0..(n - 1)
    <3> HAVE k \in S
    <3>1. k + 1 \in 1..n /\ k + 1 \in 0..n /\ k + 1 + 1 \in 1..(n + 1) /\ k + 1 + 1 # 1
          /\ k + 1 + 1 - 1 = k + 1 /\ k + 1 - 1 = k
      BY <1>1
    <3>2. c[k + 1 + 1] = Behind(b, c[k + 1]) + each
      BY <1>14, <3>1
    <3>3. Behind(b, 3 + L(k)) + each = 3 + L(k + 1)
      BY <1>11, <3>1
    <3> QED BY <3>1, <3>2, <3>3
  <2> HIDE DEF S
  <2>3. \A k \in 0..n : k \in S
    BY <1>1, <2>1, <2>2, InductionUpTo
  <2> QED BY <2>3 DEF S
<1>16. c[n + 1] = Len(b) + 1
  <2>1. c[n + 1] = 3 + L(n) /\ L(n) \in Nat
    BY <1>1, <1>3, <1>15
  <2> QED BY <1>7, <2>1
<1>17. \A i \in 1..n : /\ StringAt(b, c[i]) = filters[i]
                       /\ c[i + 1] - each \in Nat \ {0}
                       /\ Holds(b, c[i + 1] - each, tails[i])
  <2> TAKE i \in 1..n
  <2>1. i - 1 \in 0..n /\ i \in 0..n /\ i - 1 + 1 = i
    BY <1>1
  <2>2. c[i] = 3 + L(i - 1) /\ c[i + 1] = 3 + L(i)
    BY <1>15, <2>1
  <2>3. L(i) = L(i - 1) + Len(s(i)) + each /\ L(i - 1) \in Nat /\ Len(s(i)) \in Nat
    BY <1>3, <1>4, <1>5, <2>1
  <2>4. c[i + 1] - each = 3 + L(i - 1) + Len(s(i))
    BY <1>0, <2>2, <2>3
  <2> QED BY <1>10, <1>11, <2>2, <2>4
<1> QED BY <1>8, <1>12, <1>16, <1>17, Zenon

\* What a peer finds in a request with filters.
FiltersUnderstood(b, r, each) ==
  LET n == Len(r.filters)
      at == FilterAt(b, n, each)
  IN /\ NumAt(b, 1) = r.packetId
     /\ at[n + 1] = Len(b) + 1
     /\ \A i \in 1..n : /\ StringAt(b, at[i]) = r.filters[i]
                        /\ each = 1 => ByteAt(b, at[i + 1] - 1) = r.qos[i]

LEMMA SubscribeUnderstood ==
  ASSUME NEW r \in SubscribeRequest, NEW g, NEW b \in Seq(Bytes),
         Grows(g, SubscribeBodies(r), Len(r.filters)), b = Num(r.packetId) \o g[Len(r.filters)]
  PROVE  FiltersUnderstood(b, r, 1)
<1> DEFINE filters == r.filters
<1> DEFINE n == Len(filters)
<1> DEFINE bodies == SubscribeBodies(r)
<1> DEFINE tails == [k \in 1..n |-> <<r.qos[k]>>]
<1>1. /\ r.packetId \in Words /\ filters \in Seq(Data) /\ r.qos \in Seq(0..2)
      /\ Len(r.qos) = n
  BY Zenon DEF SubscribeRequest
<1>2. \A k \in 1..n : r.qos[k] \in Bytes
  <2> TAKE k \in 1..n
  <2> DEFINE q == r.qos[k]
  <2>1. q \in 0..2
    BY <1>1
  <2> HIDE DEF q
  <2>2. q \in Bytes
    BY <2>1, ByteRange
  <2> QED BY <2>2 DEF q
<1>3. \A k \in 1..n : /\ tails[k] = <<r.qos[k]>> /\ tails[k] \in Seq(Bytes) /\ Len(tails[k]) = 1
                      /\ bodies[k] = Stretch(filters[k]) \o tails[k]
  <2> TAKE k \in 1..n
  <2> DEFINE q == r.qos[k]
  <2>1. tails[k] = <<q>> /\ q \in Bytes
    BY <1>2
  <2>2. bodies[k] = Stretch(filters[k]) \o <<q>>
    BY DEF SubscribeBodies
  <2> HIDE DEF q, tails, bodies
  <2>3. <<q>> \in Seq(Bytes) /\ Len(<<q>>) = 1
    BY <2>1
  <2> QED BY <2>1, <2>2, <2>3, Zenon DEF q
<1> HIDE DEF tails, bodies
<1>4. 1 \in Nat
  OBVIOUS
<1>5. ListsFilters(b, r.packetId, filters, 1, bodies, tails, g, n)
  <2>1. Grows(g, bodies, n) /\ b = Num(r.packetId) \o g[n]
    BY DEF bodies
  <2> HIDE DEF n, filters
  <2>2. n = Len(filters)
    BY DEF n, filters
  <2> QED BY <1>1, <1>3, <1>4, <2>1, <2>2, Zenon DEF ListsFilters
<1> DEFINE at == FilterAt(b, n, 1)
<1>6. /\ NumAt(b, 1) = r.packetId
      /\ at[n + 1] = Len(b) + 1
      /\ \A i \in 1..n : /\ StringAt(b, at[i]) = filters[i]
                         /\ at[i + 1] - 1 \in Nat \ {0}
                         /\ Holds(b, at[i + 1] - 1, tails[i])
  <2> HIDE DEF n, filters
  <2> QED BY <1>5, FiltersHeld
<1> HIDE DEF at
<1>7. \A i \in 1..n : ByteAt(b, at[i + 1] - 1) = r.qos[i]
  <2> TAKE i \in 1..n
  <2> DEFINE j == at[i + 1] - 1
  <2> DEFINE q == r.qos[i]
  <2>1. j \in Nat \ {0} /\ Holds(b, j, <<q>>) /\ q \in Bytes
    BY <1>2, <1>3, <1>6
  <2> HIDE DEF j, q
  <2>2. b[j] = q /\ j \in 1..Len(b)
    BY <2>1, HoldsByte
  <2>3. ByteAt(b, j) = q
    BY <2>2, BytesRead
  <2> QED BY <2>3 DEF j, q
<1> QED BY <1>6, <1>7, Zenon DEF FiltersUnderstood, at, n, filters

LEMMA UnsubscribeUnderstood ==
  ASSUME NEW r \in UnsubscribeRequest, NEW g, NEW b \in Seq(Bytes),
         Grows(g, UnsubscribeBodies(r), Len(r.filters)), b = Num(r.packetId) \o g[Len(r.filters)]
  PROVE  FiltersUnderstood(b, r, 0)
<1> DEFINE filters == r.filters
<1> DEFINE n == Len(filters)
<1> DEFINE bodies == UnsubscribeBodies(r)
<1> DEFINE tails == [k \in 1..n |-> <<>>]
<1>1. r.packetId \in Words /\ filters \in Seq(Data)
  BY Zenon DEF UnsubscribeRequest
<1>2. \A k \in 1..n : /\ tails[k] \in Seq(Bytes) /\ Len(tails[k]) = 0
                      /\ bodies[k] = Stretch(filters[k]) \o tails[k]
  <2> TAKE k \in 1..n
  <2> DEFINE x == Stretch(filters[k])
  <2>1. filters[k] \in Data
    BY <1>1
  <2>2. x \in Seq(Bytes)
    BY <2>1, DataIs, StrFields
  <2>3. tails[k] = <<>> /\ bodies[k] = x
    BY DEF UnsubscribeBodies
  <2> HIDE DEF x, tails, bodies
  <2>4. <<>> \in Seq(Bytes) /\ Len(<<>>) = 0 /\ x \o <<>> = x
    BY <2>2, ConcatEmptySeq
  <2> QED BY <2>3, <2>4, Zenon DEF x
<1> HIDE DEF tails, bodies
<1>3. 0 \in Nat
  OBVIOUS
<1>4. ListsFilters(b, r.packetId, filters, 0, bodies, tails, g, n)
  <2>1. Grows(g, bodies, n) /\ b = Num(r.packetId) \o g[n]
    BY DEF bodies
  <2> HIDE DEF n, filters
  <2>2. n = Len(filters)
    BY DEF n, filters
  <2> QED BY <1>1, <1>2, <1>3, <2>1, <2>2, Zenon DEF ListsFilters
<1> DEFINE at == FilterAt(b, n, 0)
<1>5. /\ NumAt(b, 1) = r.packetId
      /\ at[n + 1] = Len(b) + 1
      /\ \A i \in 1..n : StringAt(b, at[i]) = filters[i]
  <2> HIDE DEF n, filters
  <2>1. LET f == FilterAt(b, n, 0) IN
          /\ NumAt(b, 1) = r.packetId
          /\ f[n + 1] = Len(b) + 1
          /\ \A i \in 1..n : /\ StringAt(b, f[i]) = filters[i]
                             /\ f[i + 1] - 0 \in Nat \ {0}
                             /\ Holds(b, f[i + 1] - 0, tails[i])
    BY <1>4, FiltersHeld, Zenon
  <2> QED BY <2>1, Zenon
<1>6. ~(0 = 1)
  OBVIOUS
<1> HIDE DEF at
<1> QED BY <1>5, <1>6, Zenon DEF FiltersUnderstood, at, n, filters

\* The bits of the flags of a CONNECT.
LEMMA FlagBits ==
  ASSUME NEW c \in 0..1, NEW h \in 0..1, NEW q \in 0..2, NEW r \in 0..1, NEW p \in 0..1, NEW u \in 0..1,
         NEW f, f = 2 * c + 4 * h + 8 * q + 32 * r + 64 * p + 128 * u
  PROVE  /\ ReadBits(f, 0, 1) = 0 /\ ReadBits(f, 1, 1) = c /\ ReadBits(f, 2, 1) = h
         /\ ReadBits(f, 3, 2) = q /\ ReadBits(f, 5, 1) = r
         /\ ReadBits(f, 6, 1) = p /\ ReadBits(f, 7, 1) = u
<1>1. 2^0 = 1 /\ 2^1 = 2 /\ 2^2 = 4 /\ 2^3 = 8 /\ 2^5 = 32 /\ 2^6 = 64 /\ 2^7 = 128
  OBVIOUS
<1>2. f \div 1 = f /\ f % 2 = 0
  OBVIOUS
<1>3. f \div 2 = c + 2 * h + 4 * q + 16 * r + 32 * p + 64 * u
  OBVIOUS
<1>4. f \div 4 = h + 2 * q + 8 * r + 16 * p + 32 * u
  OBVIOUS
<1>5. f \div 8 = q + 4 * r + 8 * p + 16 * u
  OBVIOUS
<1>6. f \div 32 = r + 2 * p + 4 * u
  OBVIOUS
<1>7. f \div 64 = p + 2 * u
  OBVIOUS
<1>8. f \div 128 = u
  OBVIOUS
<1>9. (f \div 2) % 2 = c /\ (f \div 4) % 2 = h
  BY <1>3, <1>4
<1>10. (f \div 8) % 4 = q /\ (f \div 32) % 2 = r
  BY <1>5, <1>6
<1>11. (f \div 64) % 2 = p /\ (f \div 128) % 2 = u
  BY <1>7, <1>8
<1> QED BY <1>1, <1>2, <1>9, <1>10, <1>11 DEF ReadBits

LEMMA ConnectFlagsRead ==
  ASSUME NEW o \in ConnectRequest
  PROVE  LET f == ConnectFlags(o)
             bit(i) == ReadBits(f, i, 1) = 1
         IN /\ bit(0) = FALSE
            /\ bit(1) = o.clean
            /\ bit(2) = HasWill(o)
            /\ HasWill(o) => ReadBits(f, 3, 2) = o.will.qos /\ bit(5) = o.will.retained
            /\ bit(6) = HasPassword(o)
            /\ bit(7) = HasUser(o)
<1> DEFINE f == ConnectFlags(o)
<1> DEFINE c == Flag(o.clean)
<1> DEFINE h == Flag(HasWill(o))
<1> DEFINE q == IF HasWill(o) THEN o.will.qos ELSE 0
<1> DEFINE r == IF HasWill(o) THEN Flag(o.will.retained) ELSE 0
<1> DEFINE p == Flag(HasPassword(o))
<1> DEFINE u == Flag(HasUser(o))
<1>1. /\ o.clean \in BOOLEAN /\ HasWill(o) \in BOOLEAN
      /\ HasWill(o) => o.will.qos \in 0..2 /\ o.will.retained \in BOOLEAN
  BY ConnectTypes
<1>2. HasPassword(o) \in BOOLEAN /\ HasUser(o) \in BOOLEAN
  BY DEF HasPassword, HasUser
<1>3. /\ c \in 0..1 /\ (c = 1) = o.clean
      /\ h \in 0..1 /\ (h = 1) = HasWill(o)
      /\ p \in 0..1 /\ (p = 1) = HasPassword(o)
      /\ u \in 0..1 /\ (u = 1) = HasUser(o)
  BY <1>1, <1>2, FlagIs, Zenon
<1>4. HasWill(o) => Flag(o.will.retained) \in 0..1 /\ (Flag(o.will.retained) = 1) = o.will.retained
  BY <1>1, FlagIs, Zenon
<1>5. q \in 0..2 /\ r \in 0..1
  BY <1>1, <1>4
<1>6. f = 2 * c + 4 * h + 8 * q + 32 * r + 64 * p + 128 * u
  <2>1. f = 2 * c + (IF HasWill(o) THEN 4 + 8 * o.will.qos + 32 * Flag(o.will.retained) ELSE 0)
            + 128 * u + 64 * p
    BY ConnectFlagsByte
  <2>4. c \in 0..1 /\ p \in 0..1 /\ u \in 0..1
    BY <1>3
  <2> HIDE DEF f, c, p, u
  <2>2. CASE HasWill(o)
    <3>1. h = 1 /\ q = o.will.qos /\ r = Flag(o.will.retained)
      BY <2>2 DEF Flag
    <3> HIDE DEF h, q, r
    <3>2. f = 2 * c + (4 + 8 * q + 32 * r) + 128 * u + 64 * p
      BY <2>1, <2>2, <3>1
    <3> QED BY <1>5, <2>4, <3>1, <3>2
  <2>3. CASE ~HasWill(o)
    <3>1. h = 0 /\ q = 0 /\ r = 0
      BY <2>3 DEF Flag
    <3> HIDE DEF h, q, r
    <3>2. f = 2 * c + 0 + 128 * u + 64 * p
      BY <2>1, <2>3
    <3> QED BY <2>4, <3>1, <3>2
  <2> QED BY <2>2, <2>3
<1>7. HasWill(o) => q = o.will.qos /\ r = Flag(o.will.retained)
  OBVIOUS
<1> HIDE DEF f, c, h, q, r, p, u
<1>8. /\ ReadBits(f, 0, 1) = 0 /\ ReadBits(f, 1, 1) = c /\ ReadBits(f, 2, 1) = h
      /\ ReadBits(f, 3, 2) = q /\ ReadBits(f, 5, 1) = r
      /\ ReadBits(f, 6, 1) = p /\ ReadBits(f, 7, 1) = u
  BY <1>3, <1>5, <1>6, FlagBits
<1>9. (0 = 1) = FALSE
  OBVIOUS
<1>10. HasWill(o) => ReadBits(f, 3, 2) = o.will.qos /\ (ReadBits(f, 5, 1) = 1) = o.will.retained
  BY <1>4, <1>7, <1>8, Zenon
<1>11. /\ (ReadBits(f, 0, 1) = 1) = FALSE
       /\ (ReadBits(f, 1, 1) = 1) = o.clean
       /\ (ReadBits(f, 2, 1) = 1) = HasWill(o)
       /\ (ReadBits(f, 6, 1) = 1) = HasPassword(o)
       /\ (ReadBits(f, 7, 1) = 1) = HasUser(o)
  BY <1>3, <1>8, <1>9, Zenon
<1> QED BY <1>10, <1>11, Zenon DEF f

\* A field that is there only under a condition, read under this condition.
LEMMA FieldHeld ==
  ASSUME NEW b \in Seq(Bytes), NEW i \in Nat \ {0}, NEW cond \in BOOLEAN, NEW s, cond => s \in Data,
         Holds(b, i, StretchIf(cond, s))
  PROVE  /\ BehindIf(cond, b, i) = i + Len(StretchIf(cond, s))
         /\ StringIf(cond, b, i) = IF cond THEN s ELSE <<>>
<1>1. CASE cond
  <2>1. StretchIf(cond, s) = Stretch(s)
    BY <1>1 DEF StretchIf
  <2>2. StringAt(b, i) = s /\ Behind(b, i) = i + Len(Stretch(s))
    <3>1. Holds(b, i, Stretch(s)) /\ s \in Data
      BY <1>1, <2>1
    <3> QED BY <3>1, StringHeld
  <2> QED BY <1>1, <2>1, <2>2, Zenon DEF BehindIf, StringIf
<1>2. CASE ~cond
  <2>1. StretchIf(cond, s) = <<>>
    BY <1>2 DEF StretchIf
  <2>2. i + Len(<<>>) = i
    OBVIOUS
  <2> QED BY <1>2, <2>1, <2>2, Zenon DEF BehindIf, StringIf
<1> QED BY <1>1, <1>2

\* What comes last.
LastAt(b, x, y) ==
  /\ Holds(b, 1, x)
  /\ Holds(b, 1 + Len(x), y)
  /\ 1 + Len(x) \in Nat \ {0}
  /\ Len(x \o y) = Len(x) + Len(y)
  /\ Len(x) \in Nat /\ Len(y) \in Nat

LEMMA HoldsLast ==
  \A b, x, y \in Seq(Bytes) : Holds(b, 1, x \o y) => LastAt(b, x, y)
<1> SUFFICES ASSUME NEW b \in Seq(Bytes), NEW x \in Seq(Bytes), NEW y \in Seq(Bytes), Holds(b, 1, x \o y)
             PROVE  LastAt(b, x, y)
  OBVIOUS
<1>1. 1 \in Nat \ {0}
  OBVIOUS
<1>2. Holds(b, 1, x) /\ Holds(b, 1 + Len(x), y) /\ 1 + Len(x) \in Nat \ {0}
  BY <1>1, HoldsBoth
<1>3. Len(x \o y) = Len(x) + Len(y)
  BY ConcatProperties
<1>4. Len(x) \in Nat /\ Len(y) \in Nat
  BY LenProperties
<1> QED BY <1>2, <1>3, <1>4, Zenon DEF LastAt

\* Where the parts of a CONNECT are.
LEMMA ConnectHeld ==
  ASSUME NEW o \in ConnectRequest, NEW b \in Seq(Bytes), b = ConnectBody(o)
  PROVE  LET w == 11 + Len(Stretch(o.id))
             u == w + Len(WillBody(o))
             p == u + Len(StretchIf(HasUser(o), o.username))
         IN /\ Holds(b, 1, Stretch(Protocol))
            /\ Holds(b, 7, ConnectNumbers(o))
            /\ Holds(b, 11, Stretch(o.id))
            /\ w \in Nat \ {0} /\ Holds(b, w, WillBody(o))
            /\ u \in Nat \ {0} /\ Holds(b, u, StretchIf(HasUser(o), o.username))
            /\ p \in Nat \ {0} /\ Holds(b, p, StretchIf(HasPassword(o), o.password))
            /\ p + Len(StretchIf(HasPassword(o), o.password)) = Len(b) + 1
<1> DEFINE b1 == Stretch(Protocol)
<1> DEFINE b2 == ConnectNumbers(o)
<1> DEFINE b3 == Stretch(o.id)
<1> DEFINE b4 == WillBody(o)
<1> DEFINE b5 == StretchIf(HasUser(o), o.username)
<1> DEFINE b6 == StretchIf(HasPassword(o), o.password)
<1>1. b1 \in Seq(Bytes) /\ Len(b1) = 6
  BY ProtocolFields
<1>2. b2 \in Seq(Bytes) /\ Len(b2) = 4
  BY NumberFields
<1>3. b3 \in Seq(Bytes)
  <2>1. o.id \in Seq(Bytes) /\ Len(o.id) \in Words
    BY ConnectTypes, DataIs
  <2> QED BY <2>1, StrFields
<1>4. b4 \in Seq(Bytes)
  BY WillFields
<1>5. b5 \in Seq(Bytes)
  <2>1. HasUser(o) \in BOOLEAN /\ o.username \in Data
    BY ConnectTypes DEF HasUser
  <2> QED BY <2>1, StrFieldsIf
<1>6. b6 \in Seq(Bytes)
  <2>1. HasPassword(o) \in BOOLEAN /\ o.password \in Data
    BY ConnectTypes DEF HasPassword
  <2> QED BY <2>1, StrFieldsIf
<1>7. b = b1 \o b2 \o b3 \o b4 \o b5 \o b6
  BY DEF ConnectBody
<1> HIDE DEF b1, b2, b3, b4, b5, b6
<1> DEFINE x2 == b1 \o b2
<1> DEFINE x3 == x2 \o b3
<1> DEFINE x4 == x3 \o b4
<1> DEFINE x5 == x4 \o b5
<1>8. /\ x2 \in Seq(Bytes) /\ x3 \in Seq(Bytes) /\ x4 \in Seq(Bytes) /\ x5 \in Seq(Bytes)
      /\ b = x5 \o b6
  <2>1. x2 \in Seq(Bytes)
    BY <1>1, <1>2, ConcatProperties
  <2> HIDE DEF x2
  <2>2. x3 \in Seq(Bytes)
    BY <1>3, <2>1, ConcatProperties
  <2> HIDE DEF x3
  <2>3. x4 \in Seq(Bytes)
    BY <1>4, <2>2, ConcatProperties
  <2> HIDE DEF x4
  <2>4. x5 \in Seq(Bytes)
    BY <1>5, <2>3, ConcatProperties
  <2>5. b = x5 \o b6
    BY <1>7, Zenon DEF x5, x4, x3, x2
  <2> QED BY <2>1, <2>2, <2>3, <2>4, <2>5
<1>9. x3 = x2 \o b3 /\ x4 = x3 \o b4 /\ x5 = x4 \o b5
  OBVIOUS
<1>10. x2 = b1 \o b2
  OBVIOUS
<1> HIDE DEF x2, x3, x4, x5
<1>11. /\ Holds(b, 1, x5) /\ Holds(b, 1 + Len(x5), b6) /\ 1 + Len(x5) \in Nat \ {0}
       /\ Len(b) = Len(x5) + Len(b6) /\ Len(x5) \in Nat /\ Len(b6) \in Nat
  <2>1. Holds(b, 1, x5 \o b6)
    BY <1>8, HoldsItself, Zenon
  <2>2. x5 \in Seq(Bytes) /\ b6 \in Seq(Bytes)
    BY <1>6, <1>8
  <2>3. LastAt(b, x5, b6)
    BY <2>1, <2>2, HoldsLast, Zenon
  <2> QED BY <1>8, <2>3, Zenon DEF LastAt
<1>12. /\ Holds(b, 1, x4) /\ Holds(b, 1 + Len(x4), b5) /\ 1 + Len(x4) \in Nat \ {0}
       /\ Len(x5) = Len(x4) + Len(b5) /\ Len(x4) \in Nat /\ Len(b5) \in Nat
  <2>1. Holds(b, 1, x4 \o b5)
    BY <1>9, <1>11, Zenon
  <2>2. x4 \in Seq(Bytes) /\ b5 \in Seq(Bytes)
    BY <1>5, <1>8
  <2>3. LastAt(b, x4, b5)
    BY <2>1, <2>2, HoldsLast, Zenon
  <2> QED BY <1>9, <2>3, Zenon DEF LastAt
<1>13. /\ Holds(b, 1, x3) /\ Holds(b, 1 + Len(x3), b4) /\ 1 + Len(x3) \in Nat \ {0}
       /\ Len(x4) = Len(x3) + Len(b4) /\ Len(x3) \in Nat /\ Len(b4) \in Nat
  <2>1. Holds(b, 1, x3 \o b4)
    BY <1>9, <1>12, Zenon
  <2>2. x3 \in Seq(Bytes) /\ b4 \in Seq(Bytes)
    BY <1>4, <1>8
  <2>3. LastAt(b, x3, b4)
    BY <2>1, <2>2, HoldsLast, Zenon
  <2> QED BY <1>9, <2>3, Zenon DEF LastAt
<1>14. /\ Holds(b, 1, x2) /\ Holds(b, 1 + Len(x2), b3)
       /\ Len(x3) = Len(x2) + Len(b3) /\ Len(x2) \in Nat /\ Len(b3) \in Nat
  <2>1. Holds(b, 1, x2 \o b3)
    BY <1>9, <1>13, Zenon
  <2>2. x2 \in Seq(Bytes) /\ b3 \in Seq(Bytes)
    BY <1>3, <1>8
  <2>3. LastAt(b, x2, b3)
    BY <2>1, <2>2, HoldsLast, Zenon
  <2> QED BY <1>9, <2>3, Zenon DEF LastAt
<1>15. Holds(b, 1, b1) /\ Holds(b, 1 + Len(b1), b2) /\ Len(x2) = Len(b1) + Len(b2)
  <2>1. Holds(b, 1, b1 \o b2)
    BY <1>10, <1>14, Zenon
  <2>2. b1 \in Seq(Bytes) /\ b2 \in Seq(Bytes)
    BY <1>1, <1>2
  <2>3. LastAt(b, b1, b2)
    BY <2>1, <2>2, HoldsLast, Zenon
  <2> QED BY <1>10, <2>3, Zenon DEF LastAt
<1>16. /\ 1 + Len(b1) = 7 /\ 1 + Len(x2) = 11
       /\ 1 + Len(x3) = 11 + Len(b3)
       /\ 1 + Len(x4) = (11 + Len(b3)) + Len(b4)
       /\ 1 + Len(x5) = ((11 + Len(b3)) + Len(b4)) + Len(b5)
       /\ (((11 + Len(b3)) + Len(b4)) + Len(b5)) + Len(b6) = Len(b) + 1
  BY <1>1, <1>2, <1>11, <1>12, <1>13, <1>14, <1>15
<1> QED BY <1>11, <1>12, <1>13, <1>14, <1>15, <1>16, Zenon DEF b1, b2, b3, b4, b5, b6

\* The protocol name and level.
LEMMA ProtocolHeld ==
  ASSUME NEW b \in Seq(Bytes), Holds(b, 1, Stretch(Protocol)), 7 \in 1..Len(b), b[7] = 4
  PROVE  SubSeq(b, 1, 7) = <<0, 4, 77, 81, 84, 84, 4>>
<1> DEFINE n == Num(4)
<1> DEFINE s == Protocol
<1> DEFINE x == <<0, 4, 77, 81, 84, 84, 4>>
<1>1. 4 \in Words /\ 1 \in Nat \ {0} /\ 4 \div 256 = 0 /\ 4 % 256 = 4
  BY WordRange
<1>2. s \in Seq(Bytes) /\ Len(s) = 4
  BY ProtocolFields, DataIs
<1>3. n \in Seq(Bytes) /\ Len(n) = 2
  BY <1>1, NumBytes
<1>4. n[1] = 0 /\ n[2] = 4
  BY <1>1 DEF Num
<1>5. s[1] = 77 /\ s[2] = 81 /\ s[3] = 84 /\ s[4] = 84
  BY DEF Protocol
<1>6. Holds(b, 1, n \o s)
  <2>1. Stretch(s) = n \o s
    BY <1>2 DEF Stretch
  <2> HIDE DEF n, s
  <2> QED BY <2>1 DEF s
<1> HIDE DEF n, s
<1>7. Holds(b, 1, n) /\ Holds(b, 1 + Len(n), s)
  BY <1>1, <1>2, <1>3, <1>6, HoldsBoth, Zenon
<1>8. \A j \in 1..2 : b[1 + j - 1] = n[j]
  BY <1>3, <1>7 DEF Holds
<1>9. \A j \in 1..4 : b[3 + j - 1] = s[j]
  <2>1. \A j \in 1..4 : b[1 + Len(n) + j - 1] = s[j]
    BY <1>2, <1>7 DEF Holds
  <2> QED BY <1>3, <2>1
<1>10. b[1] = 0 /\ b[2] = 4 /\ b[3] = 77 /\ b[4] = 81 /\ b[5] = 84 /\ b[6] = 84
  <2>1. b[1 + 1 - 1] = 0 /\ b[1 + 2 - 1] = 4
    BY <1>4, <1>8
  <2>2. b[3 + 1 - 1] = 77 /\ b[3 + 2 - 1] = 81 /\ b[3 + 3 - 1] = 84 /\ b[3 + 4 - 1] = 84
    BY <1>5, <1>9
  <2> QED BY <2>1, <2>2
<1>11. x \in Seq(Bytes) /\ Len(x) = 7
  <2>1. 0 \in Bytes /\ 4 \in Bytes /\ 77 \in Bytes /\ 81 \in Bytes /\ 84 \in Bytes
    BY DEF Bytes
  <2> QED BY <2>1
<1>12. \A j \in 1..7 : b[1 + j - 1] = x[j]
  <2> TAKE j \in 1..7
  <2>1. j \in {1, 2, 3, 4, 5, 6, 7} /\ 1 + j - 1 = j
    OBVIOUS
  <2>2. b[j] = x[j]
    BY <1>10, <2>1
  <2> QED BY <2>1, <2>2
<1> HIDE DEF x
<1>13. Holds(b, 1, x)
  <2>1. 1 + Len(x) <= Len(b) + 1
    BY <1>11, LenProperties
  <2> QED BY <1>11, <1>12, <2>1 DEF Holds
<1>14. SubSeq(b, 1, 1 + Len(x) - 1) = x
  BY <1>1, <1>11, <1>13, HoldsSub
<1>15. 1 + Len(x) - 1 = 7
  BY <1>11
<1>16. SubSeq(b, 1, 7) = x
  BY <1>14, <1>15, Zenon
<1> QED BY <1>16 DEF x

\* The level, the flags and the keep alive time.
LEMMA NumbersHeld ==
  ASSUME NEW o \in ConnectRequest, NEW b \in Seq(Bytes), Holds(b, 7, ConnectNumbers(o))
  PROVE  /\ 7 \in 1..Len(b) /\ b[7] = 4
         /\ ByteAt(b, 8) = ConnectFlags(o)
         /\ NumAt(b, 9) = o.keepAlive
<1> DEFINE f == ConnectFlags(o)
<1> DEFINE a == <<4, f>>
<1> DEFINE k == o.keepAlive
<1> DEFINE n == Num(k)
<1>1. a \in Seq(Bytes) /\ Len(a) = 2 /\ a[1] = 4 /\ a[2] = f
  <2>1. 4 \in Bytes
    BY ByteRange
  <2>2. f \in Bytes
    BY ConnectFlagsByte
  <2> HIDE DEF f
  <2> QED BY <2>1, <2>2
<1>2. k \in Words
  BY ConnectTypes
<1>3. n \in Seq(Bytes) /\ Len(n) = 2
  BY <1>2, NumBytes
<1>4. Holds(b, 7, a \o n)
  BY DEF ConnectNumbers
<1>5. 7 \in Nat \ {0} /\ 9 \in Nat \ {0}
  OBVIOUS
<1> HIDE DEF a, n, f, k
<1>6. Holds(b, 7, a) /\ Holds(b, 7 + Len(a), n)
  BY <1>1, <1>3, <1>4, <1>5, HoldsBoth
<1>7. Holds(b, 9, n)
  BY <1>1, <1>6
<1>8. 7 + 2 <= Len(b) + 1 /\ \A j \in 1..2 : b[7 + j - 1] = a[j]
  BY <1>1, <1>6 DEF Holds
<1>9. 7 \in 1..Len(b) /\ 8 \in 1..Len(b)
  BY <1>8, LenProperties
<1>10. b[7] = 4 /\ b[8] = f
  <2>1. b[7 + 1 - 1] = 4 /\ b[7 + 2 - 1] = f
    BY <1>1, <1>8
  <2> QED BY <2>1
<1>11. ByteAt(b, 8) = f
  BY <1>9, <1>10, BytesRead
<1>12. NumAt(b, 9) = k
  BY <1>2, <1>5, <1>7, NumHeld DEF n
<1> QED BY <1>9, <1>10, <1>11, <1>12 DEF f, k

\* The will.
LEMMA WillHeld ==
  ASSUME NEW o \in ConnectRequest, NEW b \in Seq(Bytes), NEW w \in Nat \ {0}, Holds(b, w, WillBody(o))
  PROVE  LET p == BehindIf(HasWill(o), b, w) IN
           /\ BehindIf(HasWill(o), b, p) = w + Len(WillBody(o))
           /\ HasWill(o) => StringAt(b, w) = o.will.topic /\ StringAt(b, p) = o.will.payload
<1>1. CASE HasWill(o)
  <2> DEFINE s == o.will.topic
  <2> DEFINE t == o.will.payload
  <2> DEFINE x == Stretch(s)
  <2> DEFINE y == Stretch(t)
  <2>1. s \in Data /\ t \in Data
    BY <1>1, ConnectTypes
  <2>2. x \in Seq(Bytes) /\ y \in Seq(Bytes)
    BY <2>1, DataIs, StrFields
  <2>3. WillBody(o) = x \o y
    BY <1>1 DEF WillBody
  <2> HIDE DEF x, y, s, t
  <2>4. Holds(b, w, x) /\ Holds(b, w + Len(x), y) /\ w + Len(x) \in Nat \ {0}
    <3>1. Holds(b, w, x \o y)
      BY <2>3, Zenon
    <3> QED BY <2>2, <3>1, HoldsBoth
  <2>5. StringAt(b, w) = s /\ Behind(b, w) = w + Len(x)
    BY <2>1, <2>4, StringHeld DEF x
  <2>6. StringAt(b, w + Len(x)) = t /\ Behind(b, w + Len(x)) = w + Len(x) + Len(y)
    BY <2>1, <2>4, StringHeld DEF y
  <2>7. w + Len(x) + Len(y) = w + Len(x \o y)
    <3>1. Len(x \o y) = Len(x) + Len(y) /\ Len(x) \in Nat /\ Len(y) \in Nat
      BY <2>2, ConcatProperties, LenProperties
    <3> QED BY <3>1
  <2>8. BehindIf(HasWill(o), b, w) = w + Len(x)
    BY <1>1, <2>5 DEF BehindIf
  <2>9. BehindIf(HasWill(o), b, w + Len(x)) = w + Len(x) + Len(y)
    BY <1>1, <2>6 DEF BehindIf
  <2> QED BY <2>3, <2>5, <2>6, <2>7, <2>8, <2>9, Zenon DEF s, t
<1>2. CASE ~HasWill(o)
  <2>1. WillBody(o) = <<>> /\ w + Len(<<>>) = w
    BY <1>2 DEF WillBody
  <2> QED BY <1>2, <2>1, Zenon DEF BehindIf
<1> QED BY <1>1, <1>2

LEMMA ConnectUnderstood ==
  ASSUME NEW o \in ConnectRequest, NEW b \in Seq(Bytes), b = ConnectBody(o)
  PROVE  ConnectRead(b).wellFormed /\ ConnectRead(b).request = o
<1> DEFINE bit(i) == ReadBits(ByteAt(b, 8), i, 1) = 1
<1> DEFINE qos == ReadBits(ByteAt(b, 8), 3, 2)
<1> DEFINE will == Behind(b, 11)
<1> DEFINE payload == BehindIf(bit(2), b, will)
<1> DEFINE user == BehindIf(bit(2), b, payload)
<1> DEFINE password == BehindIf(bit(7), b, user)
<1> DEFINE end == BehindIf(bit(6), b, password)
<1> DEFINE w == 11 + Len(Stretch(o.id))
<1> DEFINE u == w + Len(WillBody(o))
<1> DEFINE p == u + Len(StretchIf(HasUser(o), o.username))
<1>1. /\ Holds(b, 1, Stretch(Protocol))
      /\ Holds(b, 7, ConnectNumbers(o))
      /\ Holds(b, 11, Stretch(o.id))
      /\ w \in Nat \ {0} /\ Holds(b, w, WillBody(o))
      /\ u \in Nat \ {0} /\ Holds(b, u, StretchIf(HasUser(o), o.username))
      /\ p \in Nat \ {0} /\ Holds(b, p, StretchIf(HasPassword(o), o.password))
      /\ p + Len(StretchIf(HasPassword(o), o.password)) = Len(b) + 1
  BY ConnectHeld
<1>2. /\ ConnectRead(b).wellFormed =
           (/\ SubSeq(b, 1, 7) = <<0, 4, 77, 81, 84, 84, 4>>
            /\ bit(6) => bit(7)
            /\ ~bit(0)
            /\ end = Len(b) + 1)
      /\ ConnectRead(b).request =
           [ op |-> "CONNECT", clean |-> bit(1), keepAlive |-> NumAt(b, 9), id |-> StringAt(b, 11),
             will |-> IF bit(2)
                        THEN [topic |-> StringAt(b, will), payload |-> StringAt(b, payload),
                              qos |-> qos, retained |-> bit(5)]
                        ELSE None,
             username |-> StringIf(bit(7), b, user),
             password |-> StringIf(bit(6), b, password) ]
  BY Zenon DEF ConnectRead
<1>3. /\ o.op = "CONNECT" /\ o.clean \in BOOLEAN /\ o.keepAlive \in Words
      /\ o.id \in Data /\ o.username \in Data /\ o.password \in Data
      /\ HasWill(o) \in BOOLEAN /\ HasUser(o) \in BOOLEAN /\ HasPassword(o) \in BOOLEAN
  BY ConnectTypes DEF HasUser, HasPassword
<1>4. /\ 7 \in 1..Len(b) /\ b[7] = 4
      /\ ByteAt(b, 8) = ConnectFlags(o)
      /\ NumAt(b, 9) = o.keepAlive
  BY <1>1, NumbersHeld
<1>5. /\ bit(0) = FALSE
      /\ bit(1) = o.clean
      /\ bit(2) = HasWill(o)
      /\ HasWill(o) => qos = o.will.qos /\ bit(5) = o.will.retained
      /\ bit(6) = HasPassword(o)
      /\ bit(7) = HasUser(o)
  BY <1>4, ConnectFlagsRead, ZenonT(30)
<1>6. SubSeq(b, 1, 7) = <<0, 4, 77, 81, 84, 84, 4>>
  BY <1>1, <1>4, ProtocolHeld
<1>7. StringAt(b, 11) = o.id /\ will = w
  <2>1. 11 \in Nat \ {0}
    OBVIOUS
  <2> QED BY <1>1, <1>3, <2>1, StringHeld
<1> HIDE DEF bit, qos, will, w
<1>8. /\ user = u
      /\ HasWill(o) => StringAt(b, w) = o.will.topic /\ StringAt(b, payload) = o.will.payload
  <2>1. LET at == BehindIf(HasWill(o), b, w) IN
          /\ BehindIf(HasWill(o), b, at) = w + Len(WillBody(o))
          /\ HasWill(o) => StringAt(b, w) = o.will.topic /\ StringAt(b, at) = o.will.payload
    BY <1>1, WillHeld
  <2> QED BY <1>5, <1>7, <2>1, Zenon
<1> HIDE DEF payload, user, u
<1>9. password = p /\ StringIf(bit(7), b, user) = IF HasUser(o) THEN o.username ELSE <<>>
  <2>1. /\ BehindIf(HasUser(o), b, u) = p
        /\ StringIf(HasUser(o), b, u) = IF HasUser(o) THEN o.username ELSE <<>>
    BY <1>1, <1>3, FieldHeld
  <2> QED BY <1>5, <1>8, <2>1, Zenon
<1> HIDE DEF password, p
<1>10. end = Len(b) + 1 /\ StringIf(bit(6), b, password) = IF HasPassword(o) THEN o.password ELSE <<>>
  <2>1. /\ BehindIf(HasPassword(o), b, p) = p + Len(StretchIf(HasPassword(o), o.password))
        /\ StringIf(HasPassword(o), b, p) = IF HasPassword(o) THEN o.password ELSE <<>>
    BY <1>1, <1>3, FieldHeld
  <2> QED BY <1>1, <1>5, <1>9, <2>1, Zenon
<1> HIDE DEF end
<1>11. StringIf(bit(7), b, user) = o.username
  BY <1>9 DEF HasUser
<1>12. StringIf(bit(6), b, password) = o.password
  BY <1>10 DEF HasPassword
<1>13. (IF bit(2) THEN [topic |-> StringAt(b, will), payload |-> StringAt(b, payload),
                        qos |-> qos, retained |-> bit(5)]
                  ELSE None) = o.will
  <2>1. CASE HasWill(o)
    <3>1. o.will = [topic |-> o.will.topic, payload |-> o.will.payload,
                    qos |-> o.will.qos, retained |-> o.will.retained]
      <4>1. o.will \in Will
        BY <2>1, ConnectTypes
      <4> QED BY <4>1 DEF Will
    <3> QED BY <1>5, <1>7, <1>8, <2>1, <3>1, Zenon
  <2>2. CASE ~HasWill(o)
    <3>1. o.will = None
      BY <2>2 DEF HasWill
    <3> QED BY <1>5, <2>2, <3>1, Zenon
  <2> QED BY <2>1, <2>2
<1>14. o = [ op |-> o.op, clean |-> o.clean, keepAlive |-> o.keepAlive, id |-> o.id,
             will |-> o.will, username |-> o.username, password |-> o.password ]
  BY DEF ConnectRequest
<1>15. ConnectRead(b).request = o
  BY <1>2, <1>3, <1>4, <1>5, <1>7, <1>11, <1>12, <1>13, <1>14, Zenon
<1>16. bit(6) => bit(7)
  <2>1. HasPassword(o) => HasUser(o)
    BY DEF HasPassword, HasUser
  <2> QED BY <1>5, <2>1, Zenon
<1>17. ConnectRead(b).wellFormed
  BY <1>2, <1>5, <1>6, <1>10, <1>16, Zenon
<1> QED BY <1>15, <1>17

\* The operation of a request decides on its fields.
LEMMA OpDecides ==
  ASSUME NEW r \in Requests
  PROVE  /\ r.op = "CONNECT" => r \in ConnectRequest
         /\ r.op = "SUBSCRIBE" => r \in SubscribeRequest
         /\ r.op = "UNSUBSCRIBE" => r \in UnsubscribeRequest
<1>1. /\ \A o \in ConnectRequest : o.op = "CONNECT"
      /\ \A m \in PublishRequest : m.op = "PUBLISH"
      /\ \A a \in BrokerAnswer : a.op \in {"CONNACK", "SUBACK"}
  BY ConnectTypes, PublishTypes, BrokerTypes
<1>2. /\ \A s \in SubscribeRequest : s.op = "SUBSCRIBE"
      /\ \A s \in UnsubscribeRequest : s.op = "UNSUBSCRIBE"
      /\ \A s \in ShortRequest : s.op \in AckTypes \cup {"PINGREQ", "DISCONNECT"}
  BY Zenon DEF SubscribeRequest, UnsubscribeRequest, ShortRequest
<1> QED BY <1>1, <1>2, CodecAssumption DEF AckTypes

\* A peer that reads a request by the standard finds in it what was asked for
\* (lwmqtt_encode_connect, lwmqtt_encode_subscribe, lwmqtt_encode_unsubscribe).
THEOREM PeersUnderstand == Spec => []PeerUnderstands
<1>1. ArrivalInv => PeerUnderstands
  <2> SUFFICES ASSUME ArrivalInv, Whole
               PROVE  LET b == Body(arrived)
                          n == Len(request.filters)
                      IN CASE request.op = "CONNECT" ->
                                ConnectRead(b).wellFormed /\ ConnectRead(b).request = request
                           [] request.op \in {"SUBSCRIBE", "UNSUBSCRIBE"} ->
                                LET each == IF request.op = "SUBSCRIBE" THEN 1 ELSE 0
                                    at == FilterAt(b, n, each)
                                IN /\ NumAt(b, 1) = request.packetId
                                   /\ at[n + 1] = Len(b) + 1
                                   /\ \A i \in 1..n :
                                        /\ StringAt(b, at[i]) = request.filters[i]
                                        /\ each = 1 => ByteAt(b, at[i + 1] - 1) = request.qos[i]
                           [] OTHER -> TRUE
    BY DEF PeerUnderstands
  <2> DEFINE r == request
  <2>1. r \in Requests /\ Packed(r, sent)
    BY DEF ArrivalInv, NotSent, Whole, Success
  <2>2. PICK header, body : Carries(r, header, body) /\ Framed(sent, header, body)
    BY <2>1 DEF Packed
  <2>3. /\ header \in Bytes /\ body \in Seq(Bytes) /\ VarnumLength(Len(body)) # 0
        /\ arrived = PacketOf(header, body)
    BY <2>2 DEF Framed, Whole
  <2>4. Body(arrived) = body
    BY <2>3, BodyIs
  <2>5. CASE r.op = "CONNECT"
    <3>1. r \in ConnectRequest
      BY <2>1, <2>5, OpDecides
    <3>2. body = ConnectBody(r)
      BY <2>2, <2>5, Zenon DEF Carries
    <3>3. ConnectRead(body).wellFormed /\ ConnectRead(body).request = r
      BY <2>3, <3>1, <3>2, ConnectUnderstood
    <3> QED BY <2>4, <2>5, <3>3, Zenon
  <2>6. CASE r.op = "SUBSCRIBE"
    <3>1. r \in SubscribeRequest
      BY <2>1, <2>6, OpDecides
    <3>2. PICK g : Grows(g, SubscribeBodies(r), Len(r.filters)) /\ body = Num(r.packetId) \o g[Len(r.filters)]
      BY <2>2, <2>6, Zenon DEF Carries
    <3>3. FiltersUnderstood(body, r, 1)
      BY <2>3, <3>1, <3>2, SubscribeUnderstood
    <3> QED BY <2>4, <2>6, <3>3 DEF FiltersUnderstood
  <2>7. CASE r.op = "UNSUBSCRIBE"
    <3>1. r \in UnsubscribeRequest
      BY <2>1, <2>7, OpDecides
    <3>2. PICK g : Grows(g, UnsubscribeBodies(r), Len(r.filters)) /\ body = Num(r.packetId) \o g[Len(r.filters)]
      BY <2>2, <2>7, Zenon DEF Carries
    <3>3. FiltersUnderstood(body, r, 0)
      BY <2>3, <3>1, <3>2, UnsubscribeUnderstood
    <3> QED BY <2>4, <2>7, <3>3 DEF FiltersUnderstood
  <2>8. CASE r.op \notin {"CONNECT", "SUBSCRIBE", "UNSUBSCRIBE"}
    BY <2>8
  <2> QED BY <2>5, <2>6, <2>7, <2>8
<1> QED BY <1>1, ArrivalInduct, PTL

=============================================================================
