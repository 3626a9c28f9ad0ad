---------------------------- MODULE MQTTPackets ----------------------------
(***************************************************************************)
(* The MQTT control packets that client.c and a broker exchange, one       *)
(* record per packet.  The bytes are abstracted: a packet keeps its type,  *)
(* its packet id, and what the two ends decide on (the QoS, the dup flag,  *)
(* the return code), and its topic and payload together are one message    *)
(* name.  Every constructor stands for the encode_* function of packet.c   *)
(* whose packet it builds.                                                 *)
(***************************************************************************)
EXTENDS Integers, Sequences

CONSTANTS
  Msgs,         \* messages the application publishes, one publish() call each
  InMsgs,       \* messages the broker has for this client
  Topics,       \* topic filters the application subscribes to
  NoMsg,        \* no message, no filter
  OutQoS,       \* the qos argument of the publish() of each message
  InQoS,        \* the QoS at which the broker sends each inbound message
  MaxPacketId   \* the highest packet id: 65535 in client.c

ASSUME PacketAssumption ==
  /\ OutQoS \in [Msgs -> 0..2]
  /\ InQoS \in [InMsgs -> 0..2]
  /\ MaxPacketId \in Nat \ {0}
  /\ NoMsg \notin Msgs \cup InMsgs \cup Topics

NoPacket == "NO_PACKET"       \* LWMQTT_NO_PACKET

PacketTypes ==
  { NoPacket, "CONNECT", "CONNACK", "PUBLISH", "PUBACK", "PUBREC", "PUBREL",
    "PUBCOMP", "SUBSCRIBE", "SUBACK", "UNSUBSCRIBE", "UNSUBACK", "PINGREQ",
    "PINGRESP", "DISCONNECT" }

\* 0 is "no id".  The broker chooses the ids of its own messages; it never
\* has two messages in flight under one id, so the message names its id.
PacketIds == (0..MaxPacketId) \cup InMsgs
Payloads == Msgs \cup InMsgs \cup Topics \cup {NoMsg}

Packet == [ type : PacketTypes, id : PacketIds, qos : 0..2, msg : Payloads,
            dup : BOOLEAN,     \* the dup flag of a PUBLISH
            ok : BOOLEAN ]     \* CONNACK: accepted, SUBACK: granted

-----------------------------------------------------------------------------

PacketOf(type, id, qos, msg, dup, ok) ==
  [type |-> type, id |-> id, qos |-> qos, msg |-> msg, dup |-> dup, ok |-> ok]

\* A packet without variable header and payload.
EncodeZero(type) == PacketOf(type, 0, 0, NoMsg, FALSE, TRUE)

\* PUBACK, PUBREC, PUBREL, PUBCOMP and UNSUBACK.
EncodeAck(type, id) == PacketOf(type, id, 0, NoMsg, FALSE, TRUE)

EncodeConnect == EncodeZero("CONNECT")

EncodePublish(dup, id, qos, msg) == PacketOf("PUBLISH", id, qos, msg, dup, TRUE)

EncodeSubscribe(id, topic) == PacketOf("SUBSCRIBE", id, 0, topic, FALSE, TRUE)

EncodeUnsubscribe(id, topic) == PacketOf("UNSUBSCRIBE", id, 0, topic, FALSE, TRUE)

\* The two answers of the broker that carry a verdict.
Connack(ok) == PacketOf("CONNACK", 0, 0, NoMsg, FALSE, ok)

Suback(id, ok) == PacketOf("SUBACK", id, 0, NoMsg, FALSE, ok)

=============================================================================
