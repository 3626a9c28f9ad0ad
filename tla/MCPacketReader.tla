--------------------------- MODULE MCPacketReader ---------------------------
(***************************************************************************)
(* Streams of up to two packets.  With base 3 and two digits a remaining   *)
(* length is at most 8 and takes two bytes from 3 on.  Every byte of a     *)
(* body looks like the header of a PUBLISH.                                *)
(***************************************************************************)
EXTENDS PacketReader

h == Header("PUBLISH", 0)

PacketOf(length) == <<h>> \o VarnumBytes(length) \o [i \in 1..length |-> h]

\* A type that a client cannot be sent, and a length of three digits; of the
\* shorter ones every byte is taken before that is noticed.
BadPackets == {<<Header("CONNECT", 0)>>, <<Header("CONNECT", 0), 2, h, h>>,
               <<h, 3, 3, 3>>, <<h, 3, 3, 3, h>>}

MCStreams == BoundedSeq({PacketOf(n) : n \in {0, 2, 3, 4, 7}} \cup BadPackets, 2)

=============================================================================
