--------------------------- MODULE PacketChannel ---------------------------
(***************************************************************************)
(* What the rest of the client counts on when it reads packets: each call  *)
(* takes the next packet whole, drops it whole because it does not fit     *)
(* into the buffer, takes nothing at all, or fails, and then the           *)
(* connection is closed and nothing is read from it any more.  The clients *)
(* of this promise are MQTTNetwork, which reads one packet per step, and   *)
(* Receive, DropPacket, ReadNothing and the failures of MQTTClient.        *)
(***************************************************************************)
EXTENDS Integers, Sequences

VARIABLES
  capacity,  \* the size of the read buffer
  drops,     \* dropOverflow(true)
  packets,   \* what the peer sends: records [size, valid]
  taken,     \* how many of them were taken
  outcome    \* of the last call: "none", "packet", "dropped", "nothing", "failed"

options == <<capacity, drops>>
channelVars == <<options, packets, taken, outcome>>

ChannelInit ==
  /\ taken = 0
  /\ outcome = "none"

Oversized(p) == p.size > capacity

TakeNext(result) ==
  /\ outcome # "failed"
  /\ taken < Len(packets)
  /\ packets[taken + 1].valid
  /\ taken' = taken + 1
  /\ outcome' = result
  /\ UNCHANGED <<options, packets>>

Deliver == TakeNext("packet") /\ ~Oversized(packets[taken + 1])

Drop == TakeNext("dropped") /\ drops /\ Oversized(packets[taken + 1])

TakeNothing ==
  /\ outcome # "failed"
  /\ outcome' = "nothing"
  /\ UNCHANGED <<options, packets, taken>>

\* A packet that is malformed may be taken whole before that is noticed.
Fail ==
  /\ outcome # "failed"
  /\ outcome' = "failed"
  /\ \/ UNCHANGED taken
     \/ /\ taken < Len(packets)
        /\ ~packets[taken + 1].valid
        /\ taken' = taken + 1
  /\ UNCHANGED <<options, packets>>

ChannelNext == Deliver \/ Drop \/ TakeNothing \/ Fail

ChannelSpec == ChannelInit /\ [][ChannelNext]_channelVars

=============================================================================
