---------------------------- MODULE PacketReader ----------------------------
(***************************************************************************)
(* lwmqtt_read_packet_in_buffer with lwmqtt_read_from_network and          *)
(* lwmqtt_drain_network, over lwmqtt_arduino_network_read: bytes come in   *)
(* portions of any size, the command timer runs out or the connection ends *)
(* between any two of them.  When the reader fails, its callers up to      *)
(* MQTTClient close the connection.                                        *)
(*                                                                         *)
(* The bytes of the stream are numbered; the buffer holds their numbers,   *)
(* so that it shows which byte came to lie where.                          *)
(***************************************************************************)
EXTENDS PacketFormat

CONSTANTS
  Streams,       \* what the peer may send: sequences of packets, sequences of bytes
  BufSizes       \* the sizes the read buffer may have

\* A packet, as far as the reader can tell, is a header that it refuses and
\* anything behind it, or a header, a length and as many bytes as that says, or
\* a header and a length that has too many bytes, and anything behind it.
IsPacket(p) ==
  /\ p # <<>>
  /\ DetectType(p).err = Success =>
       LET n == ReadVarnum(p, 2) IN
         \/ n.err = Success /\ n.value = Left(p, n.next)
         \/ n.err = VarnumOverflow

ASSUME ReaderAssumption ==
  /\ Streams \subseteq Seq({p \in Seq(Bytes) : IsPacket(p)})
  /\ BufSizes \subseteq Nat \ {0}

VARIABLES
  dropOverflow,  \* client->drop_overflow
  stream,    \* what the peer sends on this connection
  arrived,   \* how many bytes of it have arrived
  taken,     \* how many of those were read from the socket
  linked,    \* the connection has not ended
  expired,   \* the command timer has run out
  point,     \* "idle", "header", "length", "rest", "drain", or "closed"
  buffer,    \* read_buf: the numbers of its bytes, 0 for older ones
  offset,    \* where the next byte belongs in the buffer
  missing,   \* the bytes that the loop at hand still has to read
  outcome    \* of the last call: "none", "packet", "dropped", "nothing", "failed"

wireVars == <<dropOverflow, stream, arrived, linked>>
readerVars == <<point, buffer, offset, missing, outcome>>
vars == <<wireVars, taken, expired, readerVars>>

\* The first n packets of the stream, one behind the other.
Sent[n \in 0..Len(stream)] == IF n = 0 THEN <<>> ELSE Sent[n - 1] \o stream[n]

Wire == Sent[Len(stream)]

\* client->read_buf_size, one byte less than is allocated
BufSize == Cardinality(DOMAIN buffer)

Init ==
  /\ dropOverflow \in BOOLEAN
  /\ stream \in Streams
  /\ arrived = 0
  /\ taken = 0
  /\ linked = TRUE
  /\ expired = FALSE
  /\ point = "idle"
  /\ buffer \in {[i \in 0..(size - 1) |-> 0] : size \in BufSizes}
  /\ offset = 0
  /\ missing = 0
  /\ outcome = "none"

-----------------------------------------------------------------------------

\* A portion of n bytes from the socket to buffer + at.
Take(n, at) ==
  /\ n <= arrived - taken
  /\ ~expired
  /\ taken' = taken + n
  /\ buffer' = [i \in DOMAIN buffer |->
                  IF i \in at..(at + n - 1) THEN taken + 1 + i - at ELSE buffer[i]]
  /\ UNCHANGED <<wireVars, expired>>

\* The function returns LWMQTT_SUCCESS.
Done(result) ==
  /\ point' = "idle"
  /\ outcome' = result
  /\ missing' = 0

\* Fault: an error leaves the connection open.
FailOpen ==
  /\ point' = "idle"
  /\ outcome' = "failed"
  /\ missing' = 0

\* The function returns an error, and the connection is closed.
Fail ==
  /\ point' = "closed"
  /\ outcome' = "failed"
  /\ missing' = 0

\* The function goes on with `count` bytes that it still needs.
GoOn(next, count) ==
  /\ point' = next
  /\ missing' = count
  /\ UNCHANGED outcome

\* A call, with the command timer set before.
Call ==
  /\ point = "idle"
  /\ expired' = FALSE
  /\ offset' = 0
  /\ GoOn("header", 1)
  /\ UNCHANGED <<wireVars, taken, buffer>>

ReadHeader ==
  /\ point = "header"
  /\ Take(1, 0)
  /\ offset' = 1
  /\ IF DetectType(<<Wire[taken + 1]>>).err = Success THEN GoOn("length", 1) ELSE Fail

-----------------------------------------------------------------------------
(* The remaining length: `offset` is the code's len, the bytes of it up to *)
(* and including the next one.                                             *)

\* Fault: the header is not counted.
TooLongWithoutHeader(remLen) == offset + remLen > BufSize

\* 1 + len + rem_len > client->read_buf_size
TooLong(remLen) == 1 + offset + remLen > BufSize

\* What is left of the packet is drained, or read if there is room for it.
LengthKnown(remLen) ==
  IF TooLong(remLen) THEN IF dropOverflow THEN GoOn("drain", remLen) ELSE Fail
  ELSE IF remLen > 0 THEN GoOn("rest", remLen)
  ELSE Done("packet")

\* lwmqtt_detect_remaining_length
RemainingLength == ReadVarnum([i \in 1..offset |-> Wire[buffer'[i]]], 1)

ReadLengthByte ==
  /\ point = "length"
  /\ offset + 1 <= BufSize
  /\ Take(1, offset)
  /\ offset' = offset + 1
  /\ CASE RemainingLength.err = TooShort -> GoOn("length", 1)
       [] RemainingLength.err = Success -> LengthKnown(RemainingLength.value)
       [] OTHER -> Fail

LengthFindsNoRoom ==
  /\ point = "length"
  /\ offset + 1 > BufSize
  /\ Fail
  /\ UNCHANGED <<wireVars, taken, expired, buffer, offset>>

-----------------------------------------------------------------------------
(* The rest of the packet, in portions                                     *)

\* Fault: every portion is put where the first one was.
AdvanceNot(n) == offset

\* offset + read of lwmqtt_read_from_network
Advance(n) == offset + n

ReadRest(n) ==
  /\ point = "rest"
  /\ n <= missing
  /\ Take(n, offset)
  /\ offset' = Advance(n)
  /\ IF n = missing THEN Done("packet") ELSE GoOn("rest", missing - n)

Drain(n) ==
  /\ point = "drain"
  /\ n <= missing /\ n <= BufSize
  /\ Take(n, 0)
  /\ IF n = missing THEN Done("dropped") ELSE GoOn("drain", missing - n)
  /\ UNCHANGED offset

-----------------------------------------------------------------------------
(* The command timer and the end of the connection                         *)

\* Fault: draining does not look at the timer.
TimedButDrain == {"header", "length", "rest"}

\* Where the command timer is looked at.
Timed == {"header", "length", "rest", "drain"}

\* Fault: a timeout is always taken for "no data has been read at all".
OnTimeoutReturn == Done("nothing")

\* Only before the first byte of a packet is a timeout no error.
OnTimeout == IF point = "header" THEN Done("nothing") ELSE Fail

TimeOut ==
  /\ point \in Timed
  /\ expired
  /\ OnTimeout
  /\ UNCHANGED <<wireVars, taken, expired, buffer, offset>>

\* The socket is read empty before its end is noticed.
ReadFails ==
  /\ point \notin {"idle", "closed"}
  /\ ~linked
  /\ arrived = taken
  /\ Fail
  /\ UNCHANGED <<wireVars, taken, expired, buffer, offset>>

Expire ==
  /\ point \notin {"idle", "closed"}
  /\ ~expired
  /\ expired' = TRUE
  /\ UNCHANGED <<wireVars, taken, readerVars>>

BytesArrive ==
  /\ linked
  /\ point # "closed"
  /\ \E n \in 1..(Len(Wire) - arrived) : arrived' = arrived + n
  /\ UNCHANGED <<dropOverflow, stream, linked, taken, expired, readerVars>>

LinkEnds ==
  /\ linked
  /\ point # "closed"
  /\ linked' = FALSE
  /\ UNCHANGED <<dropOverflow, stream, arrived, taken, expired, readerVars>>

-----------------------------------------------------------------------------

Read ==
  \/ ReadHeader \/ ReadLengthByte \/ LengthFindsNoRoom
  \/ \E n \in 1..(arrived - taken) : ReadRest(n) \/ Drain(n)
  \/ TimeOut \/ ReadFails

Next == Call \/ Read \/ Expire \/ BytesArrive \/ LinkEnds

Spec == Init /\ [][Next]_vars

\* The thread gets on, and the clock does.
FairSpec == Spec /\ WF_vars(Read) /\ WF_vars(Expire)

-----------------------------------------------------------------------------

ReaderTypeOK ==
  /\ arrived \in 0..Len(Wire)
  /\ taken \in 0..arrived
  /\ {linked, expired} \subseteq BOOLEAN
  /\ point \in {"idle", "header", "length", "rest", "drain", "closed"}
  /\ \E size \in BufSizes : buffer \in [0..(size - 1) -> 0..Len(Wire)]
  /\ offset \in 0..BufSize
  /\ missing \in Nat
  /\ outcome \in {"none", "packet", "dropped", "nothing", "failed"}

\* The number of bytes of the first n packets.
Boundary(n) == Len(Sent[n])

\* The packets of which every byte was taken from the socket.
TakenWhole == {n \in DOMAIN stream : Boundary(n) <= taken}

\* A reader that is called again starts with the first byte of a packet: no
\* timeout, no oversized packet and no portioning leaves it in the middle of
\* one with the connection open.
InStep == point = "idle" => taken = Boundary(Cardinality(TakenWhole))

\* Fault: no byte is allocated on top.
AllocatedBare == BufSize

\* The bytes that the constructor of MQTTClient allocates for the buffer.
Allocated == BufSize + 1

\* Where MQTTClientHandler puts a '\0' behind the payload of packet p: the
\* payload ends where the packet does, by its length.
Terminator(p) == LET n == ReadVarnum(p, 2) IN n.next - 1 + n.value

\* Nothing is written outside of read_buf: what is still to be read fits into
\* it, and for a packet that was read, which the callback may now be called
\* with, the '\0' behind the payload is in the memory allocated.
InsideBuffer ==
  /\ point = "rest" => offset + missing <= BufSize
  /\ point = "idle" /\ outcome = "packet" =>
       Terminator(stream[Cardinality(TakenWhole)]) < Allocated

\* When a packet is reported, the buffer holds all of its bytes in their
\* places, in whatever portions they came.
BufferHoldsPacket ==
  point = "idle" /\ outcome = "packet" =>
    LET n == Cardinality(TakenWhole) IN
      \A k \in 1..Len(stream[n]) : buffer[k - 1] = Boundary(n - 1) + k

\* A call returns: also one that drains a packet of which the rest never
\* comes.
ReadReturns == point \notin {"idle", "closed"} ~> point \in {"idle", "closed"}

\* A packet is well formed for the reader when its header and its length are.
Valid(packet) ==
  /\ DetectType(packet).err = Success
  /\ ReadVarnum(packet, 2).err = Success

\* The reader keeps the promise of PacketChannel: whole packets in order, each
\* delivered when it fits, dropped when it does not and drop_overflow is set.
Channel == INSTANCE PacketChannel WITH
  capacity <- BufSize,
  drops <- dropOverflow,
  packets <- [i \in DOMAIN stream |-> [size |-> Len(stream[i]), valid |-> Valid(stream[i])]],
  taken <- Cardinality(TakenWhole)

ImplementsChannel == Channel!ChannelSpec

=============================================================================
