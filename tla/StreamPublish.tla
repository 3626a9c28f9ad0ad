--------------------------- MODULE StreamPublish ---------------------------
(***************************************************************************)
(* beginPublish(), write() and endPublish() of the facade: a payload is    *)
(* collected in a block of the heap and published in one piece.  The calls *)
(* may come in any order; malloc may fail; publish() may fail.             *)
(*                                                                         *)
(* A block is a function from its addresses to bytes.  Bytes are named by  *)
(* the application; Blank is what malloc leaves in a block.                *)
(***************************************************************************)
EXTENDS Integers, Sequences

CONSTANTS
  StreamTopics,  \* the topics streamed to
  Sizes,         \* the sizes announced to beginPublish; size + 1 does not wrap
  Chunks,        \* what write() is called with: sequences of bytes
  Blank,
  None           \* no block (nullptr), nothing published

\* What a byte of a block may hold.
Values == {Blank} \cup UNION {{c[i] : i \in DOMAIN c} : c \in Chunks}

ASSUME StreamAssumption ==
  /\ Sizes \subseteq Nat
  /\ \A c \in Chunks : c \in Seq(Values \ {Blank})
  /\ \A size \in Sizes : None \notin [0..size -> Values]

VARIABLES
  streamBuf,    \* the block _streamBuf points to, or None
  streamSize,   \* _streamSize
  streamPos,    \* _streamPos
  streamTopic,  \* _streamTopic
  allocated,    \* the number of blocks malloc gave and free has not taken back
  accepted,     \* history: the bytes write() took since the last beginPublish()
  begunTopic,   \* history: the topic of that beginPublish()
  published     \* the last message handed to _client.publish()

streamVars == <<streamBuf, streamSize, streamPos, streamTopic>>
vars == <<streamVars, allocated, accepted, begunTopic, published>>

Init ==
  /\ streamBuf = None
  /\ streamSize = 0
  /\ streamPos = 0
  /\ streamTopic = None
  /\ allocated = 0
  /\ accepted = <<>>
  /\ begunTopic = None
  /\ published = None

\* malloc(size + 1)
Block(size) == [i \in 0..size |-> Blank]

\* The blocks left when _streamBuf is freed, if there is one.
Freed == IF streamBuf = None THEN allocated ELSE allocated - 1

\* Fault: the new stream does not start at 0.
StartStreamAnywhere(topic, size) ==
  /\ streamSize' = size
  /\ streamTopic' = topic
  /\ UNCHANGED streamPos

\* The fields of a stream that begins.
StartStream(topic, size) ==
  /\ streamSize' = size
  /\ streamPos' = 0
  /\ streamTopic' = topic

\* Fault: a stream that was not ended is not freed.
BeginPublishKeepsOld(topic, size) ==
  /\ streamBuf' = Block(size)
  /\ allocated' = allocated + 1
  /\ StartStream(topic, size)
  /\ accepted' = <<>>
  /\ begunTopic' = topic
  /\ UNCHANGED published

BeginPublish(topic, size) ==
  /\ streamBuf' = Block(size)
  /\ allocated' = Freed + 1
  /\ StartStream(topic, size)
  /\ accepted' = <<>>
  /\ begunTopic' = topic
  /\ UNCHANGED published

\* malloc failed: the block of an earlier stream is gone too.
BeginPublishFails ==
  /\ streamBuf' = None
  /\ allocated' = Freed
  /\ UNCHANGED <<streamSize, streamPos, streamTopic, accepted, begunTopic, published>>

\* Fault: one byte more than there is room for, in the place of the '\0'.
TakenOneMore(chunk) ==
  LET room == streamSize - streamPos IN
    IF Len(chunk) < room + 1 THEN Len(chunk) ELSE room + 1

\* The number of bytes write() takes of a chunk, and returns.
Taken(chunk) ==
  LET room == streamSize - streamPos IN
    IF Len(chunk) < room THEN Len(chunk) ELSE room

Write(chunk) ==
  /\ streamBuf # None
  /\ streamBuf' = [i \in DOMAIN streamBuf |->
                     IF i \in streamPos..(streamPos + Taken(chunk) - 1)
                       THEN chunk[i - streamPos + 1] ELSE streamBuf[i]]
  /\ streamPos' = streamPos + Taken(chunk)
  /\ accepted' = accepted \o SubSeq(chunk, 1, Taken(chunk))
  /\ UNCHANGED <<streamSize, streamTopic, allocated, begunTopic, published>>

\* The payload that endPublish() hands over: streamPos bytes of the block.
Payload == [i \in 1..streamPos |-> streamBuf[i - 1]]

\* The block is freed whether publish() succeeds or not.
EndPublish ==
  /\ streamBuf # None
  /\ published' = [topic |-> streamTopic, payload |-> Payload,
                   asked |-> [topic |-> begunTopic, payload |-> accepted]]
  /\ allocated' = allocated - 1
  /\ streamBuf' = None
  /\ streamSize' = 0
  /\ streamPos' = 0
  /\ UNCHANGED <<streamTopic, accepted, begunTopic>>

Next ==
  \/ \E t \in StreamTopics, size \in Sizes : BeginPublish(t, size)
  \/ BeginPublishFails
  \/ \E c \in Chunks : Write(c)
  \/ EndPublish

Spec == Init /\ [][Next]_vars

-----------------------------------------------------------------------------

\* Over any sequence of calls, failed and repeated beginPublish() included,
\* what is written and the '\0' that endPublish() puts behind it are inside of
\* the block.
StreamInsideBlock ==
  streamBuf # None =>
    /\ streamPos \in DOMAIN streamBuf
    /\ streamPos <= streamSize
    /\ DOMAIN streamBuf = 0..streamSize

\* Every message that is published says what write() took since the last
\* beginPublish(), to the topic of that call: nothing of a stream that was
\* given up and nothing that malloc left in the block.
PublishedAsWritten ==
  published # None =>
    /\ published.topic = published.asked.topic
    /\ published.payload = published.asked.payload

\* No block is lost and none is freed twice.
OneBlock == allocated = IF streamBuf = None THEN 0 ELSE 1

=============================================================================
