------------------------ MODULE StreamPublish_proofs ------------------------
(***************************************************************************)
(* The streaming publish stays inside of its block, keeps its heap in      *)
(* order and publishes what was written, for any topics, sizes and chunks. *)
(*                                                                         *)
(* _streamSize and _streamPos outlive the block when malloc fails, so the  *)
(* invariant speaks of them only while there is a block; without one       *)
(* write() and endPublish() return at once.                                *)
(***************************************************************************)
EXTENDS StreamPublish, TLAPS

\* The numbers of a stream that is under way.
StreamInv ==
  /\ streamBuf # None =>
       /\ streamSize \in Sizes
       /\ streamPos \in 0..streamSize
       /\ streamBuf \in [0..streamSize -> Values]
  /\ OneBlock

\* The block begins with the bytes that write() took.
BlockHoldsAccepted ==
  streamBuf # None =>
    /\ streamTopic = begunTopic
    /\ accepted \in Seq(Values)
    /\ Len(accepted) = streamPos
    /\ \A i \in 1..streamPos : streamBuf[i - 1] = accepted[i]

\* malloc gives a block of size + 1 bytes.
LEMMA BlockOfSize ==
  ASSUME NEW size \in Sizes PROVE Block(size) \in [0..size -> Values]
  BY DEF Block, Values

LEMMA ChunkSequence ==
  ASSUME NEW c \in Chunks PROVE Len(c) \in Nat /\ \A i \in 1..Len(c) : c[i] \in Values
  BY StreamAssumption

\* write() takes no more than there is room for.
LEMMA TakenFits ==
  ASSUME NEW c \in Chunks, streamSize \in Nat, streamPos \in 0..streamSize
  PROVE Taken(c) \in Nat /\ streamPos + Taken(c) \in 0..streamSize
  BY ChunkSequence DEF Taken

LEMMA StreamInit == Init => StreamInv
  BY DEF Init, StreamInv, OneBlock

LEMMA StreamNext == StreamInv /\ [Next]_vars => StreamInv'
<1> SUFFICES ASSUME StreamInv, [Next]_vars PROVE StreamInv'
  OBVIOUS
<1> USE StreamAssumption DEF StreamInv, OneBlock
<1>1. ASSUME NEW topic \in StreamTopics, NEW size \in Sizes, BeginPublish(topic, size)
      PROVE StreamInv'
  BY <1>1, BlockOfSize DEF BeginPublish, StartStream, Freed
<1>2. CASE BeginPublishFails
  BY <1>2 DEF BeginPublishFails, Freed
<1>3. ASSUME NEW c \in Chunks, Write(c) PROVE StreamInv'
  <2>1. Taken(c) \in Nat /\ streamPos + Taken(c) \in 0..streamSize
    BY <1>3, TakenFits DEF Write
  <2>2. streamBuf' \in [0..streamSize -> Values]
    <3> SUFFICES ASSUME NEW i \in 0..streamSize,
                        i \in streamPos..(streamPos + Taken(c) - 1)
                 PROVE c[i - streamPos + 1] \in Values
      BY <1>3 DEF Write
    <3>1. i - streamPos + 1 \in 1..Len(c)
      BY <1>3, <2>1, ChunkSequence DEF Write, Taken
    <3> QED
      BY <3>1, ChunkSequence
  <2> QED
    BY <1>3, <2>1, <2>2 DEF Write
<1>4. CASE EndPublish
  BY <1>4 DEF EndPublish
<1>5. CASE UNCHANGED vars
  BY <1>5 DEF vars, streamVars
<1> QED
  BY <1>1, <1>2, <1>3, <1>4, <1>5 DEF Next

LEMMA HoldsNext ==
  StreamInv /\ BlockHoldsAccepted /\ [Next]_vars => BlockHoldsAccepted'
<1> SUFFICES ASSUME StreamInv, BlockHoldsAccepted, [Next]_vars PROVE BlockHoldsAccepted'
  OBVIOUS
<1>1. ASSUME NEW topic \in StreamTopics, NEW size \in Sizes, BeginPublish(topic, size)
      PROVE BlockHoldsAccepted'
  BY <1>1 DEF BlockHoldsAccepted, BeginPublish, StartStream
<1>2. CASE BeginPublishFails
  BY <1>2 DEF BlockHoldsAccepted, BeginPublishFails
<1>3. ASSUME NEW c \in Chunks, Write(c) PROVE BlockHoldsAccepted'
  <2> DEFINE taken == Taken(c)
  <2>1. /\ streamPos \in 0..streamSize
        /\ streamSize \in Nat
        /\ streamBuf \in [0..streamSize -> Values]
        /\ streamTopic = begunTopic
        /\ accepted \in Seq(Values)
        /\ Len(accepted) = streamPos
        /\ \A i \in 1..streamPos : streamBuf[i - 1] = accepted[i]
    BY <1>3, StreamAssumption DEF Write, StreamInv, BlockHoldsAccepted
  <2>2. c \in Seq(Values) /\ taken \in 0..Len(c) /\ streamPos + taken \in 0..streamSize
    BY <2>1, StreamAssumption, TakenFits DEF Taken
  <2>3. /\ SubSeq(c, 1, taken) \in Seq(Values)
        /\ Len(SubSeq(c, 1, taken)) = taken
        /\ \A i \in 1..taken : SubSeq(c, 1, taken)[i] = c[i]
    BY <2>2
  <2> HIDE DEF taken
  <2>4. /\ streamBuf' = [i \in DOMAIN streamBuf |->
                           IF i \in streamPos..(streamPos + taken - 1)
                             THEN c[i - streamPos + 1] ELSE streamBuf[i]]
        /\ streamPos' = streamPos + taken
        /\ accepted' = accepted \o SubSeq(c, 1, taken)
        /\ streamTopic' = streamTopic /\ begunTopic' = begunTopic
    BY <1>3 DEF Write, taken
  <2>5. accepted' \in Seq(Values) /\ Len(accepted') = streamPos'
    <3> DEFINE more == SubSeq(c, 1, taken)
    <3>1. more \in Seq(Values) /\ accepted \in Seq(Values)
      BY <2>1, <2>3
    <3> HIDE DEF more
    <3>2. accepted \o more \in Seq(Values) /\ Len(accepted \o more) = Len(accepted) + Len(more)
      BY <3>1
    <3> QED
      BY <2>1, <2>3, <2>4, <3>2 DEF more
  <2>6. ASSUME NEW i \in 1..(streamPos + taken)
        PROVE (streamBuf')[i - 1] = (accepted')[i]
    <3>1. CASE i <= streamPos
      <4>1. (accepted')[i] = accepted[i]
        BY <2>1, <2>2, <2>3, <2>4, <3>1
      <4>2. (streamBuf')[i - 1] = streamBuf[i - 1]
        BY <2>1, <2>2, <2>4, <3>1
      <4> QED
        BY <2>1, <3>1, <4>1, <4>2
    <3>2. CASE i > streamPos
      <4>1. i - streamPos \in 1..taken
        BY <2>1, <2>2, <3>2
      <4>2. (accepted')[i] = c[i - streamPos]
        BY <2>1, <2>2, <2>3, <2>4, <3>2, <4>1
      <4>3. (streamBuf')[i - 1] = c[i - streamPos]
        BY <2>1, <2>2, <2>4, <3>2, <4>1
      <4> QED
        BY <4>2, <4>3
    <3> QED
      BY <2>1, <3>1, <3>2
  <2> QED
    BY <2>1, <2>4, <2>5, <2>6 DEF BlockHoldsAccepted
<1>4. CASE EndPublish
  BY <1>4 DEF BlockHoldsAccepted, EndPublish
<1>5. CASE UNCHANGED vars
  BY <1>5 DEF BlockHoldsAccepted, vars, streamVars
<1> QED
  BY <1>1, <1>2, <1>3, <1>4, <1>5 DEF Next

\* What endPublish() hands over is what write() took, as a sequence.
LEMMA PayloadIsAccepted ==
  ASSUME StreamInv, BlockHoldsAccepted, streamBuf # None PROVE Payload = accepted
<1>1. /\ streamPos \in Nat
      /\ accepted \in Seq(Values)
      /\ Len(accepted) = streamPos
      /\ \A i \in 1..streamPos : streamBuf[i - 1] = accepted[i]
  BY StreamAssumption DEF StreamInv, BlockHoldsAccepted
<1>2. accepted = [i \in 1..streamPos |-> accepted[i]]
  BY <1>1
<1> QED
  BY <1>1, <1>2 DEF Payload

LEMMA PublishedNext ==
  /\ StreamInv /\ BlockHoldsAccepted
  /\ PublishedAsWritten
  /\ [Next]_vars
  => PublishedAsWritten'
<1> SUFFICES ASSUME StreamInv, BlockHoldsAccepted, PublishedAsWritten, [Next]_vars
             PROVE PublishedAsWritten'
  OBVIOUS
<1>1. CASE EndPublish
  BY <1>1, PayloadIsAccepted DEF EndPublish, PublishedAsWritten, BlockHoldsAccepted
<1>2. CASE published' = published
  BY <1>2 DEF PublishedAsWritten
<1>3. EndPublish \/ published' = published
  BY DEF Next, vars, BeginPublish, BeginPublishFails, Write
<1> QED
  BY <1>1, <1>2, <1>3

\* What is written, and the '\0' behind it, is inside of the block.
THEOREM StreamStaysInside == Spec => []StreamInsideBlock
<1>1. StreamInv => StreamInsideBlock
  BY DEF StreamInv, StreamInsideBlock
<1> QED
  BY <1>1, StreamInit, StreamNext, PTL DEF Spec

\* No block is lost, and none is freed twice.
THEOREM StreamHeap == Spec => []OneBlock
<1>1. StreamInv => OneBlock
  BY DEF StreamInv
<1> QED
  BY <1>1, StreamInit, StreamNext, PTL DEF Spec

\* Every message says what write() took since its beginPublish(), and goes to
\* the topic of that call, whatever the chunks and whatever was given up before.
THEOREM StreamPublished == Spec => []PublishedAsWritten
<1>1. Init => StreamInv /\ BlockHoldsAccepted /\ PublishedAsWritten
  BY StreamInit DEF Init, BlockHoldsAccepted, PublishedAsWritten
<1> QED
  BY <1>1, StreamNext, HoldsNext, PublishedNext, PTL DEF Spec

=============================================================================
