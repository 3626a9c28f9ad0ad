------------------------ MODULE PacketReader_proofs ------------------------
(***************************************************************************)
(* Proofs about the reader, for every stream of packets, every size of the *)
(* buffer and every base of the length fields: it stays in step with the   *)
(* packets, inside of its buffer, and keeps the promise of PacketChannel.  *)
(***************************************************************************)
EXTENDS PacketReader, PacketFormat_proofs

-----------------------------------------------------------------------------
(* The stream and its packets                                              *)

Packets == {p \in Seq(Bytes) : IsPacket(p)}

\* The recursive definition of Sent has a function that satisfies it.
LEMMA SentByPackets ==
  ASSUME stream \in Seq(Packets)
  PROVE  Sent = [n \in 0..Len(stream) |->
                   IF n = 0 THEN <<>> ELSE Sent[n - 1] \o stream[n]]
<1> DEFINE Upto(f, m) ==
      f = [n \in 0..m |-> IF n = 0 THEN <<>> ELSE f[n - 1] \o stream[n]]
<1> DEFINE S == {m \in Nat : \E f : Upto(f, m)}
<1>1. 0 \in S
  <2>1. Upto([n \in {0} |-> <<>>], 0)
    <3>1. 0..0 = {0}
      OBVIOUS
    <3> QED BY <3>1
  <2> QED BY <2>1
<1>2. ASSUME NEW m \in S PROVE m + 1 \in S
  <2>1. PICK f : Upto(f, m)
    OBVIOUS
  <2> DEFINE g == [n \in 0..(m + 1) |-> IF n = m + 1 THEN f[m] \o stream[m + 1] ELSE f[n]]
  <2>2. ASSUME NEW n \in 0..(m + 1)
        PROVE  g[n] = IF n = 0 THEN <<>> ELSE g[n - 1] \o stream[n]
    <3>1. CASE n = m + 1
      <4>1. n - 1 = m /\ n # 0 /\ m \in 0..(m + 1) /\ m # m + 1
        BY <3>1
      <4> QED BY <3>1, <4>1
    <3>2. CASE n # m + 1
      <4>1. n \in 0..m
        BY <3>2
      <4>2. f[n] = IF n = 0 THEN <<>> ELSE f[n - 1] \o stream[n]
        BY <2>1, <4>1
      <4>3. n # 0 => n - 1 \in 0..(m + 1) /\ n - 1 # m + 1
        BY <4>1
      <4> QED BY <3>2, <4>2, <4>3
    <3> QED BY <3>1, <3>2
  <2>3. Upto(g, m + 1)
    BY <2>2
  <2>4. m + 1 \in Nat /\ \E h : Upto(h, m + 1)
    <3> HIDE DEF Upto, g
    <3> QED BY <2>3
  <2> QED BY <2>4
<1>3. Len(stream) \in S
  <2>1. S \in SUBSET Nat
    OBVIOUS
  <2> HIDE DEF S
  <2>2. S = Nat
    BY <1>1, <1>2, <2>1, Induction
  <2> QED BY <2>2
<1>4. \E f : Upto(f, Len(stream))
  BY <1>3
<1> QED
  BY <1>4 DEF Sent

LEMMA SentNext ==
  ASSUME stream \in Seq(Packets)
  PROVE  /\ Sent[0] = <<>>
         /\ \A n \in 0..(Len(stream) - 1) : Sent[n + 1] = Sent[n] \o stream[n + 1]
<1>1. Len(stream) \in Nat
  OBVIOUS
<1>2. \A n \in 0..Len(stream) : Sent[n] = IF n = 0 THEN <<>> ELSE Sent[n - 1] \o stream[n]
  BY SentByPackets
<1>3. ASSUME NEW n \in 0..(Len(stream) - 1) PROVE Sent[n + 1] = Sent[n] \o stream[n + 1]
  <2>1. n + 1 \in 0..Len(stream) /\ n + 1 # 0 /\ (n + 1) - 1 = n
    BY <1>1
  <2> QED BY <1>2, <2>1
<1>4. Sent[0] = <<>>
  <2>1. 0 \in 0..Len(stream)
    BY <1>1
  <2> QED BY <1>2, <2>1
<1> QED BY <1>3, <1>4

LEMMA PacketTypes ==
  ASSUME stream \in Seq(Packets), NEW n \in 1..Len(stream)
  PROVE  /\ stream[n] \in Seq(Bytes)
         /\ IsPacket(stream[n])
         /\ Len(stream[n]) \in Nat \ {0}
<1>1. stream[n] \in Packets
  OBVIOUS
<1> QED BY <1>1 DEF Packets, IsPacket

\* What the first n packets are made of does not change with the packets
\* behind them.
LEMMA SentPrefix ==
  ASSUME stream \in Seq(Packets)
  PROVE  \A m \in 0..Len(stream) :
           /\ Sent[m] \in Seq(Bytes)
           /\ \A n \in 0..m :
                /\ Sent[n] \in Seq(Bytes)
                /\ Len(Sent[n]) <= Len(Sent[m]) /\ (n < m => Len(Sent[n]) < Len(Sent[m]))
                /\ \A i \in 1..Len(Sent[n]) : Sent[m][i] = Sent[n][i]
<1> DEFINE P(m) ==
      /\ Sent[m] \in Seq(Bytes)
      /\ \A n \in 0..m :
           /\ Sent[n] \in Seq(Bytes)
           /\ Len(Sent[n]) <= Len(Sent[m]) /\ (n < m => Len(Sent[n]) < Len(Sent[m]))
           /\ \A i \in 1..Len(Sent[n]) : Sent[m][i] = Sent[n][i]
<1> DEFINE S == {m \in Nat : m <= Len(stream) => P(m)}
<1>0. Len(stream) \in Nat
  OBVIOUS
<1>1. 0 \in S
  <2>1. Sent[0] \in Seq(Bytes) /\ Len(Sent[0]) = 0
    <3>1. Sent[0] = <<>>
      BY SentNext
    <3> QED BY <3>1
  <2>2. P(0)
    BY <2>1
  <2> QED BY <2>2
<1>2. ASSUME NEW m \in S PROVE m + 1 \in S
  <2> SUFFICES ASSUME m + 1 <= Len(stream) PROVE P(m + 1)
    OBVIOUS
  <2>1. P(m)
    BY <1>0
  <2>2. m \in 0..(Len(stream) - 1) /\ m + 1 \in 1..Len(stream)
    BY <1>0
  <2> DEFINE s == Sent[m]
  <2> DEFINE p == stream[m + 1]
  <2>3. Sent[m + 1] = s \o p
    BY <2>2, SentNext
  <2>4. s \in Seq(Bytes) /\ p \in Seq(Bytes) /\ Len(p) \in Nat \ {0}
    BY <2>1, <2>2, PacketTypes
  <2> HIDE DEF s, p
  <2>5. /\ s \o p \in Seq(Bytes)
        /\ Len(s \o p) = Len(s) + Len(p) /\ Len(s) \in Nat
        /\ \A i \in 1..Len(s) : (s \o p)[i] = s[i]
    BY <2>4
  <2>6. ASSUME NEW n \in 0..(m + 1)
        PROVE  /\ Sent[n] \in Seq(Bytes)
               /\ Len(Sent[n]) <= Len(Sent[m + 1])
               /\ n < m + 1 => Len(Sent[n]) < Len(Sent[m + 1])
               /\ \A i \in 1..Len(Sent[n]) : Sent[m + 1][i] = Sent[n][i]
    <3>1. CASE n = m + 1
      <4>1. Sent[n] \in Seq(Bytes) /\ Len(Sent[n]) \in Nat
        BY <3>1, <2>3, <2>5
      <4> QED BY <3>1, <4>1
    <3>2. CASE n # m + 1
      <4>1. n \in 0..m
        BY <3>2
      <4>2. /\ Sent[n] \in Seq(Bytes) /\ Len(Sent[n]) <= Len(s) /\ Len(Sent[n]) \in Nat
            /\ \A i \in 1..Len(Sent[n]) : s[i] = Sent[n][i]
        BY <2>1, <4>1 DEF s
      <4>3. \A i \in 1..Len(Sent[n]) : (s \o p)[i] = Sent[n][i]
        BY <2>5, <4>2
      <4> QED BY <2>3, <2>4, <2>5, <4>2, <4>3
    <3> QED BY <3>1, <3>2
  <2> QED BY <2>3, <2>5, <2>6
<1>3. S = Nat
  <2>1. S \in SUBSET Nat
    OBVIOUS
  <2> HIDE DEF S
  <2> QED BY <1>1, <1>2, <2>1, Induction
<1>4. \A m \in 0..Len(stream) : P(m)
  BY <1>0, <1>3
<1> QED BY <1>4

\* The boundaries grow with the packets, and the bytes between two of them are
\* those of the packet.
LEMMA Boundaries ==
  ASSUME stream \in Seq(Packets)
  PROVE  /\ Len(stream) \in Nat
         /\ Boundary(0) = 0
         /\ Len(Wire) = Boundary(Len(stream))
         /\ \A n \in 0..Len(stream) : Boundary(n) \in Nat
         /\ \A m, n \in 0..Len(stream) : n < m => Boundary(n) < Boundary(m)
         /\ \A n \in 0..(Len(stream) - 1) :
              /\ Boundary(n + 1) = Boundary(n) + Len(stream[n + 1])
              /\ \A i \in 1..Len(stream[n + 1]) : Wire[Boundary(n) + i] = stream[n + 1][i]
<1>1. Len(stream) \in Nat
  OBVIOUS
<1>2. Boundary(0) = 0 /\ Len(Wire) = Boundary(Len(stream))
  BY SentNext DEF Boundary, Wire
<1>3. \A n \in 0..Len(stream) : Boundary(n) \in Nat
  BY SentPrefix DEF Boundary
<1>4. ASSUME NEW m \in 0..Len(stream), NEW n \in 0..Len(stream), n < m
      PROVE  Boundary(n) < Boundary(m)
  <2>1. n \in 0..m
    BY <1>4
  <2> QED BY <1>4, <2>1, SentPrefix DEF Boundary
<1>5. ASSUME NEW n \in 0..(Len(stream) - 1)
      PROVE  /\ Boundary(n + 1) = Boundary(n) + Len(stream[n + 1])
             /\ \A i \in 1..Len(stream[n + 1]) : Wire[Boundary(n) + i] = stream[n + 1][i]
  <2>1. n \in 0..Len(stream) /\ n + 1 \in 0..Len(stream) /\ n + 1 \in 1..Len(stream)
    BY <1>1
  <2> DEFINE s == Sent[n]
  <2> DEFINE p == stream[n + 1]
  <2>2. Sent[n + 1] = s \o p
    BY SentNext
  <2>3. s \in Seq(Bytes) /\ p \in Seq(Bytes)
    BY <2>1, SentPrefix, PacketTypes
  <2>4. \A i \in 1..Len(Sent[n + 1]) : Wire[i] = Sent[n + 1][i]
    BY <1>1, <2>1, SentPrefix DEF Wire
  <2>5. Boundary(n) = Len(s)
    BY DEF Boundary
  <2>6. Boundary(n + 1) = Len(s \o p)
    BY <2>2 DEF Boundary
  <2> HIDE DEF s, p
  <2>7. /\ Len(s \o p) = Len(s) + Len(p) /\ Len(s) \in Nat /\ Len(p) \in Nat
        /\ \A i \in 1..Len(p) : (s \o p)[Len(s) + i] = p[i]
    BY <2>3
  <2>8. \A i \in 1..Len(p) : Wire[Len(s) + i] = (s \o p)[Len(s) + i]
    BY <2>2, <2>4, <2>7, SMTT(30)
  <2> QED BY <2>5, <2>6, <2>7, <2>8 DEF p
<1> QED BY <1>1, <1>2, <1>3, <1>4, <1>5

\* Of t bytes, between the boundaries of k and of k + 1 packets, k packets can
\* be taken whole.
LEMMA CountWhole ==
  ASSUME stream \in Seq(Packets), NEW k \in 0..Len(stream), NEW t \in Int,
         Boundary(k) <= t, k < Len(stream) => t < Boundary(k + 1)
  PROVE  Cardinality({n \in DOMAIN stream : Boundary(n) <= t}) = k
<1>1. ASSUME NEW n \in 1..Len(stream) PROVE Boundary(n) <= t <=> n <= k
  <2>1. CASE n < k
    BY <2>1, Boundaries
  <2>2. CASE n = k
    BY <2>2
  <2>3. CASE n > k
    <3>1. n = k + 1 \/ n > k + 1
      BY <2>3
    <3>2. k + 1 \in 0..Len(stream) /\ k < Len(stream)
      BY <2>3
    <3>3. Boundary(k + 1) <= Boundary(n) /\ Boundary(k + 1) \in Int /\ Boundary(n) \in Int
      BY <3>1, <3>2, Boundaries
    <3> QED BY <2>3, <3>2, <3>3
  <2> QED BY <2>1, <2>2, <2>3
<1>2. DOMAIN stream = 1..Len(stream) /\ Len(stream) \in Nat
  OBVIOUS
<1>3. {n \in DOMAIN stream : Boundary(n) <= t} = 1..k
  BY <1>1, <1>2
<1>4. Cardinality(1..k) = k
  BY <1>2, FS_Interval
<1> QED BY <1>3, <1>4

LEMMA BufferSize ==
  ASSUME NEW size \in Nat \ {0}, DOMAIN buffer = 0..(size - 1)
  PROVE  BufSize = size
BY FS_Interval DEF BufSize

-----------------------------------------------------------------------------
(* The length of a packet, from the bytes of it that have come             *)

\* lwmqtt_detect_remaining_length on the first m bytes behind the header says
\* of the packet what lwmqtt_read_varnum says of all of it.
LEMMA LengthSoFar ==
  ASSUME NEW p \in Seq(Bytes), NEW m \in 1..(Len(p) - 1), m <= MaxLen + 1,
         \A k \in 2..m : More(p[k]),
         NEW soFar, Len(soFar) = m, \A i \in 1..m : soFar[i] = p[i + 1]
  PROVE  LET n == ReadVarnum(soFar, 1) IN
           \/ /\ n.err = Success /\ ReadVarnum(p, 2).err = Success
              /\ ReadVarnum(p, 2).value = n.value /\ ReadVarnum(p, 2).next = m + 2
           \/ /\ n.err = TooShort /\ m <= MaxLen /\ More(p[m + 1])
              /\ m = Len(p) - 1 => ReadVarnum(p, 2).err = TooShort
           \/ n.err = VarnumOverflow /\ ReadVarnum(p, 2).err = VarnumOverflow
<1>1. Left(p, 2) = Len(p) - 1 /\ Left(soFar, 1) = m /\ m \in Nat /\ Len(p) \in Nat
  BY DEF Left
<1>2. \A k \in 1..m : soFar[1 + k - 1] = p[2 + k - 1] /\ p[2 + k - 1] = p[k + 1]
  OBVIOUS
<1>3. \A k \in 1..(m - 1) : More(soFar[1 + k - 1]) /\ More(p[2 + k - 1])
  BY <1>1, <1>2
<1>4. CASE m <= MaxLen /\ ~More(p[m + 1])
  <2>1. m \in 1..MaxLen /\ ~More(soFar[1 + m - 1]) /\ ~More(p[2 + m - 1])
    BY <1>2, <1>4, HelpersAssumption
  <2>2. Digits(soFar, 1, m) = Digits(p, 2, m)
    BY <1>2 DEF Digits
  <2>3. /\ ReadVarnum(soFar, 1).err = Success
        /\ ReadVarnum(soFar, 1).value = NumberOf(Digits(soFar, 1, m))
    BY <1>1, <1>3, <2>1, VarnumEnds
  <2>4. /\ ReadVarnum(p, 2).err = Success
        /\ ReadVarnum(p, 2).value = NumberOf(Digits(p, 2, m))
        /\ ReadVarnum(p, 2).next = 2 + m
    <3>1. Left(p, 2) \in Int /\ m <= Left(p, 2) /\ 2 \in Nat \ {0}
      BY <1>1
    <3> QED BY <1>3, <2>1, <3>1, VarnumEnds
  <2> QED BY <1>1, <2>2, <2>3, <2>4
<1>5. CASE m <= MaxLen /\ More(p[m + 1])
  <2>1. \A k \in 1..m : More(soFar[1 + k - 1]) /\ More(p[2 + k - 1])
    BY <1>1, <1>2, <1>5
  <2>2. ReadVarnum(soFar, 1).err = TooShort
    <3>1. \A k \in 1..MaxLen : k <= Left(soFar, 1) => More(soFar[1 + k - 1])
      BY <1>1, <2>1
    <3>2. Left(soFar, 1) \in Int /\ Left(soFar, 1) <= MaxLen /\ 1 \in Nat \ {0}
      BY <1>1, <1>5
    <3> QED BY <3>1, <3>2, VarnumGoesOn
  <2>3. m = Len(p) - 1 => ReadVarnum(p, 2).err = TooShort
    <3> SUFFICES ASSUME m = Len(p) - 1 PROVE ReadVarnum(p, 2).err = TooShort
      OBVIOUS
    <3>1. \A k \in 1..MaxLen : k <= Left(p, 2) => More(p[2 + k - 1])
      BY <1>1, <2>1
    <3>2. Left(p, 2) \in Int /\ Left(p, 2) <= MaxLen /\ 2 \in Nat \ {0}
      BY <1>1, <1>5
    <3> QED BY <3>1, <3>2, VarnumGoesOn
  <2> QED BY <1>5, <2>2, <2>3
<1>6. CASE m = MaxLen + 1
  <2>1. \A k \in 1..MaxLen : More(soFar[1 + k - 1]) /\ More(p[2 + k - 1])
    BY <1>3, <1>6, HelpersAssumption
  <2>2. MaxLen \in Int /\ 1 \in Nat \ {0} /\ 2 \in Nat \ {0}
    BY HelpersAssumption
  <2>3. ReadVarnum(soFar, 1).err = VarnumOverflow
    <3>1. Left(soFar, 1) \in Int /\ ~(Left(soFar, 1) <= MaxLen)
      BY <1>1, <1>6, <2>2
    <3> QED BY <2>1, <2>2, <3>1, VarnumGoesOn
  <2>4. ReadVarnum(p, 2).err = VarnumOverflow
    <3>1. Left(p, 2) \in Int /\ ~(Left(p, 2) <= MaxLen)
      BY <1>1, <1>6, <2>2
    <3> QED BY <2>1, <2>2, <3>1, VarnumGoesOn
  <2> QED BY <2>3, <2>4
<1> QED BY <1>4, <1>5, <1>6, HelpersAssumption

-----------------------------------------------------------------------------
(* The invariant: where in the stream the reader stands                    *)

\* With t bytes taken, k packets are taken whole.
Counted(k, t) == Boundary(k) <= t /\ (k < Len(stream) => t < Boundary(k + 1))

\* The first n bytes of the packet behind the first k lie where they belong.
Placed(k, n) == \A i \in 1..n : buffer[i - 1] = Boundary(k) + i

\* Packet n can be read, and fits.
Fits(n) == Valid(stream[n]) /\ Len(stream[n]) <= BufSize

\* Between two calls, and before the first byte, the reader is at a boundary.
Between(k) ==
  /\ point \in {"idle", "header"} => taken = Boundary(k)
  /\ point = "idle" /\ outcome = "packet" =>
       k > 0 /\ Placed(k - 1, Len(stream[k])) /\ Fits(k)

\* The header and the bytes of the length that have come announce another one.
InLength(k) ==
  point = "length" =>
    /\ k < Len(stream)
    /\ DetectType(stream[k + 1]).err = Success
    /\ offset \in 1..(Len(stream[k + 1]) - 1)
    /\ offset <= MaxLen + 1
    /\ taken = Boundary(k) + offset
    /\ \A i \in 2..offset : More(stream[k + 1][i])
    /\ Placed(k, offset)

\* The packet fits, and what is missing is the rest of it.
InRest(k) ==
  point = "rest" =>
    /\ k < Len(stream)
    /\ Valid(stream[k + 1])
    /\ offset > 0 /\ missing > 0
    /\ offset + missing = Len(stream[k + 1])
    /\ offset + missing <= BufSize
    /\ taken = Boundary(k) + offset
    /\ Placed(k, offset)

\* The packet does not fit, and what is missing is the rest of it.
InDrain(k) ==
  point = "drain" =>
    /\ k < Len(stream)
    /\ Valid(stream[k + 1])
    /\ dropOverflow
    /\ Len(stream[k + 1]) > BufSize
    /\ missing \in 1..(Len(stream[k + 1]) - 1)
    /\ taken + missing = Boundary(k + 1)

\* k packets were taken whole, and of the next one as much as `point` says.
At(k) ==
  /\ k \in 0..Len(stream)
  /\ Counted(k, taken)
  /\ Between(k)
  /\ InLength(k)
  /\ InRest(k)
  /\ InDrain(k)

ReaderInv ==
  /\ stream \in Seq(Packets)
  /\ ReaderTypeOK
  /\ point = "closed" <=> outcome = "failed"

\* What a step does to the number of packets taken whole.
Progress(k, j) ==
  \/ j = k /\ UNCHANGED outcome
  \/ /\ j = k + 1 /\ k < Len(stream) /\ Valid(stream[k + 1]) /\ outcome # "failed"
     /\ \/ outcome' = "packet" /\ Len(stream[k + 1]) <= BufSize
        \/ outcome' = "dropped" /\ dropOverflow /\ Len(stream[k + 1]) > BufSize
  \/ j = k /\ outcome # "failed" /\ outcome' \in {"nothing", "failed"}
  \/ /\ j = k + 1 /\ k < Len(stream) /\ ~Valid(stream[k + 1]) /\ outcome # "failed"
     /\ outcome' = "failed"

\* Every step keeps the invariant, and is progress on the packets.
Advances(k) ==
  /\ ReaderInv'
  /\ \E j \in {k, k + 1} : At(j)' /\ Progress(k, j)
  /\ UNCHANGED <<dropOverflow, stream>> /\ BufSize' = BufSize

LEMMA SameStream ==
  ASSUME stream' = stream
  PROVE  /\ Wire' = Wire
         /\ \A n : Boundary(n)' = Boundary(n)
BY DEF Wire, Boundary, Sent

LEMMA BufferType ==
  ASSUME ReaderTypeOK
  PROVE  /\ BufSize \in BufSizes
         /\ BufSize \in Nat \ {0}
         /\ buffer \in [0..(BufSize - 1) -> 0..Len(Wire)]
<1>1. PICK size \in BufSizes : buffer \in [0..(size - 1) -> 0..Len(Wire)]
  BY DEF ReaderTypeOK
<1>2. size \in Nat \ {0} /\ DOMAIN buffer = 0..(size - 1)
  BY <1>1, ReaderAssumption
<1> QED BY <1>1, <1>2, BufferSize

\* A portion from the socket.
LEMMA TakeTypes ==
  ASSUME stream \in Seq(Packets), ReaderTypeOK, NEW n \in Nat \ {0}, NEW at \in Nat, Take(n, at)
  PROVE  /\ UNCHANGED <<dropOverflow, stream, arrived, linked, expired>>
         /\ taken' = taken + n
         /\ taken' \in 0..arrived'
         /\ Wire' = Wire
         /\ BufSize' = BufSize
         /\ buffer' \in [0..(BufSize - 1) -> 0..Len(Wire)]
         /\ \A i \in 0..(BufSize - 1) :
              buffer'[i] = IF i \in at..(at + n - 1) THEN taken + 1 + i - at ELSE buffer[i]
<1>1. /\ UNCHANGED <<dropOverflow, stream, arrived, linked, expired>>
      /\ taken' = taken + n /\ n <= arrived - taken
      /\ buffer' = [i \in DOMAIN buffer |->
                       IF i \in at..(at + n - 1) THEN taken + 1 + i - at ELSE buffer[i]]
  BY DEF Take, wireVars
<1>2. /\ BufSize \in Nat \ {0} /\ DOMAIN buffer = 0..(BufSize - 1)
      /\ \A i \in 0..(BufSize - 1) : buffer[i] \in 0..Len(Wire)
  BY BufferType
<1>3. arrived \in 0..Len(Wire) /\ taken \in 0..arrived /\ Len(Wire) \in Nat
  BY Boundaries DEF ReaderTypeOK
<1>4. taken' \in 0..arrived'
  BY <1>1, <1>3
<1>5. Wire' = Wire
  BY <1>1, SameStream
<1>6. /\ DOMAIN buffer' = 0..(BufSize - 1)
      /\ \A i \in 0..(BufSize - 1) :
           buffer'[i] = IF i \in at..(at + n - 1) THEN taken + 1 + i - at ELSE buffer[i]
  BY <1>1, <1>2
<1>7. ASSUME NEW i \in 0..(BufSize - 1) PROVE buffer'[i] \in 0..Len(Wire)
  <2>1. CASE i \in at..(at + n - 1)
    <3>1. buffer'[i] = taken + 1 + i - at
      BY <1>6, <2>1
    <3>2. i - at \in 0..(n - 1)
      BY <1>2, <2>1
    <3> QED BY <1>1, <1>3, <3>1, <3>2
  <2>2. CASE i \notin at..(at + n - 1)
    BY <1>2, <1>6, <2>2
  <2> QED BY <2>1, <2>2
<1>8. buffer' \in [0..(BufSize - 1) -> 0..Len(Wire)]
  <2>1. buffer' = [i \in DOMAIN buffer |-> buffer'[i]]
    BY <1>1
  <2> QED BY <1>2, <1>7, <2>1
<1>9. BufSize' = BufSize
  BY <1>2, <1>6 DEF BufSize
<1> QED BY <1>1, <1>4, <1>5, <1>6, <1>8, <1>9

\* t bytes end within the packet behind the first k, or in front of it.
LEMMA CountedWithin ==
  ASSUME stream \in Seq(Packets), NEW k \in 0..Len(stream), k < Len(stream),
         NEW m \in 0..(Len(stream[k + 1]) - 1)
  PROVE  Counted(k, Boundary(k) + m)
<1>1. k \in 0..(Len(stream) - 1) /\ k + 1 \in 1..Len(stream)
  BY Boundaries
<1>2. /\ Boundary(k) \in Nat /\ Len(stream[k + 1]) \in Nat
      /\ Boundary(k + 1) = Boundary(k) + Len(stream[k + 1])
  BY <1>1, Boundaries, PacketTypes
<1> QED BY <1>2 DEF Counted

LEMMA CountedAtBoundary ==
  ASSUME stream \in Seq(Packets), NEW k \in 0..Len(stream)
  PROVE  Counted(k, Boundary(k))
<1>1. Boundary(k) \in Nat
  BY Boundaries
<1>2. CASE k < Len(stream)
  <2>1. k + 1 \in 0..Len(stream) /\ k < k + 1
    BY <1>2, Boundaries
  <2> QED BY <1>1, <2>1, Boundaries DEF Counted
<1>3. CASE ~(k < Len(stream))
  BY <1>1, <1>3 DEF Counted
<1> QED BY <1>2, <1>3

-----------------------------------------------------------------------------
(* The three ends of a step                                                *)

\* What the thread leaves as it is.
Kept ==
  /\ UNCHANGED <<dropOverflow, stream, arrived, linked, Wire, BufSize>>
  /\ expired' \in BOOLEAN
  /\ taken' \in 0..arrived
  /\ buffer' \in [0..(BufSize - 1) -> 0..Len(Wire)]
  /\ offset' \in 0..BufSize

LEMMA KeptTypes ==
  ASSUME ReaderInv, Kept,
         point' \in {"idle", "header", "length", "rest", "drain", "closed"}, missing' \in Nat,
         outcome' \in {"none", "packet", "dropped", "nothing", "failed"},
         point' = "closed" <=> outcome' = "failed"
  PROVE  ReaderInv'
<1>1. \E size \in BufSizes : buffer' \in [0..(size - 1) -> 0..Len(Wire)]
  BY BufferType DEF Kept, ReaderInv
<1> QED BY <1>1 DEF Kept, ReaderInv, ReaderTypeOK

\* A read that leaves everything in its place.
LEMMA NothingTaken ==
  ASSUME ReaderInv, UNCHANGED <<wireVars, taken, buffer, offset>>, expired' \in BOOLEAN
  PROVE  Kept
<1>1. /\ buffer \in [0..(BufSize - 1) -> 0..Len(Wire)]
      /\ taken \in 0..arrived /\ offset \in 0..BufSize
  BY BufferType DEF ReaderInv, ReaderTypeOK
<1>2. Wire' = Wire /\ BufSize' = BufSize
  BY SameStream DEF wireVars, BufSize
<1> QED BY <1>1, <1>2 DEF Kept, wireVars

LEMMA FailAdvances ==
  ASSUME ReaderInv, NEW k, At(k), point # "closed", Kept, Fail,
         NEW j \in {k, k + 1}, j \in 0..Len(stream), Counted(j, taken'),
         j # k => k < Len(stream) /\ ~Valid(stream[k + 1])
  PROVE  Advances(k)
<1>1. point' = "closed" /\ outcome' = "failed" /\ missing' = 0
  BY DEF Fail
<1>2. ReaderInv'
  BY <1>1, KeptTypes
<1>3. Counted(j, taken)'
  BY SameStream DEF Kept, Counted
<1>4. At(j)'
  BY <1>1, <1>3 DEF At, Between, InLength, InRest, InDrain, Kept
<1>5. Progress(k, j)
  BY <1>1 DEF Progress, ReaderInv
<1> QED BY <1>2, <1>4, <1>5 DEF Advances, Kept

LEMMA GoOnAdvances ==
  ASSUME ReaderInv, NEW k, At(k), point # "closed", Kept, Counted(k, taken'),
         NEW next \in {"header", "length", "rest", "drain"}, NEW count \in Nat, GoOn(next, count),
         next = "header" => taken' = Boundary(k),
         InLength(k)', InRest(k)', InDrain(k)'
  PROVE  Advances(k)
<1>1. point' = next /\ outcome' = outcome /\ missing' = count
  BY DEF GoOn
<1>2. ReaderInv'
  BY <1>1, KeptTypes DEF ReaderInv, ReaderTypeOK
<1>3. Counted(k, taken)' /\ Boundary(k)' = Boundary(k)
  BY SameStream DEF Kept, Counted
<1>4. Between(k)'
  BY <1>1, <1>3 DEF Between
<1>5. At(k)'
  BY <1>3, <1>4 DEF At, Kept
<1>6. Progress(k, k)
  BY <1>1 DEF Progress
<1> QED BY <1>2, <1>5, <1>6 DEF Advances, Kept

LEMMA DoneAdvances ==
  ASSUME ReaderInv, NEW k, At(k), point # "closed", Kept,
         NEW result \in {"packet", "dropped", "nothing"}, Done(result),
         NEW j \in {k, k + 1}, j \in 0..Len(stream), taken' = Boundary(j), Progress(k, j),
         result = "packet" => j > 0 /\ Placed(j - 1, Len(stream[j]))' /\ Fits(j)
  PROVE  Advances(k)
<1>1. point' = "idle" /\ outcome' = result /\ missing' = 0
  BY DEF Done
<1>2. ReaderInv'
  BY <1>1, KeptTypes
<1>3. Counted(j, taken)' /\ Boundary(j)' = Boundary(j)
  BY SameStream, CountedAtBoundary DEF Kept, Counted, ReaderInv
<1>4. Between(j)'
  <2>1. Fits(j)' <=> Fits(j)
    BY DEF Kept, Fits, Valid
  <2> QED BY <1>1, <1>3, <2>1 DEF Between
<1>5. At(j)'
  BY <1>1, <1>3, <1>4 DEF At, InLength, InRest, InDrain, Kept
<1> QED BY <1>2, <1>5 DEF Advances, Kept

-----------------------------------------------------------------------------
(* The steps                                                               *)

LEMMA CallAdvances ==
  ASSUME ReaderInv, NEW k, At(k), Call
  PROVE  Advances(k)
<1>1. /\ point = "idle" /\ expired' \in BOOLEAN /\ offset' = 0 /\ GoOn("header", 1)
      /\ UNCHANGED <<wireVars, taken, buffer>>
  BY DEF Call
<1>2. Kept
  <2>1. /\ buffer \in [0..(BufSize - 1) -> 0..Len(Wire)]
        /\ taken \in 0..arrived /\ BufSize \in Nat
    BY BufferType DEF ReaderInv, ReaderTypeOK
  <2>2. Wire' = Wire /\ BufSize' = BufSize
    BY <1>1, SameStream DEF wireVars, BufSize
  <2> QED BY <1>1, <2>1, <2>2 DEF Kept, wireVars
<1>3. InLength(k)' /\ InRest(k)' /\ InDrain(k)'
  BY <1>1 DEF GoOn, InLength, InRest, InDrain
<1>4. taken' = Boundary(k) /\ Counted(k, taken')
  BY <1>1 DEF At, Between
<1> QED BY <1>1, <1>2, <1>3, <1>4, GoOnAdvances

\* A byte that is there belongs to the packet behind the first k.
LEMMA NextByte ==
  ASSUME ReaderInv, NEW k, At(k), taken < arrived
  PROVE  /\ k \in 0..(Len(stream) - 1) /\ k < Len(stream) /\ k + 1 \in 0..Len(stream)
         /\ Boundary(k) \in Nat
         /\ Boundary(k + 1) = Boundary(k) + Len(stream[k + 1])
         /\ stream[k + 1] \in Seq(Bytes) /\ IsPacket(stream[k + 1])
         /\ Len(stream[k + 1]) \in Nat \ {0}
         /\ \A i \in 1..Len(stream[k + 1]) : Wire[Boundary(k) + i] = stream[k + 1][i]
<1>1. k \in 0..Len(stream) /\ Boundary(k) <= taken
  BY DEF At, Counted
<1>2. taken < Len(Wire) /\ taken \in Int /\ Len(Wire) \in Nat
  BY Boundaries DEF ReaderInv, ReaderTypeOK
<1>3. k # Len(stream)
  BY <1>1, <1>2, Boundaries DEF ReaderInv
<1>4. k \in 0..(Len(stream) - 1) /\ k < Len(stream) /\ k + 1 \in 1..Len(stream)
  BY <1>1, <1>3, Boundaries DEF ReaderInv
<1> QED BY <1>1, <1>4, Boundaries, PacketTypes DEF ReaderInv

\* An error after m bytes of the packet; if these are all, it is malformed.
LEMMA FailWithin ==
  ASSUME ReaderInv, NEW k, At(k), point # "closed", Kept, Fail, taken < arrived,
         NEW m \in 1..Len(stream[k + 1]), taken' = Boundary(k) + m,
         m = Len(stream[k + 1]) => ~Valid(stream[k + 1])
  PROVE  Advances(k)
<1>1. /\ k \in 0..(Len(stream) - 1) /\ k < Len(stream) /\ k + 1 \in 0..Len(stream)
      /\ k \in 0..Len(stream)
      /\ Boundary(k + 1) = Boundary(k) + Len(stream[k + 1])
      /\ Len(stream[k + 1]) \in Nat \ {0}
  BY NextByte DEF At
<1>2. CASE m = Len(stream[k + 1])
  <2>1. Counted(k + 1, taken')
    BY <1>1, <1>2, CountedAtBoundary DEF ReaderInv
  <2> QED BY <1>1, <1>2, <2>1, FailAdvances
<1>3. CASE m # Len(stream[k + 1])
  <2>1. m \in 0..(Len(stream[k + 1]) - 1)
    BY <1>1, <1>3
  <2>2. Counted(k, taken')
    BY <1>1, <2>1, CountedWithin DEF ReaderInv
  <2> QED BY <1>1, <2>2, FailAdvances
<1> QED BY <1>2, <1>3

\* The first byte alone decides about the type.
LEMMA HeaderDecides ==
  ASSUME NEW p \in Seq(Bytes), p # <<>>
  PROVE  DetectType(<<p[1]>>).err = DetectType(p).err
BY DEF DetectType, Failed

LEMMA HeaderAdvances ==
  ASSUME ReaderInv, NEW k, At(k), ReadHeader
  PROVE  Advances(k)
<1> DEFINE p == stream[k + 1]
<1>1. /\ point = "header" /\ offset' = 1 /\ Take(1, 0)
      /\ IF DetectType(<<Wire[taken + 1]>>).err = Success THEN GoOn("length", 1) ELSE Fail
  BY DEF ReadHeader
<1>2. taken < arrived /\ taken \in Int /\ taken = Boundary(k)
  BY <1>1 DEF Take, ReaderInv, ReaderTypeOK, At, Between
<1>3. /\ k < Len(stream) /\ k \in 0..Len(stream) /\ k + 1 \in 0..Len(stream) /\ Boundary(k) \in Nat
      /\ p \in Seq(Bytes) /\ IsPacket(p) /\ Len(p) \in Nat \ {0}
      /\ Wire[taken + 1] = p[1]
  BY <1>2, NextByte DEF At
<1>4. /\ taken' = Boundary(k) + 1 /\ BufSize \in Nat \ {0}
      /\ buffer'[0] = taken + 1
      /\ Kept
  <2>1. /\ UNCHANGED <<dropOverflow, stream, arrived, linked, expired, Wire, BufSize>>
        /\ taken' = taken + 1 /\ taken' \in 0..arrived'
        /\ buffer' \in [0..(BufSize - 1) -> 0..Len(Wire)]
        /\ \A i \in 0..(BufSize - 1) :
             buffer'[i] = IF i \in 0..(0 + 1 - 1) THEN taken + 1 + i - 0 ELSE buffer[i]
    BY <1>1, TakeTypes DEF ReaderInv
  <2>2. BufSize \in Nat \ {0} /\ expired \in BOOLEAN
    BY BufferType DEF ReaderInv, ReaderTypeOK
  <2>3. buffer'[0] = taken + 1
    BY <1>2, <2>1, <2>2
  <2> QED BY <1>1, <1>2, <2>1, <2>2, <2>3 DEF Kept
<1>5. DetectType(<<Wire[taken + 1]>>).err = DetectType(p).err
  BY <1>3, HeaderDecides DEF IsPacket
<1>6. CASE DetectType(p).err = Success
  <2>1. Len(p) # 1
    <3> SUFFICES ASSUME Len(p) = 1 PROVE FALSE
      OBVIOUS
    <3>1. Left(p, 2) = 0 /\ MaxLen \in Nat \ {0}
      BY HelpersAssumption DEF Left
    <3>2. ReadVarnum(p, 2).err = TooShort
      <4>1. \A i \in 1..MaxLen : i <= Left(p, 2) => More(p[2 + i - 1])
        BY <3>1
      <4>2. Left(p, 2) \in Int /\ Left(p, 2) <= MaxLen /\ 2 \in Nat \ {0}
        BY <3>1
      <4> QED BY <4>1, <4>2, VarnumGoesOn
    <3> QED BY <1>3, <1>6, <3>2 DEF IsPacket, TooShort, Success, VarnumOverflow
  <2>2. Counted(k, taken')
    <3>1. Len(p) \in Nat \ {0}
      BY <1>3
    <3>2. 1 \in 0..(Len(p) - 1)
      <4>1. \A n \in Nat \ {0} : n # 1 => 1 \in 0..(n - 1)
        OBVIOUS
      <4> QED BY <2>1, <3>1, <4>1
    <3> QED BY <1>3, <1>4, <3>2, CountedWithin DEF ReaderInv
  <2>3. GoOn("length", 1) /\ point' = "length"
    BY <1>1, <1>5, <1>6 DEF GoOn
  <2>4. Placed(k, offset)'
    BY <1>1, <1>2, <1>4, SameStream DEF Placed, Kept
  <2>5. InLength(k)'
    <3>1. stream' = stream /\ Boundary(k)' = Boundary(k) /\ MaxLen \in Nat
      BY <1>4, SameStream, HelpersAssumption DEF Kept
    <3>2. Len(p) \in Nat \ {0} /\ offset' = 1 /\ taken' = Boundary(k) + offset'
      BY <1>1, <1>3, <1>4
    <3>3. offset' \in 1..(Len(p) - 1) /\ offset' <= MaxLen + 1 /\ 2..offset' = {}
      <4>1. \A n \in Nat \ {0} : n # 1 => 1 \in 1..(n - 1)
        OBVIOUS
      <4>2. 1 <= MaxLen + 1 /\ 2..1 = {}
        BY <3>1
      <4> QED BY <2>1, <3>2, <4>1, <4>2
    <3> QED BY <1>3, <1>6, <2>4, <3>1, <3>2, <3>3 DEF InLength
  <2>6. InRest(k)' /\ InDrain(k)'
    BY <2>3 DEF InRest, InDrain
  <2> QED BY <1>1, <1>4, <2>2, <2>3, <2>5, <2>6, GoOnAdvances
<1>7. CASE DetectType(p).err # Success
  <2>1. Fail /\ ~Valid(p)
    BY <1>1, <1>5, <1>7 DEF Valid
  <2> QED BY <1>1, <1>2, <1>3, <1>4, <2>1, FailWithin
<1> QED BY <1>6, <1>7

\* A portion of m bytes that goes behind the bytes of the packet that lie in
\* their places already.
LEMMA TakeBehind ==
  ASSUME ReaderInv, NEW k \in 0..Len(stream), NEW m \in Nat \ {0}, Take(m, offset),
         taken = Boundary(k) + offset, Placed(k, offset),
         offset + m <= BufSize, offset' \in {offset, offset + m}
  PROVE  /\ taken' = Boundary(k) + offset + m
         /\ Kept
         /\ \A i \in 1..(offset + m) : buffer'[i - 1] = Boundary(k) + i
<1>1. /\ UNCHANGED <<dropOverflow, stream, arrived, linked, expired, Wire, BufSize>>
      /\ taken' = taken + m /\ taken' \in 0..arrived'
      /\ buffer' \in [0..(BufSize - 1) -> 0..Len(Wire)]
      /\ \A i \in 0..(BufSize - 1) :
           buffer'[i] = IF i \in offset..(offset + m - 1) THEN taken + 1 + i - offset ELSE buffer[i]
  BY TakeTypes DEF ReaderInv, ReaderTypeOK
<1>2. BufSize \in Nat \ {0} /\ expired \in BOOLEAN /\ offset \in 0..BufSize
  BY BufferType DEF ReaderInv, ReaderTypeOK
<1>3. Boundary(k) \in Nat
  BY Boundaries DEF ReaderInv
<1>4. Kept
  BY <1>1, <1>2 DEF Kept
<1>5. ASSUME NEW i \in 1..(offset + m) PROVE buffer'[i - 1] = Boundary(k) + i
  <2>1. i - 1 \in 0..(BufSize - 1) /\ i \in Nat
    BY <1>2
  <2>2. CASE i <= offset
    <3>1. buffer'[i - 1] = buffer[i - 1]
      BY <1>1, <1>2, <2>1, <2>2, SMTT(30)
    <3>2. i \in 1..offset
      BY <1>2, <2>1, <2>2
    <3> QED BY <3>1, <3>2 DEF Placed
  <2>3. CASE i > offset
    <3>1. i - 1 \in offset..(offset + m - 1)
      BY <1>2, <2>1, <2>3
    <3>2. buffer'[i - 1] = taken + 1 + (i - 1) - offset
      BY <1>1, <2>1, <3>1
    <3> QED BY <1>2, <1>3, <2>1, <3>2
  <2> QED BY <1>2, <2>1, <2>2, <2>3
<1> QED BY <1>1, <1>2, <1>3, <1>4, <1>5

LEMMA LengthAdvances ==
  ASSUME ReaderInv, NEW k, At(k), ReadLengthByte
  PROVE  Advances(k)
<1> DEFINE p == stream[k + 1]
<1> DEFINE n == RemainingLength
<1>0. /\ n.err = TooShort => GoOn("length", 1)
      /\ n.err = Success => LengthKnown(n.value)
      /\ n.err \notin {TooShort, Success} => Fail
  BY DEF ReadLengthByte, Success, TooShort
<1>1. point = "length" /\ offset + 1 <= BufSize /\ offset' = offset + 1 /\ Take(1, offset)
  BY DEF ReadLengthByte
<1> HIDE DEF n
<1>2. /\ DetectType(p).err = Success
      /\ offset \in 1..(Len(p) - 1) /\ offset <= MaxLen + 1
      /\ taken = Boundary(k) + offset
      /\ \A i \in 2..offset : More(p[i])
      /\ Placed(k, offset)
  BY <1>1 DEF At, InLength
<1>3. taken < arrived
  BY <1>1 DEF Take, ReaderInv, ReaderTypeOK
<1>4. /\ k < Len(stream) /\ k \in 0..Len(stream) /\ k + 1 \in 0..Len(stream) /\ Boundary(k) \in Nat
      /\ Boundary(k + 1) = Boundary(k) + Len(p)
      /\ p \in Seq(Bytes) /\ IsPacket(p) /\ Len(p) \in Nat \ {0}
      /\ \A i \in 1..Len(p) : Wire[Boundary(k) + i] = p[i]
  BY <1>3, NextByte DEF At
<1> HIDE DEF p
<1>5. /\ taken' = Boundary(k) + offset + 1
      /\ Kept
      /\ \A i \in 1..(offset + 1) : buffer'[i - 1] = Boundary(k) + i
  <2>1. 1 \in Nat \ {0} /\ offset' \in {offset, offset + 1}
    BY <1>1
  <2> QED BY <1>1, <1>2, <1>4, <2>1, TakeBehind
<1>6. /\ offset \in Nat \ {0} /\ MaxLen \in Nat \ {0} /\ BufSize \in Nat /\ BufSize' = BufSize
      /\ stream' = stream /\ Boundary(k)' = Boundary(k)
      /\ taken' = Boundary(k)' + offset'
      /\ offset' \in 1..Len(p) /\ offset' = offset + 1
      /\ dropOverflow' = dropOverflow
  <2>1. stream' = stream /\ BufSize' = BufSize /\ dropOverflow' = dropOverflow
    BY <1>5 DEF Kept
  <2>2. Boundary(k)' = Boundary(k) /\ BufSize \in Nat /\ MaxLen \in Nat \ {0}
    BY <2>1, SameStream, BufferType, HelpersAssumption DEF ReaderInv
  <2>3. Len(p) \in Nat \ {0} /\ offset \in 1..(Len(p) - 1)
    BY <1>2, <1>4
  <2>4. offset \in Nat \ {0} /\ offset + 1 \in 1..Len(p)
    BY <2>3
  <2> QED BY <1>1, <1>4, <1>5, <2>1, <2>2, <2>4
<1>7. Placed(k, offset)'
  BY <1>1, <1>5, <1>6 DEF Placed
<1>8. \/ /\ n.err = Success /\ ReadVarnum(p, 2).err = Success
         /\ n.value = Len(p) - offset'
      \/ /\ n.err = TooShort /\ offset <= MaxLen /\ More(p[offset + 1])
         /\ offset # Len(p) - 1
      \/ n.err = VarnumOverflow /\ ReadVarnum(p, 2).err = VarnumOverflow
  <2> DEFINE soFar == [i \in 1..offset |-> Wire[buffer'[i]]]
  <2>1. \A i \in 1..offset : soFar[i] = p[i + 1]
    <3> SUFFICES ASSUME NEW i \in 1..offset PROVE soFar[i] = p[i + 1]
      OBVIOUS
    <3>1. i + 1 \in 1..(offset + 1) /\ (i + 1) - 1 = i /\ i + 1 \in 1..Len(p)
      BY <1>2, <1>4, <1>6
    <3>2. buffer'[i] = Boundary(k) + (i + 1)
      BY <1>5, <3>1
    <3> QED BY <1>4, <3>1, <3>2
  <2>2. Len(soFar) = offset
    BY <1>6
  <2>3. n = ReadVarnum(soFar, 1)
    BY DEF RemainingLength, n
  <2> HIDE DEF soFar
  <2>4. \/ /\ n.err = Success /\ ReadVarnum(p, 2).err = Success
           /\ ReadVarnum(p, 2).value = n.value /\ ReadVarnum(p, 2).next = offset + 2
        \/ /\ n.err = TooShort /\ offset <= MaxLen /\ More(p[offset + 1])
           /\ offset = Len(p) - 1 => ReadVarnum(p, 2).err = TooShort
        \/ n.err = VarnumOverflow /\ ReadVarnum(p, 2).err = VarnumOverflow
    <3>1. offset \in 1..(Len(p) - 1) /\ offset <= MaxLen + 1 /\ \A i \in 2..offset : More(p[i])
      BY <1>2
    <3>2. p \in Seq(Bytes)
      BY <1>4
    <3> DEFINE r == ReadVarnum(soFar, 1)
    <3>3. \/ /\ r.err = Success /\ ReadVarnum(p, 2).err = Success
             /\ ReadVarnum(p, 2).value = r.value /\ ReadVarnum(p, 2).next = offset + 2
          \/ /\ r.err = TooShort /\ offset <= MaxLen /\ More(p[offset + 1])
             /\ offset = Len(p) - 1 => ReadVarnum(p, 2).err = TooShort
          \/ r.err = VarnumOverflow /\ ReadVarnum(p, 2).err = VarnumOverflow
      BY <2>1, <2>2, <3>1, <3>2, LengthSoFar
    <3> HIDE DEF r
    <3> QED BY <2>3, <3>3 DEF r
  <2>5. \/ ReadVarnum(p, 2).err = Success /\ ReadVarnum(p, 2).value = Left(p, ReadVarnum(p, 2).next)
        \/ ReadVarnum(p, 2).err = VarnumOverflow
    BY <1>2, <1>4 DEF IsPacket
  <2>6. Left(p, offset + 2) = Len(p) - offset'
    BY <1>4, <1>6 DEF Left
  <2>7. CASE n.err = Success /\ ReadVarnum(p, 2).err = Success
    BY <2>4, <2>5, <2>6, <2>7 DEF Success, TooShort, VarnumOverflow
  <2>8. CASE n.err = TooShort
    BY <2>4, <2>5, <2>8 DEF Success, TooShort, VarnumOverflow
  <2> QED BY <2>4, <2>7, <2>8
<1>9. point # "closed" /\ outcome # "failed"
  BY <1>1 DEF ReaderInv
<1>10. CASE n.err = TooShort
  <2>1. offset <= MaxLen /\ More(p[offset + 1]) /\ offset # Len(p) - 1
    BY <1>8, <1>10 DEF Success, TooShort, VarnumOverflow
  <2>2. GoOn("length", 1) /\ point' = "length"
    BY <1>0, <1>10 DEF GoOn
  <2>3. offset' \in 1..(Len(p) - 1) /\ offset' <= MaxLen + 1
    BY <1>2, <1>4, <1>6, <2>1
  <2>4. \A i \in 2..offset' : More(p[i])
    <3> SUFFICES ASSUME NEW i \in 2..offset' PROVE More(p[i])
      OBVIOUS
    <3>1. i \in 2..offset \/ i = offset + 1
      BY <1>6
    <3> QED BY <1>2, <2>1, <3>1
  <2>5. InLength(k)'
    BY <1>2, <1>4, <1>6, <1>7, <2>3, <2>4 DEF InLength, p
  <2>6. InRest(k)' /\ InDrain(k)'
    BY <2>2 DEF InRest, InDrain
  <2>7. Counted(k, taken')
    <3>1. offset' \in 0..(Len(p) - 1)
      BY <2>3
    <3> QED BY <1>4, <1>6, <3>1, CountedWithin DEF ReaderInv, p
  <2> QED BY <1>5, <1>9, <2>2, <2>5, <2>6, <2>7, GoOnAdvances
<1>11. CASE n.err = VarnumOverflow
  <2>1. Fail
    BY <1>0, <1>11 DEF Success, TooShort, VarnumOverflow
  <2>2. ~Valid(p)
    BY <1>8, <1>11 DEF Valid, Success, TooShort, VarnumOverflow
  <2> QED BY <1>3, <1>5, <1>6, <1>9, <2>1, <2>2, FailWithin DEF p
<1>12. CASE n.err = Success
  <2>1. LengthKnown(n.value)
    BY <1>0, <1>12 DEF Success, TooShort
  <2>2. Valid(p) /\ n.value = Len(p) - offset' /\ n.value \in Nat
    <3>1. Valid(p) /\ n.value = Len(p) - offset'
      BY <1>2, <1>8, <1>12 DEF Valid, Success, TooShort, VarnumOverflow
    <3>2. Len(p) - offset' \in Nat
      BY <1>4, <1>6
    <3> QED BY <3>1, <3>2
  <2>3. TooLong(n.value) <=> Len(p) > BufSize
    BY <1>4, <1>6, <2>2 DEF TooLong
  <2>4. CASE Len(p) > BufSize
    <3>1. n.value \in 1..(Len(p) - 1) /\ offset' \in 0..(Len(p) - 1)
      BY <1>1, <1>4, <1>6, <2>2, <2>4
    <3>2. CASE dropOverflow
      <4>1. GoOn("drain", n.value) /\ point' = "drain" /\ missing' = n.value
        BY <2>1, <2>3, <2>4, <3>2 DEF LengthKnown, GoOn
      <4>2. Counted(k, taken')
        BY <1>4, <1>6, <3>1, CountedWithin DEF ReaderInv, p
      <4>3. taken' + missing' = Boundary(k + 1)'
        <5>1. Boundary(k + 1)' = Boundary(k + 1)
          BY <1>6, SameStream
        <5> QED BY <1>4, <1>6, <2>2, <4>1, <5>1
      <4>4. InDrain(k)'
        BY <1>4, <1>6, <2>2, <2>4, <3>1, <3>2, <4>1, <4>3 DEF InDrain, p
      <4>5. InLength(k)' /\ InRest(k)'
        BY <4>1 DEF InLength, InRest
      <4> QED BY <1>5, <1>9, <2>2, <4>1, <4>2, <4>4, <4>5, GoOnAdvances
    <3>3. CASE ~dropOverflow
      <4>1. Fail
        BY <2>1, <2>3, <2>4, <3>3 DEF LengthKnown
      <4>2. offset' # Len(p)
        BY <1>4, <3>1
      <4> QED BY <1>3, <1>5, <1>6, <1>9, <4>1, <4>2, FailWithin DEF p
    <3> QED BY <3>2, <3>3
  <2>5. CASE ~(Len(p) > BufSize) /\ n.value > 0
    <3>1. GoOn("rest", n.value) /\ point' = "rest" /\ missing' = n.value
      BY <2>1, <2>3, <2>5 DEF LengthKnown, GoOn
    <3>2. offset' \in 0..(Len(p) - 1) /\ offset' + n.value = Len(p) /\ Len(p) <= BufSize
      BY <1>4, <1>6, <2>2, <2>5
    <3>3. Counted(k, taken')
      BY <1>4, <1>6, <3>2, CountedWithin DEF ReaderInv, p
    <3>4. InRest(k)'
      <4>1. offset' > 0 /\ missing' > 0 /\ offset' + missing' = Len(p)
            /\ offset' + missing' <= BufSize'
        BY <1>6, <2>5, <3>1, <3>2
      <4> QED BY <1>4, <1>6, <1>7, <2>2, <4>1 DEF InRest, p
    <3>5. InLength(k)' /\ InDrain(k)'
      BY <3>1 DEF InLength, InDrain
    <3> QED BY <1>5, <1>9, <2>2, <3>1, <3>3, <3>4, <3>5, GoOnAdvances
  <2>6. CASE ~(Len(p) > BufSize) /\ ~(n.value > 0)
    <3>1. Done("packet") /\ outcome' = "packet"
      BY <2>1, <2>3, <2>6 DEF LengthKnown, Done
    <3>2. offset' = Len(p) /\ Len(p) <= BufSize
      BY <1>4, <1>6, <2>2, <2>6
    <3>3. taken' = Boundary(k + 1)
      BY <1>4, <1>6, <3>2
    <3>4. Placed((k + 1) - 1, Len(stream[k + 1]))'
      <4>1. (k + 1) - 1 = k
        BY <1>4
      <4> QED BY <1>6, <1>7, <3>2, <4>1 DEF p
    <3>5. Progress(k, k + 1)
      BY <1>4, <1>9, <2>2, <3>1, <3>2 DEF Progress, p
    <3>6. k + 1 > 0
      BY <1>4
    <3>7. Fits(k + 1)
      BY <1>4, <1>9, <2>2, <3>1, <3>2 DEF Fits, p
    <3> QED BY <1>4, <1>5, <1>9, <3>1, <3>3, <3>4, <3>5, <3>6, <3>7, DoneAdvances
  <2> QED BY <2>4, <2>5, <2>6
<1> QED BY <1>8, <1>10, <1>11, <1>12

LEMMA RestAdvances ==
  ASSUME ReaderInv, NEW k, At(k), NEW m \in 1..(arrived - taken), ReadRest(m)
  PROVE  Advances(k)
<1> DEFINE p == stream[k + 1]
<1>1. /\ point = "rest" /\ m <= missing /\ Take(m, offset) /\ offset' = offset + m
      /\ IF m = missing THEN Done("packet") ELSE GoOn("rest", missing - m)
  BY DEF ReadRest, Advance
<1>2. /\ k < Len(stream) /\ k \in 0..Len(stream) /\ Valid(p)
      /\ offset > 0 /\ missing > 0
      /\ offset + missing = Len(p) /\ offset + missing <= BufSize
      /\ taken = Boundary(k) + offset
      /\ Placed(k, offset)
  BY <1>1 DEF At, InRest
<1>3. taken < arrived /\ m \in Nat \ {0} /\ offset \in Nat /\ missing \in Nat /\ BufSize \in Nat
  BY BufferType DEF ReaderInv, ReaderTypeOK
<1>4. /\ k + 1 \in 0..Len(stream) /\ Boundary(k) \in Nat /\ Len(p) \in Nat
      /\ Boundary(k + 1) = Boundary(k) + Len(p)
  BY <1>3, NextByte
<1> HIDE DEF p
<1>5. /\ taken' = Boundary(k) + offset + m
      /\ Kept
      /\ \A i \in 1..(offset + m) : buffer'[i - 1] = Boundary(k) + i
  <2>1. offset + m <= BufSize
    BY <1>1, <1>2, <1>3
  <2> QED BY <1>1, <1>2, <1>3, <2>1, TakeBehind
<1>6. /\ stream' = stream /\ BufSize' = BufSize
      /\ Boundary(k)' = Boundary(k)
  BY <1>5, SameStream DEF Kept
<1>7. taken' = Boundary(k)' + offset' /\ offset' \in Nat
  BY <1>1, <1>3, <1>4, <1>5, <1>6
<1>8. Placed(k, offset)'
  BY <1>1, <1>5, <1>6 DEF Placed
<1>9. point # "closed" /\ outcome # "failed"
  BY <1>1 DEF ReaderInv
<1>10. CASE m = missing
  <2>1. Done("packet") /\ outcome' = "packet"
    BY <1>1, <1>10 DEF Done
  <2>2. taken' = Boundary(k + 1) /\ offset' = Len(p) /\ Len(p) <= BufSize
    <3>1. offset' = Len(p) /\ Len(p) <= BufSize
      BY <1>1, <1>2, <1>10
    <3>2. taken' = Boundary(k) + Len(p)
      <4>1. \A a, b, c \in Nat : a + b + c = a + (b + c)
        OBVIOUS
      <4>2. taken' = Boundary(k) + (offset + m)
        BY <1>3, <1>4, <1>5, <4>1
      <4> QED BY <1>2, <1>10, <4>2
    <3> QED BY <1>4, <3>1, <3>2
  <2>3. Placed((k + 1) - 1, Len(stream[k + 1]))'
    <3>1. (k + 1) - 1 = k
      BY <1>2
    <3> QED BY <1>6, <1>8, <2>2, <3>1 DEF p
  <2>4. Progress(k, k + 1)
    BY <1>2, <1>9, <2>1, <2>2 DEF Progress, p
  <2>5. k + 1 > 0
    BY <1>2
  <2>6. Fits(k + 1)
    BY <1>2, <2>2 DEF Fits, p
  <2> QED BY <1>4, <1>5, <1>9, <2>1, <2>2, <2>3, <2>4, <2>5, <2>6, DoneAdvances
<1>11. CASE m # missing
  <2>1. GoOn("rest", missing - m) /\ point' = "rest" /\ missing' = missing - m
    BY <1>1, <1>11 DEF GoOn
  <2>2. missing - m \in Nat /\ missing - m > 0
    BY <1>1, <1>3, <1>11
  <2>3. /\ offset' > 0 /\ offset' + missing' = Len(p) /\ offset' + missing' <= BufSize'
        /\ offset' \in 0..(Len(p) - 1)
    BY <1>1, <1>2, <1>3, <1>4, <1>6, <2>1, <2>2
  <2>4. InRest(k)'
    BY <1>2, <1>6, <1>7, <1>8, <2>1, <2>2, <2>3 DEF InRest, p
  <2>5. InLength(k)' /\ InDrain(k)'
    BY <2>1 DEF InLength, InDrain
  <2>6. Counted(k, taken')
    BY <1>2, <1>6, <1>7, <2>3, CountedWithin DEF ReaderInv, p
  <2> QED BY <1>5, <1>9, <2>1, <2>2, <2>4, <2>5, <2>6, GoOnAdvances
<1> QED BY <1>10, <1>11

LEMMA DrainAdvances ==
  ASSUME ReaderInv, NEW k, At(k), NEW m \in 1..(arrived - taken), Drain(m)
  PROVE  Advances(k)
<1> DEFINE p == stream[k + 1]
<1>1. /\ point = "drain" /\ m <= missing /\ Take(m, 0) /\ offset' = offset
      /\ IF m = missing THEN Done("dropped") ELSE GoOn("drain", missing - m)
  BY DEF Drain
<1>2. /\ k < Len(stream) /\ k \in 0..Len(stream) /\ Valid(p)
      /\ dropOverflow /\ Len(p) > BufSize
      /\ missing \in 1..(Len(p) - 1)
      /\ taken + missing = Boundary(k + 1)
  BY <1>1 DEF At, InDrain
<1>3. /\ taken < arrived /\ m \in Nat \ {0} /\ missing \in Nat /\ taken \in Nat
      /\ offset \in 0..BufSize /\ expired \in BOOLEAN
  BY Boundaries DEF ReaderInv, ReaderTypeOK
<1>4. /\ k + 1 \in 0..Len(stream) /\ Boundary(k) \in Nat /\ Len(p) \in Nat
      /\ Boundary(k + 1) = Boundary(k) + Len(p)
  BY <1>3, NextByte
<1> HIDE DEF p
<1>5. taken' = taken + m /\ Kept /\ dropOverflow' = dropOverflow
  <2>1. /\ UNCHANGED <<dropOverflow, stream, arrived, linked, expired, Wire, BufSize>>
        /\ taken' = taken + m /\ taken' \in 0..arrived'
        /\ buffer' \in [0..(BufSize - 1) -> 0..Len(Wire)]
    BY <1>1, <1>3, TakeTypes DEF ReaderInv
  <2> QED BY <1>1, <1>3, <2>1 DEF Kept
<1>6. /\ stream' = stream /\ BufSize' = BufSize
      /\ Boundary(k + 1)' = Boundary(k + 1)
  BY <1>5, SameStream DEF Kept
<1>7. point # "closed" /\ outcome # "failed"
  BY <1>1 DEF ReaderInv
<1>8. CASE m = missing
  <2>1. Done("dropped") /\ outcome' = "dropped"
    BY <1>1, <1>8 DEF Done
  <2>2. taken' = Boundary(k + 1)
    BY <1>2, <1>5, <1>8
  <2>3. Progress(k, k + 1)
    BY <1>2, <1>7, <2>1 DEF Progress, p
  <2> QED BY <1>4, <1>5, <1>7, <2>1, <2>2, <2>3, DoneAdvances
<1>9. CASE m # missing
  <2>1. GoOn("drain", missing - m) /\ point' = "drain" /\ missing' = missing - m
    BY <1>1, <1>9 DEF GoOn
  <2>2. /\ missing' \in 1..(Len(p) - 1) /\ missing - m \in Nat
        /\ taken' + missing' = Boundary(k + 1)
    BY <1>1, <1>2, <1>3, <1>4, <1>5, <1>9, <2>1
  <2>3. InDrain(k)'
    BY <1>2, <1>5, <1>6, <2>2 DEF InDrain, p
  <2>4. InLength(k)' /\ InRest(k)'
    BY <2>1 DEF InLength, InRest
  <2>5. Counted(k, taken')
    <3>1. Boundary(k) + (Len(p) - missing') = taken' /\ Len(p) - missing' \in 0..(Len(p) - 1)
      BY <1>3, <1>4, <1>5, <2>2, SMTT(30)
    <3> QED BY <1>2, <3>1, CountedWithin DEF ReaderInv, p
  <2> QED BY <1>5, <1>7, <2>1, <2>2, <2>3, <2>4, <2>5, GoOnAdvances
<1> QED BY <1>8, <1>9

\* A failure that takes nothing from the socket.
LEMMA FailHereAdvances ==
  ASSUME ReaderInv, NEW k, At(k), point # "closed", Fail,
         UNCHANGED <<wireVars, taken, buffer, offset>>, expired' \in BOOLEAN
  PROVE  Advances(k)
<1>1. k \in 0..Len(stream) /\ Counted(k, taken')
  BY DEF At
<1> QED BY <1>1, NothingTaken, FailAdvances

LEMMA NoByteAdvances ==
  ASSUME ReaderInv, NEW k, At(k), LengthFindsNoRoom \/ TimeOut \/ ReadFails
  PROVE  Advances(k)
<1>1. /\ UNCHANGED <<wireVars, taken, buffer, offset>> /\ expired' = expired
      /\ point \notin {"idle", "closed"}
      /\ Fail \/ (point = "header" /\ Done("nothing"))
  BY DEF LengthFindsNoRoom, TimeOut, ReadFails, OnTimeout, Timed
<1>2. expired' \in BOOLEAN
  BY <1>1 DEF ReaderInv, ReaderTypeOK
<1>3. CASE Fail
  BY <1>1, <1>2, <1>3, FailHereAdvances
<1>4. CASE point = "header" /\ Done("nothing")
  <2>1. k \in 0..Len(stream) /\ taken' = Boundary(k)
    BY <1>1, <1>4 DEF At, Between
  <2>2. Progress(k, k)
    BY <1>4 DEF Progress, Done, ReaderInv
  <2>3. Kept
    BY <1>1, <1>2, NothingTaken
  <2> QED BY <1>4, <2>1, <2>2, <2>3, DoneAdvances
<1> QED BY <1>1, <1>3, <1>4

\* The timer, the network and a step that changes nothing.
LEMMA OutsideAdvances ==
  ASSUME ReaderInv, NEW k, At(k), Expire \/ BytesArrive \/ LinkEnds \/ UNCHANGED vars
  PROVE  Advances(k)
<1>1. UNCHANGED <<dropOverflow, stream, taken, readerVars>>
  BY DEF Expire, BytesArrive, LinkEnds, vars, wireVars
<1>2. /\ UNCHANGED <<point, buffer, offset, missing, outcome, Wire, BufSize>>
      /\ \A n : Boundary(n)' = Boundary(n)
  BY <1>1, SameStream DEF readerVars, BufSize
<1>3. At(k)'
  <2>1. \A n : Placed(k, n)' <=> Placed(k, n)
    BY <1>2 DEF Placed
  <2>2. \A n : Placed(k - 1, n)' <=> Placed(k - 1, n)
    BY <1>2 DEF Placed
  <2>3. Counted(k, taken)' /\ Between(k)'
    <3>1. Fits(k)' <=> Fits(k)
      BY <1>1, <1>2 DEF Fits, Valid
    <3> QED BY <1>1, <1>2, <2>2, <3>1 DEF At, Counted, Between
  <2>4. InLength(k)'
    BY <1>1, <1>2, <2>1 DEF At, InLength
  <2>5. InRest(k)' /\ InDrain(k)'
    BY <1>1, <1>2, <2>1 DEF At, InRest, InDrain
  <2> QED BY <1>1, <2>3, <2>4, <2>5 DEF At
<1>4. taken' \in 0..arrived' /\ arrived' \in 0..Len(Wire)
  <2>1. arrived \in 0..Len(Wire) /\ taken \in 0..arrived /\ Len(Wire) \in Nat
    BY Boundaries DEF ReaderInv, ReaderTypeOK
  <2>2. arrived' = arrived \/ \E n \in 1..(Len(Wire) - arrived) : arrived' = arrived + n
    BY DEF Expire, BytesArrive, LinkEnds, vars, wireVars
  <2> QED BY <1>1, <2>1, <2>2
<1>5. {linked', expired'} \subseteq BOOLEAN
  BY DEF Expire, BytesArrive, LinkEnds, vars, wireVars, ReaderInv, ReaderTypeOK
<1>6. ReaderInv'
  BY <1>1, <1>2, <1>4, <1>5 DEF ReaderInv, ReaderTypeOK
<1>7. Progress(k, k)
  BY <1>2 DEF Progress
<1> QED BY <1>1, <1>2, <1>3, <1>6, <1>7 DEF Advances

LEMMA StepAdvances ==
  ASSUME ReaderInv, NEW k, At(k), [Next]_vars
  PROVE  Advances(k)
<1>1. CASE Call
  BY <1>1, CallAdvances
<1>2. CASE Read
  <2>1. CASE ReadHeader
    BY <2>1, HeaderAdvances
  <2>2. CASE ReadLengthByte
    BY <2>2, LengthAdvances
  <2>3. ASSUME NEW m \in 1..(arrived - taken), ReadRest(m) PROVE Advances(k)
    BY <2>3, RestAdvances
  <2>4. ASSUME NEW m \in 1..(arrived - taken), Drain(m) PROVE Advances(k)
    BY <2>4, DrainAdvances
  <2>5. CASE LengthFindsNoRoom \/ TimeOut \/ ReadFails
    BY <2>5, NoByteAdvances
  <2> QED BY <1>2, <2>1, <2>2, <2>3, <2>4, <2>5 DEF Read
<1>3. CASE Expire \/ BytesArrive \/ LinkEnds \/ UNCHANGED vars
  BY <1>3, OutsideAdvances
<1> QED BY <1>1, <1>2, <1>3 DEF Next

-----------------------------------------------------------------------------
(* The theorems                                                            *)

PositionInv == ReaderInv /\ \E k \in 0..Len(stream) : At(k)

LEMMA PositionInit == Init => PositionInv
<1> SUFFICES ASSUME Init PROVE PositionInv
  OBVIOUS
<1>1. stream \in Seq(Packets)
  BY ReaderAssumption DEF Init, Packets
<1>2. PICK size \in BufSizes : buffer = [i \in 0..(size - 1) |-> 0]
  BY DEF Init
<1>3. size \in Nat \ {0} /\ BufSize = size
  BY <1>2, BufferSize, ReaderAssumption
<1>4. Len(Wire) \in Nat /\ Boundary(0) = 0 /\ 0 \in 0..Len(stream)
  BY <1>1, Boundaries
<1>5. ReaderTypeOK
  <2>1. buffer \in [0..(size - 1) -> 0..Len(Wire)]
    BY <1>2, <1>4
  <2>2. {linked, expired} \subseteq BOOLEAN
    BY DEF Init
  <2>3. arrived \in 0..Len(Wire) /\ taken \in 0..arrived /\ offset \in 0..BufSize /\ missing \in Nat
    BY <1>3, <1>4 DEF Init
  <2>4. point = "idle" /\ outcome = "none"
    BY DEF Init
  <2> QED BY <2>1, <2>2, <2>3, <2>4 DEF ReaderTypeOK
<1>6. At(0)
  <2>1. Counted(0, taken)
    BY <1>1, <1>4, CountedAtBoundary DEF Init
  <2> QED BY <1>4, <2>1 DEF Init, At, Between, InLength, InRest, InDrain
<1> QED BY <1>1, <1>4, <1>5, <1>6 DEF Init, PositionInv, ReaderInv

LEMMA PositionStep == PositionInv /\ [Next]_vars => PositionInv'
<1> SUFFICES ASSUME PositionInv, [Next]_vars PROVE PositionInv'
  OBVIOUS
<1>1. PICK k \in 0..Len(stream) : At(k)
  BY DEF PositionInv
<1>2. ReaderInv' /\ \E j \in {k, k + 1} : At(j)'
  BY <1>1, StepAdvances DEF PositionInv, Advances
<1> QED BY <1>2 DEF PositionInv, At

\* The invariant: the reader stands at a place in the stream that its point,
\* its buffer and its counters tell.
THEOREM PositionAlways == Spec => []PositionInv
BY PositionInit, PositionStep, PTL DEF Spec

\* Cardinality counts what At says.
LEMMA CountTaken ==
  ASSUME ReaderInv, NEW k, At(k)
  PROVE  Cardinality(TakenWhole) = k
BY CountWhole DEF ReaderInv, ReaderTypeOK, At, Counted, TakenWhole

\* The variables of the reader keep their types: no byte is taken before it
\* has arrived, and nothing is written outside of the buffer.
THEOREM ReaderTypeCorrect == Spec => []ReaderTypeOK
<1>1. PositionInv => ReaderTypeOK
  BY DEF PositionInv, ReaderInv
<1> QED BY <1>1, PositionAlways, PTL

\* Whatever the portions, timeouts and oversized packets were, a reader that
\* is called again starts with the first byte of a packet.
THEOREM AlwaysInStep == Spec => []InStep
<1>1. PositionInv => InStep
  BY CountTaken DEF PositionInv, InStep, At, Between
<1> QED BY <1>1, PositionAlways, PTL

\* By its length, a packet that can be read ends where its bytes do.
LEMMA TerminatorBehind ==
  ASSUME NEW p \in Packets, Valid(p)
  PROVE  Terminator(p) = Len(p)
<1> DEFINE n == ReadVarnum(p, 2)
<1>1. p \in Seq(Bytes) /\ n.err = Success /\ n.value = Left(p, n.next)
  BY DEF Packets, IsPacket, Valid, VarnumOverflow, Success
<1>2. Len(p) \in Nat /\ n.next \in Nat
  BY <1>1, VarnumTypes
<1> HIDE DEF n
<1>3. n.next - 1 + n.value = Len(p)
  BY <1>1, <1>2 DEF Left
<1> QED BY <1>3 DEF Terminator, n

\* The rest of a packet that is being read fits into the buffer, and behind a
\* packet that was read there is a byte for the terminator.
THEOREM AlwaysInsideBuffer == Spec => []InsideBuffer
<1>1. ASSUME PositionInv, point = "idle", outcome = "packet"
      PROVE  Terminator(stream[Cardinality(TakenWhole)]) < Allocated
  <2>1. PICK k \in 0..Len(stream) : At(k)
    BY <1>1 DEF PositionInv
  <2>2. Cardinality(TakenWhole) = k /\ k > 0 /\ Fits(k) /\ stream \in Seq(Packets)
    BY <1>1, <2>1, CountTaken DEF PositionInv, ReaderInv, At, Between
  <2>3. stream[k] \in Packets /\ BufSize \in Nat
    BY <1>1, <2>2, BufferType DEF PositionInv, ReaderInv
  <2>4. Terminator(stream[k]) = Len(stream[k]) /\ Len(stream[k]) \in Nat
    BY <2>2, <2>3, TerminatorBehind DEF Fits, Packets
  <2> QED BY <2>2, <2>3, <2>4 DEF Fits, Allocated
<1>2. PositionInv => InsideBuffer
  BY <1>1 DEF PositionInv, InsideBuffer, At, InRest
<1> QED BY <1>2, PositionAlways, PTL

\* A packet that is reported lies in the buffer, every byte in its place.
THEOREM AlwaysHoldsPacket == Spec => []BufferHoldsPacket
<1>1. ASSUME PositionInv, point = "idle", outcome = "packet"
      PROVE  LET n == Cardinality(TakenWhole) IN
               \A i \in 1..Len(stream[n]) : buffer[i - 1] = Boundary(n - 1) + i
  <2>1. PICK k \in 0..Len(stream) : At(k)
    BY <1>1 DEF PositionInv
  <2>2. Cardinality(TakenWhole) = k
    BY <1>1, <2>1, CountTaken DEF PositionInv
  <2>3. Placed(k - 1, Len(stream[k]))
    BY <1>1, <2>1 DEF At, Between
  <2> QED BY <2>2, <2>3 DEF Placed
<1>2. PositionInv => BufferHoldsPacket
  BY <1>1 DEF BufferHoldsPacket
<1> QED BY <1>2, PositionAlways, PTL

-----------------------------------------------------------------------------
(* The refinement                                                          *)

LEMMA ChannelStarts == Init => Channel!ChannelInit
<1> SUFFICES ASSUME Init PROVE Channel!ChannelInit
  OBVIOUS
<1>1. stream \in Seq(Packets) /\ taken = 0 /\ outcome = "none"
  BY ReaderAssumption DEF Init, Packets
<1>2. Counted(0, 0) /\ 0 \in 0..Len(stream)
  BY <1>1, Boundaries, CountedAtBoundary
<1>3. Cardinality(TakenWhole) = 0
  BY <1>1, <1>2, CountWhole DEF Counted, TakenWhole
<1> QED BY <1>1, <1>3 DEF Channel!ChannelInit

LEMMA ChannelStep ==
  PositionInv /\ [Next]_vars => [Channel!ChannelNext]_(Channel!channelVars)
<1> SUFFICES ASSUME PositionInv, [Next]_vars
             PROVE  [Channel!ChannelNext]_(Channel!channelVars)
  OBVIOUS
<1>1. PICK k \in 0..Len(stream) : At(k)
  BY DEF PositionInv
<1>2. Advances(k)
  BY <1>1, StepAdvances DEF PositionInv
<1>3. PICK j \in {k, k + 1} : At(j)' /\ Progress(k, j)
  BY <1>2 DEF Advances
<1>4. /\ ReaderInv' /\ stream' = stream /\ dropOverflow' = dropOverflow /\ BufSize' = BufSize
      /\ stream \in Seq(Packets)
  BY <1>2 DEF Advances, PositionInv, ReaderInv
<1> DEFINE count == Cardinality(TakenWhole)
<1> DEFINE packets == [i \in DOMAIN stream |-> [size |-> Len(stream[i]), valid |-> Valid(stream[i])]]
<1>5. count = k
  BY <1>1, CountTaken DEF PositionInv
<1>6. count' = j
  <2>1. \A n : Boundary(n)' = Boundary(n)
    BY <1>4, SameStream
  <2>2. TakenWhole' = {n \in DOMAIN stream : Boundary(n) <= taken'}
    BY <1>4, <2>1 DEF TakenWhole
  <2>3. /\ j \in 0..Len(stream) /\ taken' \in Int
        /\ Boundary(j) <= taken' /\ (j < Len(stream) => taken' < Boundary(j + 1))
    BY <1>3, <1>4, <2>1 DEF At, Counted, ReaderInv, ReaderTypeOK
  <2> QED BY <1>4, <2>2, <2>3, CountWhole
<1>7. packets' = packets
  BY <1>4 DEF Valid
<1>8. /\ Len(packets) = Len(stream)
      /\ k < Len(stream) => /\ packets[k + 1].size = Len(stream[k + 1])
                            /\ packets[k + 1].valid = Valid(stream[k + 1])
  <2>1. Len(stream) \in Nat /\ DOMAIN stream = 1..Len(stream)
    BY <1>4
  <2> QED BY <2>1
<1> HIDE DEF packets, count
<1>9. CASE j = k /\ UNCHANGED outcome
  BY <1>4, <1>5, <1>6, <1>7, <1>9 DEF packets, count, Channel!channelVars, Channel!options
<1>10. CASE /\ j = k + 1 /\ k < Len(stream) /\ Valid(stream[k + 1]) /\ outcome # "failed"
            /\ outcome' = "packet" /\ Len(stream[k + 1]) <= BufSize
  <2>1. ~(Len(stream[k + 1]) > BufSize)
    BY <1>10, BufferType DEF PositionInv, ReaderInv
  <2>2. Channel!Deliver
    BY <1>4, <1>5, <1>6, <1>7, <1>8, <1>10, <2>1
    DEF packets, count, Channel!options, Channel!Deliver, Channel!TakeNext, Channel!Oversized
  <2> QED BY <2>2 DEF Channel!ChannelNext
<1>11. CASE /\ j = k + 1 /\ k < Len(stream) /\ Valid(stream[k + 1]) /\ outcome # "failed"
            /\ outcome' = "dropped" /\ dropOverflow /\ Len(stream[k + 1]) > BufSize
  <2>1. Channel!Drop
    BY <1>4, <1>5, <1>6, <1>7, <1>8, <1>11
    DEF packets, count, Channel!options, Channel!Drop, Channel!TakeNext, Channel!Oversized
  <2> QED BY <2>1 DEF Channel!ChannelNext
<1>12. CASE j = k /\ outcome # "failed" /\ outcome' \in {"nothing", "failed"}
  BY <1>4, <1>5, <1>6, <1>7, <1>12
  DEF packets, count, Channel!ChannelNext, Channel!options, Channel!TakeNothing, Channel!Fail
<1>13. CASE /\ j = k + 1 /\ k < Len(stream) /\ ~Valid(stream[k + 1]) /\ outcome # "failed"
            /\ outcome' = "failed"
  <2>1. Channel!Fail
    BY <1>4, <1>5, <1>6, <1>7, <1>8, <1>13 DEF packets, count, Channel!options, Channel!Fail
  <2> QED BY <2>1 DEF Channel!ChannelNext
<1> QED
  BY <1>3, <1>9, <1>10, <1>11, <1>12, <1>13 DEF Progress

\* What the rest of the client counts on: each call takes the next packet
\* whole, drops it whole, takes nothing, or is the last.
THEOREM ChannelImplemented == Spec => ImplementsChannel
<1>1. Init => Channel!ChannelInit
  BY ChannelStarts
<1>2. PositionInv /\ [Next]_vars => [Channel!ChannelNext]_(Channel!channelVars)
  BY ChannelStep
<1> QED
  BY <1>1, <1>2, PositionAlways, PTL DEF Spec, ImplementsChannel, Channel!ChannelSpec

=============================================================================
