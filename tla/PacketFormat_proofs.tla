------------------------ MODULE PacketFormat_proofs ------------------------
(***************************************************************************)
(* What the operators of PacketHelpers and PacketFormat compute, for every *)
(* base and all bytes: the lemmas that the proofs about the reader and     *)
(* about the codec share.                                                  *)
(***************************************************************************)
EXTENDS PacketFormat, SequenceTheorems, FiniteSetTheorems, WellFoundedInduction, TLAPS

-----------------------------------------------------------------------------
(* Induction for a set of natural numbers, by the well-foundedness of      *)
(* inclusion between the intervals 1..n, and recursion.                    *)

LEMMA Induction ==
  ASSUME NEW S \in SUBSET Nat, 0 \in S, \A n \in S : n + 1 \in S
  PROVE  S = Nat
<1> SUFFICES ASSUME Nat \ S # {} PROVE FALSE
  OBVIOUS
<1> DEFINE Upto == {1..n : n \in Nat \ S}
<1>1. Upto # {}
  OBVIOUS
<1>2. ASSUME NEW n \in Nat PROVE 1..n \in FiniteSubsetsOf(Nat)
  <2>1. n \in Int /\ 1..n \subseteq Nat
    OBVIOUS
  <2> QED
    BY <2>1, FS_Interval DEF FiniteSubsetsOf
<1>3. Upto \subseteq FiniteSubsetsOf(Nat)
  BY <1>2
<1>4. PICK U \in Upto : \A V \in Upto : ~(<<V, U>> \in StrictSubsetOrdering(Nat))
  BY <1>1, <1>3, FS_StrictSubsetOrderingWellFounded, WFMin
<1>5. PICK least \in Nat \ S : U = 1..least
  BY <1>4
<1>6. least # 0 /\ least - 1 \in Nat /\ least - 1 \notin S
  <2>1. least # 0
    OBVIOUS
  <2>2. least - 1 \in Nat /\ (least - 1) + 1 = least
    BY <2>1
  <2> QED
    BY <2>1, <2>2
<1>7. 1..(least - 1) \subseteq 1..least /\ 1..(least - 1) # 1..least
  BY <1>6
<1>8. <<1..(least - 1), 1..least>> \in StrictSubsetOrdering(Nat)
  BY <1>7 DEF StrictSubsetOrdering
<1> QED
  BY <1>4, <1>5, <1>6, <1>8

\* The same up to a bound.
LEMMA InductionUpTo ==
  ASSUME NEW m \in Nat, NEW S, 0 \in S, \A n \in 0..(m - 1) : n \in S => n + 1 \in S
  PROVE  \A n \in 0..m : n \in S
<1> DEFINE T == {n \in Nat : n <= m => n \in S}
<1>1. 0 \in T
  OBVIOUS
<1>2. \A n \in T : n + 1 \in T
  OBVIOUS
<1>3. T \in SUBSET Nat
  OBVIOUS
<1> HIDE DEF T
<1>4. T = Nat
  BY <1>1, <1>2, <1>3, Induction
<1>5. \A n \in 0..m : n \in T /\ n <= m
  BY <1>4
<1> QED BY <1>5 DEF T

\* f begins with base and goes on by the m steps.
Follows(f, m, V, base, step) ==
  f[0] = base /\ \A n \in 1..m : f[n - 1] \in V => f[n] = step[n][f[n - 1]]

LEMMA Recursion ==
  ASSUME NEW m \in Nat, NEW V, NEW base \in V, NEW step \in [1..m -> [V -> V]]
  PROVE  /\ \E f \in [0..m -> V] : Follows(f, m, V, base, step)
         /\ \A f : Follows(f, m, V, base, step) => \A n \in 0..m : f[n] \in V
<1> DEFINE S == {n \in 0..m : \E f \in [0..n -> V] : Follows(f, n, V, base, step)}
<1>1. 0 \in S
  <2>1. [n \in 0..0 |-> base] \in [0..0 -> V] /\ Follows([n \in 0..0 |-> base], 0, V, base, step)
    BY DEF Follows
  <2> QED BY <2>1
<1>2. ASSUME NEW n \in 0..(m - 1), n \in S PROVE n + 1 \in S
  <2>1. PICK f \in [0..n -> V] : Follows(f, n, V, base, step)
    BY <1>2
  <2> DEFINE g == [i \in 0..(n + 1) |-> IF i = n + 1 THEN step[n + 1][f[n]] ELSE f[i]]
  <2>2. n + 1 \in 1..m /\ f[n] \in V /\ n \in 0..(n + 1) /\ n # n + 1
    OBVIOUS
  <2>3. step[n + 1][f[n]] \in V
    BY <2>2
  <2>4. g \in [0..(n + 1) -> V]
    <3>1. \A i \in 0..(n + 1) : i = n + 1 \/ i \in 0..n
      OBVIOUS
    <3> QED BY <2>3, <3>1
  <2>5. g[0] = base
    BY <2>1 DEF Follows
  <2>6. ASSUME NEW i \in 1..(n + 1) PROVE g[i] = step[i][g[i - 1]]
    <3>1. CASE i = n + 1
      <4>1. i - 1 = n /\ g[n] = f[n] /\ g[n + 1] = step[n + 1][f[n]]
        BY <2>2, <3>1
      <4> QED BY <3>1, <4>1
    <3>2. CASE i # n + 1
      <4>1. i \in 1..n /\ i - 1 \in 0..n /\ i - 1 # n + 1
        BY <3>2
      <4>2. g[i] = f[i] /\ g[i - 1] = f[i - 1] /\ f[i - 1] \in V
        BY <3>2, <4>1
      <4> QED BY <2>1, <4>1, <4>2 DEF Follows
    <3> QED BY <3>1, <3>2
  <2>7. Follows(g, n + 1, V, base, step)
    BY <2>5, <2>6 DEF Follows
  <2>8. \E h \in [0..(n + 1) -> V] : Follows(h, n + 1, V, base, step)
    BY <2>4, <2>7
  <2> QED BY <2>8
<1>3. m \in S
  <2> HIDE DEF S
  <2>1. m \in 0..m
    OBVIOUS
  <2> QED BY <1>1, <1>2, <2>1, InductionUpTo
<1>4. ASSUME NEW f, Follows(f, m, V, base, step) PROVE \A n \in 0..m : f[n] \in V
  <2> DEFINE T == {n \in 0..m : f[n] \in V}
  <2>1. 0 \in T
    BY <1>4 DEF Follows
  <2>2. ASSUME NEW n \in 0..(m - 1), n \in T PROVE n + 1 \in T
    <3>1. n + 1 \in 1..m /\ (n + 1) - 1 = n /\ f[n] \in V
      BY <2>2
    <3>2. f[n + 1] = step[n + 1][f[n]]
      BY <1>4, <3>1 DEF Follows
    <3> QED BY <3>1, <3>2
  <2>3. \A n \in 0..m : n \in T
    <3> HIDE DEF T
    <3> QED BY <2>1, <2>2, InductionUpTo
  <2> QED BY <2>3
<1> QED BY <1>3, <1>4

-----------------------------------------------------------------------------
(* FlattenSeq                                                              *)

\* Any function that joins the sequences one by one ends with FlattenSeq.
LEMMA FlattenIs ==
  ASSUME NEW B, NEW s \in Seq(Seq(B)), NEW g, g[0] = <<>>,
         \A n \in 1..Len(s) : g[n] = g[n - 1] \o s[n]
  PROVE  /\ FlattenSeq(s) = g[Len(s)]
         /\ \A n \in 0..Len(s) : g[n] \in Seq(B)
<1>0. Len(s) \in Nat
  OBVIOUS
<1>1. <<>> \in Seq(B) /\ \A n \in 1..Len(s) : s[n] \in Seq(B)
  OBVIOUS
<1>2. \A n \in 0..Len(s) : g[n] \in Seq(B)
  <2> DEFINE T == {n \in 0..Len(s) : g[n] \in Seq(B)}
  <2>1. 0 \in T
    <3>1. 0 \in 0..Len(s)
      BY <1>0
    <3> QED BY <1>1, <3>1
  <2>2. ASSUME NEW n \in 0..(Len(s) - 1), n \in T PROVE n + 1 \in T
    <3>1. n + 1 \in 1..Len(s) /\ (n + 1) - 1 = n /\ g[n] \in Seq(B)
      BY <1>0, <2>2
    <3>2. g[n + 1] = g[n] \o s[n + 1] /\ s[n + 1] \in Seq(B)
      BY <1>1, <3>1
    <3>3. g[n + 1] \in Seq(B)
      BY <3>1, <3>2, ConcatProperties
    <3> QED BY <3>1, <3>3
  <2>3. \A n \in 0..Len(s) : n \in T
    <3> HIDE DEF T
    <3> QED BY <1>0, <2>1, <2>2, InductionUpTo
  <2> QED BY <2>3
<1>3. CASE Len(s) = 0
  <2>1. s = <<>>
    BY <1>3
  <2> QED BY <1>2, <1>3, <2>1 DEF FlattenSeq
<1>4. CASE Len(s) # 0
  <2> DEFINE Eq(f) == f = [i \in 1..Len(s) |-> IF i = 1 THEN s[i] ELSE f[i - 1] \o s[i]]
  <2> DEFINE flatten == CHOOSE f : Eq(f)
  <2> DEFINE h == [i \in 1..Len(s) |-> g[i]]
  <2>1. ASSUME NEW i \in 1..Len(s) PROVE h[i] = IF i = 1 THEN s[i] ELSE h[i - 1] \o s[i]
    <3>1. CASE i = 1
      <4>1. g[i] = g[i - 1] \o s[i]
        OBVIOUS
      <4>2. i - 1 = 0
        BY <3>1
      <4>3. g[i] = g[0] \o s[i]
        BY <4>1, <4>2, Zenon
      <4>4. s[1] \in Seq(B)
        BY <1>1, <3>1
      <4>5. g[i] = s[i]
        BY <3>1, <4>3, <4>4, ConcatEmptySeq
      <4> QED BY <3>1, <4>5
    <3>2. CASE i # 1
      <4>1. i - 1 \in 1..Len(s)
        BY <1>0, <3>2
      <4> QED BY <3>2, <4>1
    <3> QED BY <3>1, <3>2
  <2>2. Eq(h)
    BY <2>1
  <2>3. Eq(flatten)
    <3>1. \E f : Eq(f)
      <4> HIDE DEF h, Eq
      <4> QED BY <2>2
    <3> HIDE DEF Eq
    <3> QED BY <3>1
  <2>4. FlattenSeq(s) = flatten[Len(s)]
    BY <1>4 DEF FlattenSeq
  <2> HIDE DEF flatten
  <2>5. \A i \in 1..Len(s) : flatten[i] = IF i = 1 THEN s[i] ELSE flatten[i - 1] \o s[i]
    BY <2>3
  <2>6. \A n \in 0..Len(s) : n # 0 => flatten[n] = g[n]
    <3> DEFINE T == {n \in 0..Len(s) : n # 0 => flatten[n] = g[n]}
    <3>1. 0 \in T
      BY <1>0
    <3>2. ASSUME NEW n \in 0..(Len(s) - 1), n \in T PROVE n + 1 \in T
      <4>1. n + 1 \in 1..Len(s) /\ (n + 1) - 1 = n /\ n + 1 \in 0..Len(s)
        BY <1>0
      <4>2. CASE n = 0
        <5>1. 1 \in 1..Len(s) /\ n + 1 = 1
          BY <4>1, <4>2
        <5>2. flatten[1] = s[1] /\ h[1] = s[1]
          BY <2>1, <2>5, <5>1
        <5>3. h[1] = g[1]
          BY <5>1
        <5> QED BY <4>1, <5>1, <5>2, <5>3
      <4>3. CASE n # 0
        <5>1. flatten[n] = g[n]
          BY <3>2, <4>3
        <5>2. n + 1 # 1
          BY <4>3
        <5>3. flatten[n + 1] = flatten[n] \o s[n + 1]
          BY <2>5, <4>1, <5>2
        <5>4. g[n + 1] = g[n] \o s[n + 1]
          BY <4>1
        <5> QED BY <4>1, <5>1, <5>3, <5>4
      <4> QED BY <4>2, <4>3
    <3>3. \A n \in 0..Len(s) : n \in T
      <4> HIDE DEF T
      <4> QED BY <1>0, <3>1, <3>2, InductionUpTo
    <3> QED BY <3>3
  <2> QED BY <1>0, <1>2, <1>4, <2>4, <2>6
<1> QED BY <1>3, <1>4

\* There is one.
LEMMA FlattenBy ==
  ASSUME NEW B, NEW s \in Seq(Seq(B))
  PROVE  \E g \in [0..Len(s) -> Seq(B)] :
           /\ g[0] = <<>>
           /\ \A n \in 1..Len(s) : g[n] = g[n - 1] \o s[n]
<1> DEFINE step == [n \in 1..Len(s) |-> [v \in Seq(B) |-> v \o s[n]]]
<1>0. Len(s) \in Nat
  OBVIOUS
<1>1. <<>> \in Seq(B) /\ \A n \in 1..Len(s) : s[n] \in Seq(B)
  OBVIOUS
<1>2. step \in [1..Len(s) -> [Seq(B) -> Seq(B)]]
  <2>1. \A n \in 1..Len(s) : \A v \in Seq(B) : v \o s[n] \in Seq(B)
    BY <1>1, ConcatProperties
  <2> QED BY <2>1
<1>3. PICK g \in [0..Len(s) -> Seq(B)] : Follows(g, Len(s), Seq(B), <<>>, step)
  <2> HIDE DEF step
  <2> QED BY <1>0, <1>1, <1>2, Recursion
<1>4. g[0] = <<>>
  BY <1>3 DEF Follows
<1>5. ASSUME NEW n \in 1..Len(s) PROVE g[n] = g[n - 1] \o s[n]
  <2>1. g[n - 1] \in Seq(B)
    <3>1. n - 1 \in 0..Len(s)
      BY <1>0
    <3> QED BY <3>1
  <2>2. g[n] = step[n][g[n - 1]]
    BY <1>3, <2>1 DEF Follows
  <2> QED BY <2>1, <2>2
<1> QED BY <1>4, <1>5

LEMMA FlattenType ==
  ASSUME NEW B, NEW s \in Seq(Seq(B))
  PROVE  FlattenSeq(s) \in Seq(B)
<1>1. PICK g \in [0..Len(s) -> Seq(B)] :
        /\ g[0] = <<>>
        /\ \A n \in 1..Len(s) : g[n] = g[n - 1] \o s[n]
  BY FlattenBy
<1>2. FlattenSeq(s) = g[Len(s)]
  BY <1>1, FlattenIs
<1>3. Len(s) \in 0..Len(s)
  OBVIOUS
<1> QED BY <1>2, <1>3

LEMMA FlattenAppend ==
  ASSUME NEW B, NEW s \in Seq(Seq(B)), NEW x \in Seq(B)
  PROVE  FlattenSeq(Append(s, x)) = FlattenSeq(s) \o x
<1> DEFINE t == Append(s, x)
<1>1. PICK g \in [0..Len(t) -> Seq(B)] :
        /\ g[0] = <<>>
        /\ \A n \in 1..Len(t) : g[n] = g[n - 1] \o t[n]
  <2>1. t \in Seq(Seq(B))
    OBVIOUS
  <2> HIDE DEF t
  <2> QED BY <2>1, FlattenBy
<1>2. /\ t \in Seq(Seq(B)) /\ Len(t) = Len(s) + 1 /\ t[Len(s) + 1] = x
      /\ \A n \in 1..Len(s) : t[n] = s[n] /\ n \in 1..Len(t)
      /\ Len(s) \in Nat
  OBVIOUS
<1> HIDE DEF t
<1>3. FlattenSeq(t) = g[Len(t)]
  BY <1>1, <1>2, FlattenIs
<1>4. FlattenSeq(s) = g[Len(s)]
  <2>1. \A n \in 1..Len(s) : g[n] = g[n - 1] \o s[n]
    BY <1>1, <1>2
  <2> QED BY <1>1, <2>1, FlattenIs
<1>5. g[Len(s) + 1] = g[Len(s)] \o x
  <2>1. Len(s) + 1 \in 1..Len(t) /\ (Len(s) + 1) - 1 = Len(s)
    BY <1>2
  <2> QED BY <1>1, <1>2, <2>1
<1>6. g[Len(t)] = g[Len(s)] \o x
  BY <1>2, <1>5
<1> QED BY <1>3, <1>4, <1>6 DEF t

\* Of two sequences of sequences, one behind the other.
LEMMA FlattenConcat ==
  ASSUME NEW B, NEW s \in Seq(Seq(B)), NEW t \in Seq(Seq(B))
  PROVE  FlattenSeq(s \o t) = FlattenSeq(s) \o FlattenSeq(t)
<1>1. PICK g \in [0..Len(s) -> Seq(B)] :
        /\ g[0] = <<>>
        /\ \A n \in 1..Len(s) : g[n] = g[n - 1] \o s[n]
  BY FlattenBy
<1>2. PICK h \in [0..Len(t) -> Seq(B)] :
        /\ h[0] = <<>>
        /\ \A n \in 1..Len(t) : h[n] = h[n - 1] \o t[n]
  BY FlattenBy
<1>3. FlattenSeq(s) = g[Len(s)] /\ FlattenSeq(t) = h[Len(t)]
  BY <1>1, <1>2, FlattenIs
<1> DEFINE st == s \o t
<1> DEFINE f == [n \in 0..Len(st) |-> IF n <= Len(s) THEN g[n] ELSE g[Len(s)] \o h[n - Len(s)]]
<1>0. Len(s) \in Nat /\ Len(t) \in Nat /\ Len(st) = Len(s) + Len(t)
  BY ConcatProperties
<1> DEFINE gs == g[Len(s)]
<1>9. gs \in Seq(B)
  <2>1. Len(s) \in 0..Len(s)
    BY <1>0
  <2> QED BY <2>1
<1>4. /\ st \in Seq(Seq(B))
      /\ \A n \in 1..Len(st) : st[n] = IF n <= Len(s) THEN s[n] ELSE t[n - Len(s)]
      /\ \A n \in 1..Len(t) : t[n] \in Seq(B)
  BY ConcatProperties
<1>5. ASSUME NEW n \in 1..Len(st) PROVE f[n] = f[n - 1] \o st[n]
  <2> HIDE DEF st
  <2>1. n \in 0..Len(st) /\ n - 1 \in 0..Len(st) /\ n \in Int
    BY <1>0
  <2>2. CASE n <= Len(s)
    <3>1. n \in 1..Len(s) /\ n - 1 <= Len(s)
      BY <1>0, <2>1, <2>2
    <3>2. f[n] = g[n] /\ f[n - 1] = g[n - 1] /\ st[n] = s[n]
      BY <1>0, <1>4, <2>1, <2>2, <3>1
    <3> QED BY <1>1, <3>1, <3>2
  <2>3. CASE n = Len(s) + 1
    <3>1. 1 \in 1..Len(t) /\ n - Len(s) = 1 /\ n - 1 = Len(s) /\ ~(n <= Len(s)) /\ n - 1 <= Len(s)
      BY <1>0, <2>1, <2>3
    <3>2. f[n] = g[Len(s)] \o h[1] /\ f[n - 1] = g[Len(s)] /\ st[n] = t[1]
      BY <1>0, <1>4, <2>1, <3>1
    <3>3. h[1] = h[0] \o t[1] /\ t[1] \in Seq(B)
      <4>1. h[1] = h[1 - 1] \o t[1]
        BY <1>2, <3>1, Zenon
      <4>2. 1 - 1 = 0
        OBVIOUS
      <4> QED BY <1>4, <3>1, <4>1, <4>2
    <3>4. h[1] = t[1]
      BY <1>2, <3>3, ConcatEmptySeq
    <3> QED BY <3>2, <3>4
  <2>4. CASE n > Len(s) + 1
    <3> DEFINE k == n - Len(s)
    <3>1. /\ k \in 1..Len(t) /\ k - 1 \in 0..Len(t) /\ (n - 1) - Len(s) = k - 1
          /\ ~(n <= Len(s)) /\ ~(n - 1 <= Len(s))
      BY <1>0, <2>1, <2>4
    <3>2. f[n] = gs \o h[k] /\ f[n - 1] = gs \o h[k - 1] /\ st[n] = t[k]
      BY <1>0, <1>4, <2>1, <3>1
    <3> HIDE DEF k, f, gs
    <3>3. h[k] = h[k - 1] \o t[k] /\ h[k - 1] \in Seq(B) /\ t[k] \in Seq(B)
      BY <1>2, <1>4, <3>1
    <3>4. \A u, v \in Seq(B) : (gs \o u) \o v = gs \o (u \o v)
      BY <1>9, ConcatAssociative, SMTT(30)
    <3>5. (gs \o h[k - 1]) \o t[k] = gs \o (h[k - 1] \o t[k])
      BY <3>3, <3>4
    <3> QED BY <3>2, <3>3, <3>5
  <2> HIDE DEF f
  <2>5. n <= Len(s) \/ n = Len(s) + 1 \/ n > Len(s) + 1
    BY <1>0, <2>1
  <2> QED BY <2>2, <2>3, <2>4, <2>5
<1>6. f[0] = <<>>
  <2>1. 0 \in 0..Len(st) /\ 0 <= Len(s)
    BY <1>0
  <2> HIDE DEF st
  <2> QED BY <1>1, <2>1
<1>7. f[Len(st)] = g[Len(s)] \o h[Len(t)]
  <2> HIDE DEF st
  <2>1. CASE Len(t) = 0
    <3>1. Len(st) = Len(s) /\ Len(st) \in 0..Len(st) /\ Len(st) <= Len(s)
      BY <1>0, <2>1
    <3>2. f[Len(st)] = gs
      BY <3>1
    <3>3. h[Len(t)] = <<>>
      BY <1>2, <2>1
    <3>4. gs \o <<>> = gs
      <4> HIDE DEF gs
      <4> QED BY <1>9, ConcatEmptySeq
    <3> QED BY <3>2, <3>3, <3>4
  <2>2. CASE Len(t) # 0
    <3>1. Len(st) \in 0..Len(st) /\ ~(Len(st) <= Len(s)) /\ Len(st) - Len(s) = Len(t)
      BY <1>0, <2>2
    <3> QED BY <3>1
  <2> QED BY <2>1, <2>2
<1>8. FlattenSeq(st) = f[Len(st)]
  <2> HIDE DEF st, f
  <2> QED BY <1>4, <1>5, <1>6, FlattenIs
<1> QED BY <1>3, <1>7, <1>8

LEMMA FlattenOne ==
  ASSUME NEW B, NEW a \in Seq(B)
  PROVE  FlattenSeq(<<a>>) = a
<1>1. <<>> \in Seq(Seq(B)) /\ Append(<<>>, a) = <<a>>
  OBVIOUS
<1>2. FlattenSeq(<<>>) = <<>>
  BY DEF FlattenSeq
<1>3. FlattenSeq(Append(<<>>, a)) = FlattenSeq(<<>>) \o a
  BY <1>1, FlattenAppend
<1>4. <<>> \o a = a
  BY ConcatEmptySeq
<1> QED BY <1>1, <1>2, <1>3, <1>4

LEMMA PairOf ==
  ASSUME NEW S, NEW a \in S, NEW b \in S
  PROVE  Append(<<a>>, b) = <<a, b>>
<1> DEFINE s == Append(<<a>>, b)
<1>1. s \in Seq(S) /\ Len(s) = 2 /\ s[1] = a /\ s[2] = b
  OBVIOUS
<1>2. <<a, b>> \in Seq(S) /\ Len(<<a, b>>) = 2 /\ <<a, b>>[1] = a /\ <<a, b>>[2] = b
  OBVIOUS
<1>3. \A i \in 1..2 : s[i] = <<a, b>>[i]
  BY <1>1, <1>2
<1>4. \A t, u \in Seq(S) : Len(t) = Len(u) /\ (\A i \in 1..Len(t) : t[i] = u[i]) => t = u
  BY SeqEqual
<1> HIDE DEF s
<1> QED BY <1>1, <1>2, <1>3, <1>4 DEF s

LEMMA FlattenTwo ==
  ASSUME NEW B, NEW a \in Seq(B), NEW b \in Seq(B)
  PROVE  FlattenSeq(<<a, b>>) = a \o b
<1>1. <<a>> \in Seq(Seq(B))
  OBVIOUS
<1>2. Append(<<a>>, b) = <<a, b>>
  BY PairOf
<1> QED BY <1>1, <1>2, FlattenAppend, FlattenOne

-----------------------------------------------------------------------------
(* Variable length numbers: where they end                                 *)

LEMMA LeastIs ==
  ASSUME NEW S \in SUBSET Int, NEW m \in S, \A n \in S : m <= n
  PROVE  Min(S) = m
<1>1. \E x \in S : \A y \in S : x =< y
  OBVIOUS
<1>2. Min(S) \in S /\ \A y \in S : Min(S) =< y
  BY <1>1 DEF Min
<1>3. Min(S) \in Int /\ m \in Int /\ Min(S) <= m /\ m <= Min(S)
  BY <1>2
<1> QED BY <1>3

LEMMA LeastOf ==
  ASSUME NEW S \in SUBSET Nat, S # {}
  PROVE  Min(S) \in S /\ \A n \in S : Min(S) <= n
<1>1. \E m \in S : \A n \in S : m <= n
  <2> SUFFICES ASSUME \A m \in S : \E n \in S : ~(m <= n) PROVE FALSE
    OBVIOUS
  <2> DEFINE T == {n \in Nat : \A i \in 0..n : i \notin S}
  <2>1. ASSUME NEW k \in S, \A i \in Nat : i < k => i \notin S PROVE FALSE
    <3>1. PICK n \in S : ~(k <= n)
      OBVIOUS
    <3> QED BY <2>1, <3>1
  <2>2. 0 \in T
    <3>1. \A i \in Nat : ~(i < 0)
      OBVIOUS
    <3>2. 0 \notin S
      BY <2>1, <3>1
    <3> QED BY <3>2
  <2>3. ASSUME NEW n \in T PROVE n + 1 \in T
    <3>1. \A i \in Nat : i < n + 1 => i \notin S
      OBVIOUS
    <3>2. n + 1 \notin S
      BY <2>1, <3>1
    <3> QED BY <3>1, <3>2
  <2>4. T \in SUBSET Nat
    OBVIOUS
  <2>5. T = Nat
    <3> HIDE DEF T
    <3> QED BY <2>2, <2>3, <2>4, Induction
  <2>6. \A n \in Nat : n \in 0..n
    OBVIOUS
  <2>7. \A n \in Nat : n \notin S
    BY <2>5, <2>6
  <2> QED BY <2>7
<1>2. PICK m \in S : \A n \in S : m <= n
  BY <1>1
<1>3. Min(S) = m
  BY <1>2, LeastIs
<1> QED BY <1>2, <1>3

LEMMA Lesser ==
  ASSUME NEW a \in Int, NEW b \in Int
  PROVE  Min({a, b}) = IF a <= b THEN a ELSE b
<1>1. {a, b} \in SUBSET Int
  OBVIOUS
<1>2. CASE a <= b
  BY <1>1, <1>2, LeastIs
<1>3. CASE ~(a <= b)
  <2>1. \A n \in {a, b} : b <= n
    BY <1>3
  <2>2. Min({a, b}) = b
    BY <1>1, <2>1, LeastIs
  <2> QED BY <1>3, <2>2
<1> QED BY <1>2, <1>3

\* The digits of the variable length number of m bytes at `at`.
Digits(buf, at, m) == [k \in 1..m |-> Digit(buf[at + k - 1])]

\* Where a variable length number ends, and what it is, depends on the bytes
\* up to the first that announces no other.
LEMMA VarnumEnds ==
  ASSUME NEW buf, NEW at \in Nat \ {0}, Left(buf, at) \in Int,
         NEW m \in 1..MaxLen, m <= Left(buf, at),
         \A k \in 1..(m - 1) : More(buf[at + k - 1]), ~More(buf[at + m - 1])
  PROVE  /\ ReadVarnum(buf, at).err = Success
         /\ ReadVarnum(buf, at).value = NumberOf(Digits(buf, at, m))
         /\ ReadVarnum(buf, at).next = at + m
<1> DEFINE some == Min({MaxLen, Left(buf, at)})
<1> DEFINE last == {k \in 1..some : ~More(buf[at + k - 1])}
<1>1. MaxLen \in Int
  BY HelpersAssumption
<1>2. some \in Int /\ m <= some
  BY <1>1, Lesser
<1> HIDE DEF some
<1>3. m \in last
  BY <1>2
<1>4. last \in SUBSET Int
  BY <1>2
<1>5. ASSUME NEW n \in last PROVE m <= n
  BY <1>2
<1> HIDE DEF last
<1>6. Min(last) = m
  BY <1>3, <1>4, <1>5, LeastIs
<1> QED
  BY <1>3, <1>6 DEF ReadVarnum, Digits, last, some

LEMMA VarnumGoesOn ==
  ASSUME NEW buf, NEW at \in Nat \ {0}, Left(buf, at) \in Int,
         \A k \in 1..MaxLen : k <= Left(buf, at) => More(buf[at + k - 1])
  PROVE  ReadVarnum(buf, at).err = IF Left(buf, at) <= MaxLen THEN TooShort ELSE VarnumOverflow
<1> DEFINE some == Min({MaxLen, Left(buf, at)})
<1> DEFINE last == {k \in 1..some : ~More(buf[at + k - 1])}
<1>1. MaxLen \in Int
  BY HelpersAssumption
<1>2. some \in Int /\ some <= MaxLen /\ some <= Left(buf, at)
  BY <1>1, Lesser
<1> HIDE DEF some
<1>3. last = {}
  BY <1>1, <1>2
<1> HIDE DEF last
<1> QED
  BY <1>3 DEF ReadVarnum, last, some

-----------------------------------------------------------------------------
(* Variable length numbers: what is written, and what it reads as          *)

LEMMA Powers ==
  /\ Power \in [0..MaxLen -> Nat \ {0}]
  /\ Power[0] = 1
  /\ \A k \in 1..MaxLen : Power[k] = Base * Power[k - 1]
<1> DEFINE step == [k \in 1..MaxLen |-> [v \in Nat \ {0} |-> Base * v]]
<1> DEFINE Eq(f) == f = [k \in 0..MaxLen |-> IF k = 0 THEN 1 ELSE Base * f[k - 1]]
<1>1. MaxLen \in Nat /\ Base \in Nat /\ Base > 0
  BY HelpersAssumption
<1>2. step \in [1..MaxLen -> [Nat \ {0} -> Nat \ {0}]]
  <2>1. \A v \in Nat \ {0} : Base * v \in Nat \ {0}
    BY <1>1
  <2> QED BY <2>1
<1>3. PICK f \in [0..MaxLen -> Nat \ {0}] : Follows(f, MaxLen, Nat \ {0}, 1, step)
  <2>1. 1 \in Nat \ {0}
    OBVIOUS
  <2> HIDE DEF step
  <2> QED BY <1>1, <1>2, <2>1, Recursion
<1>4. f[0] = 1 /\ \A k \in 1..MaxLen : f[k] = Base * f[k - 1]
  <2>1. ASSUME NEW k \in 1..MaxLen PROVE f[k] = Base * f[k - 1]
    <3>1. f[k - 1] \in Nat \ {0}
      BY <1>1
    <3>2. f[k] = step[k][f[k - 1]]
      BY <1>3, <3>1 DEF Follows
    <3> QED BY <3>1, <3>2
  <2> QED BY <1>3, <2>1 DEF Follows
<1>5. Eq(f)
  BY <1>4
<1>6. \E g : Eq(g)
  <2> HIDE DEF Eq
  <2> QED BY <1>5
<1>7. Eq(Power)
  BY <1>6 DEF Power
<1>8. ASSUME NEW k \in 0..MaxLen PROVE Power[k] = IF k = 0 THEN 1 ELSE Base * Power[k - 1]
  BY <1>7
<1>9. \A k \in 0..MaxLen : Power[k] = f[k]
  <2> DEFINE T == {k \in 0..MaxLen : Power[k] = f[k]}
  <2>1. 0 \in T
    BY <1>1, <1>4, <1>8
  <2>2. ASSUME NEW k \in 0..(MaxLen - 1), k \in T PROVE k + 1 \in T
    <3>1. /\ k + 1 \in 1..MaxLen /\ k + 1 \in 0..MaxLen /\ k + 1 # 0 /\ (k + 1) - 1 = k
          /\ Power[k] = f[k]
      BY <1>1, <2>2
    <3>2. Power[k + 1] = Base * Power[k]
      BY <1>8, <3>1
    <3> QED BY <1>4, <3>1, <3>2
  <2>3. \A k \in 0..MaxLen : k \in T
    <3> HIDE DEF T
    <3> QED BY <1>1, <2>1, <2>2, InductionUpTo
  <2> QED BY <2>3
<1>10. Power = f
  <2>1. Power = [k \in 0..MaxLen |-> Power[k]]
    BY <1>7
  <2>2. f = [k \in 0..MaxLen |-> f[k]]
    OBVIOUS
  <2> QED BY <1>9, <2>1, <2>2
<1> QED BY <1>4, <1>10

\* left[k] is what is left of n without its k lowest digits.
Leaves(left, n, last) ==
  /\ left[0] = n /\ left[last] = 0
  /\ \A k \in 0..last : left[k] \in Nat
  /\ \A k \in 1..last : left[k] = left[k - 1] \div Base
  /\ \A k \in 1..(last - 1) : left[k] > 0

\* What lwmqtt_write_varnum writes of a number that lwmqtt_varnum_length lets
\* through.
LEMMA VarnumWritten ==
  ASSUME NEW n \in Nat, VarnumLength(n) # 0
  PROVE  \E left : \E last \in 1..MaxLen :
           /\ Leaves(left, n, last)
           /\ VarnumBytes(n) = [k \in 1..last |-> (left[k - 1] % Base) + (IF left[k] > 0 THEN Base ELSE 0)]
<1> DEFINE Eq(f) == f = [k \in 0..MaxLen |-> IF k = 0 THEN n ELSE f[k - 1] \div Base]
<1> DEFINE step == [k \in 1..MaxLen |-> [v \in Nat |-> v \div Base]]
<1> DEFINE left == CHOOSE f : Eq(f)
<1> DEFINE ends == {k \in 1..MaxLen : left[k] = 0}
<1> DEFINE last == Min(ends)
<1>1. MaxLen \in Nat /\ MaxLen > 0 /\ Base \in 2..128
  BY HelpersAssumption
<1>2. \A v \in Nat : v \div Base \in Nat
  BY <1>1
<1>3. step \in [1..MaxLen -> [Nat -> Nat]]
  BY <1>2
<1>4. \E f : Eq(f)
  <2>1. PICK f \in [0..MaxLen -> Nat] : Follows(f, MaxLen, Nat, n, step)
    <3> HIDE DEF step
    <3> QED BY <1>1, <1>3, Recursion
  <2>2. f[0] = n
    BY <2>1 DEF Follows
  <2>3. ASSUME NEW k \in 1..MaxLen PROVE f[k] = f[k - 1] \div Base
    <3>1. f[k - 1] \in Nat
      BY <1>1
    <3>2. f[k] = step[k][f[k - 1]]
      BY <2>1, <3>1 DEF Follows
    <3> QED BY <3>1, <3>2
  <2>4. Eq(f)
    BY <2>2, <2>3
  <2> HIDE DEF Eq
  <2> QED BY <2>4
<1>5. Eq(left)
  <2> HIDE DEF Eq
  <2> QED BY <1>4
<1> HIDE DEF left
<1>6. left[0] = n /\ \A k \in 1..MaxLen : left[k] = left[k - 1] \div Base
  BY <1>1, <1>5
<1>7. \A k \in 0..MaxLen : left[k] \in Nat
  <2>1. ASSUME NEW k \in 1..MaxLen, left[k - 1] \in Nat PROVE left[k] = step[k][left[k - 1]]
    BY <1>6, <2>1
  <2>2. Follows(left, MaxLen, Nat, n, step)
    BY <1>6, <2>1 DEF Follows
  <2> HIDE DEF step
  <2> QED BY <1>1, <1>3, <2>2, Recursion
<1>8. PICK m \in 1..MaxLen : n < Power[m]
  BY DEF VarnumLength
<1>9. left[m] = 0
  <2> DEFINE T == {j \in 0..m : left[j] < Power[m - j]}
  <2>1. 0 \in T
    <3>1. m - 0 = m /\ 0 \in 0..m
      BY <1>1
    <3> QED BY <1>6, <1>8, <3>1
  <2>2. ASSUME NEW j \in 0..(m - 1), j \in T PROVE j + 1 \in T
    <3>1. /\ j + 1 \in 1..MaxLen /\ (j + 1) - 1 = j /\ j + 1 \in 0..m
          /\ m - j \in 1..MaxLen /\ (m - j) - 1 = m - (j + 1) /\ m - (j + 1) \in 0..MaxLen
      BY <1>1
    <3>2. /\ left[j] \in Nat /\ left[j] < Power[m - j]
          /\ left[j + 1] = left[j] \div Base
          /\ Power[m - j] = Base * Power[m - (j + 1)]
          /\ Power[m - (j + 1)] \in Nat
      BY <1>1, <1>6, <1>7, <2>2, <3>1, Powers
    <3>3. \A a, p \in Nat : a < Base * p => a \div Base < p
      BY <1>1
    <3>4. left[j + 1] < Power[m - (j + 1)]
      BY <3>2, <3>3
    <3> QED BY <3>1, <3>4
  <2>3. \A j \in 0..m : j \in T
    <3> HIDE DEF T
    <3> QED BY <2>1, <2>2, InductionUpTo
  <2>4. left[m] < Power[m - m]
    BY <2>3
  <2>5. m - m = 0 /\ m \in 0..MaxLen
    BY <1>1
  <2> QED BY <1>7, <2>4, <2>5, Powers
<1>10. last \in ends /\ \A k \in ends : last <= k
  <2>1. m \in ends
    BY <1>9
  <2>2. ends \in SUBSET Nat
    OBVIOUS
  <2> HIDE DEF ends
  <2> QED BY <2>1, <2>2, LeastOf
<1> HIDE DEF ends
<1>11. last \in 1..MaxLen /\ left[last] = 0
  BY <1>10 DEF ends
<1>12. ASSUME NEW k \in 1..(last - 1) PROVE left[k] > 0
  <2> HIDE DEF last
  <2>1. k \in 1..MaxLen /\ ~(last <= k)
    BY <1>1, <1>11
  <2>2. left[k] # 0
    BY <1>10, <2>1 DEF ends
  <2> QED BY <1>1, <1>7, <2>1, <2>2
<1>13. Leaves(left, n, last)
  BY <1>1, <1>6, <1>7, <1>11, <1>12 DEF Leaves
<1>14. VarnumBytes(n) = [k \in 1..last |-> (left[k - 1] % Base) + (IF left[k] > 0 THEN Base ELSE 0)]
  BY DEF VarnumBytes, left, last, ends
<1> HIDE DEF last
<1> QED BY <1>11, <1>13, <1>14

\* The number read from digits.
LEMMA NumberFrom ==
  ASSUME NEW digits \in Seq(Nat)
  PROVE  /\ NumberOf(digits) \in Nat
         /\ \A left : /\ left[Len(digits)] = 0
                      /\ \A k \in 0..Len(digits) : left[k] \in Nat
                      /\ \A k \in 1..Len(digits) : left[k - 1] = digits[k] + Base * left[k]
                      => NumberOf(digits) = left[0]
<1> DEFINE len == Len(digits)
<1> DEFINE Eq(f) == f = [k \in 0..len |-> IF k = 0 THEN 0 ELSE digits[len - k + 1] + Base * f[k - 1]]
<1> DEFINE step == [k \in 1..len |-> [v \in Nat |-> digits[len - k + 1] + Base * v]]
<1> DEFINE ofLast == CHOOSE f : Eq(f)
<1>1. len \in Nat /\ Base \in Nat
  BY HelpersAssumption
<1>2. \A k \in 1..len : digits[len - k + 1] \in Nat
  BY <1>1
<1>3. step \in [1..len -> [Nat -> Nat]]
  <2>1. \A k \in 1..len : \A v \in Nat : digits[len - k + 1] + Base * v \in Nat
    BY <1>1, <1>2
  <2> HIDE DEF len
  <2> QED BY <2>1
<1> HIDE DEF len
<1>4. \E f : Eq(f)
  <2>1. PICK f \in [0..len -> Nat] : Follows(f, len, Nat, 0, step)
    <3> HIDE DEF step
    <3> QED BY <1>1, <1>3, Recursion
  <2>2. f[0] = 0
    BY <2>1 DEF Follows
  <2>3. ASSUME NEW k \in 1..len PROVE f[k] = digits[len - k + 1] + Base * f[k - 1]
    <3>1. f[k - 1] \in Nat
      BY <1>1
    <3>2. f[k] = step[k][f[k - 1]]
      BY <2>1, <3>1 DEF Follows
    <3> QED BY <3>1, <3>2
  <2>4. Eq(f)
    BY <2>2, <2>3
  <2> HIDE DEF Eq
  <2> QED BY <2>4
<1>5. Eq(ofLast)
  <2> HIDE DEF Eq
  <2> QED BY <1>4
<1>6. NumberOf(digits) = ofLast[len]
  BY DEF NumberOf, len
<1> HIDE DEF ofLast
<1>7. ofLast[0] = 0 /\ \A k \in 1..len : ofLast[k] = digits[len - k + 1] + Base * ofLast[k - 1]
  BY <1>1, <1>5
<1>8. \A k \in 0..len : ofLast[k] \in Nat
  <2>1. ASSUME NEW k \in 1..len, ofLast[k - 1] \in Nat PROVE ofLast[k] = step[k][ofLast[k - 1]]
    BY <1>7, <2>1
  <2>2. Follows(ofLast, len, Nat, 0, step)
    BY <1>7, <2>1 DEF Follows
  <2> HIDE DEF step
  <2> QED BY <1>1, <1>3, <2>2, Recursion
<1>9. ASSUME NEW left, left[len] = 0, \A k \in 0..len : left[k] \in Nat,
             \A k \in 1..len : left[k - 1] = digits[k] + Base * left[k]
      PROVE  ofLast[len] = left[0]
  <2> DEFINE T == {k \in 0..len : ofLast[k] = left[len - k]}
  <2>1. 0 \in T
    <3>1. len - 0 = len /\ 0 \in 0..len
      BY <1>1
    <3> QED BY <1>7, <1>9, <3>1
  <2>2. ASSUME NEW k \in 0..(len - 1), k \in T PROVE k + 1 \in T
    <3> DEFINE j == len - k
    <3>1. /\ k + 1 \in 1..len /\ (k + 1) - 1 = k /\ k + 1 \in 0..len
          /\ j \in 1..len /\ len - (k + 1) + 1 = j /\ len - (k + 1) = j - 1
      BY <1>1
    <3>2. ofLast[k] = left[j]
      BY <2>2
    <3> HIDE DEF j
    <3>3. ofLast[k + 1] = digits[j] + Base * left[j]
      BY <1>7, <3>1, <3>2
    <3>4. left[j - 1] = digits[j] + Base * left[j]
      BY <1>9, <3>1
    <3> QED BY <3>1, <3>3, <3>4
  <2>3. \A k \in 0..len : k \in T
    <3> HIDE DEF T
    <3> QED BY <1>1, <2>1, <2>2, InductionUpTo
  <2>4. len \in 0..len /\ len - len = 0
    BY <1>1
  <2> QED BY <2>3, <2>4
<1>10. len \in 0..len
  BY <1>1
<1> QED BY <1>6, <1>8, <1>9, <1>10 DEF len

LEMMA ByteRange == \A b : b \in Bytes <=> b \in Int /\ 0 <= b /\ b <= 255
BY DEF Bytes

\* The bytes of a number fit into bytes.
LEMMA VarnumBytesType ==
  ASSUME NEW n \in Nat, VarnumLength(n) # 0
  PROVE  VarnumBytes(n) \in Seq(Bytes) /\ Len(VarnumBytes(n)) \in 1..MaxLen
<1>1. PICK left : \E last \in 1..MaxLen :
        /\ Leaves(left, n, last)
        /\ VarnumBytes(n) = [k \in 1..last |-> (left[k - 1] % Base) + (IF left[k] > 0 THEN Base ELSE 0)]
  BY VarnumWritten
<1>2. PICK last \in 1..MaxLen :
        /\ Leaves(left, n, last)
        /\ VarnumBytes(n) = [k \in 1..last |-> (left[k - 1] % Base) + (IF left[k] > 0 THEN Base ELSE 0)]
  BY <1>1
<1>3. ASSUME NEW k \in 1..last
      PROVE  (left[k - 1] % Base) + (IF left[k] > 0 THEN Base ELSE 0) \in Bytes
  <2>1. left[k - 1] \in Nat /\ left[k] \in Nat
    BY <1>2 DEF Leaves
  <2>2. \A v \in Nat : v % Base \in 0..(Base - 1) /\ Base \in 2..128
    BY HelpersAssumption
  <2>3. left[k - 1] % Base \in 0..(Base - 1)
    BY <2>1, <2>2
  <2>4. \A d \in 0..(Base - 1) : d + Base \in 0..255 /\ d + 0 \in 0..255
    BY HelpersAssumption
  <2> QED BY <2>3, <2>4 DEF Bytes
<1>4. last \in Nat
  BY HelpersAssumption
<1>5. VarnumBytes(n) \in Seq(Bytes)
  BY <1>2, <1>3, <1>4
<1>6. Len(VarnumBytes(n)) = last
  BY <1>2, <1>4
<1> QED BY <1>5, <1>6

\* As much of s as there is room for lies in buf at `at`.
Lies(s, buf, at) == \A i \in 1..Len(s) : at + i - 1 <= Len(buf) => buf[at + i - 1] = s[i]

\* lwmqtt_read_varnum undoes lwmqtt_write_varnum, and finds that bytes are
\* missing when they are.
LEMMA VarnumRead ==
  ASSUME NEW n \in Nat, VarnumLength(n) # 0, NEW buf \in Seq(Bytes), NEW at \in Nat \ {0},
         Lies(VarnumBytes(n), buf, at)
  PROVE  IF at + Len(VarnumBytes(n)) - 1 <= Len(buf)
           THEN /\ ReadVarnum(buf, at).err = Success
                /\ ReadVarnum(buf, at).value = n
                /\ ReadVarnum(buf, at).next = at + Len(VarnumBytes(n))
           ELSE ReadVarnum(buf, at).err = TooShort
<1> DEFINE byte(left, k) == (left[k - 1] % Base) + (IF left[k] > 0 THEN Base ELSE 0)
<1>1. PICK left : \E last \in 1..MaxLen :
        /\ Leaves(left, n, last)
        /\ VarnumBytes(n) = [k \in 1..last |-> byte(left, k)]
  BY VarnumWritten
<1>2. PICK last \in 1..MaxLen :
        /\ Leaves(left, n, last)
        /\ VarnumBytes(n) = [k \in 1..last |-> byte(left, k)]
  BY <1>1
<1>3. /\ MaxLen \in Nat /\ last \in Nat \ {0} /\ last <= MaxLen /\ Base \in 2..128
      /\ Len(buf) \in Nat
  BY HelpersAssumption
<1>4. Len(VarnumBytes(n)) = last
  BY <1>2, <1>3
<1>5. Left(buf, at) = Len(buf) - at + 1
  BY DEF Left
<1>6. ASSUME NEW k \in 1..last, at + k - 1 <= Len(buf)
      PROVE  /\ More(buf[at + k - 1]) <=> left[k] > 0
             /\ Digit(buf[at + k - 1]) = left[k - 1] % Base
             /\ left[k - 1] = Digit(buf[at + k - 1]) + Base * left[k]
  <2>1. left[k - 1] \in Nat /\ left[k] \in Nat /\ left[k] = left[k - 1] \div Base
    BY <1>2 DEF Leaves
  <2>2. buf[at + k - 1] = byte(left, k)
    BY <1>2, <1>4, <1>6 DEF Lies
  <2>3. \A a \in Nat : /\ a % Base \in 0..(Base - 1)
                       /\ (a % Base) + Base * (a \div Base) = a
    BY <1>3
  <2>4. \A d \in 0..(Base - 1) : /\ (d + Base) % Base = d /\ (d + 0) % Base = d
                                 /\ (d + Base) \div Base = 1 /\ (d + 0) \div Base = 0
    BY <1>3
  <2>5. left[k - 1] % Base \in 0..(Base - 1)
    BY <2>1, <2>3
  <2>6. 1 % 2 = 1 /\ 0 % 2 = 0
    OBVIOUS
  <2>7. CASE left[k] > 0
    <3>1. buf[at + k - 1] = (left[k - 1] % Base) + Base
      BY <2>2, <2>7
    <3>2. Digit(buf[at + k - 1]) = left[k - 1] % Base /\ More(buf[at + k - 1])
      BY <2>4, <2>5, <2>6, <3>1 DEF Digit, More
    <3> QED BY <2>1, <2>3, <2>7, <3>2
  <2>8. CASE ~(left[k] > 0)
    <3>1. buf[at + k - 1] = (left[k - 1] % Base) + 0
      BY <2>2, <2>8
    <3>2. Digit(buf[at + k - 1]) = left[k - 1] % Base /\ ~More(buf[at + k - 1])
      BY <2>4, <2>5, <2>6, <3>1 DEF Digit, More
    <3> QED BY <2>1, <2>3, <2>8, <3>2
  <2> QED BY <2>7, <2>8
<1>7. left[last] = 0 /\ (\A k \in 1..(last - 1) : left[k] > 0) /\ left[0] = n
      /\ \A k \in 0..last : left[k] \in Nat
  BY <1>2 DEF Leaves
<1> HIDE DEF byte
<1>8. CASE at + last - 1 <= Len(buf)
  <2>1. \A k \in 1..last : at + k - 1 <= Len(buf)
    BY <1>3, <1>8
  <2>9. \A k \in 1..last : More(buf[at + k - 1]) <=> left[k] > 0
    BY <1>6, <2>1
  <2>10. last \in 1..last /\ \A k \in 1..(last - 1) : k \in 1..last
    BY <1>3
  <2>2. \A k \in 1..(last - 1) : More(buf[at + k - 1])
    BY <1>7, <2>9, <2>10
  <2>3. ~More(buf[at + last - 1])
    <3>1. ~(0 > 0)
      OBVIOUS
    <3> QED BY <1>7, <2>9, <2>10, <3>1
  <2>4. /\ ReadVarnum(buf, at).err = Success
        /\ ReadVarnum(buf, at).value = NumberOf(Digits(buf, at, last))
        /\ ReadVarnum(buf, at).next = at + last
    <3>1. Left(buf, at) \in Int /\ last <= Left(buf, at)
      BY <1>3, <1>5, <1>8
    <3> QED BY <2>2, <2>3, <3>1, VarnumEnds
  <2> DEFINE digits == Digits(buf, at, last)
  <2>5. digits \in Seq(Nat) /\ Len(digits) = last /\ \A k \in 1..last : digits[k] = Digit(buf[at + k - 1])
    <3>1. \A k \in 1..last : Digit(buf[at + k - 1]) \in Nat
      <4>1. \A a \in Nat : a % Base \in Nat
        BY <1>3
      <4>2. \A k \in 1..last : left[k - 1] \in Nat
        BY <1>3, <1>7
      <4> QED BY <1>6, <2>1, <4>1, <4>2
    <3> QED BY <1>3, <3>1 DEF Digits
  <2>6. \A k \in 1..last : left[k - 1] = digits[k] + Base * left[k]
    BY <1>6, <2>1, <2>5
  <2>7. NumberOf(digits) = left[0]
    <3> HIDE DEF digits
    <3> QED BY <1>7, <2>5, <2>6, NumberFrom
  <2> QED BY <1>4, <1>7, <1>8, <2>4, <2>7
<1>9. CASE ~(at + last - 1 <= Len(buf))
  <2>1. ASSUME NEW k \in 1..MaxLen, k <= Left(buf, at) PROVE More(buf[at + k - 1])
    <3>1. k \in 1..(last - 1) /\ k \in 1..last /\ at + k - 1 <= Len(buf)
      BY <1>3, <1>5, <1>9, <2>1
    <3> QED BY <1>6, <1>7, <3>1
  <2>2. Left(buf, at) \in Int /\ Left(buf, at) <= MaxLen
    BY <1>3, <1>5, <1>9
  <2>3. ReadVarnum(buf, at).err = TooShort
    BY <2>1, <2>2, VarnumGoesOn
  <2> QED BY <1>4, <1>9, <2>3
<1> QED BY <1>8, <1>9, <1>4

\* A number that is found lies in the buffer.
LEMMA VarnumTypes ==
  ASSUME NEW buf \in Seq(Bytes), NEW at \in Nat \ {0}, ReadVarnum(buf, at).err = Success
  PROVE  /\ ReadVarnum(buf, at).value \in Nat
         /\ ReadVarnum(buf, at).next \in Nat
         /\ ReadVarnum(buf, at).next > at
         /\ ReadVarnum(buf, at).next <= Len(buf) + 1
<1> DEFINE some == Min({MaxLen, Left(buf, at)})
<1> DEFINE last == {k \in 1..some : ~More(buf[at + k - 1])}
<1>1. MaxLen \in Int /\ Left(buf, at) = Len(buf) - at + 1 /\ Len(buf) \in Nat
  BY HelpersAssumption DEF Left
<1>2. some \in Int /\ some <= Left(buf, at)
  BY <1>1, Lesser
<1> HIDE DEF some
<1>3. last # {}
  <2> SUFFICES ASSUME last = {} PROVE FALSE
    OBVIOUS
  <2>1. ReadVarnum(buf, at).err = IF Left(buf, at) <= MaxLen THEN TooShort ELSE VarnumOverflow
    <3> HIDE DEF last
    <3> QED BY DEF ReadVarnum, last, some
  <2> QED BY <2>1 DEF Success, TooShort, VarnumOverflow
<1>4. last \in SUBSET Nat
  BY <1>2
<1> DEFINE m == Min(last)
<1>5. m \in last
  <2> HIDE DEF last
  <2> QED BY <1>3, <1>4, LeastOf
<1>6. m \in Nat /\ m >= 1 /\ m <= some
  BY <1>2, <1>5
<1>7. /\ ReadVarnum(buf, at).value = NumberOf(Digits(buf, at, m))
      /\ ReadVarnum(buf, at).next = at + m
  <2> HIDE DEF last
  <2> QED BY <1>3 DEF ReadVarnum, Digits, last, some
<1> HIDE DEF m
<1>8. Digits(buf, at, m) \in Seq(Nat)
  <2>1. \A a \in Nat : a % Base \in Nat
    BY HelpersAssumption
  <2>2. ASSUME NEW k \in 1..m PROVE Digit(buf[at + k - 1]) \in Nat
    <3>1. at + k - 1 \in 1..Len(buf)
      BY <1>1, <1>2, <1>6
    <3>2. buf[at + k - 1] \in Nat
      <4>1. buf[at + k - 1] \in Bytes
        BY <3>1
      <4> QED BY <4>1, ByteRange
    <3> QED BY <2>1, <3>2 DEF Digit
  <2> QED BY <1>6, <2>2 DEF Digits
<1>9. NumberOf(Digits(buf, at, m)) \in Nat
  BY <1>8, NumberFrom
<1> QED BY <1>1, <1>2, <1>6, <1>7, <1>9

-----------------------------------------------------------------------------
(* Packets: a header, a length, and as many bytes as it says               *)

PacketOf(header, body) == <<header>> \o VarnumBytes(Len(body)) \o body

\* The bytes in front of the body.
InFront(body) == 1 + Len(VarnumBytes(Len(body)))

LEMMA PacketParts ==
  ASSUME NEW header \in Bytes, NEW body \in Seq(Bytes), VarnumLength(Len(body)) # 0
  PROVE  LET p == PacketOf(header, body) IN
           /\ Len(body) \in Nat
           /\ InFront(body) \in Nat /\ InFront(body) >= 2
           /\ Len(VarnumBytes(Len(body))) = InFront(body) - 1
           /\ p \in Seq(Bytes)
           /\ Len(p) = InFront(body) + Len(body)
           /\ p[1] = header
           /\ \A i \in 1..(InFront(body) - 1) : p[i + 1] = VarnumBytes(Len(body))[i]
           /\ \A i \in 1..Len(body) : p[InFront(body) + i] = body[i]
<1> DEFINE v == VarnumBytes(Len(body))
<1>1. Len(body) \in Nat
  OBVIOUS
<1>2. v \in Seq(Bytes) /\ Len(v) \in Nat /\ Len(v) >= 1
  BY <1>1, VarnumBytesType, HelpersAssumption
<1>3. InFront(body) = 1 + Len(v)
  BY DEF InFront
<1> HIDE DEF v
<1> DEFINE hv == <<header>> \o v
<1>4. /\ hv \in Seq(Bytes) /\ Len(hv) = 1 + Len(v) /\ hv[1] = header
      /\ \A i \in 1..Len(v) : hv[i + 1] = v[i]
  <2>1. <<header>> \in Seq(Bytes) /\ Len(<<header>>) = 1 /\ <<header>>[1] = header
    OBVIOUS
  <2> DEFINE h == <<header>>
  <2> HIDE DEF h
  <2>2. h \in Seq(Bytes) /\ Len(h) = 1 /\ h[1] = header
    BY <2>1 DEF h
  <2>3. /\ h \o v \in Seq(Bytes) /\ Len(h \o v) = Len(h) + Len(v)
        /\ \A i \in 1..(Len(h) + Len(v)) : (h \o v)[i] = IF i <= Len(h) THEN h[i] ELSE v[i - Len(h)]
    BY <1>2, <2>2, ConcatProperties
  <2>4. /\ (h \o v)[1] = h[1]
        /\ \A i \in 1..Len(v) : (h \o v)[i + 1] = v[i]
    BY <1>2, <2>2, <2>3
  <2> QED BY <2>2, <2>3, <2>4 DEF h
<1> HIDE DEF hv
<1>5. /\ hv \o body \in Seq(Bytes) /\ Len(hv \o body) = Len(hv) + Len(body)
      /\ \A i \in 1..(Len(hv) + Len(body)) :
           (hv \o body)[i] = IF i <= Len(hv) THEN hv[i] ELSE body[i - Len(hv)]
  <2>1. hv \in Seq(Bytes)
    BY <1>4
  <2> QED BY <2>1, ConcatProperties
<1>6. /\ (hv \o body)[1] = header
      /\ \A i \in 1..Len(v) : (hv \o body)[i + 1] = v[i]
      /\ \A i \in 1..Len(body) : (hv \o body)[Len(hv) + i] = body[i]
  BY <1>1, <1>2, <1>4, <1>5
<1>7. PacketOf(header, body) = hv \o body
  BY DEF PacketOf, hv, v
<1> QED BY <1>1, <1>2, <1>3, <1>4, <1>5, <1>6, <1>7 DEF v

\* What a decoder sees of a packet in a buffer that holds some of it, or all of
\* it and more.
LEMMA PacketRead ==
  ASSUME NEW header \in Bytes, NEW body \in Seq(Bytes), VarnumLength(Len(body)) # 0,
         NEW buf \in Seq(Bytes), Lies(PacketOf(header, body), buf, 1)
  PROVE  /\ Len(buf) >= 1 => buf[1] = header
         /\ IF Len(buf) >= InFront(body)
              THEN /\ ReadVarnum(buf, 2).err = Success
                   /\ ReadVarnum(buf, 2).value = Len(body)
                   /\ ReadVarnum(buf, 2).next = InFront(body) + 1
                   /\ \A i \in 1..Len(body) : InFront(body) + i <= Len(buf) => buf[InFront(body) + i] = body[i]
              ELSE ReadVarnum(buf, 2).err = TooShort
<1> DEFINE p == PacketOf(header, body)
<1> DEFINE v == VarnumBytes(Len(body))
<1>1. /\ Len(body) \in Nat
      /\ InFront(body) \in Nat /\ InFront(body) >= 2
      /\ Len(v) = InFront(body) - 1
      /\ Len(p) = InFront(body) + Len(body)
      /\ p[1] = header
      /\ \A i \in 1..(InFront(body) - 1) : p[i + 1] = v[i]
      /\ \A i \in 1..Len(body) : p[InFront(body) + i] = body[i]
  BY PacketParts
<1>2. Len(buf) \in Nat
  OBVIOUS
<1>3. \A i \in 1..Len(p) : i <= Len(buf) => buf[i] = p[i]
  <2>1. Lies(p, buf, 1)
    OBVIOUS
  <2> HIDE DEF p
  <2>2. \A i \in 1..Len(p) : 1 + i - 1 = i
    OBVIOUS
  <2> QED BY <2>1, <2>2 DEF Lies
<1> HIDE DEF p, v
<1>4. Lies(v, buf, 2)
  <2>1. ASSUME NEW i \in 1..Len(v), 2 + i - 1 <= Len(buf) PROVE buf[2 + i - 1] = v[i]
    <3>1. 2 + i - 1 = i + 1 /\ i + 1 \in 1..Len(p) /\ i \in 1..(InFront(body) - 1)
      BY <1>1
    <3> QED BY <1>1, <1>3, <2>1, <3>1
  <2> QED BY <2>1 DEF Lies
<1>5. Len(buf) >= 1 => buf[1] = header
  BY <1>1, <1>2, <1>3
<1>6. CASE Len(buf) >= InFront(body)
  <2>1. 2 + Len(v) - 1 <= Len(buf) /\ 2 + Len(v) = InFront(body) + 1
    BY <1>1, <1>2, <1>6
  <2>2. /\ ReadVarnum(buf, 2).err = Success
        /\ ReadVarnum(buf, 2).value = Len(body)
        /\ ReadVarnum(buf, 2).next = InFront(body) + 1
    BY <1>1, <1>4, <2>1, VarnumRead, SMTT(30) DEF v
  <2>3. ASSUME NEW i \in 1..Len(body), InFront(body) + i <= Len(buf)
        PROVE  buf[InFront(body) + i] = body[i]
    <3>1. InFront(body) + i \in 1..Len(p)
      BY <1>1
    <3> QED BY <1>1, <1>3, <2>3, <3>1
  <2> QED BY <1>5, <1>6, <2>2, <2>3
<1>7. CASE ~(Len(buf) >= InFront(body))
  <2>1. ~(2 + Len(v) - 1 <= Len(buf))
    BY <1>1, <1>2, <1>7
  <2>2. ReadVarnum(buf, 2).err = TooShort
    BY <1>1, <1>4, <2>1, VarnumRead DEF v
  <2> QED BY <1>5, <1>7, <2>2
<1> QED BY <1>6, <1>7

\* What the encoders have in common.
LEMMA EncodeGives ==
  ASSUME NEW header \in Bytes, NEW length \in Nat, NEW fields \in Seq(Seq(Bytes)), NEW room
  PROVE  LET e == Encode(header, length, fields, room) IN
           \/ e.err # Success /\ e.bytes = <<>>
           \/ /\ e.err = Success
              /\ VarnumLength(length) # 0
              /\ e.bytes = <<header>> \o VarnumBytes(length) \o FlattenSeq(fields)
<1>1. CASE VarnumLength(length) = 0
  BY <1>1 DEF Encode, Success, LengthOverflow
<1>2. CASE VarnumLength(length) # 0
  <2> DEFINE all == << <<header>>, VarnumBytes(length) >> \o fields
  <2>1. <<header>> \in Seq(Bytes) /\ VarnumBytes(length) \in Seq(Bytes)
    BY <1>2, VarnumBytesType
  <2>2. << <<header>>, VarnumBytes(length) >> \in Seq(Seq(Bytes))
    BY <2>1
  <2>3. FlattenSeq(all) = FlattenSeq(<< <<header>>, VarnumBytes(length) >>) \o FlattenSeq(fields)
    BY <2>2, FlattenConcat
  <2>4. FlattenSeq(<< <<header>>, VarnumBytes(length) >>) = <<header>> \o VarnumBytes(length)
    BY <2>1, FlattenTwo
  <2>5. Encode(header, length, fields, room) = Write(all, room)
    BY <1>2 DEF Encode
  <2> HIDE DEF all
  <2> DEFINE e == Write(all, room)
  <2>6. \/ e.err # Success /\ e.bytes = <<>>
        \/ e.err = Success /\ e.bytes = FlattenSeq(all)
    BY DEF Write, Success, TooShort
  <2> HIDE DEF e
  <2>7. Encode(header, length, fields, room) = e
    BY <2>5 DEF e
  <2> QED BY <1>2, <2>3, <2>4, <2>6, <2>7
<1> QED BY <1>1, <1>2

\* (The prover sees the second in a statement with other sequences, not the first.)
FollowedBy(a, b) == a \o b

LEMMA Associate ==
  \A a, b, c, d \in Seq(Bytes) :
    FollowedBy(FollowedBy(FollowedBy(a, b), c), d) = FollowedBy(FollowedBy(a, b), FollowedBy(c, d))
<1> SUFFICES ASSUME NEW a \in Seq(Bytes), NEW b \in Seq(Bytes),
                    NEW c \in Seq(Bytes), NEW d \in Seq(Bytes)
             PROVE  (a \o b \o c) \o d = a \o b \o (c \o d)
  BY DEF FollowedBy
<1> DEFINE ab == a \o b
<1>1. ab \in Seq(Bytes)
  BY ConcatProperties
<1> HIDE DEF ab
<1>2. (ab \o c) \o d = ab \o (c \o d)
  BY <1>1, ConcatAssociative, SMTT(30)
<1> QED BY <1>2 DEF ab

\* An encoder has failed, or what it has written is with the tail this packet.
SentAs(e, header, body, tail) ==
  /\ body \in Seq(Bytes)
  /\ \/ e.err # Success /\ e.bytes = <<>>
     \/ /\ e.err = Success
        /\ VarnumLength(Len(body)) # 0
        /\ e.bytes \o tail = PacketOf(header, body)

\* When the length that an encoder has computed is that of the fields and of
\* the tail that is sent behind them, what is sent is a packet.
LEMMA EncodeFrames ==
  ASSUME NEW header \in Bytes, NEW fields \in Seq(Seq(Bytes)), NEW tail \in Seq(Bytes), NEW room,
         NEW length \in Nat, length = Len(FlattenSeq(fields)) + Len(tail)
  PROVE  SentAs(Encode(header, length, fields, room), header, FlattenSeq(fields) \o tail, tail)
<1> DEFINE e == Encode(header, length, fields, room)
<1> DEFINE flat == FlattenSeq(fields)
<1>1. flat \in Seq(Bytes)
  BY FlattenType
<1>2. \/ e.err # Success /\ e.bytes = <<>>
      \/ /\ e.err = Success
         /\ VarnumLength(length) # 0
         /\ e.bytes = <<header>> \o VarnumBytes(length) \o flat
  BY EncodeGives
<1> HIDE DEF e, flat
<1>3. length = Len(flat) + Len(tail)
  BY DEF flat
<1>4. flat \o tail \in Seq(Bytes) /\ Len(flat \o tail) = length
  BY <1>1, <1>3, ConcatProperties
<1>5. ASSUME VarnumLength(length) # 0
      PROVE  (<<header>> \o VarnumBytes(length) \o flat) \o tail = PacketOf(header, flat \o tail)
  <2>1. <<header>> \in Seq(Bytes) /\ VarnumBytes(length) \in Seq(Bytes)
    BY <1>5, VarnumBytesType
  <2> DEFINE h == <<header>>
  <2> DEFINE v == VarnumBytes(length)
  <2>2. h \in Seq(Bytes) /\ v \in Seq(Bytes)
    BY <2>1
  <2>3. PacketOf(header, flat \o tail) = h \o v \o (flat \o tail)
    BY <1>4 DEF PacketOf
  <2> HIDE DEF h, v
  <2>4. (h \o v \o flat) \o tail = h \o v \o (flat \o tail)
    <3>1. h \in Seq(Bytes) /\ v \in Seq(Bytes) /\ flat \in Seq(Bytes) /\ tail \in Seq(Bytes)
      BY <1>1, <2>2
    <3>2. FollowedBy(FollowedBy(FollowedBy(h, v), flat), tail) = FollowedBy(FollowedBy(h, v), FollowedBy(flat, tail))
      BY <3>1, Associate
    <3> QED BY <3>2 DEF FollowedBy
  <2> QED BY <2>3, <2>4 DEF h, v
<1> QED BY <1>2, <1>4, <1>5 DEF SentAs, e, flat

LEMMA FlattenJoin ==
  ASSUME NEW s \in Seq(Seq(Bytes)), NEW t \in Seq(Seq(Bytes))
  PROVE  /\ s \o t \in Seq(Seq(Bytes))
         /\ FlattenSeq(s \o t) = FlattenSeq(s) \o FlattenSeq(t)
         /\ FlattenSeq(s) \in Seq(Bytes) /\ FlattenSeq(t) \in Seq(Bytes)
         /\ FlattenSeq(s \o t) \in Seq(Bytes)
         /\ Len(FlattenSeq(s \o t)) = Len(FlattenSeq(s)) + Len(FlattenSeq(t))
<1>1. s \o t \in Seq(Seq(Bytes))
  BY ConcatProperties
<1> DEFINE fs == FlattenSeq(s)
<1> DEFINE ft == FlattenSeq(t)
<1>2. fs \in Seq(Bytes) /\ ft \in Seq(Bytes)
  BY FlattenType
<1>3. FlattenSeq(s \o t) = fs \o ft
  BY FlattenConcat
<1> HIDE DEF fs, ft
<1>4. fs \o ft \in Seq(Bytes) /\ Len(fs \o ft) = Len(fs) + Len(ft)
  BY <1>2, ConcatProperties
<1> QED BY <1>1, <1>2, <1>3, <1>4 DEF fs, ft

LEMMA WordRange == \A n : n \in Words <=> n \in Int /\ 0 <= n /\ n <= 65535
<1>1. 2^16 = 65536
  OBVIOUS
<1> QED BY <1>1 DEF Words

LEMMA NumBytes ==
  ASSUME NEW n \in Words
  PROVE  /\ Num(n) \in Seq(Bytes) /\ Len(Num(n)) = 2
         /\ 256 * Num(n)[1] + Num(n)[2] = n
<1>1. n \div 256 \in 0..255 /\ n % 256 \in 0..255 /\ 256 * (n \div 256) + (n % 256) = n
  <2>1. n \in Int /\ 0 <= n /\ n <= 65535
    BY WordRange
  <2>2. n \div 256 \in Int /\ n % 256 \in 0..255 /\ n = 256 * (n \div 256) + (n % 256)
    BY <2>1
  <2> QED BY <2>1, <2>2
<1>2. Num(n) = <<n \div 256, n % 256>>
  BY DEF Num
<1>3. \A a, b \in 0..255 : /\ <<a, b>> \in Seq(Bytes) /\ Len(<<a, b>>) = 2
                           /\ <<a, b>>[1] = a /\ <<a, b>>[2] = b
  BY DEF Bytes
<1> DEFINE a == n \div 256
<1> DEFINE b == n % 256
<1>4. a \in 0..255 /\ b \in 0..255 /\ 256 * a + b = n /\ Num(n) = <<a, b>>
  BY <1>1, <1>2
<1> HIDE DEF a, b
<1>5. /\ <<a, b>> \in Seq(Bytes) /\ Len(<<a, b>>) = 2
      /\ <<a, b>>[1] = a /\ <<a, b>>[2] = b
  BY <1>3, <1>4
<1> QED BY <1>4, <1>5

\* A string on the wire.
Stretch(s) == Num(Len(s)) \o s

LEMMA StrFields ==
  ASSUME NEW s \in Seq(Bytes), Len(s) \in Words
  PROVE  /\ Str(s) \in Seq(Seq(Bytes))
         /\ FlattenSeq(Str(s)) = Stretch(s)
         /\ Stretch(s) \in Seq(Bytes)
         /\ Len(Stretch(s)) = Len(s) + 2
<1>1. Len(s) \in Nat
  BY LenProperties
<1> DEFINE n == Num(Len(s))
<1>2. n \in Seq(Bytes) /\ Len(n) = 2
  BY NumBytes
<1>3. Str(s) = <<n, s>> /\ Stretch(s) = n \o s
  BY DEF Str, Stretch
<1> HIDE DEF n
<1>4. <<n, s>> \in Seq(Seq(Bytes))
  BY <1>2
<1>5. FlattenSeq(<<n, s>>) = n \o s
  BY <1>2, FlattenTwo
<1>6. n \o s \in Seq(Bytes) /\ Len(n \o s) = Len(n) + Len(s)
  BY <1>2, ConcatProperties
<1>7. Len(n \o s) = Len(s) + 2
  BY <1>1, <1>2, <1>6
<1> QED BY <1>3, <1>4, <1>5, <1>6, <1>7, Zenon

=============================================================================
