-------------------------- MODULE IteratorsProofs ---------------------------
(***************************************************************************)
(* Proofs about Iterators, for any keys, chain of leaves, blocks and sizes.*)
(* An iterator is a leaf, a block and a slot; what is proved of it is said *)
(* in terms of its place, the number of points before it: each of the steps*)
(* over leaves without blocks and blocks without points moves the place by *)
(* one, and each lookup comes to the place of its key.                     *)
(***************************************************************************)
EXTENDS Iterators, NumberProofs

----------------------------------------------------------------------------
(* Sequences joined.                                                       *)
FirstOf(ss, m) == [i \in 1..m |-> ss[i]]

JoinedTo(ss, m) == FlattenSeq(FirstOf(ss, m))

Sequences(ss, n, S) == \A i \in 1..n : ss[i] \in Seq(S)

Flattens(f, ss, n, S) ==
  /\ f \in [Nat -> Seq(S)]
  /\ f[0] = <<>>
  /\ \A m \in 1..n : f[m] = f[m - 1] \o ss[m]
  /\ \A m \in 0..n : JoinedTo(ss, m) = f[m]

(* FlattenSeq of the first ones is the recursion that appends one more.    *)
LEMMA FlattenIs ==
  ASSUME NEW S, NEW n \in Nat, NEW ss, Sequences(ss, n, S)
  PROVE  \E f : Flattens(f, ss, n, S)
<1> DEFINE V == Seq(S)
           g == [p \in Nat \X V |-> IF p[1] \in 1..n THEN p[2] \o ss[p[1]] ELSE p[2]]
<1> USE DEF Sequences
<1>1. g \in [Nat \X V -> V] /\ <<>> \in V
  OBVIOUS
<1>2. \A m \in Nat, v \in V : g[<<m, v>>] = IF m \in 1..n THEN v \o ss[m] ELSE v
  OBVIOUS
<1> HIDE DEF g, V
<1>3. PICK f : Recurs(f, V, <<>>, g)
  BY <1>1, Recursion
<1>4. f \in [Nat -> V] /\ f[0] = <<>> /\ \A m \in Nat : f[m + 1] = g[<<m + 1, f[m]>>]
  BY <1>3 DEF Recurs
<1>5. \A m \in 1..n : f[m] = f[m - 1] \o ss[m]
  <2> TAKE m \in 1..n
  <2>1. m - 1 \in Nat /\ (m - 1) + 1 = m /\ m \in Nat
    OBVIOUS
  <2>2. f[m] = g[<<m, f[m - 1]>>] /\ f[m - 1] \in V
    BY <1>4, <2>1
  <2> QED  BY <1>2, <2>1, <2>2
<1>6. ASSUME NEW m \in 0..n
      PROVE  JoinedTo(ss, m) = f[m]
  <2> DEFINE P == FirstOf(ss, m)
             Is(h) == h = [i \in 1..m |-> IF i = 1 THEN P[i] ELSE h[i - 1] \o P[i]]
  <2>1. Len(P) = m /\ \A i \in 1..m : P[i] = ss[i]
    <3>1. P = [i \in 1..m |-> ss[i]] /\ \A i \in 1..m : P[i] = ss[i]
      BY DEF FirstOf
    <3> HIDE DEF P
    <3>2. P = [i \in 1..m |-> P[i]] /\ m \in Nat
      BY <3>1
    <3> QED  BY <3>1, <3>2, LengthIs
  <2>2. CASE m = 0
    <3>1. P = <<>>
      BY <2>2 DEF FirstOf
    <3>2. JoinedTo(ss, m) = P
      BY <2>1, <2>2 DEF JoinedTo, FlattenSeq
    <3> QED  BY <1>4, <2>2, <3>1, <3>2
  <2>3. CASE m > 0
    <3> DEFINE h == [i \in 1..m |-> f[i]]
    <3>1. Is(h)
      <4>1. ASSUME NEW i \in 1..m
            PROVE  h[i] = IF i = 1 THEN P[i] ELSE h[i - 1] \o P[i]
        <5>0. i \in 1..n /\ h[i] = f[i]
          OBVIOUS
        <5> HIDE DEF P, h
        <5>1. f[i] = f[i - 1] \o ss[i] /\ P[i] = ss[i]
          BY <1>5, <2>1, <5>0
        <5>2. CASE i = 1
          <6>1. f[i - 1] = <<>> /\ ss[i] \in Seq(S)
            BY <1>4, <5>1, <5>2
          <6>2. <<>> \o ss[i] = ss[i]
            BY <6>1
          <6> QED  BY <5>0, <5>1, <5>2, <6>1, <6>2
        <5>3. CASE i # 1
          <6>1. i - 1 \in 1..m /\ h[i - 1] = f[i - 1]
            BY <5>3 DEF h
          <6> QED  BY <5>0, <5>1, <5>3, <6>1
        <5> QED  BY <5>2, <5>3
      <4>2. h = [i \in 1..m |-> h[i]]
        OBVIOUS
      <4> HIDE DEF h, P
      <4>3. h = [i \in 1..m |-> IF i = 1 THEN P[i] ELSE h[i - 1] \o P[i]]
        BY <4>1, <4>2
      <4> QED  BY <4>3
    <3> DEFINE c == CHOOSE x : Is(x)
    <3>2. Is(c)
      BY <3>1
    <3> HIDE DEF h, P
    <3>3. c = [i \in 1..m |-> IF i = 1 THEN P[i] ELSE c[i - 1] \o P[i]]
      BY <3>2
    <3>4. \A i \in 1..m : c[i] = IF i = 1 THEN P[i] ELSE c[i - 1] \o P[i]
      BY <3>3
    <3> DEFINE T == {d \in Nat : d + 1 <= m => c[d + 1] = f[d + 1]}
    <3>5. 0 \in T
      <4>1. 1 \in 1..m /\ 1 \in 1..n
        BY <2>3
      <4>2. c[1] = IF 1 = 1 THEN P[1] ELSE c[1 - 1] \o P[1]
        BY <3>4, <4>1
      <4>3. c[1] = P[1] /\ P[1] = ss[1]
        BY <2>1, <4>1, <4>2
      <4>4. f[1] = f[1 - 1] \o ss[1] /\ ss[1] \in Seq(S)
        BY <1>5, <4>1
      <4>5. c[1] = P[1] /\ P[1] = ss[1] /\ f[1] = f[0] \o ss[1] /\ ss[1] \in Seq(S)
        BY <4>3, <4>4
      <4>6. <<>> \o ss[1] = ss[1]
        BY <4>5
      <4> QED  BY <1>4, <4>5, <4>6
    <3>6. ASSUME NEW d \in Nat, d \in T
          PROVE  d + 1 \in T
      <4> SUFFICES ASSUME d + 2 <= m PROVE c[d + 2] = f[d + 2]
        OBVIOUS
      <4>1. d + 2 \in 1..m /\ d + 2 \in 1..n /\ d + 2 # 1 /\ (d + 2) - 1 = d + 1
        OBVIOUS
      <4>2. c[d + 1] = f[d + 1]
        BY <3>6
      <4>3. c[d + 2] = c[d + 1] \o P[d + 2] /\ f[d + 2] = f[d + 1] \o ss[d + 2]
            /\ P[d + 2] = ss[d + 2]
        BY <1>5, <2>1, <3>4, <4>1
      <4> QED  BY <4>2, <4>3
    <3>7. Nat \subseteq T
      <4> HIDE DEF T
      <4> QED  BY <3>5, <3>6, Induction
    <3>8. c[m] = f[m]
      <4>1. m - 1 \in Nat /\ (m - 1) + 1 = m
        BY <2>3
      <4>2. m - 1 \in T
        BY <3>7, <4>1
      <4> QED  BY <4>1, <4>2
    <3>9. JoinedTo(ss, m) = c[m]
      BY <2>1, <2>3 DEF JoinedTo, FlattenSeq, P
    <3> QED  BY <3>8, <3>9
  <2> QED  BY <2>2, <2>3
<1>7. f \in [Nat -> Seq(S)]
  BY <1>4 DEF V
<1> QED  BY <1>4, <1>5, <1>6, <1>7 DEF Flattens

(* How many elements the first m sequences have.                           *)
Upto(ss, m) == Len(JoinedTo(ss, m))

Joins(ss, n, S) ==
  /\ \A m \in 0..n : JoinedTo(ss, m) \in Seq(S) /\ Upto(ss, m) \in Nat
  /\ Upto(ss, 0) = 0
  /\ \A m \in 1..n :
       /\ JoinedTo(ss, m) = JoinedTo(ss, m - 1) \o ss[m]
       /\ Upto(ss, m) = Upto(ss, m - 1) + Len(ss[m])
       /\ ss[m] \in Seq(S) /\ Len(ss[m]) \in Nat

LEMMA JoinIs ==
  ASSUME NEW S, NEW n \in Nat, NEW ss, Sequences(ss, n, S)
  PROVE  Joins(ss, n, S)
<1>0. PICK f : Flattens(f, ss, n, S)
  BY FlattenIs
<1>1. /\ f \in [Nat -> Seq(S)]
      /\ f[0] = <<>>
      /\ \A m \in 1..n : f[m] = f[m - 1] \o ss[m]
      /\ \A m \in 0..n : JoinedTo(ss, m) = f[m]
  BY <1>0 DEF Flattens
<1> USE DEF Sequences
<1>2. \A m \in 0..n : JoinedTo(ss, m) \in Seq(S) /\ Upto(ss, m) \in Nat
  BY <1>1 DEF Upto
<1>3. JoinedTo(ss, 0) = <<>>
  BY <1>1
<1>4. ASSUME NEW m \in 1..n
      PROVE  /\ JoinedTo(ss, m) = JoinedTo(ss, m - 1) \o ss[m]
             /\ Upto(ss, m) = Upto(ss, m - 1) + Len(ss[m])
  <2>1. m \in 0..n /\ m - 1 \in 0..n
    OBVIOUS
  <2>2. JoinedTo(ss, m) = JoinedTo(ss, m - 1) \o ss[m]
    BY <1>1, <2>1
  <2>3. JoinedTo(ss, m - 1) \in Seq(S) /\ ss[m] \in Seq(S)
    BY <1>2, <2>1
  <2>4. Len(JoinedTo(ss, m - 1) \o ss[m]) = Len(JoinedTo(ss, m - 1)) + Len(ss[m])
    BY <2>3
  <2> QED  BY <2>2, <2>4 DEF Upto
<1>5. \A m \in 1..n : ss[m] \in Seq(S) /\ Len(ss[m]) \in Nat
  OBVIOUS
<1>6. Upto(ss, 0) = 0
  BY <1>3 DEF Upto
<1> QED  BY <1>2, <1>4, <1>5, <1>6 DEF Joins

(* Behind sequences that are empty there are as many as before them.       *)
AreEmpty(ss, l, m) == \A i \in l + 1..m : Len(ss[i]) = 0

LEMMA UptoRises ==
  ASSUME NEW S, NEW n \in Nat, NEW ss, Sequences(ss, n, S),
         NEW l \in 0..n, NEW m \in 0..n, l <= m
  PROVE  /\ Upto(ss, l) <= Upto(ss, m)
         /\ AreEmpty(ss, l, m) => Upto(ss, l) = Upto(ss, m)
<1>0. Joins(ss, n, S)
  BY JoinIs
<1> DEFINE T == {d \in Nat : l + d <= m =>
                   /\ Upto(ss, l) <= Upto(ss, l + d)
                   /\ (\A i \in l + 1..l + d : Len(ss[i]) = 0)
                        => Upto(ss, l) = Upto(ss, l + d)}
<1>1. 0 \in T
  <2>1. Upto(ss, l) \in Nat /\ l + 0 = l
    BY <1>0 DEF Joins
  <2> QED  BY <2>1
<1>2. ASSUME NEW d \in Nat, d \in T
      PROVE  d + 1 \in T
  <2> SUFFICES ASSUME l + (d + 1) <= m
               PROVE  /\ Upto(ss, l) <= Upto(ss, l + (d + 1))
                      /\ (\A i \in l + 1..l + (d + 1) : Len(ss[i]) = 0)
                           => Upto(ss, l) = Upto(ss, l + (d + 1))
    OBVIOUS
  <2>1. l + (d + 1) \in 1..n /\ (l + (d + 1)) - 1 = l + d /\ l + d \in 0..n /\ l + d <= m
        /\ l + (d + 1) \in l + 1..l + (d + 1) /\ l + 1..l + d \subseteq l + 1..l + (d + 1)
    OBVIOUS
  <2>2. Upto(ss, l + (d + 1)) = Upto(ss, l + d) + Len(ss[l + (d + 1)])
    BY <2>1, <1>0 DEF Joins
  <2>3. Upto(ss, l) \in Nat /\ Upto(ss, l + d) \in Nat /\ Len(ss[l + (d + 1)]) \in Nat
    BY <2>1, <1>0 DEF Joins
  <2>4. /\ Upto(ss, l) <= Upto(ss, l + d)
        /\ (\A i \in l + 1..l + d : Len(ss[i]) = 0) => Upto(ss, l) = Upto(ss, l + d)
    BY <1>2, <2>1
  <2> QED  BY <2>1, <2>2, <2>3, <2>4
<1>3. Nat \subseteq T
  <2> HIDE DEF T
  <2> QED  BY <1>1, <1>2, Induction
<1>4. m - l \in Nat /\ l + (m - l) = m
  OBVIOUS
<1>5. m - l \in T
  BY <1>3, <1>4
<1> QED  BY <1>4, <1>5 DEF AreEmpty

(* Where an element of one of the sequences is.                            *)
Lies(ss, n, m, s) ==
  /\ Upto(ss, m - 1) + s \in 1..Upto(ss, n)
  /\ JoinedTo(ss, n)[Upto(ss, m - 1) + s] = ss[m][s]

LEMMA JoinedAt ==
  ASSUME NEW S, NEW n \in Nat, NEW ss, Sequences(ss, n, S),
         NEW m \in 1..n, NEW s \in 1..Len(ss[m])
  PROVE  Lies(ss, n, m, s)
<1>0. Joins(ss, n, S)
  BY JoinIs
<1> DEFINE at == Upto(ss, m - 1) + s
           T == {d \in Nat : m + d <= n =>
                   at \in 1..Upto(ss, m + d) /\ JoinedTo(ss, m + d)[at] = ss[m][s]}
<1>1. /\ Upto(ss, m - 1) \in Nat /\ Len(ss[m]) \in Nat /\ m - 1 \in 0..n
      /\ Upto(ss, m) = Upto(ss, m - 1) + Len(ss[m])
      /\ JoinedTo(ss, m - 1) \in Seq(S)
      /\ JoinedTo(ss, m) = JoinedTo(ss, m - 1) \o ss[m]
      /\ ss[m] \in Seq(S)
  <2>1. m - 1 \in 0..n
    OBVIOUS
  <2> QED  BY <1>0, <2>1 DEF Joins
<1>2. 0 \in T
  <2>1. at \in 1..Upto(ss, m)
    BY <1>1
  <2>2. (JoinedTo(ss, m - 1) \o ss[m])[at] = ss[m][s]
    <3>1. at \in 1..Len(JoinedTo(ss, m - 1)) + Len(ss[m]) /\ at > Len(JoinedTo(ss, m - 1))
          /\ at - Len(JoinedTo(ss, m - 1)) = s
      BY <1>1 DEF Upto
    <3> HIDE DEF at
    <3> QED  BY <1>1, <3>1, ConcatProperties
  <2>3. m + 0 = m
    OBVIOUS
  <2> QED  BY <1>1, <2>1, <2>2, <2>3
<1>3. ASSUME NEW d \in Nat, d \in T
      PROVE  d + 1 \in T
  <2> SUFFICES ASSUME m + (d + 1) <= n
               PROVE  at \in 1..Upto(ss, m + (d + 1)) /\ JoinedTo(ss, m + (d + 1))[at] = ss[m][s]
    OBVIOUS
  <2>1. m + (d + 1) \in 1..n /\ (m + (d + 1)) - 1 = m + d /\ m + d \in 0..n /\ m + d <= n
    OBVIOUS
  <2>2. /\ at \in 1..Upto(ss, m + d) /\ JoinedTo(ss, m + d)[at] = ss[m][s]
    BY <1>3, <2>1
  <2>3. /\ Upto(ss, m + (d + 1)) = Upto(ss, m + d) + Len(ss[m + (d + 1)])
        /\ JoinedTo(ss, m + (d + 1)) = JoinedTo(ss, m + d) \o ss[m + (d + 1)]
        /\ JoinedTo(ss, m + d) \in Seq(S) /\ ss[m + (d + 1)] \in Seq(S)
        /\ Len(ss[m + (d + 1)]) \in Nat
    BY <2>1, <1>0 DEF Joins
  <2> HIDE DEF at
  <2>4. (JoinedTo(ss, m + d) \o ss[m + (d + 1)])[at] = JoinedTo(ss, m + d)[at]
    <3>1. at \in 1..Len(JoinedTo(ss, m + d)) + Len(ss[m + (d + 1)])
          /\ at <= Len(JoinedTo(ss, m + d))
      <4>1. Upto(ss, m + d) = Len(JoinedTo(ss, m + d)) /\ Upto(ss, m + d) \in Nat
        BY <1>0, <2>1 DEF Joins, Upto
      <4> DEFINE w == Len(JoinedTo(ss, m + d))
                 v == Len(ss[m + (d + 1)])
      <4>2. at \in 1..w /\ w \in Nat /\ v \in Nat
        BY <2>2, <2>3, <4>1
      <4> HIDE DEF w, v
      <4>3. at \in 1..w + v /\ at <= w
        BY ONLY <4>2
      <4> QED  BY <4>3 DEF w, v
    <3> QED  BY <2>3, <3>1, ConcatProperties
  <2>5. at \in 1..Upto(ss, m + (d + 1))
    <3>1. Upto(ss, m + d) \in Nat
      BY <2>1, <1>0 DEF Joins
    <3> QED  BY <2>2, <2>3, <3>1
  <2> QED  BY <2>2, <2>3, <2>4, <2>5
<1>4. Nat \subseteq T
  <2> HIDE DEF T
  <2> QED  BY <1>2, <1>3, Induction
<1>5. n - m \in T /\ m + (n - m) = n
  BY <1>4
<1> QED  BY <1>5 DEF Lies

LEMMA JoinedFrom ==
  ASSUME NEW S, NEW n \in Nat, NEW ss, Sequences(ss, n, S),
         NEW j \in 1..Upto(ss, n)
  PROVE  \E m \in 1..n : \E s \in 1..Len(ss[m]) : j = Upto(ss, m - 1) + s
<1>0. Joins(ss, n, S)
  BY JoinIs
<1> DEFINE Found(m) == \E l \in 1..m : \E s \in 1..Len(ss[l]) : j = Upto(ss, l - 1) + s
           T == {m \in Nat : m <= n /\ j <= Upto(ss, m) => Found(m)}
<1>1. 0 \in T
  <2>1. Upto(ss, 0) = 0
    BY <1>0 DEF Joins
  <2> QED  BY <2>1
<1>2. ASSUME NEW m \in Nat, m \in T
      PROVE  m + 1 \in T
  <2> SUFFICES ASSUME m + 1 <= n, j <= Upto(ss, m + 1) PROVE Found(m + 1)
    OBVIOUS
  <2>1. m + 1 \in 1..n /\ (m + 1) - 1 = m /\ m \in 0..n /\ m <= n /\ 1..m \subseteq 1..m + 1
        /\ m + 1 \in 1..m + 1
    OBVIOUS
  <2>2. Upto(ss, m + 1) = Upto(ss, m) + Len(ss[m + 1]) /\ Upto(ss, m) \in Nat
        /\ Len(ss[m + 1]) \in Nat
    BY <2>1, <1>0 DEF Joins
  <2>3. CASE j <= Upto(ss, m)
    <3>1. Found(m)
      BY <1>2, <2>1, <2>3
    <3> QED  BY <2>1, <3>1
  <2>4. CASE ~ (j <= Upto(ss, m))
    <3> DEFINE s == j - Upto(ss, m)
    <3>1. s \in 1..Len(ss[m + 1]) /\ j = Upto(ss, (m + 1) - 1) + s
      BY <2>1, <2>2, <2>4
    <3> HIDE DEF s
    <3> QED  BY <2>1, <3>1
  <2> QED  BY <2>3, <2>4
<1>3. Nat \subseteq T
  <2> HIDE DEF T
  <2> QED  BY <1>1, <1>2, Induction
<1>4. n \in T /\ j <= Upto(ss, n)
  <2>1. Upto(ss, n) \in Nat
    BY <1>0 DEF Joins
  <2> QED  BY <1>3, <2>1
<1> QED  BY <1>4

----------------------------------------------------------------------------
(* The points of a chain of leaves, and how many there are before a place. *)
Shaped(lf) ==
  /\ lf \in [1..Leaves -> [blocks : Seq(Seq(Key)), slotkeys : Seq(Nat)]]
  /\ \A i \in 1..Leaves :
       /\ Len(lf[i].blocks) <= MaxBlockNum
       /\ \A b \in 1..Len(lf[i].blocks) : Len(lf[i].blocks[b]) <= Cap

NumIn(lf, i) == IF i \in 1..Leaves THEN Len(lf[i].blocks) ELSE 0

SizeIn(lf, i, b) == IF b < NumIn(lf, i) THEN Len(lf[i].blocks[b + 1]) ELSE 0

ByLeaf(lf) == [i \in 1..Leaves |-> FlattenSeq(lf[i].blocks)]

PointsIn(lf) == FlattenSeq(ByLeaf(lf))

Before(lf, i, b) == Upto(ByLeaf(lf), i - 1) + Upto(lf[i].blocks, b)

LEMMA FirstOfAll ==
  ASSUME NEW n \in Nat, NEW ss, ss = [i \in 1..n |-> ss[i]]
  PROVE  JoinedTo(ss, n) = FlattenSeq(ss) /\ Upto(ss, n) = Len(FlattenSeq(ss))
BY DEF JoinedTo, FirstOf, Upto

LEMMA UptoNone ==
  ASSUME NEW ss
  PROVE  Upto(ss, 0) = 0
<1>1. Sequences(ss, 0, {}) /\ 0 \in Nat
  BY DEF Sequences
<1>2. Joins(ss, 0, {})
  BY <1>1, JoinIs
<1> QED  BY <1>2 DEF Joins

LEMMA LeafJoins ==
  ASSUME NEW lf, Shaped(lf), NEW i \in 1..Leaves
  PROVE  /\ NumIn(lf, i) = Len(lf[i].blocks) /\ NumIn(lf, i) \in 0..MaxBlockNum
         /\ Sequences(lf[i].blocks, NumIn(lf, i), Key)
         /\ Joins(lf[i].blocks, NumIn(lf, i), Key)
         /\ ByLeaf(lf)[i] = JoinedTo(lf[i].blocks, NumIn(lf, i))
         /\ ByLeaf(lf)[i] \in Seq(Key)
         /\ Len(ByLeaf(lf)[i]) = Upto(lf[i].blocks, NumIn(lf, i))
<1> DEFINE B == lf[i].blocks
           n == Len(B)
<1>0. Leaves \in Nat /\ MaxBlockNum \in Nat
  BY SizesAssumption
<1>1. B \in Seq(Seq(Key)) /\ n \in Nat /\ n <= MaxBlockNum
  BY DEF Shaped
<1>2. NumIn(lf, i) = n /\ ByLeaf(lf)[i] = FlattenSeq(B)
  BY DEF NumIn, ByLeaf
<1> HIDE DEF B
<1>3. Sequences(B, n, Key)
  BY <1>1 DEF Sequences
<1>4. B = [j \in 1..n |-> B[j]]
  BY <1>1
<1> HIDE DEF n
<1>5. Joins(B, n, Key)
  BY <1>1, <1>3, JoinIs
<1>6. JoinedTo(B, n) = FlattenSeq(B) /\ Upto(B, n) = Len(FlattenSeq(B))
  BY <1>1, <1>4, FirstOfAll
<1>7. JoinedTo(B, n) \in Seq(Key)
  BY <1>1, <1>5 DEF Joins
<1>8. n \in 0..MaxBlockNum
  BY <1>0, <1>1
<1> QED  BY <1>2, <1>3, <1>5, <1>6, <1>7, <1>8 DEF B, n

LEMMA MapJoins ==
  ASSUME NEW lf, Shaped(lf)
  PROVE  /\ Sequences(ByLeaf(lf), Leaves, Key)
         /\ Joins(ByLeaf(lf), Leaves, Key)
         /\ PointsIn(lf) = JoinedTo(ByLeaf(lf), Leaves)
         /\ PointsIn(lf) \in Seq(Key)
         /\ Len(PointsIn(lf)) = Upto(ByLeaf(lf), Leaves)
<1>0. Leaves \in Nat
  BY SizesAssumption
<1>1. Sequences(ByLeaf(lf), Leaves, Key)
  BY LeafJoins DEF Sequences
<1>2. Joins(ByLeaf(lf), Leaves, Key)
  BY <1>0, <1>1, JoinIs
<1>3. ByLeaf(lf) = [i \in 1..Leaves |-> ByLeaf(lf)[i]]
  BY DEF ByLeaf
<1>4. JoinedTo(ByLeaf(lf), Leaves) = PointsIn(lf) /\ Upto(ByLeaf(lf), Leaves) = Len(PointsIn(lf))
  BY <1>0, <1>3, FirstOfAll DEF PointsIn
<1>5. JoinedTo(ByLeaf(lf), Leaves) \in Seq(Key)
  BY <1>0, <1>2 DEF Joins
<1> QED  BY <1>1, <1>2, <1>4, <1>5

(* Places of the chain: a block, or behind the last block of a leaf.       *)
IsPlace(lf, i, b) == i \in 1..Leaves + 1 /\ b \in 0..NumIn(lf, i)

LEMMA PlaceIs ==
  ASSUME NEW lf, Shaped(lf), NEW i, NEW b, IsPlace(lf, i, b)
  PROVE  /\ i \in Nat /\ b \in Nat /\ NumIn(lf, i) \in Nat
         /\ Upto(ByLeaf(lf), i - 1) \in Nat /\ Upto(lf[i].blocks, b) \in Nat
         /\ Before(lf, i, b) \in Nat
         /\ SizeIn(lf, i, b) \in 0..Cap
         /\ i = Leaves + 1 => b = 0
<1>0. Leaves \in Nat /\ Cap \in Nat
  BY SizesAssumption
<1>1. i \in Nat /\ i - 1 \in 0..Leaves
  BY <1>0 DEF IsPlace
<1>2. Upto(ByLeaf(lf), i - 1) \in Nat
  BY <1>1, MapJoins DEF Joins
<1>3. CASE i \in 1..Leaves
  <2>1. NumIn(lf, i) = Len(lf[i].blocks) /\ NumIn(lf, i) \in Nat /\ b \in 0..NumIn(lf, i)
    BY <1>3, LeafJoins DEF IsPlace
  <2>2. Upto(lf[i].blocks, b) \in Nat
    BY <1>3, <2>1, LeafJoins DEF Joins
  <2>3. SizeIn(lf, i, b) \in 0..Cap
    <3>1. CASE b < NumIn(lf, i)
      <4>1. b + 1 \in 1..Len(lf[i].blocks) /\ lf[i].blocks \in Seq(Seq(Key))
        BY <1>3, <2>1, <3>1 DEF Shaped
      <4>2. Len(lf[i].blocks[b + 1]) <= Cap
        BY <1>3, <4>1 DEF Shaped
      <4>3. lf[i].blocks[b + 1] \in Seq(Key)
        BY <4>1
      <4>4. Len(lf[i].blocks[b + 1]) \in Nat
        BY <4>3
      <4> QED  BY <1>0, <3>1, <4>2, <4>4 DEF SizeIn
    <3>2. CASE ~ (b < NumIn(lf, i))
      BY <1>0, <3>2 DEF SizeIn
    <3> QED  BY <3>1, <3>2
  <2> QED  BY <1>0, <1>1, <1>2, <1>3, <2>1, <2>2, <2>3 DEF Before
<1>4. CASE i = Leaves + 1
  <2>1. NumIn(lf, i) = 0 /\ b = 0
    BY <1>0, <1>4 DEF NumIn, IsPlace
  <2>2. Upto(lf[i].blocks, b) = 0
    BY <2>1, UptoNone
  <2>3. SizeIn(lf, i, b) = 0
    BY <2>1 DEF SizeIn
  <2> QED  BY <1>0, <1>1, <1>2, <2>1, <2>2, <2>3 DEF Before
<1> QED  BY <1>0, <1>3, <1>4 DEF IsPlace

LEMMA BeforeIs ==
  ASSUME NEW lf, Shaped(lf), NEW i \in 1..Leaves
  PROVE  /\ \A b \in 0..NumIn(lf, i) - 1 :
              Before(lf, i, b + 1) = Before(lf, i, b) + SizeIn(lf, i, b)
         /\ Before(lf, i, NumIn(lf, i)) = Before(lf, i + 1, 0)
<1> DEFINE B == lf[i].blocks
           n == NumIn(lf, i)
<1>0. Leaves \in Nat
  BY SizesAssumption
<1>1. n \in Nat /\ Joins(B, n, Key) /\ Len(ByLeaf(lf)[i]) = Upto(B, n)
  BY LeafJoins
<1>2. ASSUME NEW b \in 0..n - 1
      PROVE  Before(lf, i, b + 1) = Before(lf, i, b) + SizeIn(lf, i, b)
  <2>1. b + 1 \in 1..n /\ (b + 1) - 1 = b /\ b < n /\ IsPlace(lf, i, b) /\ b \in 0..n
    BY <1>0, <1>1 DEF IsPlace
  <2>2. SizeIn(lf, i, b) = Len(B[b + 1])
    BY <2>1 DEF SizeIn
  <2>3. Upto(B, b + 1) = Upto(B, b) + Len(B[b + 1]) /\ Upto(B, b) \in Nat /\ Len(B[b + 1]) \in Nat
    BY <1>1, <2>1 DEF Joins
  <2>4. Upto(ByLeaf(lf), i - 1) \in Nat
    BY <2>1, PlaceIs
  <2> HIDE DEF B, n
  <2>5. Before(lf, i, b + 1) = Upto(ByLeaf(lf), i - 1) + Upto(B, b + 1)
        /\ Before(lf, i, b) = Upto(ByLeaf(lf), i - 1) + Upto(B, b)
    BY DEF Before, B
  <2> QED  BY <2>2, <2>3, <2>4, <2>5
<1>3. Before(lf, i, n) = Before(lf, i + 1, 0)
  <2>1. Upto(ByLeaf(lf), i) = Upto(ByLeaf(lf), i - 1) + Len(ByLeaf(lf)[i])
        /\ Upto(ByLeaf(lf), i) \in Nat
    <3>1. Joins(ByLeaf(lf), Leaves, Key) /\ i \in 0..Leaves
      BY <1>0, MapJoins
    <3> QED  BY <3>1 DEF Joins
  <2>2. Upto(lf[i + 1].blocks, 0) = 0 /\ (i + 1) - 1 = i
    BY <1>0, UptoNone
  <2> QED  BY <1>1, <2>1, <2>2 DEF Before
<1> QED  BY <1>2, <1>3

LEMMA EndsAre ==
  ASSUME NEW lf, Shaped(lf)
  PROVE  Before(lf, 1, 0) = 0 /\ Before(lf, Leaves + 1, 0) = Len(PointsIn(lf))
<1>0. Leaves \in Nat /\ (Leaves + 1) - 1 = Leaves /\ 1 - 1 = 0
  BY SizesAssumption
<1>1. Upto(lf[1].blocks, 0) = 0 /\ Upto(lf[Leaves + 1].blocks, 0) = 0 /\ Upto(ByLeaf(lf), 0) = 0
  BY UptoNone
<1>2. Len(PointsIn(lf)) = Upto(ByLeaf(lf), Leaves) /\ Len(PointsIn(lf)) \in Nat
  BY MapJoins
<1> QED  BY <1>0, <1>1, <1>2 DEF Before

(* Nothing lies between two places.                                        *)
Empties(lf, i, b, j, c) ==
  \A k \in 1..Leaves : \A d \in 0..NumIn(lf, k) - 1 :
    Precedes(<<i, b>>, <<k, d>>) /\ Precedes(<<k, d>>, <<j, c>>) => SizeIn(lf, k, d) = 0

LEMMA PrecedesIs ==
  ASSUME NEW i, NEW b, NEW j, NEW c
  PROVE  Precedes(<<i, b>>, <<j, c>>) <=> i < j \/ (i = j /\ b < c)
BY DEF Precedes

LEMMA RisesInLeaf ==
  ASSUME NEW lf, Shaped(lf), NEW i \in 1..Leaves,
         NEW b \in 0..NumIn(lf, i), NEW c \in 0..NumIn(lf, i), b < c
  PROVE  /\ Before(lf, i, b) + SizeIn(lf, i, b) <= Before(lf, i, c)
         /\ (\A d \in b + 1..c - 1 : SizeIn(lf, i, d) = 0) =>
              Before(lf, i, b) + SizeIn(lf, i, b) = Before(lf, i, c)
<1> DEFINE B == lf[i].blocks
           n == NumIn(lf, i)
<1>1. n \in Nat /\ Sequences(B, n, Key)
  BY LeafJoins
<1>2. b \in 0..n - 1 /\ b + 1 \in 0..n /\ b + 1 <= c
  BY <1>1
<1>3. Before(lf, i, b) + SizeIn(lf, i, b) = Before(lf, i, b + 1)
  BY <1>2, BeforeIs
<1>4. IsPlace(lf, i, b + 1) /\ IsPlace(lf, i, c)
  <2>1. Leaves \in Nat
    BY SizesAssumption
  <2> QED  BY <1>2, <2>1 DEF IsPlace
<1>5. /\ Upto(ByLeaf(lf), i - 1) \in Nat /\ Upto(B, b + 1) \in Nat /\ Upto(B, c) \in Nat
      /\ Before(lf, i, b + 1) = Upto(ByLeaf(lf), i - 1) + Upto(B, b + 1)
      /\ Before(lf, i, c) = Upto(ByLeaf(lf), i - 1) + Upto(B, c)
  BY <1>4, PlaceIs DEF Before
<1> DEFINE Gap == AreEmpty(B, b + 1, c)
<1>6. Upto(B, b + 1) <= Upto(B, c) /\ (Gap => Upto(B, b + 1) = Upto(B, c))
  <2>1. c \in 0..n
    OBVIOUS
  <2> HIDE DEF B, n
  <2> QED  BY <1>1, <1>2, <2>1, UptoRises
<1>7. (\A d \in b + 1..c - 1 : SizeIn(lf, i, d) = 0) => Gap
  <2> SUFFICES ASSUME \A d \in b + 1..c - 1 : SizeIn(lf, i, d) = 0, NEW e \in (b + 1) + 1..c
               PROVE  Len(B[e]) = 0
    BY DEF AreEmpty
  <2>1. e - 1 \in b + 1..c - 1 /\ (e - 1) + 1 = e /\ e - 1 < n
    BY <1>1
  <2>2. SizeIn(lf, i, e - 1) = Len(B[(e - 1) + 1])
    BY <2>1 DEF SizeIn
  <2> QED  BY <2>1, <2>2
<1> HIDE DEF B, n, Gap
<1> QED  BY <1>3, <1>5, <1>6, <1>7

LEMMA RisesByLeaf ==
  ASSUME NEW lf, Shaped(lf), NEW i \in 1..Leaves + 1, NEW j \in 1..Leaves + 1, i <= j
  PROVE  /\ Before(lf, i, 0) <= Before(lf, j, 0)
         /\ (\A k \in i..j - 1 : \A d \in 0..NumIn(lf, k) - 1 : SizeIn(lf, k, d) = 0) =>
              Before(lf, i, 0) = Before(lf, j, 0)
<1> DEFINE W == ByLeaf(lf)
           Gap == AreEmpty(W, i - 1, j - 1)
<1>0. Leaves \in Nat /\ i - 1 \in 0..Leaves /\ j - 1 \in 0..Leaves /\ i - 1 <= j - 1
      /\ (i - 1) + 1 = i
  BY SizesAssumption
<1>1. Sequences(W, Leaves, Key) /\ Joins(W, Leaves, Key)
  BY MapJoins
<1>2. Before(lf, i, 0) = Upto(W, i - 1) /\ Before(lf, j, 0) = Upto(W, j - 1)
  <2>1. Upto(W, i - 1) \in Nat /\ Upto(W, j - 1) \in Nat
    BY <1>0, <1>1 DEF Joins
  <2>2. Upto(lf[i].blocks, 0) = 0 /\ Upto(lf[j].blocks, 0) = 0
    BY UptoNone
  <2> QED  BY <2>1, <2>2 DEF Before
<1>3. (\A k \in i..j - 1 : \A d \in 0..NumIn(lf, k) - 1 : SizeIn(lf, k, d) = 0) => Gap
  <2> SUFFICES ASSUME \A k \in i..j - 1 : \A d \in 0..NumIn(lf, k) - 1 : SizeIn(lf, k, d) = 0,
                      NEW k \in i..j - 1
               PROVE  Len(W[k]) = 0
    BY <1>0 DEF AreEmpty
  <2>1. k \in 1..Leaves
    BY <1>0
  <2> DEFINE n == NumIn(lf, k)
  <2>2. n \in Nat /\ Len(W[k]) = Upto(lf[k].blocks, n)
    BY <2>1, LeafJoins
  <2>3. Upto(lf[k].blocks, 0) = 0
    BY UptoNone
  <2>4. CASE n = 0
    BY <2>2, <2>3, <2>4
  <2>5. CASE n # 0
    <3>1. 0 \in 0..n /\ n \in 0..n /\ 0 < n /\ 0 \in 0..n - 1
      BY <2>2, <2>5
    <3>2. \A d \in 0..n - 1 : SizeIn(lf, k, d) = 0
      OBVIOUS
    <3>3. \A d \in 0 + 1..n - 1 : SizeIn(lf, k, d) = 0
      BY <2>2, <3>2
    <3>4. Before(lf, k, 0) + SizeIn(lf, k, 0) = Before(lf, k, n)
      BY <2>1, <3>1, <3>3, RisesInLeaf
    <3>5. SizeIn(lf, k, 0) = 0
      BY <3>1, <3>2
    <3>6. /\ Before(lf, k, 0) = Upto(W, k - 1) + Upto(lf[k].blocks, 0)
          /\ Before(lf, k, n) = Upto(W, k - 1) + Upto(lf[k].blocks, n)
      BY DEF Before
    <3>7. Upto(W, k - 1) \in Nat /\ Upto(lf[k].blocks, n) \in Nat
      <4>1. IsPlace(lf, k, n)
        BY <1>0, <2>1, <3>1 DEF IsPlace
      <4> QED  BY <4>1, PlaceIs
    <3> HIDE DEF W, n
    <3> QED  BY <2>2, <2>3, <3>4, <3>5, <3>6, <3>7
  <2> QED  BY <2>4, <2>5
<1> HIDE DEF W
<1>4. Upto(W, i - 1) <= Upto(W, j - 1) /\ (Gap => Upto(W, i - 1) = Upto(W, j - 1))
  BY <1>0, <1>1, UptoRises
<1> QED  BY <1>2, <1>3, <1>4

(* From a place to one behind it there are at least the points of its      *)
(* block, and exactly these if all blocks between them are empty.          *)
LEMMA Rises ==
  ASSUME NEW lf, Shaped(lf), NEW i, NEW b, IsPlace(lf, i, b),
         NEW j, NEW c, IsPlace(lf, j, c), Precedes(<<i, b>>, <<j, c>>)
  PROVE  /\ Before(lf, i, b) + SizeIn(lf, i, b) <= Before(lf, j, c)
         /\ Empties(lf, i, b, j, c) => Before(lf, i, b) + SizeIn(lf, i, b) = Before(lf, j, c)
<1>0. Leaves \in Nat
  BY SizesAssumption
<1>1. /\ i \in 1..Leaves + 1 /\ j \in 1..Leaves + 1 /\ i \in Nat /\ j \in Nat
      /\ b \in Nat /\ c \in Nat /\ NumIn(lf, i) \in Nat /\ NumIn(lf, j) \in Nat
      /\ b <= NumIn(lf, i) /\ c <= NumIn(lf, j)
      /\ Before(lf, i, b) \in Nat /\ Before(lf, j, c) \in Nat
      /\ SizeIn(lf, i, b) \in Nat
      /\ i < j \/ (i = j /\ b < c)
      /\ i = Leaves + 1 => b = 0
      /\ j = Leaves + 1 => c = 0
  BY PlaceIs, PrecedesIs DEF IsPlace
<1>2. i \in 1..Leaves
  <2>1. i = Leaves + 1 => NumIn(lf, i) = 0
    BY <1>0 DEF NumIn
  <2> QED  BY <1>0, <1>1, <2>1
<1> DEFINE Gap == Empties(lf, i, b, j, c)
<1>3. Gap => \A k \in 1..Leaves : \A d \in 0..NumIn(lf, k) - 1 :
                 (i < k \/ (i = k /\ b < d)) /\ (k < j \/ (k = j /\ d < c))
                    => SizeIn(lf, k, d) = 0
  BY PrecedesIs DEF Empties
<1> HIDE DEF Gap
<1>4. CASE i = j
  <2>1. b < c /\ b \in 0..NumIn(lf, i) /\ c \in 0..NumIn(lf, i)
    BY <1>1, <1>4
  <2>2. Gap => \A d \in b + 1..c - 1 : SizeIn(lf, i, d) = 0
    <3> SUFFICES ASSUME Gap, NEW d \in b + 1..c - 1 PROVE SizeIn(lf, i, d) = 0
      OBVIOUS
    <3>1. d \in 0..NumIn(lf, i) - 1 /\ b < d /\ d < c
      BY <1>1, <2>1
    <3> QED  BY <1>2, <1>3, <1>4, <3>1
  <2> QED  BY <1>2, <1>4, <2>1, <2>2, RisesInLeaf DEF Gap
<1>5. CASE i < j
  <2> DEFINE n == NumIn(lf, i)
  <2>1. /\ Before(lf, i, b) + SizeIn(lf, i, b) <= Before(lf, i, n)
        /\ Gap => Before(lf, i, b) + SizeIn(lf, i, b) = Before(lf, i, n)
    <3>1. CASE b < n
      <4>1. b \in 0..n /\ n \in 0..n
        BY <1>1
      <4>2. Gap => \A d \in b + 1..n - 1 : SizeIn(lf, i, d) = 0
        <5> SUFFICES ASSUME Gap, NEW d \in b + 1..n - 1 PROVE SizeIn(lf, i, d) = 0
          OBVIOUS
        <5>1. d \in 0..n - 1 /\ b < d
          BY <1>1
        <5> QED  BY <1>2, <1>3, <1>5, <5>1
      <4> QED  BY <1>2, <3>1, <4>1, <4>2, RisesInLeaf
    <3>2. CASE ~ (b < n)
      <4>1. b = n /\ SizeIn(lf, i, b) = 0
        BY <1>1, <3>2 DEF SizeIn
      <4> HIDE DEF n
      <4> QED  BY <1>1, <4>1
    <3> QED  BY <3>1, <3>2
  <2>2. Before(lf, i, n) = Before(lf, i + 1, 0)
    BY <1>2, BeforeIs
  <2>3. i + 1 \in 1..Leaves + 1 /\ i + 1 <= j
    BY <1>0, <1>1, <1>2, <1>5
  <2>4. /\ Before(lf, i + 1, 0) <= Before(lf, j, 0)
        /\ Gap => Before(lf, i + 1, 0) = Before(lf, j, 0)
    <3>1. Gap => \A k \in i + 1..j - 1 : \A d \in 0..NumIn(lf, k) - 1 : SizeIn(lf, k, d) = 0
      <4> SUFFICES ASSUME Gap, NEW k \in i + 1..j - 1, NEW d \in 0..NumIn(lf, k) - 1
                   PROVE  SizeIn(lf, k, d) = 0
        OBVIOUS
      <4>1. k \in 1..Leaves /\ i < k /\ k < j
        BY <1>0, <1>1
      <4> QED  BY <1>3, <4>1
    <3> QED  BY <1>1, <2>3, <3>1, RisesByLeaf
  <2>5. /\ Before(lf, j, 0) <= Before(lf, j, c)
        /\ Gap => Before(lf, j, 0) = Before(lf, j, c)
    <3>1. CASE c = 0
      BY <1>1, <3>1
    <3>2. CASE c # 0
      <4>1. j \in 1..Leaves /\ 0 \in 0..NumIn(lf, j) /\ c \in 0..NumIn(lf, j) /\ 0 < c
        BY <1>0, <1>1, <3>2
      <4>2. Gap => SizeIn(lf, j, 0) = 0 /\ \A d \in 0 + 1..c - 1 : SizeIn(lf, j, d) = 0
        <5> SUFFICES ASSUME Gap, NEW d \in 0..c - 1 PROVE SizeIn(lf, j, d) = 0
          BY <4>1
        <5>1. d \in 0..NumIn(lf, j) - 1 /\ d < c
          BY <1>1
        <5> QED  BY <1>3, <1>5, <4>1, <5>1
      <4>3. /\ Before(lf, j, 0) + SizeIn(lf, j, 0) <= Before(lf, j, c)
            /\ Gap => Before(lf, j, 0) + SizeIn(lf, j, 0) = Before(lf, j, c)
        BY <4>1, <4>2, RisesInLeaf
      <4>4. IsPlace(lf, j, 0)
        BY <1>1, <4>1 DEF IsPlace
      <4>5. Before(lf, j, 0) \in Nat /\ SizeIn(lf, j, 0) \in Nat
        BY <4>4, PlaceIs
      <4> QED  BY <1>1, <4>2, <4>3, <4>5
    <3> QED  BY <3>1, <3>2
  <2>6. Before(lf, i, n) \in Nat /\ Before(lf, i + 1, 0) \in Nat /\ Before(lf, j, 0) \in Nat
    <3>1. IsPlace(lf, i, n) /\ IsPlace(lf, j, 0)
      BY <1>1 DEF IsPlace
    <3> QED  BY <2>2, <3>1, PlaceIs
  <2> HIDE DEF n
  <2> QED  BY <1>1, <2>1, <2>2, <2>4, <2>5, <2>6 DEF Gap
<1> QED  BY <1>1, <1>4, <1>5

(* Which point is where.                                                   *)
IsPoint(lf, i, b, s) ==
  i \in 1..Leaves /\ b \in 0..NumIn(lf, i) - 1 /\ s \in 1..SizeIn(lf, i, b)

LEMMA PointAt ==
  ASSUME NEW lf, Shaped(lf), NEW i, NEW b, NEW s, IsPoint(lf, i, b, s)
  PROVE  /\ Before(lf, i, b) + s \in 1..Len(PointsIn(lf))
         /\ PointsIn(lf)[Before(lf, i, b) + s] = lf[i].blocks[b + 1][s]
         /\ IsPlace(lf, i, b) /\ s \in Nat
<1> DEFINE W == ByLeaf(lf)
           B == lf[i].blocks
           n == NumIn(lf, i)
           r == Upto(B, b) + s
<1>0. Leaves \in Nat /\ i \in 1..Leaves /\ b \in 0..n - 1 /\ s \in 1..SizeIn(lf, i, b)
  BY SizesAssumption DEF IsPoint
<1>1. /\ Sequences(B, n, Key) /\ n \in Nat /\ n = Len(B)
      /\ W[i] = JoinedTo(B, n) /\ Len(W[i]) = Upto(B, n)
  BY <1>0, LeafJoins
<1>2. Sequences(W, Leaves, Key) /\ PointsIn(lf) = JoinedTo(W, Leaves)
      /\ Len(PointsIn(lf)) = Upto(W, Leaves)
  BY MapJoins
<1>3. b + 1 \in 1..n /\ (b + 1) - 1 = b /\ s \in 1..Len(B[b + 1]) /\ IsPlace(lf, i, b)
  <2>1. b < n /\ b \in 0..n /\ i \in 1..Leaves + 1
    BY <1>0, <1>1
  <2> QED  BY <1>0, <1>1, <2>1 DEF SizeIn, IsPlace
<1>4. Upto(W, i - 1) \in Nat /\ Upto(B, b) \in Nat
  BY <1>3, PlaceIs
<1> HIDE DEF B, n, W
<1>5. r \in 1..Upto(B, n) /\ JoinedTo(B, n)[r] = B[b + 1][s]
  <2>1. Upto(B, (b + 1) - 1) + s \in 1..Upto(B, n)
        /\ JoinedTo(B, n)[Upto(B, (b + 1) - 1) + s] = B[b + 1][s]
    <3>1. Lies(B, n, b + 1, s)
      BY <1>1, <1>3, JoinedAt
    <3> QED  BY <3>1 DEF Lies
  <2> QED  BY <1>3, <2>1
<1> HIDE DEF r
<1>6. Upto(W, i - 1) + r \in 1..Upto(W, Leaves)
      /\ JoinedTo(W, Leaves)[Upto(W, i - 1) + r] = W[i][r]
  <2>1. r \in 1..Len(W[i])
    BY <1>1, <1>5
  <2>2. Lies(W, Leaves, i, r)
    BY <1>0, <1>2, <2>1, JoinedAt
  <2> QED  BY <2>2 DEF Lies
<1>7. Before(lf, i, b) + s = Upto(W, i - 1) + r
  <2>1. s \in Nat
    BY <1>0
  <2>2. Before(lf, i, b) = Upto(W, i - 1) + Upto(B, b) /\ r = Upto(B, b) + s
    BY DEF Before, W, B, r
  <2> QED  BY <1>4, <2>1, <2>2
<1>8. PointsIn(lf)[Before(lf, i, b) + s] = B[b + 1][s]
  BY <1>1, <1>2, <1>5, <1>6, <1>7
<1>9. s \in Nat
  BY <1>0
<1> QED  BY <1>2, <1>3, <1>6, <1>7, <1>8, <1>9 DEF B

LEMMA PointFrom ==
  ASSUME NEW lf, Shaped(lf), NEW j \in 1..Len(PointsIn(lf))
  PROVE  \E i, b, s : IsPoint(lf, i, b, s) /\ j = Before(lf, i, b) + s
<1> DEFINE W == ByLeaf(lf)
<1>0. Leaves \in Nat
  BY SizesAssumption
<1>1. Sequences(W, Leaves, Key) /\ j \in 1..Upto(W, Leaves)
  BY MapJoins
<1> HIDE DEF W
<1>2. PICK i \in 1..Leaves : \E r \in 1..Len(W[i]) : j = Upto(W, i - 1) + r
  BY <1>0, <1>1, JoinedFrom
<1>3. PICK r \in 1..Len(W[i]) : j = Upto(W, i - 1) + r
  BY <1>2
<1> DEFINE B == lf[i].blocks
           n == NumIn(lf, i)
<1>4. /\ Sequences(B, n, Key) /\ n \in Nat /\ Joins(B, n, Key) /\ r \in 1..Upto(B, n)
  BY <1>3, LeafJoins DEF W
<1> HIDE DEF B
<1>5. PICK m \in 1..n : \E s \in 1..Len(B[m]) : r = Upto(B, m - 1) + s
  <2> HIDE DEF n
  <2> QED  BY <1>4, JoinedFrom
<1>6. PICK s \in 1..Len(B[m]) : r = Upto(B, m - 1) + s
  BY <1>5
<1> DEFINE b == m - 1
<1>7. b \in 0..n - 1 /\ b < n /\ b + 1 = m /\ b \in Nat
  BY <1>4
<1>8. SizeIn(lf, i, b) = Len(B[m])
  BY <1>7 DEF SizeIn, B
<1>9. IsPlace(lf, i, b)
  <2>1. b \in 0..n
    BY <1>4, <1>7
  <2>2. i \in 1..Leaves + 1
    BY <1>0
  <2> HIDE DEF b
  <2> QED  BY <2>1, <2>2 DEF IsPlace
<1>10. Upto(W, i - 1) \in Nat /\ Upto(B, b) \in Nat
  BY <1>9, PlaceIs DEF W, B
<1>11. s \in Nat
  <2>1. Len(B[m]) \in Nat
    BY <1>4 DEF Joins
  <2> QED  BY <2>1
<1>12. Before(lf, i, b) = Upto(W, i - 1) + Upto(B, b)
  BY DEF Before, W, B
<1> HIDE DEF b, n
<1>13. j = Before(lf, i, b) + s
  <2>1. j = Upto(W, i - 1) + (Upto(B, b) + s)
    BY <1>3, <1>6 DEF b
  <2> QED  BY <1>10, <1>11, <1>12, <2>1
<1>14. IsPoint(lf, i, b, s)
  BY <1>7, <1>8 DEF IsPoint, n
<1> QED  BY <1>13, <1>14

(* The points of a place are before those of a place behind it.            *)
LEMMA PointsApart ==
  ASSUME NEW lf, Shaped(lf), NEW i, NEW b, NEW s, IsPoint(lf, i, b, s),
         NEW j, NEW c, IsPlace(lf, j, c), Precedes(<<i, b>>, <<j, c>>)
  PROVE  Before(lf, i, b) + s <= Before(lf, j, c)
<1>1. IsPlace(lf, i, b) /\ s <= SizeIn(lf, i, b) /\ s \in Nat
  <2>1. SizeIn(lf, i, b) \in Nat
    BY PointAt, PlaceIs
  <2> QED  BY <2>1, PointAt DEF IsPoint
<1>2. Before(lf, i, b) + SizeIn(lf, i, b) <= Before(lf, j, c)
  BY <1>1, Rises
<1>3. Before(lf, i, b) \in Nat /\ SizeIn(lf, i, b) \in Nat /\ Before(lf, j, c) \in Nat
  BY <1>1, PlaceIs
<1> QED  BY <1>1, <1>2, <1>3

----------------------------------------------------------------------------
(* A map with points.  Blocks with points are in leaves from firstLeaf to  *)
(* lastLeaf, which has blocks.                                             *)
MapInv ==
  /\ home \in [Key -> 1..Leaves]
  /\ Shaped(leaf)
  /\ firstLeaf \in 1..Leaves /\ lastLeaf \in 1..Leaves
  /\ Len(PointsIn(leaf)) > 0
  /\ \A i \in 1..Leaves : \A b \in 0..NumIn(leaf, i) - 1 :
       SizeIn(leaf, i, b) > 0 => firstLeaf <= i /\ i <= lastLeaf
  /\ NumIn(leaf, lastLeaf) > 0

LEMMA NumIs ==
  ASSUME NEW i \in 1..Leaves
  PROVE  Num(i) = NumIn(leaf, i)
BY DEF Num, NumIn

LEMMA SizeIs ==
  ASSUME NEW i \in 1..Leaves, NEW b \in Nat
  PROVE  GetBlockSize(i, b) = SizeIn(leaf, i, b)
BY NumIs DEF GetBlockSize, SizeIn

LEMMA FullIs ==
  ASSUME Shaped(leaf), NEW p
  PROVE  p \in Full <=> \E i \in 1..Leaves : \E b \in 0..NumIn(leaf, i) - 1 :
                           p = <<i, b>> /\ SizeIn(leaf, i, b) > 0
<1>0. MaxBlockNum \in Nat /\ Leaves \in Nat
  BY SizesAssumption
<1>1. ASSUME p \in Full
      PROVE  \E i \in 1..Leaves : \E b \in 0..NumIn(leaf, i) - 1 :
               p = <<i, b>> /\ SizeIn(leaf, i, b) > 0
  <2>1. /\ p \in (1..Leaves) \X (0..MaxBlockNum - 1) /\ GetBlockSize(p[1], p[2]) > 0
    BY <1>1 DEF Full
  <2>2. p = <<p[1], p[2]>> /\ p[1] \in 1..Leaves /\ p[2] \in Nat
    BY <2>1
  <2>3. SizeIn(leaf, p[1], p[2]) > 0
    BY <2>1, <2>2, SizeIs
  <2>4. p[2] < NumIn(leaf, p[1]) /\ NumIn(leaf, p[1]) \in Nat
    BY <2>2, <2>3, LeafJoins DEF SizeIn
  <2>5. p[2] \in 0..NumIn(leaf, p[1]) - 1
    BY <2>2, <2>4
  <2> QED  BY <2>2, <2>3, <2>5
<1>2. ASSUME NEW i \in 1..Leaves, NEW b \in 0..NumIn(leaf, i) - 1,
             p = <<i, b>>, SizeIn(leaf, i, b) > 0
      PROVE  p \in Full
  <2>1. NumIn(leaf, i) \in 0..MaxBlockNum
    BY LeafJoins
  <2>2. b \in 0..MaxBlockNum - 1 /\ b \in Nat
    BY <1>0, <2>1
  <2>3. GetBlockSize(i, b) > 0
    BY <1>2, <2>2, SizeIs
  <2>4. p \in (1..Leaves) \X (0..MaxBlockNum - 1) /\ p[1] = i /\ p[2] = b
    BY <1>2, <2>2
  <2> QED  BY <2>3, <2>4 DEF Full
<1> QED  BY <1>1, <1>2

(* Of pairs of numbers one is the first, and one the last.                 *)
LEMMA FirstPair ==
  ASSUME NEW n \in Nat, NEW m \in Nat, NEW P, P \subseteq (1..n) \X (0..m), P # {}
  PROVE  \E p \in P : \A q \in P : ~ Precedes(q, p)
<1> DEFINE A == {p[1] : p \in P}
<1>1. A \subseteq Nat /\ A # {}
  OBVIOUS
<1>2. PICK a \in A : \A c \in A : a <= c
  BY <1>1, LeastNumber
<1> DEFINE B == {p[2] : p \in {q \in P : q[1] = a}}
<1>3. B \subseteq Nat /\ B # {}
  BY <1>2
<1>4. PICK b \in B : \A c \in B : b <= c
  BY <1>3, LeastNumber
<1>5. PICK p \in P : p[1] = a /\ p[2] = b
  BY <1>4
<1>6. ASSUME NEW q \in P, Precedes(q, p)
      PROVE  FALSE
  <2>1. q[1] \in A /\ q[1] \in Nat /\ q[2] \in Nat /\ a \in Nat /\ b \in Nat /\ a <= q[1]
    BY <1>1, <1>2, <1>3, <1>4
  <2>2. q[1] < a \/ (q[1] = a /\ q[2] < b)
    BY <1>5, <1>6 DEF Precedes
  <2>3. q[1] = a /\ q[2] < b
    BY <2>1, <2>2
  <2>4. q[2] \in B
    BY <2>3
  <2>5. b <= q[2]
    BY <1>4, <2>4
  <2> QED  BY <2>1, <2>3, <2>5
<1> QED  BY <1>6

LEMMA LastPair ==
  ASSUME NEW n \in Nat, NEW m \in Nat, NEW P, P \subseteq (1..n) \X (0..m), P # {}
  PROVE  \E p \in P : \A q \in P : ~ Precedes(p, q)
<1> DEFINE A == {n - p[1] : p \in P}
<1>1. A \subseteq Nat /\ A # {}
  OBVIOUS
<1>2. PICK a \in A : \A c \in A : a <= c
  BY <1>1, LeastNumber
<1> DEFINE B == {m - p[2] : p \in {q \in P : n - q[1] = a}}
<1>3. B \subseteq Nat /\ B # {}
  BY <1>2
<1>4. PICK b \in B : \A c \in B : b <= c
  BY <1>3, LeastNumber
<1>5. PICK p \in P : n - p[1] = a /\ m - p[2] = b
  BY <1>4
<1>6. ASSUME NEW q \in P, Precedes(p, q)
      PROVE  FALSE
  <2>1. /\ n - q[1] \in A /\ q[1] \in Nat /\ q[2] \in Nat /\ p[1] \in Nat /\ p[2] \in Nat
        /\ a \in Nat /\ b \in Nat /\ a <= n - q[1]
    BY <1>1, <1>2, <1>3, <1>4
  <2>2. p[1] < q[1] \/ (p[1] = q[1] /\ p[2] < q[2])
    BY <1>6 DEF Precedes
  <2>3. n - q[1] = a /\ p[2] < q[2]
    BY <1>5, <2>1, <2>2
  <2>4. m - q[2] \in B
    BY <2>3
  <2>5. b <= m - q[2]
    BY <1>4, <2>4
  <2> QED  BY <1>5, <2>1, <2>3, <2>5
<1> QED  BY <1>6

(* The nearest block with points behind a place, and the one before it.    *)
IsBlock(p) ==
  \E i \in 1..Leaves : \E b \in 0..NumIn(leaf, i) - 1 :
    p = <<i, b>> /\ SizeIn(leaf, i, b) > 0 /\ IsPlace(leaf, i, b)

LEMMA BlockIs ==
  ASSUME Shaped(leaf), NEW p \in Full
  PROVE  IsBlock(p)
<1>0. PICK i \in 1..Leaves : \E b \in 0..NumIn(leaf, i) - 1 :
                               p = <<i, b>> /\ SizeIn(leaf, i, b) > 0
  BY FullIs
<1>1. PICK b \in 0..NumIn(leaf, i) - 1 : p = <<i, b>> /\ SizeIn(leaf, i, b) > 0
  BY <1>0
<1>2. IsPlace(leaf, i, b)
  <2>1. NumIn(leaf, i) \in Nat /\ Leaves \in Nat
    BY LeafJoins, SizesAssumption
  <2> QED  BY <2>1 DEF IsPlace
<1> QED  BY <1>1, <1>2 DEF IsBlock

LEMMA PairsOfFull == Full \subseteq (1..Leaves) \X (0..MaxBlockNum - 1)
BY DEF Full

LEMMA PlaceBehind ==
  ASSUME Shaped(leaf), NEW x, IsPlace(leaf, x.node, x.block), x.node \in 1..Leaves
  PROVE  /\ Behind(x) # {} =>
              /\ IsBlock(NearestBehind(x))
              /\ Before(leaf, NearestBehind(x)[1], NearestBehind(x)[2])
                   = Before(leaf, x.node, x.block) + SizeIn(leaf, x.node, x.block)
         /\ Behind(x) = {} =>
              Before(leaf, x.node, x.block) + SizeIn(leaf, x.node, x.block)
                = Len(PointsIn(leaf))
<1> DEFINE i == x.node
           b == x.block
<1>0. MaxBlockNum - 1 \in Nat /\ Leaves \in Nat /\ Leaves + 1 \in Nat
  BY SizesAssumption
<1>1. ASSUME NEW k \in 1..Leaves, NEW d \in 0..NumIn(leaf, k) - 1,
             Precedes(<<i, b>>, <<k, d>>), SizeIn(leaf, k, d) # 0
      PROVE  <<k, d>> \in Behind(x)
  <2>1. IsPlace(leaf, k, d)
    <3>1. NumIn(leaf, k) \in Nat
      BY LeafJoins
    <3> QED  BY <1>0, <3>1 DEF IsPlace
  <2>2. SizeIn(leaf, k, d) > 0
    <3>1. SizeIn(leaf, k, d) \in 0..Cap
      BY <2>1, PlaceIs
    <3> QED  BY <1>1, <3>1
  <2>3. <<k, d>> \in Full
    BY <2>2, FullIs
  <2> QED  BY <1>1, <2>3 DEF Behind
<1>2. CASE Behind(x) # {}
  <2> DEFINE p == NearestBehind(x)
  <2>1. Behind(x) \subseteq (1..Leaves) \X (0..MaxBlockNum - 1)
    BY PairsOfFull DEF Behind
  <2>2. \E q \in Behind(x) : \A r \in Behind(x) : ~ Precedes(r, q)
    BY <1>0, <1>2, <2>1, FirstPair
  <2>3. p \in Behind(x) /\ \A r \in Behind(x) : ~ Precedes(r, p)
    BY <2>2 DEF NearestBehind
  <2> HIDE DEF p
  <2>4. p \in Full /\ Precedes(<<i, b>>, p)
    BY <2>3 DEF Behind
  <2>5. IsBlock(p)
    BY <2>4, BlockIs
  <2>6. PICK j, c : p = <<j, c>> /\ IsPlace(leaf, j, c) /\ p[1] = j /\ p[2] = c
    BY <2>5 DEF IsBlock
  <2>7. Empties(leaf, i, b, j, c)
    BY <1>1, <2>3, <2>6 DEF Empties
  <2>8. Before(leaf, i, b) + SizeIn(leaf, i, b) = Before(leaf, j, c)
    BY <2>4, <2>6, <2>7, Rises
  <2> QED  BY <1>2, <2>5, <2>6, <2>8 DEF p
<1>3. CASE Behind(x) = {}
  <2>1. IsPlace(leaf, Leaves + 1, 0)
    BY <1>0 DEF IsPlace, NumIn
  <2>2. Precedes(<<i, b>>, <<Leaves + 1, 0>>)
    <3>1. i < Leaves + 1
      BY <1>0
    <3> QED  BY <3>1, PrecedesIs
  <2>3. Empties(leaf, i, b, Leaves + 1, 0)
    BY <1>1, <1>3 DEF Empties
  <2>4. Before(leaf, i, b) + SizeIn(leaf, i, b) = Before(leaf, Leaves + 1, 0)
    BY <2>1, <2>2, <2>3, Rises
  <2> QED  BY <1>3, <2>4, EndsAre
<1> QED  BY <1>2, <1>3

LEMMA PlaceAhead ==
  ASSUME Shaped(leaf), NEW x, IsPlace(leaf, x.node, x.block), x.node \in 1..Leaves
  PROVE  /\ Ahead(x) # {} =>
              /\ IsBlock(NearestAhead(x))
              /\ Before(leaf, NearestAhead(x)[1], NearestAhead(x)[2])
                   + SizeIn(leaf, NearestAhead(x)[1], NearestAhead(x)[2])
                   = Before(leaf, x.node, x.block)
         /\ Ahead(x) = {} => Before(leaf, x.node, x.block) = 0
<1> DEFINE i == x.node
           b == x.block
<1>0. MaxBlockNum - 1 \in Nat /\ Leaves \in Nat /\ 1 \in 1..Leaves
  BY SizesAssumption
<1>1. ASSUME NEW k \in 1..Leaves, NEW d \in 0..NumIn(leaf, k) - 1,
             Precedes(<<k, d>>, <<i, b>>), SizeIn(leaf, k, d) # 0
      PROVE  <<k, d>> \in Ahead(x)
  <2>1. IsPlace(leaf, k, d)
    <3>1. NumIn(leaf, k) \in Nat
      BY LeafJoins
    <3> QED  BY <1>0, <3>1 DEF IsPlace
  <2>2. SizeIn(leaf, k, d) > 0
    <3>1. SizeIn(leaf, k, d) \in 0..Cap
      BY <2>1, PlaceIs
    <3> QED  BY <1>1, <3>1
  <2>3. <<k, d>> \in Full
    BY <2>2, FullIs
  <2> QED  BY <1>1, <2>3 DEF Ahead
<1>2. CASE Ahead(x) # {}
  <2> DEFINE p == NearestAhead(x)
  <2>1. Ahead(x) \subseteq (1..Leaves) \X (0..MaxBlockNum - 1)
    BY PairsOfFull DEF Ahead
  <2>2. \E q \in Ahead(x) : \A r \in Ahead(x) : ~ Precedes(q, r)
    BY <1>0, <1>2, <2>1, LastPair
  <2>3. p \in Ahead(x) /\ \A r \in Ahead(x) : ~ Precedes(p, r)
    BY <2>2 DEF NearestAhead
  <2> HIDE DEF p
  <2>4. p \in Full /\ Precedes(p, <<i, b>>)
    BY <2>3 DEF Ahead
  <2>5. IsBlock(p)
    BY <2>4, BlockIs
  <2>6. PICK j, c : p = <<j, c>> /\ IsPlace(leaf, j, c) /\ p[1] = j /\ p[2] = c
    BY <2>5 DEF IsBlock
  <2>7. Empties(leaf, j, c, i, b)
    BY <1>1, <2>3, <2>6 DEF Empties
  <2>8. Before(leaf, j, c) + SizeIn(leaf, j, c) = Before(leaf, i, b)
    BY <2>4, <2>6, <2>7, Rises
  <2> QED  BY <1>2, <2>5, <2>6, <2>8 DEF p
<1>3. CASE Ahead(x) = {}
  <2>1. IsPlace(leaf, 1, 0) /\ Before(leaf, 1, 0) = 0
    <3>1. NumIn(leaf, 1) \in Nat
      BY <1>0, LeafJoins
    <3> QED  BY <1>0, <3>1, EndsAre DEF IsPlace
  <2>2. CASE i = 1 /\ b = 0
    BY <1>3, <2>1, <2>2
  <2>3. CASE ~ (i = 1 /\ b = 0)
    <3>1. Precedes(<<1, 0>>, <<i, b>>)
      <4>1. i \in Nat /\ b \in Nat /\ 1 <= i
        BY PlaceIs
      <4> QED  BY <2>3, <4>1, PrecedesIs
    <3>2. Empties(leaf, 1, 0, i, b)
      BY <1>1, <1>3 DEF Empties
    <3>3. Before(leaf, 1, 0) + SizeIn(leaf, 1, 0) = Before(leaf, i, b)
      BY <2>1, <3>1, <3>2, Rises
    <3>4. SizeIn(leaf, 1, 0) = 0
      <4>1. CASE NumIn(leaf, 1) = 0
        BY <4>1 DEF SizeIn
      <4>2. CASE NumIn(leaf, 1) # 0
        <5>1. 0 \in 0..NumIn(leaf, 1) - 1
          <6>1. NumIn(leaf, 1) \in Nat
            BY <1>0, LeafJoins
          <6> QED  BY <4>2, <6>1
        <5> QED  BY <1>0, <1>1, <1>3, <3>1, <5>1
      <4> QED  BY <4>1, <4>2
    <3> QED  BY <1>3, <2>1, <3>3, <3>4
  <2> QED  BY <2>2, <2>3
<1> QED  BY <1>2, <1>3

(* No place has more points before it, its own included, than there are.   *)
LEMMA PlaceInMap ==
  ASSUME Shaped(leaf), NEW i \in 1..Leaves, NEW b, IsPlace(leaf, i, b)
  PROVE  Before(leaf, i, b) + SizeIn(leaf, i, b) <= Len(PointsIn(leaf))
<1>0. Leaves \in Nat
  BY SizesAssumption
<1>1. IsPlace(leaf, Leaves + 1, 0)
  BY <1>0 DEF IsPlace, NumIn
<1>2. Precedes(<<i, b>>, <<Leaves + 1, 0>>)
  <2>1. i < Leaves + 1
    BY <1>0
  <2> QED  BY <2>1, PrecedesIs
<1>3. Before(leaf, i, b) + SizeIn(leaf, i, b) <= Before(leaf, Leaves + 1, 0)
  BY <1>1, <1>2, Rises
<1> QED  BY <1>3, EndsAre

----------------------------------------------------------------------------
(* Iterators.                                                              *)
Placed(x) ==
  /\ x \in [class : Forward \cup Backward, node : 1..Leaves,
            block : 0..MaxBlockNum - 1, slot : 0..Cap]
  /\ IsPlace(leaf, x.node, x.block)
  /\ x.slot <= SizeIn(leaf, x.node, x.block)

PlaceOf(x) == Before(leaf, x.node, x.block) + x.slot

(* It refers to a point.                                                   *)
AtPoint(x) ==
  IF x.class \in Forward THEN x.slot < SizeIn(leaf, x.node, x.block) ELSE x.slot > 0

LEMMA ClassesApart ==
  ASSUME NEW class \in Forward \cup Backward
  PROVE  class \in Backward <=> class \notin Forward
BY DEF Forward, Backward

LEMMA AtIs ==
  ASSUME NEW class, NEW i, NEW b, NEW s
  PROVE  /\ At(class, i, b, s).class = class /\ At(class, i, b, s).node = i
         /\ At(class, i, b, s).block = b /\ At(class, i, b, s).slot = s
BY DEF At

LEMMA SizeAtIs ==
  ASSUME NEW x, x.node \in 1..Leaves, x.block \in Nat
  PROVE  SizeAt(x) = SizeIn(leaf, x.node, x.block)
BY SizeIs DEF SizeAt

LEMMA PlacedAt ==
  ASSUME Shaped(leaf), NEW class \in Forward \cup Backward, NEW i \in 1..Leaves,
         NEW b \in 0..NumIn(leaf, i) - 1, NEW s \in 0..SizeIn(leaf, i, b)
  PROVE  /\ Placed(At(class, i, b, s))
         /\ PlaceOf(At(class, i, b, s)) = Before(leaf, i, b) + s
         /\ IsPlace(leaf, i, b)
<1>0. Leaves \in Nat /\ MaxBlockNum \in Nat /\ Cap \in Nat
  BY SizesAssumption
<1>1. NumIn(leaf, i) \in 0..MaxBlockNum
  BY LeafJoins
<1>2. IsPlace(leaf, i, b) /\ b \in 0..MaxBlockNum - 1
  BY <1>0, <1>1 DEF IsPlace
<1>3. SizeIn(leaf, i, b) \in 0..Cap
  BY <1>2, PlaceIs
<1>4. s \in 0..Cap /\ s <= SizeIn(leaf, i, b)
  BY <1>0, <1>3
<1>5. At(class, i, b, s) \in [class : Forward \cup Backward, node : 1..Leaves,
                              block : 0..MaxBlockNum - 1, slot : 0..Cap]
  BY <1>2, <1>4 DEF At
<1> QED  BY <1>2, <1>4, <1>5, AtIs DEF Placed, PlaceOf

(* begin is at the first point, rbegin behind the last one.                *)
IsEdge(i, b) ==
  /\ i \in 1..Leaves /\ b \in 0..NumIn(leaf, i) - 1
  /\ SizeIn(leaf, i, b) > 0 /\ SizeIn(leaf, i, b) \in Nat /\ IsPlace(leaf, i, b)

LEMMA BlockIsEdge ==
  ASSUME Shaped(leaf), NEW p, IsBlock(p)
  PROVE  IsEdge(p[1], p[2]) /\ p = <<p[1], p[2]>>
<1>0. PICK i \in 1..Leaves : \E b \in 0..NumIn(leaf, i) - 1 :
        p = <<i, b>> /\ SizeIn(leaf, i, b) > 0 /\ IsPlace(leaf, i, b)
  BY DEF IsBlock
<1>1. PICK b \in 0..NumIn(leaf, i) - 1 :
        p = <<i, b>> /\ SizeIn(leaf, i, b) > 0 /\ IsPlace(leaf, i, b)
  BY <1>0
<1>2. SizeIn(leaf, i, b) \in Nat
  BY <1>1, PlaceIs
<1>3. p[1] = i /\ p[2] = b
  BY <1>1
<1> QED  BY <1>1, <1>2, <1>3 DEF IsEdge

IsBegin(i, b) ==
  /\ IsEdge(i, b) /\ Before(leaf, i, b) = 0
  /\ \A class \in Forward : Begin(class) = At(class, i, b, 0)

LEMMA BeginIs ==
  ASSUME MapInv
  PROVE  \E i, b : IsBegin(i, b)
<1> DEFINE i == firstLeaf
           x(class) == At(class, i, 0, 0)
<1>1. Shaped(leaf) /\ i \in 1..Leaves /\ Len(PointsIn(leaf)) > 0 /\ 0 \in Nat
  BY DEF MapInv
<1>2. \A class : x(class).node = i /\ x(class).block = 0
  BY AtIs
<1> HIDE DEF x
<1>3. IsPlace(leaf, i, 0) /\ NumIn(leaf, i) \in Nat
  <2>1. NumIn(leaf, i) \in Nat /\ Leaves \in Nat
    BY <1>1, LeafJoins, SizesAssumption
  <2> QED  BY <1>1, <2>1 DEF IsPlace
<1>4. SizeIn(leaf, i, 0) \in Nat /\ Before(leaf, i, 0) \in Nat
  BY <1>1, <1>3, PlaceIs
<1>5. ASSUME NEW class
      PROVE  SizeAt(x(class)) = SizeIn(leaf, i, 0)
  BY <1>1, <1>2, SizeAtIs
<1>6. ASSUME NEW class
      PROVE  Before(leaf, i, 0) = 0
  <2>1. Ahead(x(class)) = {}
    <3> SUFFICES ASSUME NEW p \in Full, Precedes(p, <<i, 0>>) PROVE FALSE
      BY <1>2 DEF Ahead
    <3>0. IsBlock(p)
      BY <1>1, BlockIs
    <3>1. IsEdge(p[1], p[2]) /\ p = <<p[1], p[2]>>
      BY <1>1, <3>0, BlockIsEdge
    <3>2. firstLeaf <= p[1] /\ p[1] \in Nat /\ p[2] \in Nat /\ i \in Nat
      <4>1. NumIn(leaf, p[1]) \in Nat
        BY <1>1, <3>1, LeafJoins DEF IsEdge
      <4> QED  BY <1>1, <3>1, <4>1 DEF IsEdge, MapInv
    <3>3. p[1] < i \/ (p[1] = i /\ p[2] < 0)
      BY <3>1, PrecedesIs
    <3> QED  BY <3>2, <3>3
  <2> QED  BY <1>1, <1>2, <1>3, <2>1, PlaceAhead
<1>7. CASE SizeIn(leaf, i, 0) # 0
  <2>1. \A class : Begin(class) = x(class)
    BY <1>5, <1>7 DEF Begin, x
  <2>2. 0 \in 0..NumIn(leaf, i) - 1
    <3>1. 0 < NumIn(leaf, i)
      BY <1>7 DEF SizeIn
    <3> QED  BY <1>3, <3>1
  <2>3. IsEdge(i, 0)
    BY <1>1, <1>3, <1>4, <1>7, <2>2 DEF IsEdge
  <2>4. IsBegin(i, 0)
    BY <1>6, <2>1, <2>3 DEF IsBegin, x
  <2> QED  BY <2>4
<1>8. CASE SizeIn(leaf, i, 0) = 0
  <2>1. \A class : Begin(class) = ToFirst(class, NearestBehind(x(class)))
    BY <1>5, <1>8 DEF Begin, x
  <2> DEFINE p == NearestBehind(x("iterator"))
  <2>2. \A class : NearestBehind(x(class)) = p
    <3>1. \A class : Behind(x(class)) = Behind(x("iterator"))
      BY <1>2 DEF Behind
    <3> QED  BY <3>1 DEF NearestBehind
  <2>3. Behind(x("iterator")) # {}
    <3>1. Behind(x("iterator")) = {} => Before(leaf, i, 0) + SizeIn(leaf, i, 0) = Len(PointsIn(leaf))
      BY <1>1, <1>2, <1>3, PlaceBehind
    <3> QED  BY <1>1, <1>6, <1>8, <3>1
  <2>4. IsBlock(p) /\ Before(leaf, p[1], p[2]) = Before(leaf, i, 0) + SizeIn(leaf, i, 0)
    BY <1>1, <1>2, <1>3, <2>3, PlaceBehind
  <2> HIDE DEF p
  <2>5. IsEdge(p[1], p[2]) /\ Before(leaf, p[1], p[2]) = 0
    <3>1. IsEdge(p[1], p[2])
      BY <1>1, <2>4, BlockIsEdge
    <3> QED  BY <1>6, <1>8, <2>4, <3>1
  <2>6. \A class \in Forward : Begin(class) = At(class, p[1], p[2], 0)
    BY <2>1, <2>2 DEF ToFirst
  <2>7. IsBegin(p[1], p[2])
    BY <2>5, <2>6 DEF IsBegin
  <2> QED  BY <2>7
<1> QED  BY <1>7, <1>8

IsRBegin(i, b) ==
  /\ IsEdge(i, b) /\ Before(leaf, i, b) + SizeIn(leaf, i, b) = Len(PointsIn(leaf))
  /\ \A class \in Backward : RBegin(class) = At(class, i, b, SizeIn(leaf, i, b))

LEMMA RBeginIs ==
  ASSUME MapInv
  PROVE  \E i, b : IsRBegin(i, b)
<1> DEFINE i == lastLeaf
           b == Num(i) - 1
           x(class) == At(class, i, b, GetBlockSize(i, b))
<1>1. Shaped(leaf) /\ i \in 1..Leaves /\ Len(PointsIn(leaf)) > 0
  BY DEF MapInv
<1>2. \A class : x(class).node = i /\ x(class).block = b
  BY AtIs
<1> HIDE DEF x
<1>3. Num(i) = NumIn(leaf, i) /\ b \in 0..NumIn(leaf, i) - 1 /\ b \in Nat
      /\ NumIn(leaf, i) = b + 1 /\ IsPlace(leaf, i, b)
  <2>1. Num(i) = NumIn(leaf, i) /\ NumIn(leaf, i) \in Nat /\ NumIn(leaf, i) > 0 /\ Leaves \in Nat
    BY <1>1, NumIs, LeafJoins, SizesAssumption DEF MapInv
  <2> QED  BY <1>1, <2>1 DEF IsPlace
<1>4. SizeIn(leaf, i, b) \in Nat /\ Before(leaf, i, b) \in Nat
  BY <1>1, <1>3, PlaceIs
<1>5. GetBlockSize(i, b) = SizeIn(leaf, i, b)
  BY <1>1, <1>3, SizeIs
<1>6. ASSUME NEW class
      PROVE  SizeAt(x(class)) = SizeIn(leaf, i, b)
  BY <1>1, <1>2, <1>3, SizeAtIs
<1> HIDE DEF b
<1>7. Before(leaf, i, b) + SizeIn(leaf, i, b) = Len(PointsIn(leaf))
  <2>1. Behind(x("reverse_iterator")) = {}
    <3> SUFFICES ASSUME NEW p \in Full, Precedes(<<i, b>>, p) PROVE FALSE
      BY <1>2 DEF Behind
    <3>0. IsBlock(p)
      BY <1>1, BlockIs
    <3>1. IsEdge(p[1], p[2]) /\ p = <<p[1], p[2]>>
      BY <1>1, <3>0, BlockIsEdge
    <3>2. p[1] <= lastLeaf /\ p[1] \in Nat /\ p[2] \in Nat /\ i \in Nat
          /\ p[2] < NumIn(leaf, p[1]) /\ NumIn(leaf, p[1]) \in Nat
      <4>1. NumIn(leaf, p[1]) \in Nat
        BY <1>1, <3>1, LeafJoins DEF IsEdge
      <4> QED  BY <1>1, <3>1, <4>1 DEF IsEdge, MapInv
    <3>3. i < p[1] \/ (i = p[1] /\ b < p[2])
      BY <3>1, PrecedesIs
    <3>4. i = p[1] /\ b < p[2] /\ p[2] < b + 1
      BY <1>3, <3>2, <3>3
    <3> QED  BY <1>3, <3>2, <3>4
  <2> QED  BY <1>1, <1>2, <1>3, <2>1, PlaceBehind
<1>8. CASE SizeIn(leaf, i, b) # 0
  <2>1. \A class : RBegin(class) = x(class)
    BY <1>6, <1>8 DEF RBegin, x, b
  <2>3. IsEdge(i, b)
    BY <1>1, <1>3, <1>4, <1>8 DEF IsEdge
  <2>4. IsRBegin(i, b)
    BY <1>5, <1>7, <2>1, <2>3 DEF IsRBegin, x
  <2> QED  BY <2>4
<1>9. CASE SizeIn(leaf, i, b) = 0
  <2>1. \A class : RBegin(class) = ToLast(class, NearestAhead(x(class)))
    BY <1>6, <1>9 DEF RBegin, x, b
  <2> DEFINE p == NearestAhead(x("iterator"))
  <2>2. \A class : NearestAhead(x(class)) = p
    <3>1. \A class : Ahead(x(class)) = Ahead(x("iterator"))
      BY <1>2 DEF Ahead
    <3> QED  BY <3>1 DEF NearestAhead
  <2>3. Ahead(x("iterator")) # {}
    <3>1. Ahead(x("iterator")) = {} => Before(leaf, i, b) = 0
      BY <1>1, <1>2, <1>3, PlaceAhead
    <3> QED  BY <1>1, <1>4, <1>7, <1>9, <3>1
  <2>4. IsBlock(p) /\ Before(leaf, p[1], p[2]) + SizeIn(leaf, p[1], p[2]) = Before(leaf, i, b)
    BY <1>1, <1>2, <1>3, <2>3, PlaceAhead
  <2> HIDE DEF p
  <2>5. IsEdge(p[1], p[2])
        /\ Before(leaf, p[1], p[2]) + SizeIn(leaf, p[1], p[2]) = Len(PointsIn(leaf))
    <3>1. IsEdge(p[1], p[2])
      BY <1>1, <2>4, BlockIsEdge
    <3> QED  BY <1>4, <1>7, <1>9, <2>4, <3>1
  <2>6. \A class \in Backward : RBegin(class) = At(class, p[1], p[2], SizeIn(leaf, p[1], p[2]))
    <3>1. GetBlockSize(p[1], p[2]) = SizeIn(leaf, p[1], p[2]) /\ SizeIn(leaf, p[1], p[2]) \in Nat
      <4>1. NumIn(leaf, p[1]) \in Nat
        BY <1>1, <2>5, LeafJoins DEF IsEdge
      <4>2. p[2] \in Nat /\ p[1] \in 1..Leaves /\ SizeIn(leaf, p[1], p[2]) \in Nat
        BY <2>5, <4>1 DEF IsEdge
      <4> QED  BY <4>2, SizeIs
    <3>2. \A class \in Backward : class \notin Forward
      BY ClassesApart
    <3> QED  BY <2>1, <2>2, <3>1, <3>2 DEF ToLast
  <2>7. IsRBegin(p[1], p[2])
    BY <2>5, <2>6 DEF IsRBegin
  <2> QED  BY <2>7
<1> QED  BY <1>8, <1>9

(* What an iterator compares equal to when it has come to its end.         *)
EndPlace(class) == IF class \in Forward THEN Len(PointsIn(leaf)) ELSE 0

LEMMA EndOfIs ==
  ASSUME MapInv, NEW x, x.class \in Forward \cup Backward
  PROVE  /\ Placed(EndOf(x)) /\ EndOf(x).class = x.class
         /\ PlaceOf(EndOf(x)) = EndPlace(x.class)
         /\ ~ AtPoint(EndOf(x))
<1> DEFINE class == x.class
<1>0. Shaped(leaf)
  BY DEF MapInv
<1>1. CASE class \in Forward
  <2>1. PICK i, b : IsRBegin(i, b)
    BY RBeginIs
  <2> DEFINE s == SizeIn(leaf, i, b)
  <2>2. RBegin("reverse_iterator") = At("reverse_iterator", i, b, s)
    BY <2>1 DEF IsRBegin, Backward
  <2>3. EndOf(x) = At(class, i, b, s)
    BY <1>1, <2>2 DEF EndOf, End, At
  <2>4. i \in 1..Leaves /\ b \in 0..NumIn(leaf, i) - 1 /\ s \in 0..s
        /\ Before(leaf, i, b) + s = Len(PointsIn(leaf))
    BY <2>1 DEF IsRBegin, IsEdge
  <2>5. /\ Placed(At(class, i, b, s)) /\ PlaceOf(At(class, i, b, s)) = Before(leaf, i, b) + s
    <3> HIDE DEF class
    <3>1. s \in 0..SizeIn(leaf, i, b) /\ class \in Forward \cup Backward
      BY <1>1, <2>4
    <3> QED  BY <1>0, <2>4, <3>1, PlacedAt
  <2>6. ~ AtPoint(At(class, i, b, s))
    <3>1. SizeIn(leaf, i, b) \in Nat
      BY <2>1 DEF IsRBegin, IsEdge
    <3> QED  BY <1>1, <3>1, AtIs DEF AtPoint
  <2>7. At(class, i, b, s).class = class
    BY AtIs
  <2> QED  BY <1>1, <2>3, <2>4, <2>5, <2>6, <2>7 DEF EndPlace
<1>2. CASE class \notin Forward
  <2>1. PICK i, b : IsBegin(i, b)
    BY BeginIs
  <2>2. Begin("iterator") = At("iterator", i, b, 0)
    BY <2>1 DEF IsBegin, Forward
  <2>3. EndOf(x) = At(class, i, b, 0)
    BY <1>2, <2>2 DEF EndOf, REnd, At
  <2>4. i \in 1..Leaves /\ b \in 0..NumIn(leaf, i) - 1 /\ 0 \in 0..SizeIn(leaf, i, b)
        /\ Before(leaf, i, b) = 0
    BY <2>1 DEF IsBegin, IsEdge
  <2>5. /\ Placed(At(class, i, b, 0)) /\ PlaceOf(At(class, i, b, 0)) = Before(leaf, i, b) + 0
    <3> HIDE DEF class
    <3>1. class \in Forward \cup Backward
      BY DEF class
    <3> QED  BY <1>0, <2>4, <3>1, PlacedAt
  <2>6. ~ AtPoint(At(class, i, b, 0)) /\ At(class, i, b, 0).class = class
    BY <1>2, AtIs DEF AtPoint
  <2> QED  BY <1>2, <2>3, <2>4, <2>5, <2>6 DEF EndPlace
<1> QED  BY <1>1, <1>2

LEMMA PlacedIs ==
  ASSUME Shaped(leaf), NEW x, Placed(x)
  PROVE  /\ x.class \in Forward \cup Backward /\ x.node \in 1..Leaves /\ x.block \in Nat
         /\ x.block \in 0..MaxBlockNum - 1
         /\ x.slot \in Nat /\ x.slot <= SizeIn(leaf, x.node, x.block)
         /\ SizeIn(leaf, x.node, x.block) \in 0..Cap /\ SizeAt(x) = SizeIn(leaf, x.node, x.block)
         /\ Before(leaf, x.node, x.block) \in Nat
         /\ Before(leaf, x.node, x.block) + SizeIn(leaf, x.node, x.block) <= Len(PointsIn(leaf))
         /\ IsPlace(leaf, x.node, x.block)
         /\ Len(PointsIn(leaf)) \in Nat
         /\ PlaceOf(x) \in 0..Len(PointsIn(leaf))
<1>0. MaxBlockNum \in Nat /\ Cap \in Nat
  BY SizesAssumption
<1>1. /\ x.class \in Forward \cup Backward /\ x.node \in 1..Leaves
      /\ x.block \in 0..MaxBlockNum - 1 /\ x.slot \in 0..Cap
      /\ IsPlace(leaf, x.node, x.block) /\ x.slot <= SizeIn(leaf, x.node, x.block)
  BY DEF Placed
<1>2. x.block \in Nat /\ x.slot \in Nat
  BY <1>0, <1>1
<1>3. SizeIn(leaf, x.node, x.block) \in 0..Cap /\ Before(leaf, x.node, x.block) \in Nat
  BY <1>1, PlaceIs
<1>4. SizeAt(x) = SizeIn(leaf, x.node, x.block)
  BY <1>1, <1>2, SizeAtIs
<1>5. Before(leaf, x.node, x.block) + SizeIn(leaf, x.node, x.block) <= Len(PointsIn(leaf))
  BY <1>1, PlaceInMap
<1>6. Len(PointsIn(leaf)) \in Nat
  <2>1. PointsIn(leaf) \in Seq(Key)
    BY MapJoins
  <2> QED  BY <2>1
<1> DEFINE s == SizeIn(leaf, x.node, x.block)
           p == Before(leaf, x.node, x.block)
           n == Len(PointsIn(leaf))
<1>7. s \in Nat
  BY <1>0, <1>3
<1>8. PlaceOf(x) \in 0..n
  <2>1. PlaceOf(x) = p + x.slot /\ x.slot <= s /\ p + s <= n
    BY <1>1, <1>5 DEF PlaceOf
  <2> HIDE DEF p, s, n
  <2>2. p \in Nat /\ n \in Nat
    BY <1>3, <1>6 DEF p, n
  <2> QED  BY <1>2, <1>7, <2>1, <2>2
<1> QED  BY <1>1, <1>2, <1>3, <1>4, <1>5, <1>6, <1>8

(* The place behind one step up, and behind one step down.                 *)
PlaceUp(x) ==
  IF x.class \in Forward /\ x.slot = SizeIn(leaf, x.node, x.block)
  THEN PlaceOf(x) ELSE PlaceOf(x) + 1

PlaceDown(x) ==
  IF x.class \notin Forward /\ x.slot = 0 THEN PlaceOf(x) ELSE PlaceOf(x) - 1

(* The places of iterators that refer to a point.                          *)
Refers(class, p) ==
  IF class \in Forward THEN p \in 0..Len(PointsIn(leaf)) - 1 ELSE p \in 1..Len(PointsIn(leaf))

(* A step from x leads to y: to the place p, if there is a point for it.   *)
Leads(x, y, p) ==
  /\ Placed(y) /\ y.class = x.class
  /\ IF Refers(x.class, p) THEN PlaceOf(y) = p /\ AtPoint(y) ELSE y = EndOf(x)

LEMMA SlotMoved ==
  ASSUME Shaped(leaf), NEW x, Placed(x), NEW s \in Nat, s <= SizeIn(leaf, x.node, x.block)
  PROVE  /\ Placed([x EXCEPT !.slot = s])
         /\ [x EXCEPT !.slot = s].class = x.class
         /\ PlaceOf([x EXCEPT !.slot = s]) = Before(leaf, x.node, x.block) + s
         /\ AtPoint([x EXCEPT !.slot = s])
              <=> IF x.class \in Forward THEN s < SizeIn(leaf, x.node, x.block) ELSE s > 0
<1> DEFINE y == [x EXCEPT !.slot = s]
<1>0. Cap \in Nat /\ SizeIn(leaf, x.node, x.block) \in 0..Cap
  BY SizesAssumption, PlacedIs
<1>1. s \in 0..Cap
  BY <1>0
<1>2. /\ y \in [class : Forward \cup Backward, node : 1..Leaves,
                block : 0..MaxBlockNum - 1, slot : 0..Cap]
      /\ y.class = x.class /\ y.node = x.node /\ y.block = x.block /\ y.slot = s
  BY <1>1 DEF Placed
<1> HIDE DEF y
<1>3. Placed(y)
  BY <1>2 DEF Placed
<1> QED  BY <1>2, <1>3 DEF PlaceOf, AtPoint, y

LEMMA UpIs ==
  ASSUME MapInv, NEW x, Placed(x)
  PROVE  Leads(x, Up(x), PlaceUp(x))
<1> DEFINE size == SizeIn(leaf, x.node, x.block)
           start == Before(leaf, x.node, x.block)
           n == Len(PointsIn(leaf))
           limit == size - IF x.class \in Forward THEN 1 ELSE 0
<1>1. Shaped(leaf)
  BY DEF MapInv
<1>2. /\ x.class \in Forward \cup Backward /\ x.node \in 1..Leaves /\ x.block \in Nat
      /\ x.slot \in Nat /\ x.slot <= size /\ size \in Nat /\ SizeAt(x) = size
      /\ start \in Nat /\ start + size <= n /\ n \in Nat /\ PlaceOf(x) = start + x.slot
      /\ IsPlace(leaf, x.node, x.block)
  <2>1. Cap \in Nat
    BY SizesAssumption
  <2> QED  BY <1>1, <2>1, PlacedIs DEF PlaceOf
<1>3. PlaceUp(x) = IF x.class \in Forward /\ x.slot = size THEN start + x.slot
                   ELSE (start + x.slot) + 1
  BY <1>2 DEF PlaceUp
<1>4. Refers(x.class, PlaceUp(x))
        <=> IF x.class \in Forward THEN PlaceUp(x) \in 0..n - 1 ELSE PlaceUp(x) \in 1..n
  BY DEF Refers
<1>5. Up(x) = IF x.slot < limit THEN [x EXCEPT !.slot = x.slot + 1]
              ELSE IF Behind(x) # {} THEN ToFirst(x.class, NearestBehind(x))
              ELSE EndOf(x)
  BY <1>2 DEF Up
<1> HIDE DEF start, n
<1>6. CASE x.slot < limit
  <2> DEFINE s == x.slot + 1
             y == [x EXCEPT !.slot = s]
  <2>1. s \in Nat /\ s <= size /\ x.slot # size /\ (x.class \in Forward => s < size) /\ s > 0
    BY <1>2, <1>6
  <2>2. Placed(y) /\ y.class = x.class /\ PlaceOf(y) = start + s
        /\ (AtPoint(y) <=> IF x.class \in Forward THEN s < size ELSE s > 0)
    <3> HIDE DEF s
    <3> QED  BY <1>1, <2>1, SlotMoved DEF start
  <2>3. AtPoint(y) /\ PlaceOf(y) = PlaceUp(x) /\ Up(x) = y
    BY <1>2, <1>3, <1>5, <1>6, <2>1, <2>2
  <2>4. Refers(x.class, PlaceUp(x))
    BY <1>2, <1>3, <1>4, <2>1
  <2> HIDE DEF y, s, limit, size
  <2> QED  BY <2>2, <2>3, <2>4 DEF Leads
<1>7. CASE ~ (x.slot < limit) /\ Behind(x) # {}
  <2> DEFINE p == NearestBehind(x)
             i == p[1]
             b == p[2]
             s == IF x.class \in Forward THEN 0 ELSE 1
             y == At(x.class, i, b, s)
  <2>1. IsBlock(p) /\ Before(leaf, i, b) = start + size
    BY <1>1, <1>2, <1>7, PlaceBehind DEF start
  <2>2. IsEdge(i, b)
    BY <1>1, <2>1, BlockIsEdge
  <2>3. Up(x) = y
    BY <1>5, <1>7 DEF ToFirst
  <2> HIDE DEF p
  <2>4. /\ i \in 1..Leaves /\ b \in 0..NumIn(leaf, i) - 1 /\ SizeIn(leaf, i, b) \in Nat
        /\ SizeIn(leaf, i, b) > 0 /\ IsPlace(leaf, i, b)
    BY <2>2 DEF IsEdge
  <2>5. s \in 0..SizeIn(leaf, i, b)
    BY <2>4
  <2>6. Placed(y) /\ PlaceOf(y) = Before(leaf, i, b) + s
    <3> HIDE DEF s, i, b
    <3> QED  BY <1>1, <1>2, <2>4, <2>5, PlacedAt
  <2>7. y.class = x.class /\ AtPoint(y)
    BY <2>4, AtIs DEF AtPoint
  <2>8. Before(leaf, i, b) + SizeIn(leaf, i, b) <= n
    BY <1>1, <2>4, PlaceInMap DEF n
  <2> HIDE DEF y, i, b
  <2>9. x.slot = size \/ (x.class \in Forward /\ x.slot = size - 1)
    BY <1>2, <1>7
  <2>10. PlaceOf(y) = PlaceUp(x)
    BY <1>2, <1>3, <2>1, <2>6, <2>9
  <2>11. Refers(x.class, PlaceUp(x))
    BY <1>2, <1>3, <1>4, <2>1, <2>4, <2>8, <2>9
  <2> HIDE DEF s, limit, size
  <2> QED  BY <2>3, <2>6, <2>7, <2>10, <2>11 DEF Leads
<1>8. CASE ~ (x.slot < limit) /\ Behind(x) = {}
  <2>1. start + size = n
    BY <1>1, <1>2, <1>8, PlaceBehind DEF start, n
  <2>2. Up(x) = EndOf(x)
    BY <1>5, <1>8
  <2>3. Placed(EndOf(x)) /\ EndOf(x).class = x.class
    BY <1>2, EndOfIs
  <2>4. x.slot = size \/ (x.class \in Forward /\ x.slot = size - 1)
    BY <1>2, <1>8
  <2>5. ~ Refers(x.class, PlaceUp(x))
    BY <1>2, <1>3, <1>4, <2>1, <2>4
  <2> HIDE DEF limit, size
  <2> QED  BY <2>2, <2>3, <2>5 DEF Leads
<1> QED  BY <1>6, <1>7, <1>8

LEMMA DownIs ==
  ASSUME MapInv, NEW x, Placed(x)
  PROVE  Leads(x, Down(x), PlaceDown(x))
<1> DEFINE size == SizeIn(leaf, x.node, x.block)
           start == Before(leaf, x.node, x.block)
           n == Len(PointsIn(leaf))
           limit == IF x.class \in Forward THEN 0 ELSE 1
<1>1. Shaped(leaf)
  BY DEF MapInv
<1>2. /\ x.class \in Forward \cup Backward /\ x.node \in 1..Leaves /\ x.block \in Nat
      /\ x.slot \in Nat /\ x.slot <= size /\ size \in Nat
      /\ start \in Nat /\ start + size <= n /\ n \in Nat /\ PlaceOf(x) = start + x.slot
      /\ IsPlace(leaf, x.node, x.block)
  <2>1. Cap \in Nat
    BY SizesAssumption
  <2> QED  BY <1>1, <2>1, PlacedIs DEF PlaceOf
<1>3. PlaceDown(x) = IF x.class \notin Forward /\ x.slot = 0 THEN start + x.slot
                     ELSE (start + x.slot) - 1
  BY <1>2 DEF PlaceDown
<1>4. Refers(x.class, PlaceDown(x))
        <=> IF x.class \in Forward THEN PlaceDown(x) \in 0..n - 1 ELSE PlaceDown(x) \in 1..n
  BY DEF Refers
<1>5. Down(x) = IF x.slot > limit THEN [x EXCEPT !.slot = x.slot - 1]
                ELSE IF Ahead(x) # {} THEN ToLast(x.class, NearestAhead(x))
                ELSE EndOf(x)
  BY DEF Down
<1> HIDE DEF start, n
<1>6. CASE x.slot > limit
  <2> DEFINE s == x.slot - 1
             y == [x EXCEPT !.slot = s]
  <2>1. s \in Nat /\ s < size /\ x.slot # 0 /\ (x.class \notin Forward => s > 0)
    BY <1>2, <1>6
  <2>2. Placed(y) /\ y.class = x.class /\ PlaceOf(y) = start + s
        /\ (AtPoint(y) <=> IF x.class \in Forward THEN s < size ELSE s > 0)
    <3>1. s <= size
      BY <1>2, <2>1
    <3> HIDE DEF s
    <3> QED  BY <1>1, <2>1, <3>1, SlotMoved DEF start
  <2>3. AtPoint(y) /\ PlaceOf(y) = PlaceDown(x) /\ Down(x) = y
    BY <1>2, <1>3, <1>5, <1>6, <2>1, <2>2
  <2>4. Refers(x.class, PlaceDown(x))
    BY <1>2, <1>3, <1>4, <2>1
  <2> HIDE DEF y, s, limit, size
  <2> QED  BY <2>2, <2>3, <2>4 DEF Leads
<1>7. CASE ~ (x.slot > limit) /\ Ahead(x) # {}
  <2> DEFINE p == NearestAhead(x)
             i == p[1]
             b == p[2]
             s == GetBlockSize(i, b) - IF x.class \in Forward THEN 1 ELSE 0
             y == At(x.class, i, b, s)
  <2>1. IsBlock(p) /\ Before(leaf, i, b) + SizeIn(leaf, i, b) = start
    BY <1>1, <1>2, <1>7, PlaceAhead DEF start
  <2>2. IsEdge(i, b)
    BY <1>1, <2>1, BlockIsEdge
  <2>3. Down(x) = y
    BY <1>5, <1>7 DEF ToLast
  <2> HIDE DEF p
  <2>4. /\ i \in 1..Leaves /\ b \in 0..NumIn(leaf, i) - 1 /\ SizeIn(leaf, i, b) \in Nat
        /\ SizeIn(leaf, i, b) > 0 /\ IsPlace(leaf, i, b)
    BY <2>2 DEF IsEdge
  <2>5. s = SizeIn(leaf, i, b) - (IF x.class \in Forward THEN 1 ELSE 0)
    <3>1. b \in Nat
      <4>1. NumIn(leaf, i) \in Nat
        BY <1>1, <2>4, LeafJoins
      <4> QED  BY <2>4, <4>1
    <3> QED  BY <2>4, <3>1, SizeIs
  <2> HIDE DEF s
  <2>6. s \in 0..SizeIn(leaf, i, b)
    BY <2>4, <2>5
  <2>7. Placed(y) /\ PlaceOf(y) = Before(leaf, i, b) + s
    <3> HIDE DEF i, b
    <3> QED  BY <1>1, <1>2, <2>4, <2>6, PlacedAt
  <2>8. y.class = x.class /\ AtPoint(y)
    BY <2>4, <2>5, AtIs DEF AtPoint
  <2>9. Before(leaf, i, b) \in Nat
    BY <1>1, <2>4, PlaceIs
  <2> HIDE DEF y, i, b
  <2>10. x.slot = 0 \/ (x.class \notin Forward /\ x.slot = 1)
    BY <1>2, <1>7
  <2>11. PlaceOf(y) = PlaceDown(x)
    BY <1>2, <1>3, <2>1, <2>4, <2>5, <2>7, <2>9, <2>10
  <2>12. Refers(x.class, PlaceDown(x))
    BY <1>2, <1>3, <1>4, <2>1, <2>4, <2>9, <2>10
  <2> HIDE DEF limit, size
  <2> QED  BY <2>3, <2>7, <2>8, <2>11, <2>12 DEF Leads
<1>8. CASE ~ (x.slot > limit) /\ Ahead(x) = {}
  <2>1. start = 0
    BY <1>1, <1>2, <1>8, PlaceAhead DEF start
  <2>2. Down(x) = EndOf(x)
    BY <1>5, <1>8
  <2>3. Placed(EndOf(x)) /\ EndOf(x).class = x.class
    BY <1>2, EndOfIs
  <2>4. x.slot = 0 \/ (x.class \notin Forward /\ x.slot = 1)
    BY <1>2, <1>8
  <2>5. ~ Refers(x.class, PlaceDown(x))
    BY <1>2, <1>3, <1>4, <2>1, <2>4
  <2> HIDE DEF limit, size
  <2> QED  BY <2>2, <2>3, <2>5 DEF Leads
<1> QED  BY <1>6, <1>7, <1>8

LEMMA PointsAre ==
  /\ Points = PointsIn(leaf)
  /\ \A i : PointsOf(i) = FlattenSeq(leaf[i].blocks)
BY DEF Points, PointsOf, PointsIn, ByLeaf

(* What an iterator refers to.                                             *)
LEMMA KeyAtIs ==
  ASSUME Shaped(leaf), NEW x, Placed(x), AtPoint(x)
  PROVE  IF x.class \in Forward
         THEN KeyAt(x) = PointsIn(leaf)[PlaceOf(x) + 1] /\ PlaceOf(x) + 1 \in 1..Len(PointsIn(leaf))
         ELSE KeyBefore(x) = PointsIn(leaf)[PlaceOf(x)] /\ PlaceOf(x) \in 1..Len(PointsIn(leaf))
<1> DEFINE i == x.node
           b == x.block
           s == IF x.class \in Forward THEN x.slot + 1 ELSE x.slot
<1>1. /\ i \in 1..Leaves /\ b \in Nat /\ x.slot \in Nat /\ SizeIn(leaf, i, b) \in Nat
      /\ x.slot <= SizeIn(leaf, i, b) /\ Before(leaf, i, b) \in Nat
  <2>1. Cap \in Nat
    BY SizesAssumption
  <2> QED  BY <2>1, PlacedIs
<1>2. s \in 1..SizeIn(leaf, i, b) /\ s \in Nat
  BY <1>1 DEF AtPoint
<1>3. b \in 0..NumIn(leaf, i) - 1
  <2>1. NumIn(leaf, i) \in Nat
    BY <1>1, LeafJoins
  <2>2. b < NumIn(leaf, i)
    BY <1>1, <1>2 DEF SizeIn
  <2> QED  BY <1>1, <2>1, <2>2
<1>4. IsPoint(leaf, i, b, s)
  BY <1>1, <1>2, <1>3 DEF IsPoint
<1>5. /\ Before(leaf, i, b) + s \in 1..Len(PointsIn(leaf))
      /\ PointsIn(leaf)[Before(leaf, i, b) + s] = leaf[i].blocks[b + 1][s]
  BY <1>4, PointAt
<1>6. PlaceOf(x) = Before(leaf, i, b) + x.slot
  BY DEF PlaceOf
<1>7. CASE x.class \in Forward
  <2>1. PlaceOf(x) + 1 = Before(leaf, i, b) + s
    BY <1>1, <1>6, <1>7
  <2>2. KeyAt(x) = leaf[i].blocks[b + 1][s]
    BY <1>7 DEF KeyAt
  <2> QED  BY <1>5, <1>7, <2>1, <2>2
<1>8. CASE x.class \notin Forward
  <2>1. PlaceOf(x) = Before(leaf, i, b) + s
    BY <1>6, <1>8
  <2>2. KeyBefore(x) = leaf[i].blocks[b + 1][s]
    <3> DEFINE y == [x EXCEPT !.slot = x.slot - 1]
    <3>1. KeyBefore(x) = KeyAt(y)
      BY DEF KeyBefore
    <3>2. y.node = i /\ y.block = b /\ y.slot = x.slot - 1
      BY DEF Placed
    <3>3. y.slot + 1 = s
      BY <1>1, <1>8, <3>2
    <3> HIDE DEF y
    <3> QED  BY <3>1, <3>2, <3>3 DEF KeyAt
  <2> QED  BY <1>5, <1>8, <2>1, <2>2
<1> QED  BY <1>7, <1>8

(* The walk of ++ from a place comes to the end in as many steps as there  *)
(* are points, and one more from behind the last point of a block.         *)
Walk(w, x) ==
  /\ w = [n \in 0..Len(PointsIn(leaf)) + 1 |-> w[n]]
  /\ w[0] = x
  /\ \A n \in 1..Len(PointsIn(leaf)) + 1 : w[n] = Up(w[n - 1])

LEMMA WalkExists ==
  ASSUME MapInv, NEW x, Placed(x)
  PROVE  Walk(WalkUp(x), x)
<1> DEFINE V == {y \in [class : Forward \cup Backward, node : 1..Leaves,
                        block : 0..MaxBlockNum - 1, slot : 0..Cap] : Placed(y)}
           g == [p \in Nat \X V |-> Up(p[2])]
           m == Len(PointsIn(leaf)) + 1
           Is(w) == w = [n \in 0..m |-> IF n = 0 THEN x ELSE Up(w[n - 1])]
<1>1. \A y : Placed(y) => y \in V
  BY DEF Placed
<1>2. x \in V
  BY <1>1
<1>3. \A y \in V : Up(y) \in V
  <2> TAKE y \in V
  <2>1. Leads(y, Up(y), PlaceUp(y))
    BY UpIs
  <2>2. Placed(Up(y))
    BY <2>1 DEF Leads
  <2> QED  BY <1>1, <2>2
<1> HIDE DEF V
<1>4. g \in [Nat \X V -> V] /\ \A n \in Nat, y \in V : g[<<n, y>>] = Up(y)
  BY <1>3
<1> HIDE DEF g
<1>5. PICK f : Recurs(f, V, x, g)
  BY <1>2, <1>4, Recursion
<1>6. f \in [Nat -> V] /\ f[0] = x /\ \A n \in Nat : f[n + 1] = Up(f[n])
  <2>1. f \in [Nat -> V] /\ f[0] = x /\ \A n \in Nat : f[n + 1] = g[<<n + 1, f[n]>>]
    BY <1>5 DEF Recurs
  <2>2. ASSUME NEW n \in Nat
        PROVE  f[n + 1] = Up(f[n])
    <3>1. f[n] \in V /\ n + 1 \in Nat /\ f[n + 1] = g[<<n + 1, f[n]>>]
      BY <2>1
    <3> QED  BY <1>4, <3>1
  <2> QED  BY <2>1, <2>2
<1>7. m \in Nat
  <2>1. PointsIn(leaf) \in Seq(Key)
    BY MapJoins DEF MapInv
  <2> QED  BY <2>1
<1> HIDE DEF m
<1>8. Is([n \in 0..m |-> f[n]])
  <2> DEFINE h == [n \in 0..m |-> f[n]]
  <2>1. ASSUME NEW n \in 0..m
        PROVE  h[n] = IF n = 0 THEN x ELSE Up(h[n - 1])
    <3>1. CASE n = 0
      BY <1>6, <3>1
    <3>2. CASE n # 0
      <4>1. n - 1 \in Nat /\ (n - 1) + 1 = n /\ n - 1 \in 0..m
        BY <1>7, <3>2
      <4>2. f[n] = Up(f[n - 1])
        BY <1>6, <4>1
      <4> QED  BY <3>2, <4>1, <4>2
    <3> QED  BY <3>1, <3>2
  <2>2. h = [n \in 0..m |-> h[n]]
    OBVIOUS
  <2> HIDE DEF h
  <2>3. Is(h)
    BY <2>1, <2>2
  <2> QED  BY <2>3 DEF h
<1>9. WalkUp(x) = CHOOSE w : Is(w)
  BY PointsAre DEF WalkUp, m
<1> DEFINE c == WalkUp(x)
<1>10. Is(c)
  BY <1>8, <1>9
<1> HIDE DEF c
<1>11. c = [n \in 0..m |-> IF n = 0 THEN x ELSE Up(c[n - 1])]
  BY <1>10
<1>12. c[0] = x /\ c = [n \in 0..m |-> c[n]]
  BY <1>7, <1>11
<1>13. ASSUME NEW n \in 1..m
       PROVE  c[n] = Up(c[n - 1])
  <2>1. n \in 0..m /\ n # 0
    BY <1>7
  <2> QED  BY <1>11, <2>1
<1>14. Walk(c, x)
  BY <1>12, <1>13 DEF Walk, m
<1> QED  BY <1>14 DEF c

(* Where the walk is after n steps.                                        *)
WalkIsAt(w, x, n) ==
  /\ Placed(w[n]) /\ w[n].class = "iterator"
  /\ IF PlaceUp(x) + (n - 1) < Len(PointsIn(leaf))
     THEN PlaceOf(w[n]) = PlaceUp(x) + (n - 1) /\ AtPoint(w[n])
     ELSE w[n] = End("iterator")

LEMMA WalkIs ==
  ASSUME MapInv, NEW x, Placed(x), x.class = "iterator", NEW w, Walk(w, x)
  PROVE  \A n \in 1..Len(PointsIn(leaf)) + 1 : WalkIsAt(w, x, n)
<1> DEFINE m == Len(PointsIn(leaf))
           q == PlaceUp(x)
           T == {d \in Nat : d <= m => WalkIsAt(w, x, d + 1)}
<1>0. Shaped(leaf) /\ "iterator" \in Forward /\ "iterator" \in Forward \cup Backward
  BY DEF MapInv, Forward
<1>1. m \in Nat /\ PlaceOf(x) \in 0..m /\ x.slot \in Nat
  BY <1>0, PlacedIs
<1>2. q \in Nat /\ q <= m + 1
  BY <1>1 DEF PlaceUp
<1>3. \A y : y.class = "iterator" => EndOf(y) = End("iterator")
  BY <1>0 DEF EndOf
<1>4. ASSUME NEW y, Placed(y), y.class = "iterator", NEW p, PlaceUp(y) = p, p \in Nat
      PROVE  /\ Placed(Up(y)) /\ Up(y).class = "iterator"
             /\ IF p < m THEN PlaceOf(Up(y)) = p /\ AtPoint(Up(y)) ELSE Up(y) = End("iterator")
  <2>1. Leads(y, Up(y), p)
    BY <1>4, UpIs
  <2>2. Refers("iterator", p) <=> p < m
    BY <1>0, <1>1, <1>4 DEF Refers
  <2> HIDE DEF m
  <2> QED  BY <1>3, <1>4, <2>1, <2>2 DEF Leads
<1>5. ASSUME NEW y, Placed(y), y.class = "iterator"
      PROVE  /\ AtPoint(y) => PlaceUp(y) = PlaceOf(y) + 1
             /\ y = End("iterator") => PlaceUp(y) \in Nat /\ ~ (PlaceUp(y) < m)
  <2>1. y.slot \in Nat /\ SizeIn(leaf, y.node, y.block) \in 0..Cap
        /\ PlaceOf(y) \in 0..m
    BY <1>0, <1>5, PlacedIs
  <2>2. AtPoint(y) => y.slot # SizeIn(leaf, y.node, y.block)
    BY <1>0, <1>5, <2>1, SizesAssumption DEF AtPoint
  <2>3. y = End("iterator") => PlaceOf(y) = m
    <3>1. PlaceOf(EndOf(y)) = m
      BY <1>0, <1>5, EndOfIs DEF EndPlace
    <3> QED  BY <1>3, <1>5, <3>1
  <2> HIDE DEF m
  <2> QED  BY <1>1, <2>1, <2>2, <2>3 DEF PlaceUp
<1>6. 0 \in T
  <2>1. 1 \in 1..m + 1 /\ 1 - 1 = 0
    BY <1>1
  <2>2. w[1] = Up(x)
    <3>1. w[0] = x /\ \A n \in 1..m + 1 : w[n] = Up(w[n - 1])
      BY DEF Walk
    <3>2. w[1] = Up(w[1 - 1])
      BY <2>1, <3>1
    <3> QED  BY <2>1, <3>1, <3>2
  <2>3. q + (1 - 1) = q
    BY <1>2
  <2> HIDE DEF m, q
  <2>4. /\ Placed(Up(x)) /\ Up(x).class = "iterator"
        /\ IF q < m THEN PlaceOf(Up(x)) = q /\ AtPoint(Up(x)) ELSE Up(x) = End("iterator")
    BY <1>2, <1>4 DEF q
  <2>5. WalkIsAt(w, x, 1)
    BY <2>2, <2>3, <2>4 DEF WalkIsAt, m, q
  <2> QED  BY <2>5
<1>7. ASSUME NEW d \in Nat, d \in T
      PROVE  d + 1 \in T
  <2> SUFFICES ASSUME d + 1 <= m PROVE WalkIsAt(w, x, (d + 1) + 1)
    OBVIOUS
  <2>1. /\ d <= m /\ d + 1 \in 1..m + 1 /\ (d + 1) + 1 \in 1..m + 1
        /\ ((d + 1) + 1) - 1 = d + 1 /\ (d + 1) - 1 = d /\ q + d \in Nat
        /\ (q + d) + 1 = q + (d + 1)
    BY <1>1, <1>2
  <2>2. w[(d + 1) + 1] = Up(w[((d + 1) + 1) - 1])
    BY <2>1 DEF Walk
  <2> DEFINE y == w[d + 1]
             z == w[(d + 1) + 1]
  <2>3. z = Up(y)
    BY <2>1, <2>2
  <2>4. WalkIsAt(w, x, d + 1)
    BY <1>7, <2>1
  <2>5. /\ Placed(y) /\ y.class = "iterator"
        /\ IF q + d < m THEN PlaceOf(y) = q + d /\ AtPoint(y) ELSE y = End("iterator")
    BY <2>1, <2>4 DEF WalkIsAt
  <2> HIDE DEF m, q, y, z
  <2>6. /\ Placed(z) /\ z.class = "iterator"
        /\ IF q + (d + 1) < m THEN PlaceOf(z) = q + (d + 1) /\ AtPoint(z)
           ELSE z = End("iterator")
    <3>1. CASE q + d < m
      <4>1. PlaceUp(y) = q + (d + 1) /\ q + (d + 1) \in Nat
        BY <1>5, <2>1, <2>5, <3>1
      <4> QED  BY <1>4, <2>3, <2>5, <4>1
    <3>2. CASE ~ (q + d < m)
      <4>1. PlaceUp(y) \in Nat /\ ~ (PlaceUp(y) < m)
        BY <1>5, <2>5, <3>2
      <4>2. Placed(Up(y)) /\ Up(y).class = "iterator" /\ Up(y) = End("iterator")
        BY <1>4, <2>5, <4>1
      <4>3. ~ (q + (d + 1) < m)
        BY <1>1, <1>2, <2>1, <3>2
      <4> QED  BY <2>3, <4>2, <4>3
    <3> QED  BY <3>1, <3>2
  <2> QED  BY <2>1, <2>6 DEF WalkIsAt, m, q, z
<1>8. Nat \subseteq T
  <2> HIDE DEF T
  <2> QED  BY <1>6, <1>7, Induction
<1>9. ASSUME NEW n \in 1..m + 1
      PROVE  WalkIsAt(w, x, n)
  <2>1. n - 1 \in Nat /\ n - 1 <= m /\ (n - 1) + 1 = n
    BY <1>1
  <2>2. n - 1 \in T
    BY <1>8, <2>1
  <2> QED  BY <2>1, <2>2
<1> QED  BY <1>9

----------------------------------------------------------------------------
(* The lookups.  Behind each of them there is a point or it is the end.    *)
Held(x) == Placed(x) /\ (x = EndOf(x) \/ AtPoint(x))

LEMMA LedIsHeld ==
  ASSUME NEW x, NEW y, NEW p, Leads(x, y, p)
  PROVE  Held(y) /\ y.class = x.class
<1>1. Placed(y) /\ y.class = x.class /\ (AtPoint(y) \/ y = EndOf(x))
  BY DEF Leads
<1>2. EndOf(y) = EndOf(x)
  BY <1>1 DEF EndOf
<1> QED  BY <1>1, <1>2 DEF Held

LEMMA EndIsHeld ==
  ASSUME MapInv, NEW class \in Forward \cup Backward
  PROVE  LET e == IF class \in Forward THEN End(class) ELSE REnd(class)
         IN Held(e) /\ e.class = class
<1> DEFINE x == At(class, 1, 0, 0)
           e == IF class \in Forward THEN End(class) ELSE REnd(class)
<1>1. x.class = class
  BY AtIs
<1> HIDE DEF x
<1>2. EndOf(x) = e
  BY <1>1 DEF EndOf
<1>3. Placed(e) /\ e.class = class
  BY <1>1, <1>2, EndOfIs
<1>4. EndOf(e) = e
  BY <1>1, <1>2, <1>3 DEF EndOf
<1> QED  BY <1>3, <1>4 DEF Held

LEMMA SubsetCounts ==
  ASSUME NEW n \in Nat, NEW T, T \subseteq 1..n
  PROVE  Cardinality(T) \in 0..n
<1>1. IsFiniteSet(1..n) /\ Cardinality(1..n) = n
  BY FS_Interval
<1>2. IsFiniteSet(T) /\ Cardinality(T) <= n
  BY <1>1, FS_Subset
<1>3. Cardinality(T) \in Nat
  BY <1>2, FS_CardinalityType
<1> QED  BY <1>2, <1>3

LEMMA PositionIs ==
  ASSUME MapInv, NEW k \in Key
  PROVE  /\ Placed(Position(k)) /\ Position(k).class = "iterator"
         /\ Position(k).node = home[k]
         /\ Position(k).block = Search(home[k], k)
         /\ Position(k).slot = SearchDataBlock(home[k], Search(home[k], k), k)
<1> DEFINE i == home[k]
           b == Search(i, k)
           s == SearchDataBlock(i, b, k)
<1>1. Position(k) = At("iterator", i, b, s)
  BY DEF Position
<1>2. i \in 1..Leaves /\ Shaped(leaf)
  BY DEF MapInv
<1> HIDE DEF i
<1>3. Num(i) \in 0..MaxBlockNum /\ Num(i) = NumIn(leaf, i) /\ MaxBlockNum \in Nat \ {0}
  BY <1>2, LeafJoins, NumIs, SizesAssumption
<1>4. b \in Nat /\ b <= Num(i) /\ b <= MaxBlockNum - 1 /\ b \in 0..NumIn(leaf, i)
  <2> DEFINE T == {c \in 1..Num(i) - 1 : leaf[i].slotkeys[c] <= k}
  <2>1. b = Cardinality(T)
    BY DEF Search
  <2>2. CASE Num(i) = 0
    <3>1. T \subseteq 1..0
      BY <2>2
    <3> HIDE DEF T
    <3>2. Cardinality(T) \in 0..0
      BY <3>1, SubsetCounts
    <3> HIDE DEF b
    <3> QED  BY <1>3, <2>1, <3>2
  <2>3. CASE Num(i) # 0
    <3>1. Num(i) - 1 \in Nat /\ T \subseteq 1..Num(i) - 1
      BY <1>3, <2>3
    <3> HIDE DEF T
    <3>2. Cardinality(T) \in 0..Num(i) - 1
      BY <3>1, SubsetCounts
    <3> HIDE DEF b
    <3> QED  BY <1>3, <2>1, <3>1, <3>2
  <2> QED  BY <2>2, <2>3
<1>5. IsPlace(leaf, i, b)
  BY <1>2, <1>4, SizesAssumption DEF IsPlace
<1> HIDE DEF b
<1>6. GetBlockSize(i, b) = SizeIn(leaf, i, b) /\ SizeIn(leaf, i, b) \in 0..Cap
  BY <1>2, <1>4, <1>5, SizeIs, PlaceIs
<1>7. Cap \in Nat
  BY SizesAssumption
<1>8. s \in 0..SizeIn(leaf, i, b)
  <2> DEFINE n == SizeIn(leaf, i, b)
             T == {c \in 1..n : leaf[i].blocks[b + 1][c] < k}
  <2>1. s = Cardinality(T)
    BY <1>6 DEF SearchDataBlock
  <2>2. n \in Nat /\ T \subseteq 1..n
    BY <1>6, <1>7
  <2> HIDE DEF n, T
  <2>3. Cardinality(T) \in 0..n
    BY <2>2, SubsetCounts
  <2> QED  BY <2>1, <2>3 DEF n
<1> HIDE DEF s
<1>9. s \in 0..Cap /\ s <= SizeIn(leaf, i, b) /\ b \in 0..MaxBlockNum - 1
  BY <1>3, <1>4, <1>6, <1>7, <1>8
<1>10. "iterator" \in Forward
  BY DEF Forward
<1>11. Placed(Position(k))
  <2> DEFINE x == Position(k)
  <2>1. x \in [class : Forward \cup Backward, node : 1..Leaves,
               block : 0..MaxBlockNum - 1, slot : 0..Cap]
    BY <1>1, <1>2, <1>9, <1>10 DEF At
  <2>2. x.node = i /\ x.block = b /\ x.slot = s
    BY <1>1, AtIs
  <2> HIDE DEF x
  <2> QED  BY <1>5, <1>9, <2>1, <2>2 DEF Placed, x
<1> QED  BY <1>1, <1>11, AtIs DEF i, b, s

LEMMA LowerBoundIsHeld ==
  ASSUME MapInv, NEW k \in Key
  PROVE  Held(LowerBound(k)) /\ LowerBound(k).class = "iterator"
<1> DEFINE x == Position(k)
<1>1. Placed(x) /\ x.class = "iterator" /\ "iterator" \in Forward
  BY PositionIs DEF Forward
<1>2. LowerBound(k) = IF x.slot >= SizeAt(x) THEN Up(x) ELSE x
  BY DEF LowerBound
<1> HIDE DEF x
<1>3. CASE x.slot >= SizeAt(x)
  BY <1>1, <1>2, <1>3, UpIs, LedIsHeld
<1>4. CASE ~ (x.slot >= SizeAt(x))
  <2>1. x.slot \in Nat /\ SizeAt(x) \in 0..Cap /\ SizeAt(x) = SizeIn(leaf, x.node, x.block)
    BY <1>1, PlacedIs DEF MapInv
  <2>2. x.slot < SizeIn(leaf, x.node, x.block)
    BY <1>4, <2>1, SizesAssumption
  <2>3. AtPoint(x)
    BY <1>1, <2>2 DEF AtPoint
  <2>4. LowerBound(k) = x
    BY <1>2, <1>4
  <2> QED  BY <1>1, <2>3, <2>4 DEF Held
<1> QED  BY <1>3, <1>4

(* Where the loop of upper_bound stops, and how it comes there.            *)
StopsAt(k, y) == y = End("iterator") \/ (y.slot < SizeAt(y) /\ KeyAt(y) # k)
Stop(k, w) == Min({n \in DOMAIN w : StopsAt(k, w[n])})

LEMMA WalkEnds ==
  ASSUME MapInv, NEW x, Placed(x), x.class = "iterator", NEW w, Walk(w, x)
  PROVE  /\ DOMAIN w = 0..Len(PointsIn(leaf)) + 1
         /\ Len(PointsIn(leaf)) + 1 \in Nat
         /\ w[Len(PointsIn(leaf)) + 1] = End("iterator")
         /\ \A n \in DOMAIN w : Placed(w[n]) /\ w[n].class = "iterator"
<1> DEFINE m == Len(PointsIn(leaf))
<1>1. Shaped(leaf)
  BY DEF MapInv
<1>2. m \in Nat /\ PlaceOf(x) \in 0..m
  BY <1>1, PlacedIs
<1>3. PlaceUp(x) \in Nat
  BY <1>2 DEF PlaceUp
<1>4. DOMAIN w = 0..m + 1 /\ w[0] = x
  BY DEF Walk
<1>5. \A n \in 1..m + 1 : WalkIsAt(w, x, n)
  BY WalkIs
<1> HIDE DEF m
<1>6. w[m + 1] = End("iterator")
  <2>1. m + 1 \in 1..m + 1 /\ ~ (PlaceUp(x) + ((m + 1) - 1) < m)
    BY <1>2, <1>3
  <2>2. WalkIsAt(w, x, m + 1)
    BY <1>5, <2>1
  <2> QED  BY <2>1, <2>2 DEF WalkIsAt, m
<1>7. ASSUME NEW n \in 0..m + 1
      PROVE  Placed(w[n]) /\ w[n].class = "iterator"
  <2>1. CASE n = 0
    BY <1>4, <2>1
  <2>2. CASE n # 0
    <3>1. n \in 1..m + 1
      BY <1>2, <2>2
    <3>2. WalkIsAt(w, x, n)
      BY <1>5, <3>1
    <3> QED  BY <3>2 DEF WalkIsAt
  <2> QED  BY <2>1, <2>2
<1> QED  BY <1>2, <1>4, <1>6, <1>7 DEF m

LEMMA StopIs ==
  ASSUME MapInv, NEW k \in Key
  PROVE  LET w == WalkUp(Position(k)) IN
         /\ Walk(w, Position(k))
         /\ UpperBound(k) = w[Stop(k, w)]
         /\ Stop(k, w) \in DOMAIN w /\ StopsAt(k, w[Stop(k, w)])
         /\ \A n \in DOMAIN w : StopsAt(k, w[n]) => Stop(k, w) <= n
         /\ Placed(UpperBound(k)) /\ UpperBound(k).class = "iterator"
<1> DEFINE w == WalkUp(Position(k))
           T == {n \in DOMAIN w : StopsAt(k, w[n])}
           m == Len(PointsIn(leaf))
<1>1. Placed(Position(k)) /\ Position(k).class = "iterator"
  BY PositionIs
<1>2. Walk(w, Position(k))
  BY <1>1, WalkExists
<1>3. UpperBound(k) = w[Stop(k, w)]
  BY DEF UpperBound, Stop, StopsAt
<1> HIDE DEF w
<1>4. /\ DOMAIN w = 0..m + 1 /\ m + 1 \in Nat
      /\ w[m + 1] = End("iterator")
      /\ \A n \in DOMAIN w : Placed(w[n]) /\ w[n].class = "iterator"
  BY <1>1, <1>2, WalkEnds
<1> HIDE DEF m
<1>5. T \subseteq Nat /\ m + 1 \in T
  BY <1>4 DEF StopsAt
<1>6. Min(T) \in T /\ \A n \in T : Min(T) <= n
  <2> HIDE DEF T
  <2> QED  BY <1>5, MinOfNumbers
<1>7. Stop(k, w) = Min(T)
  BY DEF Stop
<1>8. /\ Stop(k, w) \in DOMAIN w /\ StopsAt(k, w[Stop(k, w)])
      /\ \A n \in DOMAIN w : StopsAt(k, w[n]) => Stop(k, w) <= n
  BY <1>6, <1>7
<1> QED  BY <1>2, <1>3, <1>4, <1>8 DEF w

LEMMA UpperBoundIsHeld ==
  ASSUME MapInv, NEW k \in Key
  PROVE  Held(UpperBound(k)) /\ UpperBound(k).class = "iterator"
<1> DEFINE y == UpperBound(k)
<1>1. Placed(y) /\ y.class = "iterator" /\ StopsAt(k, y)
  BY StopIs
<1>2. "iterator" \in Forward
  BY DEF Forward
<1> HIDE DEF y
<1>3. CASE y = End("iterator")
  <2>1. EndOf(y) = End("iterator")
    BY <1>1, <1>2 DEF EndOf
  <2> QED  BY <1>1, <1>3, <2>1 DEF Held, y
<1>4. CASE y.slot < SizeAt(y)
  <2>1. SizeAt(y) = SizeIn(leaf, y.node, y.block)
    BY <1>1, PlacedIs DEF MapInv
  <2> QED  BY <1>1, <1>2, <1>4, <2>1 DEF Held, AtPoint, y
<1> QED  BY <1>1, <1>3, <1>4 DEF StopsAt

LEMMA FindIsHeld ==
  ASSUME MapInv, NEW k \in Key
  PROVE  Held(Find(k)) /\ Find(k).class = "iterator"
<1> DEFINE x == Position(k)
<1>1. Placed(x) /\ x.class = "iterator" /\ "iterator" \in Forward
  BY PositionIs DEF Forward
<1>2. Find(k) = IF x.slot >= SizeAt(x) \/ KeyAt(x) # k THEN End("iterator") ELSE x
  BY DEF Find
<1> HIDE DEF x
<1>3. CASE x.slot >= SizeAt(x) \/ KeyAt(x) # k
  <2>1. Find(k) = End("iterator")
    BY <1>2, <1>3
  <2> QED  BY <1>1, <2>1, EndIsHeld
<1>4. CASE ~ (x.slot >= SizeAt(x) \/ KeyAt(x) # k)
  <2>1. x.slot \in Nat /\ SizeAt(x) \in 0..Cap /\ SizeAt(x) = SizeIn(leaf, x.node, x.block)
    BY <1>1, PlacedIs DEF MapInv
  <2>2. x.slot < SizeIn(leaf, x.node, x.block)
    BY <1>4, <2>1, SizesAssumption
  <2>3. AtPoint(x)
    BY <1>1, <2>2 DEF AtPoint
  <2>4. Find(k) = x
    BY <1>2, <1>4
  <2> QED  BY <1>1, <2>3, <2>4 DEF Held
<1> QED  BY <1>3, <1>4

----------------------------------------------------------------------------
(* A call that gives an iterator leaves the map as it is.                  *)
SameMap == home' = home /\ leaf' = leaf /\ firstLeaf' = firstLeaf /\ lastLeaf' = lastLeaf

LEMMA SizesStay ==
  ASSUME SameMap
  PROVE  /\ \A i : Num(i)' = Num(i)
         /\ \A i, b : GetBlockSize(i, b)' = GetBlockSize(i, b)
         /\ Full' = Full
<1>1. \A i : Num(i)' = Num(i)
  BY DEF SameMap, Num
<1>2. \A i, b : GetBlockSize(i, b)' = GetBlockSize(i, b)
  BY <1>1 DEF SameMap, GetBlockSize
<1>3. Full' = Full
  BY <1>2 DEF Full
<1> QED  BY <1>1, <1>2, <1>3

LEMMA EndsStay ==
  ASSUME SameMap
  PROVE  /\ \A class : Begin(class)' = Begin(class) /\ RBegin(class)' = RBegin(class)
         /\ \A class : End(class)' = End(class) /\ REnd(class)' = REnd(class)
         /\ \A x : EndOf(x)' = EndOf(x)
<1>1. \A x : SizeAt(x)' = SizeAt(x)
  BY SizesStay DEF SizeAt
<1>2. \A x : Behind(x)' = Behind(x) /\ Ahead(x)' = Ahead(x)
  BY SizesStay DEF Behind, Ahead
<1>3. \A x : NearestBehind(x)' = NearestBehind(x) /\ NearestAhead(x)' = NearestAhead(x)
  BY <1>2 DEF NearestBehind, NearestAhead
<1>4. \A class, p : ToLast(class, p)' = ToLast(class, p)
  BY SizesStay DEF ToLast
<1>5. \A class : Begin(class)' = Begin(class)
  BY <1>1, <1>3 DEF SameMap, Begin
<1>6. \A class : RBegin(class)' = RBegin(class)
  BY <1>1, <1>3, <1>4, SizesStay DEF SameMap, RBegin
<1>7. \A class : End(class)' = End(class) /\ REnd(class)' = REnd(class)
  BY <1>5, <1>6 DEF End, REnd
<1>8. \A x : EndOf(x)' = EndOf(x)
  BY <1>7 DEF EndOf
<1> QED  BY <1>5, <1>6, <1>7, <1>8

LEMMA MapStays ==
  ASSUME MapInv, SameMap
  PROVE  MapInv'
BY DEF MapInv, SameMap

LEMMA PlacesStay ==
  ASSUME SameMap, NEW x, it' = x
  PROVE  /\ Placed(it)' <=> Placed(x)
         /\ Held(it)' <=> Held(x)
         /\ (it = NoIterator)' <=> x = NoIterator
<1>1. Placed(it)' <=> Placed(x)
  BY DEF Placed, SameMap
<1>2. AtPoint(it)' <=> AtPoint(x)
  BY DEF AtPoint, SameMap
<1>3. EndOf(it)' = EndOf(x)
  <2>1. EndOf(it)' = IF x.class \in Forward THEN End(x.class)' ELSE REnd(x.class)'
    BY DEF EndOf
  <2> QED  BY <2>1, EndsStay DEF EndOf
<1> QED  BY <1>1, <1>2, <1>3 DEF Held
LEMMA TakeKeeps ==
  ASSUME MapInv, NEW op, NEW k, NEW x, Take(op, k, x)
  PROVE  MapInv' /\ SameMap /\ (Placed(x) => Placed(it)') /\ (Held(x) => Held(it)')
<1>1. SameMap /\ it' = x
  BY DEF Take, SameMap
<1> QED  BY <1>1, MapStays, PlacesStay

(* The edges of the map.                                                   *)
LEMMA BeginIsHeld ==
  ASSUME MapInv
  PROVE  /\ \A class \in Forward : Held(Begin(class)) /\ Begin(class).class = class
                                   /\ PlaceOf(Begin(class)) = 0
         /\ \A class \in Backward : Held(RBegin(class)) /\ RBegin(class).class = class
                                    /\ PlaceOf(RBegin(class)) = Len(PointsIn(leaf))
<1>1. Shaped(leaf)
  BY DEF MapInv
<1>2. ASSUME NEW class \in Forward
      PROVE  Held(Begin(class)) /\ Begin(class).class = class /\ PlaceOf(Begin(class)) = 0
  <2>1. PICK i, b : IsBegin(i, b)
    BY BeginIs
  <2>2. IsEdge(i, b) /\ Before(leaf, i, b) = 0 /\ Begin(class) = At(class, i, b, 0)
    BY <2>1 DEF IsBegin
  <2>3. /\ i \in 1..Leaves /\ b \in 0..NumIn(leaf, i) - 1
        /\ SizeIn(leaf, i, b) > 0 /\ SizeIn(leaf, i, b) \in Nat
    BY <2>2 DEF IsEdge
  <2>4. 0 \in 0..SizeIn(leaf, i, b) /\ class \in Forward \cup Backward
    BY <2>3
  <2>5. Placed(At(class, i, b, 0)) /\ PlaceOf(At(class, i, b, 0)) = 0 + 0
    BY <1>1, <2>2, <2>3, <2>4, PlacedAt
  <2>6. AtPoint(At(class, i, b, 0))
    BY <2>3, AtIs DEF AtPoint
  <2> QED  BY <2>2, <2>5, <2>6, AtIs DEF Held
<1>3. ASSUME NEW class \in Backward
      PROVE  /\ Held(RBegin(class)) /\ RBegin(class).class = class
             /\ PlaceOf(RBegin(class)) = Len(PointsIn(leaf))
  <2>1. PICK i, b : IsRBegin(i, b)
    BY RBeginIs
  <2> DEFINE s == SizeIn(leaf, i, b)
  <2>2. /\ IsEdge(i, b) /\ Before(leaf, i, b) + s = Len(PointsIn(leaf))
        /\ RBegin(class) = At(class, i, b, s)
    BY <2>1 DEF IsRBegin
  <2>3. i \in 1..Leaves /\ b \in 0..NumIn(leaf, i) - 1 /\ s > 0 /\ s \in Nat
    BY <2>2 DEF IsEdge
  <2>4. s \in 0..SizeIn(leaf, i, b) /\ class \in Forward \cup Backward /\ class \notin Forward
    BY <2>3, ClassesApart
  <2>5. /\ Placed(At(class, i, b, s))
        /\ PlaceOf(At(class, i, b, s)) = Before(leaf, i, b) + s
    BY <1>1, <2>3, <2>4, PlacedAt
  <2>6. AtPoint(At(class, i, b, s))
    BY <2>3, <2>4, AtIs DEF AtPoint
  <2> HIDE DEF s
  <2> QED  BY <2>2, <2>5, <2>6, AtIs DEF Held
<1> QED  BY <1>2, <1>3

LEMMA EdgeGives ==
  ASSUME MapInv, Edge \/ ConstEdge
  PROVE  \E op, x : Take(op, 0, x) /\ Held(x)
<1>1. /\ {"iterator", "const_iterator"} \subseteq Forward
      /\ {"reverse_iterator", "const_reverse_iterator"} \subseteq Backward
      /\ {"reverse_iterator", "const_reverse_iterator"} \cap Forward = {}
  BY DEF Forward, Backward
<1>2. /\ \A class \in Forward : Held(Begin(class)) /\ Held(End(class))
      /\ \A class \in Backward \ Forward : Held(RBegin(class)) /\ Held(REnd(class))
  BY BeginIsHeld, EndIsHeld
<1> QED  BY <1>1, <1>2 DEF Edge, ConstEdge

(* ++ and --.                                                              *)
LEMMA StepGives ==
  ASSUME MapInv, it = NoIterator \/ Placed(it),
         IteratorStep \/ ConstStep \/ ReverseStep \/ ConstReverseStep
  PROVE  \E op, x : Take(op, 0, x) /\ Held(x)
<1>1. it.class # "none"
  BY DEF IteratorStep, ConstStep, ReverseStep, ConstReverseStep
<1>2. Placed(it)
  BY <1>1, AtIs DEF NoIterator
<1>3. Held(Up(it)) /\ Held(Down(it))
  BY <1>2, UpIs, DownIs, LedIsHeld
<1> QED  BY <1>3 DEF IteratorStep, ConstStep, ReverseStep, ConstReverseStep

LEMMA LookupGives ==
  ASSUME MapInv, NEW k \in Key,
         \/ Take("lower_bound", k, LowerBound(k))
         \/ Take("upper_bound", k, UpperBound(k))
         \/ Take("find", k, Find(k))
  PROVE  \E op, x : Take(op, k, x) /\ Held(x)
BY LowerBoundIsHeld, UpperBoundIsHeld, FindIsHeld

(* An iterator made from one of another class.                             *)
LEMMA ConvertGives ==
  ASSUME MapInv, it = NoIterator \/ Placed(it), NEW class \in DOMAIN From, Convert(class)
  PROVE  \E x : /\ Take("convert", 0, x) /\ Placed(x) /\ PlaceOf(x) = PlaceOf(it)
                /\ x.class = class /\ class \in Forward \cup Backward /\ Placed(it)
                /\ "converted at a block's edge" \notin Odd /\ Held(it) => Held(x)
<1> DEFINE x == [it EXCEPT !.class = class]
<1>1. /\ it.class \in From[class]
      /\ \/ (it.class \in Forward) = (class \in Forward)
         \/ IF class \in Forward THEN x.slot < SizeAt(x) ELSE x.slot > 0
         \/ x = EndOf(x)
         \/ "converted at a block's edge" \in Odd
      /\ Take("convert", 0, x)
  BY DEF Convert
<1>2. class \in Forward \cup Backward /\ it.class \in Forward \cup Backward
  <2>1. class \in {"iterator", "const_iterator", "reverse_iterator", "const_reverse_iterator"}
    BY DEF From
  <2>2. it.class \in From[class]
    BY <1>1
  <2> HIDE DEF x
  <2>3. it.class \in {"iterator", "const_iterator", "reverse_iterator", "const_reverse_iterator"}
    <3>1. /\ From["iterator"] = IteratorFrom /\ From["const_iterator"] = ConstFrom
          /\ From["reverse_iterator"] = ReverseFrom
          /\ From["const_reverse_iterator"] = ConstReverseFrom
      BY DEF From
    <3> QED  BY <2>1, <2>2, <3>1 DEF IteratorFrom, ConstFrom, ReverseFrom, ConstReverseFrom
  <2> QED  BY ONLY <2>1, <2>3 DEF Forward, Backward
<1>3. Placed(it)
  <2>1. it.class # "none"
    BY <1>2 DEF Forward, Backward
  <2> QED  BY <2>1, AtIs DEF NoIterator
<1>4. /\ x.class = class /\ x.node = it.node /\ x.block = it.block /\ x.slot = it.slot
      /\ x \in [class : Forward \cup Backward, node : 1..Leaves,
                block : 0..MaxBlockNum - 1, slot : 0..Cap]
  BY <1>2, <1>3 DEF Placed
<1> HIDE DEF x
<1>5. Placed(x) /\ PlaceOf(x) = PlaceOf(it)
  BY <1>3, <1>4 DEF Placed, PlaceOf
<1>6. SizeAt(x) = SizeIn(leaf, x.node, x.block)
  BY <1>5, PlacedIs DEF MapInv
<1>7. ASSUME "converted at a block's edge" \notin Odd, Held(it)
      PROVE  Held(x)
  <2>1. CASE (it.class \in Forward) = (class \in Forward)
    <3>1. CASE AtPoint(it)
      <4>1. AtPoint(x)
        BY <1>4, <2>1, <3>1 DEF AtPoint
      <4> QED  BY <1>5, <4>1 DEF Held
    <3>2. CASE it = EndOf(it)
      <4> DEFINE e == IF class \in Forward THEN RBegin("reverse_iterator") ELSE Begin("iterator")
      <4>1. EndOf(it) = [e EXCEPT !.class = it.class] /\ EndOf(x) = [e EXCEPT !.class = class]
        BY <1>4, <2>1 DEF EndOf, End, REnd
      <4>2. it = [e EXCEPT !.class = it.class] /\ x = [it EXCEPT !.class = class]
        BY <3>2, <4>1 DEF x
      <4>3. \E i, b, s, c : e = At(c, i, b, s)
        <5>1. PICK i1, b1 : IsRBegin(i1, b1)
          BY RBeginIs
        <5>2. PICK i2, b2 : IsBegin(i2, b2)
          BY BeginIs
        <5> QED  BY <5>1, <5>2 DEF IsRBegin, IsBegin, Forward, Backward
      <4> HIDE DEF e
      <4>4. PICK i, b, s, c : e = At(c, i, b, s)
        BY <4>3
      <4>5. it = At(it.class, i, b, s)
        BY <4>2, <4>4 DEF At
      <4>6. x = At(class, i, b, s)
        BY <4>2, <4>5 DEF At
      <4>7. EndOf(x) = At(class, i, b, s)
        BY <4>1, <4>4 DEF At
      <4> QED  BY <1>5, <4>6, <4>7 DEF Held
    <3> QED  BY <1>7, <3>1, <3>2 DEF Held
  <2>2. CASE IF class \in Forward THEN x.slot < SizeAt(x) ELSE x.slot > 0
    <3>1. AtPoint(x)
      BY <1>4, <1>6, <2>2 DEF AtPoint
    <3> QED  BY <1>5, <3>1 DEF Held
  <2>3. CASE x = EndOf(x)
    BY <1>5, <2>3 DEF Held
  <2> QED  BY <1>1, <1>7, <2>1, <2>2, <2>3 DEF x
<1>8. Take("convert", 0, x)
  BY <1>1 DEF x
<1> QED  BY <1>2, <1>3, <1>4, <1>5, <1>7, <1>8

----------------------------------------------------------------------------
(* A point is taken out of its block.                                      *)
WithoutAt(s, p) == SubSeq(s, 1, p - 1) \o SubSeq(s, p + 1, Len(s))

LEMMA CutOut ==
  ASSUME NEW S, NEW s \in Seq(S), NEW p \in 1..Len(s)
  PROVE  /\ WithoutAt(s, p) \in Seq(S) /\ Len(WithoutAt(s, p)) = Len(s) - 1
         /\ \A q \in 1..Len(s) - 1 :
              WithoutAt(s, p)[q] = IF q < p THEN s[q] ELSE s[q + 1]
<1> DEFINE n == Len(s)
           a == SubSeq(s, 1, p - 1)
           b == SubSeq(s, p + 1, n)
<1>1. n \in Nat /\ p \in 1..n /\ p \in Int /\ \A i \in 1..n : s[i] \in S
  OBVIOUS
<1> HIDE DEF n
<1>2. a \in Seq(S) /\ Len(a) = p - 1 /\ \A i \in 1..p - 1 : a[i] = s[i]
  <2>1. 1 \in Int /\ p - 1 \in Int /\ \A i \in 1..p - 1 : s[i] \in S
    BY <1>1
  <2>2. /\ a \in Seq(S) /\ Len(a) = IF 1 <= p - 1 THEN (p - 1) - 1 + 1 ELSE 0
        /\ \A i \in 1..(p - 1) - 1 + 1 : a[i] = s[1 + i - 1]
    BY <2>1, SubSeqProperties
  <2> HIDE DEF a
  <2>3. (p - 1) - 1 + 1 = p - 1 /\ \A i \in 1..p - 1 : 1 + i - 1 = i
    BY <1>1
  <2> QED  BY <1>1, <2>2, <2>3
<1>3. b \in Seq(S) /\ Len(b) = n - p /\ \A i \in 1..n - p : b[i] = s[p + i]
  <2>1. n \in Int /\ p + 1 \in Int /\ \A i \in p + 1..n : s[i] \in S
    BY <1>1
  <2>2. /\ b \in Seq(S) /\ Len(b) = IF p + 1 <= n THEN n - (p + 1) + 1 ELSE 0
        /\ \A i \in 1..n - (p + 1) + 1 : b[i] = s[(p + 1) + i - 1]
    BY <2>1, SubSeqProperties
  <2> HIDE DEF b
  <2>3. n - (p + 1) + 1 = n - p /\ \A i \in 1..n - p : (p + 1) + i - 1 = p + i
    BY <1>1
  <2> QED  BY <1>1, <2>2, <2>3
<1>4. WithoutAt(s, p) = a \o b
  BY DEF WithoutAt, n
<1> HIDE DEF a, b
<1>5. /\ a \o b \in Seq(S) /\ Len(a \o b) = (p - 1) + (n - p)
      /\ \A i \in 1..(p - 1) + (n - p) :
           (a \o b)[i] = IF i <= p - 1 THEN a[i] ELSE b[i - (p - 1)]
  <2>1. /\ a \o b \in Seq(S) /\ Len(a \o b) = Len(a) + Len(b)
        /\ \A i \in 1..Len(a) + Len(b) :
             (a \o b)[i] = IF i <= Len(a) THEN a[i] ELSE b[i - Len(a)]
    BY <1>2, <1>3, ConcatProperties
  <2>2. Len(a) = p - 1 /\ Len(b) = n - p
    BY <1>2, <1>3
  <2> QED  BY ONLY <2>1, <2>2
<1>6. (p - 1) + (n - p) = n - 1
  BY <1>1
<1>7. ASSUME NEW q \in 1..n - 1
      PROVE  (a \o b)[q] = IF q < p THEN s[q] ELSE s[q + 1]
  <2>1. CASE q < p
    <3>1. q <= p - 1 /\ q \in 1..p - 1
      BY <1>1, <2>1
    <3> QED  BY <1>2, <1>5, <1>6, <2>1, <3>1
  <2>2. CASE ~ (q < p)
    <3>1. ~ (q <= p - 1) /\ q - (p - 1) \in 1..n - p /\ p + (q - (p - 1)) = q + 1
      BY <1>1, <2>2
    <3> QED  BY <1>3, <1>5, <1>6, <2>2, <3>1
  <2> QED  BY <2>1, <2>2
<1> QED  BY <1>4, <1>5, <1>6, <1>7 DEF n

(* Behind a sequence that is shorter by one there is one less.             *)
LEMMA UptoShorter ==
  ASSUME NEW S, NEW n \in Nat, NEW ss, NEW tt, Sequences(ss, n, S), Sequences(tt, n, S),
         NEW m \in 1..n, Len(tt[m]) = Len(ss[m]) - 1,
         \A l \in 1..n : l # m => tt[l] = ss[l]
  PROVE  \A l \in 0..n : Upto(tt, l) = IF l < m THEN Upto(ss, l) ELSE Upto(ss, l) - 1
<1> DEFINE T == {l \in Nat : l <= n => Upto(tt, l) = IF l < m THEN Upto(ss, l) ELSE Upto(ss, l) - 1}
<1>1. Joins(ss, n, S) /\ Joins(tt, n, S)
  BY JoinIs
<1>2. 0 \in T
  <2>1. Upto(ss, 0) = 0 /\ Upto(tt, 0) = 0 /\ 0 < m
    BY <1>1 DEF Joins
  <2> QED  BY <2>1
<1>3. ASSUME NEW l \in Nat, l \in T
      PROVE  l + 1 \in T
  <2> SUFFICES ASSUME l + 1 <= n
               PROVE  Upto(tt, l + 1) = IF l + 1 < m THEN Upto(ss, l + 1) ELSE Upto(ss, l + 1) - 1
    OBVIOUS
  <2>1. l <= n /\ l \in 0..n /\ l + 1 \in 1..n /\ (l + 1) - 1 = l
    OBVIOUS
  <2>2. /\ Upto(ss, l + 1) = Upto(ss, (l + 1) - 1) + Len(ss[l + 1])
        /\ Upto(tt, l + 1) = Upto(tt, (l + 1) - 1) + Len(tt[l + 1])
        /\ Upto(ss, l) \in Nat /\ Upto(tt, l) \in Nat
        /\ Len(ss[l + 1]) \in Nat /\ Len(tt[l + 1]) \in Nat
    BY <1>1, <2>1 DEF Joins
  <2>3. Upto(tt, l) = IF l < m THEN Upto(ss, l) ELSE Upto(ss, l) - 1
    BY <1>3, <2>1
  <2>4. l + 1 # m => Len(tt[l + 1]) = Len(ss[l + 1])
    BY <2>1
  <2>5. l + 1 = m => Len(tt[l + 1]) = Len(ss[l + 1]) - 1
    OBVIOUS
  <2> QED  BY <2>1, <2>2, <2>3, <2>4, <2>5
<1>4. Nat \subseteq T
  <2> HIDE DEF T
  <2> QED  BY <1>2, <1>3, Induction
<1> QED  BY <1>4

Cut(lf, i, b, s) == [lf EXCEPT ![i].blocks[b + 1] = RemoveAt(lf[i].blocks[b + 1], s)]

(* The same chain, with one block that has been cut.                       *)
HasCut(lf, cut, i, b, s) ==
  /\ Shaped(cut)
  /\ \A j : NumIn(cut, j) = NumIn(lf, j)
  /\ cut[i].blocks[b + 1] = WithoutAt(lf[i].blocks[b + 1], s)
  /\ SizeIn(cut, i, b) = SizeIn(lf, i, b) - 1
  /\ \A j \in 1..Leaves : cut[j].slotkeys = lf[j].slotkeys
  /\ \A j \in 1..Leaves : j # i => cut[j] = lf[j]
  /\ \A c \in Nat : c # b => cut[i].blocks[c + 1] = lf[i].blocks[c + 1]

LEMMA CutIs ==
  ASSUME NEW lf, Shaped(lf), NEW i, NEW b, NEW s, IsPoint(lf, i, b, s)
  PROVE  HasCut(lf, Cut(lf, i, b, s), i, b, s)
<1> DEFINE cut == Cut(lf, i, b, s)
           L == [blocks : Seq(Seq(Key)), slotkeys : Seq(Nat)]
           B == lf[i].blocks
           u == WithoutAt(B[b + 1], s)
           C == [B EXCEPT ![b + 1] = u]
<1>1. /\ i \in 1..Leaves /\ NumIn(lf, i) = Len(B) /\ Len(B) \in 0..MaxBlockNum
      /\ b \in 0..Len(B) - 1 /\ s \in 1..SizeIn(lf, i, b)
  BY LeafJoins DEF IsPoint
<1>2. b + 1 \in 1..Len(B) /\ b < Len(B) /\ b \in Nat
  BY <1>1, SizesAssumption
<1>3. SizeIn(lf, i, b) = Len(B[b + 1]) /\ s \in 1..Len(B[b + 1])
  BY <1>1, <1>2 DEF SizeIn
<1>4. B \in Seq(Seq(Key)) /\ lf[i].slotkeys \in Seq(Nat) /\ lf[i] \in L
  BY <1>1 DEF Shaped
<1>5. B[b + 1] \in Seq(Key)
  BY <1>2, <1>4
<1>6. u \in Seq(Key) /\ Len(u) = Len(B[b + 1]) - 1
  BY <1>3, <1>5, CutOut
<1>7. RemoveAt(B[b + 1], s) = u
  BY DEF RemoveAt, WithoutAt
<1>8. cut = [lf EXCEPT ![i] = [lf[i] EXCEPT !.blocks = C]]
  BY <1>7 DEF Cut
<1> HIDE DEF u
<1>9. /\ C \in Seq(Seq(Key)) /\ Len(C) = Len(B) /\ C[b + 1] = u
      /\ \A c \in 1..Len(B) : c # b + 1 => C[c] = B[c]
  BY <1>2, <1>4, <1>6
<1>10. \A c : c # b + 1 => C[c] = B[c]
  <2>1. \A c : c \notin 1..Len(B) => c \notin DOMAIN B /\ c \notin DOMAIN C
    BY <1>4, <1>9
  <2> TAKE c
  <2> HAVE c # b + 1
  <2>2. CASE c \in DOMAIN B
    BY <2>2
  <2>3. CASE c \notin DOMAIN B
    BY <2>3
  <2> QED  BY <2>2, <2>3
<1> HIDE DEF C
<1>11. [lf[i] EXCEPT !.blocks = C] = [blocks |-> C, slotkeys |-> lf[i].slotkeys]
  BY <1>4
<1>12. lf = [j \in 1..Leaves |-> lf[j]]
  BY DEF Shaped
<1>13. /\ cut = [j \in 1..Leaves |-> IF j = i THEN [blocks |-> C, slotkeys |-> lf[i].slotkeys]
                                    ELSE lf[j]]
  BY <1>1, <1>8, <1>11, <1>12
<1> HIDE DEF cut, B
<1>14. /\ cut[i].blocks = C /\ cut[i].slotkeys = lf[i].slotkeys
       /\ \A j \in 1..Leaves : j # i => cut[j] = lf[j]
  BY <1>1, <1>13
<1>15. \A j \in 1..Leaves : cut[j].slotkeys = lf[j].slotkeys /\ Len(cut[j].blocks) = Len(lf[j].blocks)
  BY <1>9, <1>14 DEF B
<1>16. \A j : NumIn(cut, j) = NumIn(lf, j)
  BY <1>15 DEF NumIn
<1>17. Shaped(cut)
  <2>1. cut \in [1..Leaves -> L]
    BY <1>4, <1>9, <1>13 DEF Shaped
  <2>2. \A j \in 1..Leaves : Len(cut[j].blocks) <= MaxBlockNum
    BY <1>15 DEF Shaped
  <2>3. ASSUME NEW j \in 1..Leaves, NEW c \in 1..Len(cut[j].blocks)
        PROVE  Len(cut[j].blocks[c]) <= Cap
    <3>1. CASE j # i
      BY <1>14, <2>3, <3>1 DEF Shaped
    <3>2. CASE j = i /\ c # b + 1
      <4>1. cut[j].blocks[c] = B[c] /\ c \in 1..Len(B)
        BY <1>9, <1>10, <1>14, <2>3, <3>2
      <4> QED  BY <1>1, <4>1 DEF Shaped, B
    <3>3. CASE j = i /\ c = b + 1
      <4>1. cut[j].blocks[c] = u
        BY <1>9, <1>14, <3>3
      <4>2. Len(B[b + 1]) <= Cap
        BY <1>1, <1>2 DEF Shaped, B
      <4>3. Len(B[b + 1]) \in Nat /\ Cap \in Nat
        BY <1>5, SizesAssumption
      <4> QED  BY <1>6, <4>1, <4>2, <4>3
    <3> QED  BY <3>1, <3>2, <3>3
  <2> QED  BY <2>1, <2>2, <2>3 DEF Shaped
<1>18. SizeIn(cut, i, b) = SizeIn(lf, i, b) - 1
  <2>1. SizeIn(cut, i, b) = Len(u)
    BY <1>1, <1>2, <1>9, <1>14, <1>16 DEF SizeIn
  <2> QED  BY <1>3, <1>6, <2>1
<1>19. cut[i].blocks[b + 1] = WithoutAt(lf[i].blocks[b + 1], s)
  BY <1>9, <1>14 DEF u, B
<1>20. ASSUME NEW c \in Nat, c # b
       PROVE  cut[i].blocks[c + 1] = lf[i].blocks[c + 1]
  <2>1. c + 1 # b + 1
    BY <1>2, <1>20
  <2> QED  BY <1>10, <1>14, <2>1 DEF B
<1> QED  BY <1>14, <1>15, <1>16, <1>17, <1>18, <1>19, <1>20 DEF HasCut, cut

LEMMA CutBefore ==
  ASSUME NEW lf, Shaped(lf), NEW i, NEW b, NEW s, IsPoint(lf, i, b, s),
         NEW cut, HasCut(lf, cut, i, b, s), NEW j, NEW c, IsPlace(lf, j, c)
  PROVE  Before(cut, j, c) = IF i < j \/ (i = j /\ b < c) THEN Before(lf, j, c) - 1
                             ELSE Before(lf, j, c)
<1> DEFINE B == lf[i].blocks
           D == cut[i].blocks
           n == NumIn(lf, i)
<1>1. /\ i \in 1..Leaves /\ n = Len(B) /\ n \in 0..MaxBlockNum
      /\ b \in 0..n - 1 /\ s \in 1..SizeIn(lf, i, b)
      /\ Leaves \in Nat /\ MaxBlockNum \in Nat
  BY LeafJoins, SizesAssumption DEF IsPoint
<1>2. n \in Nat /\ b + 1 \in 1..n /\ b \in Nat /\ b < n
  BY <1>1
<1>3. j \in 1..Leaves + 1 /\ c \in 0..NumIn(lf, j) /\ j \in Nat /\ c \in Nat
  BY PlaceIs DEF IsPlace
<1>4. NumIn(cut, i) = n /\ Shaped(cut)
  BY DEF HasCut
<1>5. Sequences(B, n, Key) /\ Sequences(D, n, Key)
  BY <1>1, <1>4, LeafJoins
<1>6. Len(D[b + 1]) = Len(B[b + 1]) - 1
  BY <1>1, <1>2, <1>4 DEF HasCut, SizeIn
<1>7. ASSUME NEW l \in 1..n, l # b + 1
      PROVE  D[l] = B[l]
  <2>1. l - 1 \in Nat /\ l - 1 # b /\ (l - 1) + 1 = l
    BY <1>2, <1>7
  <2>2. D[(l - 1) + 1] = B[(l - 1) + 1]
    BY <2>1 DEF HasCut
  <2> QED  BY <2>1, <2>2
<1> HIDE DEF B, D, n
<1>8. \A l \in 0..n : Upto(D, l) = IF l < b + 1 THEN Upto(B, l) ELSE Upto(B, l) - 1
  BY <1>2, <1>5, <1>6, <1>7, UptoShorter
<1>9. Sequences(ByLeaf(lf), Leaves, Key) /\ Sequences(ByLeaf(cut), Leaves, Key)
  BY <1>4, MapJoins
<1>10. Len(ByLeaf(cut)[i]) = Len(ByLeaf(lf)[i]) - 1
  <2>1. Len(ByLeaf(cut)[i]) = Upto(D, n) /\ Len(ByLeaf(lf)[i]) = Upto(B, n)
    BY <1>1, <1>4, LeafJoins DEF B, D, n
  <2>2. Upto(D, n) = Upto(B, n) - 1
    <3>1. n \in 0..n /\ ~ (n < b + 1)
      BY <1>2
    <3> QED  BY <1>8, <3>1
  <2> QED  BY <2>1, <2>2
<1>11. \A l \in 1..Leaves : l # i => ByLeaf(cut)[l] = ByLeaf(lf)[l]
  BY DEF HasCut, ByLeaf
<1>12. \A l \in 0..Leaves :
         Upto(ByLeaf(cut), l) = IF l < i THEN Upto(ByLeaf(lf), l) ELSE Upto(ByLeaf(lf), l) - 1
  BY <1>1, <1>9, <1>10, <1>11, UptoShorter
<1> DEFINE v == Upto(ByLeaf(lf), j - 1)
           w == Upto(lf[j].blocks, c)
<1>13. Upto(ByLeaf(cut), j - 1) = IF j <= i THEN v ELSE v - 1
  <2>1. j - 1 \in 0..Leaves /\ (j - 1 < i <=> j <= i)
    BY <1>1, <1>3
  <2> QED  BY <1>12, <2>1
<1>14. Upto(cut[j].blocks, c) = IF j = i /\ b < c THEN w - 1 ELSE w
  <2>1. CASE j = i
    <3>1. c \in 0..n /\ (c < b + 1 <=> ~ (b < c))
      BY <1>2, <1>3, <2>1 DEF n
    <3> QED  BY <1>8, <2>1, <3>1 DEF B, D
  <2>2. CASE j # i /\ j \in 1..Leaves
    BY <2>2 DEF HasCut
  <2>3. CASE j # i /\ j \notin 1..Leaves
    <3>1. c = 0
      BY <1>1, <1>3, <2>3, PlaceIs
    <3> QED  BY <2>3, <3>1, UptoNone
  <2> QED  BY <2>1, <2>2, <2>3
<1>15. v \in Nat /\ w \in Nat /\ i \in Nat
  BY <1>1, PlaceIs
<1>16. /\ Before(lf, j, c) = v + w
       /\ Before(cut, j, c) = Upto(ByLeaf(cut), j - 1) + Upto(cut[j].blocks, c)
  BY DEF Before
<1> HIDE DEF v, w
<1> QED  BY <1>2, <1>3, <1>13, <1>14, <1>15, <1>16

(* The points of the chain are the same but for one.                       *)
LEMMA CutPoints ==
  ASSUME NEW lf, Shaped(lf), NEW i, NEW b, NEW s, IsPoint(lf, i, b, s),
         NEW cut, HasCut(lf, cut, i, b, s)
  PROVE  PointsIn(cut) = WithoutAt(PointsIn(lf), Before(lf, i, b) + s)
<1> DEFINE P == PointsIn(lf)
           Q == PointsIn(cut)
           N == Len(P)
           p == Before(lf, i, b) + s
           R == WithoutAt(P, p)
<1>1. /\ p \in 1..N /\ P \in Seq(Key) /\ N \in Nat /\ s \in Nat
      /\ Before(lf, i, b) \in Nat /\ IsPlace(lf, i, b)
  <2>1. p \in 1..N /\ s \in Nat /\ IsPlace(lf, i, b)
    BY PointAt
  <2>2. P \in Seq(Key)
    BY MapJoins
  <2>3. Before(lf, i, b) \in Nat
    BY <2>1, PlaceIs
  <2>4. N \in Nat
    BY <2>2
  <2> QED  BY <2>1, <2>2, <2>3, <2>4
<1>2. Q \in Seq(Key) /\ Shaped(cut)
  BY MapJoins DEF HasCut
<1>3. i \in 1..Leaves /\ b \in 0..NumIn(lf, i) - 1 /\ s \in 1..SizeIn(lf, i, b)
  BY DEF IsPoint
<1>4. Len(Q) = N - 1
  <2>1. IsPlace(lf, Leaves + 1, 0)
    BY SizesAssumption DEF IsPlace, NumIn
  <2>2. Before(cut, Leaves + 1, 0) = Before(lf, Leaves + 1, 0) - 1
    BY <1>3, <2>1, CutBefore, SizesAssumption
  <2> QED  BY <1>2, <2>2, EndsAre
<1> HIDE DEF p, N
<1>5. R \in Seq(Key) /\ Len(R) = N - 1 /\ \A q \in 1..N - 1 : R[q] = IF q < p THEN P[q] ELSE P[q + 1]
  BY <1>1, CutOut DEF N
<1>6. ASSUME NEW q \in 1..N - 1
      PROVE  Q[q] = IF q < p THEN P[q] ELSE P[q + 1]
  <2>1. PICK j, c, t : IsPoint(cut, j, c, t) /\ q = Before(cut, j, c) + t
    BY <1>2, <1>4, PointFrom
  <2>2. /\ j \in 1..Leaves /\ c \in 0..NumIn(lf, j) - 1 /\ t \in 1..SizeIn(cut, j, c)
        /\ Q[q] = cut[j].blocks[c + 1][t] /\ t \in Nat /\ IsPlace(cut, j, c)
    BY <1>2, <2>1, PointAt DEF IsPoint, HasCut
  <2>3. IsPlace(lf, j, c) /\ j \in Nat /\ c \in Nat
    BY <2>2, PlaceIs, <1>2 DEF IsPlace, HasCut
  <2>4. Before(lf, j, c) \in Nat /\ SizeIn(lf, j, c) \in 0..Cap
    BY <2>3, PlaceIs
  <2>5. Before(cut, j, c) = IF i < j \/ (i = j /\ b < c) THEN Before(lf, j, c) - 1
                            ELSE Before(lf, j, c)
    BY <2>3, CutBefore
  <2>6. i \in Nat /\ b \in Nat /\ Cap \in Nat
    BY <1>1, PlaceIs, SizesAssumption
  <2>7. CASE ~ (j = i /\ c = b)
    <3>1. cut[j].blocks[c + 1] = lf[j].blocks[c + 1]
      <4>1. CASE j # i
        BY <2>2, <4>1 DEF HasCut
      <4>2. CASE j = i
        BY <2>3, <2>7, <4>2 DEF HasCut
      <4> QED  BY <4>1, <4>2
    <3>2. SizeIn(cut, j, c) = SizeIn(lf, j, c)
      BY <3>1 DEF SizeIn, HasCut
    <3>3. IsPoint(lf, j, c, t)
      BY <2>2, <3>2 DEF IsPoint
    <3>4. P[Before(lf, j, c) + t] = Q[q]
      BY <2>2, <3>1, <3>3, PointAt
    <3>5. CASE i < j \/ (i = j /\ b < c)
      <4>1. Precedes(<<i, b>>, <<j, c>>)
        BY <3>5, PrecedesIs
      <4>2. p <= Before(lf, j, c)
        BY <2>3, <4>1, PointsApart DEF p
      <4>3. Before(lf, j, c) + t = q + 1
        BY <2>1, <2>2, <2>4, <2>5, <3>5
      <4>4. ~ (q < p)
        BY <1>1, <2>2, <2>4, <4>2, <4>3
      <4> QED  BY <3>4, <4>3, <4>4
    <3>6. CASE ~ (i < j \/ (i = j /\ b < c))
      <4>1. Precedes(<<j, c>>, <<i, b>>)
        <5>1. j < i \/ (j = i /\ c < b)
          BY <2>3, <2>6, <2>7, <3>6
        <5> QED  BY <5>1, PrecedesIs
      <4>2. Before(lf, j, c) + t <= Before(lf, i, b)
        BY <1>1, <3>3, <4>1, PointsApart
      <4>3. q = Before(lf, j, c) + t
        BY <2>1, <2>5, <3>6
      <4>4. q < p
        <5>1. p = Before(lf, i, b) + s /\ s > 0
          BY <1>3 DEF p
        <5> QED  BY <1>1, <2>2, <2>4, <4>2, <4>3, <5>1
      <4> QED  BY <3>4, <4>3, <4>4
    <3> QED  BY <3>5, <3>6
  <2>8. CASE j = i /\ c = b
    <3> DEFINE D == lf[i].blocks[b + 1]
    <3>1. D \in Seq(Key) /\ SizeIn(lf, i, b) = Len(D)
      <4>1. b + 1 \in 1..NumIn(lf, i) /\ b < NumIn(lf, i) /\ NumIn(lf, i) = Len(lf[i].blocks)
        BY <1>3, <2>6, <1>1, LeafJoins, PlaceIs
      <4>2. lf[i].blocks \in Seq(Seq(Key))
        BY <1>3 DEF Shaped
      <4>3. SizeIn(lf, i, b) = Len(D)
        BY <4>1 DEF SizeIn
      <4> QED  BY <4>1, <4>2, <4>3
    <3>2. Q[q] = WithoutAt(D, s)[t] /\ t \in 1..SizeIn(lf, i, b) - 1
      BY <2>2, <2>8 DEF HasCut
    <3> HIDE DEF D
    <3>3. s \in 1..Len(D) /\ t \in 1..Len(D) - 1 /\ Len(D) \in Nat
      BY <1>3, <3>1, <3>2
    <3>4. Q[q] = IF t < s THEN D[t] ELSE D[t + 1]
      BY <3>1, <3>2, <3>3, CutOut
    <3>5. q = Before(lf, i, b) + t /\ p = Before(lf, i, b) + s
      <4>1. ~ (i < j \/ (i = j /\ b < c))
        BY <2>6, <2>8
      <4> QED  BY <2>1, <2>5, <2>8, <4>1 DEF p
    <3>6. /\ IsPoint(lf, i, b, t) /\ IsPoint(lf, i, b, t + 1)
      BY <1>3, <3>1, <3>3 DEF IsPoint
    <3>7. P[Before(lf, i, b) + t] = D[t] /\ P[Before(lf, i, b) + (t + 1)] = D[t + 1]
      BY <3>6, PointAt DEF D
    <3>8. Before(lf, i, b) + (t + 1) = q + 1 /\ (t < s <=> q < p)
      BY <1>1, <2>2, <3>5
    <3> QED  BY <3>4, <3>5, <3>7, <3>8
  <2> QED  BY <2>7, <2>8
<1> HIDE DEF P, Q, R
<1>7. Q = R
  <2>1. Q = [q \in 1..N - 1 |-> Q[q]] /\ R = [q \in 1..N - 1 |-> R[q]]
    BY <1>2, <1>4, <1>5
  <2>2. \A q \in 1..N - 1 : Q[q] = R[q]
    BY <1>5, <1>6
  <2> QED  BY <2>1, <2>2
<1> QED  BY <1>7 DEF P, Q, R, p

(* erase takes one point out, that which its key leads to.                 *)
Erases(k, i, b, s) ==
  /\ IsPoint(leaf, i, b, s) /\ HasCut(leaf, leaf', i, b, s)
  /\ Before(leaf, i, b) + s = PlaceOf(Position(k)) + 1
  /\ leaf[i].blocks[b + 1][s] = k
  /\ Cardinality({j \in DOMAIN PointsIn(leaf) : PointsIn(leaf)[j] = k}) = 1
  /\ Len(PointsIn(leaf)) > 1
  /\ it' = NoIterator /\ call' = <<"erase", k>>
  /\ home' = home /\ firstLeaf' = firstLeaf /\ lastLeaf' = lastLeaf

LEMMA EraseIs ==
  ASSUME MapInv, NEW k \in Key, Erase(k)
  PROVE  \E i, b, s : Erases(k, i, b, s)
<1> DEFINE x == Position(k)
           i == x.node
           b == x.block
           s == x.slot + 1
<1>1. Placed(x)
  BY PositionIs
<1>2. /\ x.slot < SizeAt(x) /\ KeyAt(x) = k
      /\ Cardinality({j \in DOMAIN Points : Points[j] = k}) = 1
      /\ Len(Points) > 1
      /\ leaf' = [leaf EXCEPT ![i].blocks[b + 1] = RemoveAt(leaf[i].blocks[b + 1], s)]
      /\ it' = NoIterator /\ call' = <<"erase", k>>
      /\ home' = home /\ firstLeaf' = firstLeaf /\ lastLeaf' = lastLeaf
  BY DEF Erase
<1>3. Shaped(leaf)
  BY DEF MapInv
<1> HIDE DEF x
<1>4. /\ i \in 1..Leaves /\ b \in Nat /\ x.slot \in Nat
      /\ SizeIn(leaf, i, b) \in 0..Cap /\ SizeAt(x) = SizeIn(leaf, i, b)
      /\ IsPlace(leaf, i, b) /\ Cap \in Nat /\ Before(leaf, i, b) \in Nat
  BY <1>1, <1>3, PlacedIs, SizesAssumption
<1>5. s \in 1..SizeIn(leaf, i, b)
  BY <1>2, <1>4
<1>6. b \in 0..NumIn(leaf, i) - 1
  <2>1. b < NumIn(leaf, i) /\ NumIn(leaf, i) \in Nat
    BY <1>3, <1>4, <1>5, PlaceIs DEF SizeIn
  <2> QED  BY <1>4, <2>1
<1>7. IsPoint(leaf, i, b, s)
  BY <1>4, <1>5, <1>6 DEF IsPoint
<1>8. leaf[i].blocks[b + 1][s] = k
  BY <1>2 DEF KeyAt
<1>9. Before(leaf, i, b) + s = PlaceOf(x) + 1
  BY <1>4 DEF PlaceOf
<1>10. leaf' = Cut(leaf, i, b, s)
  BY <1>2 DEF Cut
<1> HIDE DEF i, b, s
<1>11. HasCut(leaf, leaf', i, b, s)
  BY <1>3, <1>7, <1>10, CutIs
<1>12. Erases(k, i, b, s)
  BY <1>2, <1>7, <1>8, <1>9, <1>11, PointsAre DEF Erases, x
<1> QED  BY <1>12

LEMMA CutSizes ==
  ASSUME NEW lf, Shaped(lf), NEW i, NEW b, NEW s, IsPoint(lf, i, b, s),
         NEW cut, HasCut(lf, cut, i, b, s),
         NEW j \in 1..Leaves, NEW c \in 0..NumIn(lf, j) - 1
  PROVE  SizeIn(cut, j, c) = IF j = i /\ c = b THEN SizeIn(lf, j, c) - 1 ELSE SizeIn(lf, j, c)
<1>1. NumIn(cut, j) = NumIn(lf, j) /\ c \in Nat
  BY LeafJoins DEF HasCut
<1>2. CASE j = i /\ c = b
  BY <1>2 DEF HasCut
<1>3. CASE ~ (j = i /\ c = b)
  <2>1. cut[j].blocks[c + 1] = lf[j].blocks[c + 1]
    BY <1>1, <1>3 DEF HasCut
  <2>2. SizeIn(cut, j, c) = SizeIn(lf, j, c)
    BY <1>1, <2>1 DEF SizeIn
  <2> QED  BY <1>3, <2>2
<1> QED  BY <1>2, <1>3

LEMMA EraseKeeps ==
  ASSUME MapInv, NEW k \in Key, Erase(k)
  PROVE  MapInv' /\ it' = NoIterator
<1>1. PICK i, b, s : Erases(k, i, b, s)
  BY EraseIs
<1>2. /\ IsPoint(leaf, i, b, s) /\ HasCut(leaf, leaf', i, b, s) /\ Len(PointsIn(leaf)) > 1
      /\ it' = NoIterator
      /\ home' = home /\ firstLeaf' = firstLeaf /\ lastLeaf' = lastLeaf
  BY <1>1 DEF Erases
<1>3. /\ home \in [Key -> 1..Leaves] /\ Shaped(leaf)
      /\ firstLeaf \in 1..Leaves /\ lastLeaf \in 1..Leaves
      /\ \A j \in 1..Leaves : \A c \in 0..NumIn(leaf, j) - 1 :
           SizeIn(leaf, j, c) > 0 => firstLeaf <= j /\ j <= lastLeaf
      /\ NumIn(leaf, lastLeaf) > 0
  BY DEF MapInv
<1>4. Shaped(leaf') /\ \A j : NumIn(leaf', j) = NumIn(leaf, j)
  BY <1>2 DEF HasCut
<1>5. Len(PointsIn(leaf')) > 0
  <2>1. PointsIn(leaf) \in Seq(Key) /\ Before(leaf, i, b) + s \in 1..Len(PointsIn(leaf))
    BY <1>2, <1>3, MapJoins, PointAt
  <2>2. Len(PointsIn(leaf')) = Len(PointsIn(leaf)) - 1
    BY <1>2, <1>3, <2>1, CutPoints, CutOut
  <2>3. Len(PointsIn(leaf)) \in Nat
    BY <2>1
  <2> QED  BY <1>2, <2>2, <2>3
<1>6. ASSUME NEW j \in 1..Leaves, NEW c \in 0..NumIn(leaf, j) - 1, SizeIn(leaf', j, c) > 0
      PROVE  SizeIn(leaf, j, c) > 0
  <2>1. SizeIn(leaf', j, c) = IF j = i /\ c = b THEN SizeIn(leaf, j, c) - 1 ELSE SizeIn(leaf, j, c)
    BY <1>2, <1>3, CutSizes
  <2>2. IsPlace(leaf, j, c)
    BY <1>3, LeafJoins, SizesAssumption DEF IsPlace
  <2>3. SizeIn(leaf, j, c) \in Nat
    BY <1>3, <2>2, PlaceIs, SizesAssumption
  <2> QED  BY <1>6, <2>1, <2>3
<1> QED  BY <1>2, <1>3, <1>4, <1>5, <1>6 DEF MapInv

----------------------------------------------------------------------------
(* A map as it may be at first.  Its points are dealt to the blocks of     *)
(* their leaves in order.                                                  *)
NoKeyInTwo == "key in two blocks" \notin Odd

HomesRise == home \in [Key -> 1..Leaves] /\ \A j, k \in Key : j < k => home[j] <= home[k]

Given(points) ==
  /\ points \in Seq(Key) /\ Len(points) \in Nat /\ Len(points) > 0
  /\ \A j \in 1..Len(points) : points[j] \in Key /\ points[j] \in Nat
  /\ \A i, j \in 1..Len(points) : i <= j => points[i] <= points[j]

LEMMA SortedIsGiven ==
  ASSUME NEW points \in SortedPoints
  PROVE  Given(points) /\ DOMAIN points = 1..Len(points)
<1>1. /\ points \in BoundedSeq(Key, MaxPoints) /\ points # <<>>
      /\ \A j \in 2..Len(points) : points[j - 1] <= points[j]
  BY DEF SortedPoints
<1>2. points \in Seq(Key)
  BY <1>1, SizesAssumption DEF BoundedSeq, SeqOf
<1>3. Len(points) \in Nat /\ Len(points) > 0 /\ DOMAIN points = 1..Len(points)
  BY <1>1, <1>2
<1>4. Key \subseteq Nat
  BY KeyAssumption
<1>5. \A j \in 1..Len(points) : points[j] \in Key /\ points[j] \in Nat
  <2>1. \A j \in 1..Len(points) : points[j] \in Key
    BY <1>2
  <2> QED  BY <1>4, <2>1
<1> DEFINE n == Len(points)
           T == {d \in Nat : \A i \in 1..n : i + d <= n => points[i] <= points[i + d]}
<1>6. 0 \in T
  <2> SUFFICES ASSUME NEW i \in 1..n PROVE points[i] <= points[i + 0]
    OBVIOUS
  <2>1. i + 0 = i /\ points[i] \in Nat
    BY <1>3, <1>5
  <2> QED  BY <2>1
<1>7. ASSUME NEW d \in Nat, d \in T
      PROVE  d + 1 \in T
  <2> SUFFICES ASSUME NEW i \in 1..n, i + (d + 1) <= n
               PROVE  points[i] <= points[i + (d + 1)]
    OBVIOUS
  <2>1. /\ i + d <= n /\ i + d \in 1..n /\ i + (d + 1) \in 1..n /\ i + (d + 1) \in 2..n
        /\ (i + (d + 1)) - 1 = i + d
    BY <1>3
  <2>2. points[i] <= points[i + d]
    BY <1>7, <2>1
  <2>3. points[(i + (d + 1)) - 1] <= points[i + (d + 1)]
    BY <1>1, <2>1
  <2>4. points[i] \in Nat /\ points[i + d] \in Nat /\ points[i + (d + 1)] \in Nat
    BY <1>5, <2>1
  <2> QED  BY <2>1, <2>2, <2>3, <2>4
<1>8. Nat \subseteq T
  <2> HIDE DEF T
  <2> QED  BY <1>6, <1>7, Induction
<1>9. ASSUME NEW i \in 1..n, NEW j \in 1..n, i <= j
      PROVE  points[i] <= points[j]
  <2>1. j - i \in Nat /\ i + (j - i) = j /\ j <= n
    BY <1>3, <1>9
  <2>2. j - i \in T
    BY <1>8, <2>1
  <2> QED  BY <2>1, <2>2
<1> QED  BY <1>2, <1>3, <1>5, <1>9 DEF Given

(* The home of a point that is not greater is not behind.                  *)
LEMMA HomesOfPoints ==
  ASSUME HomesRise, NEW points, Given(points),
         NEW i \in 1..Len(points), NEW j \in 1..Len(points), i <= j
  PROVE  /\ home[points[i]] \in 1..Leaves /\ home[points[j]] \in 1..Leaves
         /\ home[points[i]] <= home[points[j]]
<1>1. /\ points[i] \in Key /\ points[j] \in Key /\ points[i] \in Nat /\ points[j] \in Nat
      /\ points[i] <= points[j]
  BY DEF Given
<1>2. home[points[i]] \in 1..Leaves /\ home[points[j]] \in 1..Leaves
  BY <1>1 DEF HomesRise
<1>3. CASE points[i] = points[j]
  BY <1>2, <1>3, SizesAssumption
<1>4. CASE points[i] # points[j]
  <2>1. points[i] < points[j]
    BY <1>1, <1>4
  <2> QED  BY <1>1, <1>2, <2>1 DEF HomesRise
<1> QED  BY <1>3, <1>4

DealtTo(points, at) ==
  /\ at \in [1..Len(points) -> 1..MaxBlockNum]
  /\ \A j \in 2..Len(points) : home[points[j - 1]] = home[points[j]] => at[j - 1] <= at[j]
  /\ \A j \in 1..Len(points) :
       ~ (j - 1 \in 1..j /\ home[points[j - 1]] = home[points[j]]) => at[j] = 1
  /\ \A j \in 1..Len(points) :
       j - Cap \in 1..j /\ home[points[j - Cap]] = home[points[j]] => at[j - Cap] < at[j]
  /\ NoKeyInTwo =>
       \A j \in 2..Len(points) : points[j - 1] = points[j] => at[j - 1] = at[j]

LEMMA DealsAre ==
  ASSUME NEW points, Given(points), DOMAIN points = 1..Len(points), NEW at \in Deals(points)
  PROVE  DealtTo(points, at)
<1> DEFINE n == Len(points)
           Same(j, m) == m \in 1..j /\ home[points[m]] = home[points[j]]
<1>1. n \in Nat
  BY DEF Given
<1>2. /\ at \in [1..n -> 1..MaxBlockNum]
      /\ \A j \in 1..n :
           /\ IF Same(j, j - 1) THEN at[j - 1] <= at[j] ELSE at[j] = 1
           /\ Same(j, j - Cap) => at[j - Cap] < at[j]
           /\ j > 1 /\ points[j - 1] = points[j] =>
                \/ at[j - 1] = at[j]
                \/ "key in two blocks" \in Odd /\ Same(j, j - Cap)
                   /\ at[j - Cap] = at[j - 1]
  BY DEF Deals
<1>3. ASSUME NEW j \in 2..n
      PROVE  j \in 1..n /\ j > 1 /\ j - 1 \in 1..j
  BY <1>1
<1>4. \A j \in 2..n : home[points[j - 1]] = home[points[j]] => at[j - 1] <= at[j]
  BY <1>2, <1>3
<1>5. NoKeyInTwo => \A j \in 2..n : points[j - 1] = points[j] => at[j - 1] = at[j]
  BY <1>2, <1>3 DEF NoKeyInTwo
<1>6. \A j \in 1..n :
         ~ (j - 1 \in 1..j /\ home[points[j - 1]] = home[points[j]]) => at[j] = 1
  BY <1>2
<1> QED  BY <1>2, <1>4, <1>5, <1>6 DEF DealtTo

LEMMA Squeezed ==
  ASSUME NEW x \in Nat, NEW y \in Nat, NEW z \in Nat, x <= y, y <= z, x = z
  PROVE  x = y /\ y = z
OBVIOUS

(* In a leaf, a point that is not behind is not in a block behind, nor, if *)
(* no key is in two blocks, is an equal one in another block.              *)
LEMMA DealRises ==
  ASSUME HomesRise, NEW points, Given(points), NEW at, DealtTo(points, at),
         NEW i \in 1..Len(points), NEW j \in 1..Len(points), i <= j,
         home[points[i]] = home[points[j]]
  PROVE  /\ at[i] <= at[j]
         /\ NoKeyInTwo /\ points[i] = points[j] => at[i] = at[j]
<1> DEFINE n == Len(points)
           Good(a, c) ==
             home[points[a]] = home[points[c]]
               => at[a] <= at[c] /\ (NoKeyInTwo /\ points[a] = points[c] => at[a] = at[c])
           T == {d \in Nat : \A a \in 1..n : a + d <= n => Good(a, a + d)}
<1>1. n \in Nat /\ MaxBlockNum \in Nat
  BY SizesAssumption DEF Given
<1>2. \A a \in 1..n : at[a] \in 1..MaxBlockNum /\ at[a] \in Nat
  BY <1>1 DEF DealtTo
<1>3. 0 \in T
  <2> SUFFICES ASSUME NEW a \in 1..n PROVE Good(a, a + 0)
    OBVIOUS
  <2>1. a + 0 = a /\ at[a] <= at[a]
    BY <1>1, <1>2
  <2> QED  BY <2>1
<1>4. ASSUME NEW d \in Nat, d \in T
      PROVE  d + 1 \in T
  <2> SUFFICES ASSUME NEW a \in 1..n, a + (d + 1) <= n
               PROVE  Good(a, a + (d + 1))
    OBVIOUS
  <2> DEFINE c == a + d
             e == a + (d + 1)
  <2>1. c <= n /\ c \in 1..n /\ e \in 1..n /\ e \in 2..n /\ e - 1 = c /\ a <= c /\ c <= e
    BY <1>1
  <2>2. Good(a, c)
    BY <1>4, <2>1
  <2> HIDE DEF c, e, n, T
  <2> SUFFICES ASSUME home[points[a]] = home[points[e]]
               PROVE  at[a] <= at[e] /\ (NoKeyInTwo /\ points[a] = points[e] => at[a] = at[e])
    BY DEF e
  <2>3. /\ home[points[a]] \in 1..Leaves /\ home[points[c]] \in 1..Leaves
        /\ home[points[e]] \in 1..Leaves
        /\ home[points[a]] <= home[points[c]] /\ home[points[c]] <= home[points[e]]
    BY <2>1, HomesOfPoints DEF n
  <2>4. home[points[a]] = home[points[c]] /\ home[points[c]] = home[points[e]]
    <3>1. \A m \in 1..Leaves : m \in Nat
      BY SizesAssumption
    <3>2. /\ home[points[a]] \in Nat /\ home[points[c]] \in Nat
          /\ home[points[e]] \in Nat
      BY <2>3, <3>1
    <3> QED  BY <2>3, <3>2, Squeezed
  <2>5. at[c] <= at[e] /\ (NoKeyInTwo /\ points[c] = points[e] => at[c] = at[e])
    <3>1. /\ home[points[e - 1]] = home[points[e]] => at[e - 1] <= at[e]
          /\ NoKeyInTwo /\ points[e - 1] = points[e] => at[e - 1] = at[e]
      BY <2>1 DEF DealtTo, n
    <3> QED  BY <2>1, <2>4, <3>1
  <2>6. at[a] \in Nat /\ at[c] \in Nat /\ at[e] \in Nat
    BY <1>2, <2>1
  <2>7. points[a] = points[e] => points[a] = points[c] /\ points[c] = points[e]
    <3>1. /\ points[a] \in Nat /\ points[c] \in Nat /\ points[e] \in Nat
          /\ points[a] <= points[c] /\ points[c] <= points[e]
      BY <2>1 DEF Given, n
    <3> QED  BY <3>1
  <2>8. at[a] <= at[c] /\ (NoKeyInTwo /\ points[a] = points[c] => at[a] = at[c])
    BY <2>2, <2>4
  <2> HIDE DEF Good
  <2>9. at[a] <= at[e]
    BY <2>5, <2>6, <2>8
  <2> QED  BY <2>5, <2>7, <2>8, <2>9
<1>5. Nat \subseteq T
  <2> HIDE DEF T
  <2> QED  BY <1>3, <1>4, Induction
<1>6. j - i \in Nat /\ i + (j - i) = j /\ j <= n
  BY <1>1
<1>7. j - i \in T
  BY <1>5, <1>6
<1> QED  BY <1>6, <1>7

(* Positions without a gap.                                                *)
LEMMA NoGap ==
  ASSUME NEW n \in Nat, NEW T, T \subseteq 1..n,
         \A i, j \in T : \A m \in 1..n : i <= m /\ m <= j => m \in T
  PROVE  /\ Cardinality(T) \in 0..n
         /\ T = {} => Cardinality(T) = 0
         /\ T # {} => /\ Cardinality(T) > 0 /\ Min(T) \in 1..n
                      /\ \A m \in T : m \in Min(T)..Min(T) + Cardinality(T) - 1
                      /\ \A s \in 1..Cardinality(T) : Min(T) + s - 1 \in T
<1>1. Cardinality(T) \in 0..n /\ (T = {} => Cardinality(T) = 0)
  BY SubsetCounts, FS_EmptySet
<1> SUFFICES ASSUME T # {}
             PROVE  /\ Cardinality(T) > 0 /\ Min(T) \in 1..n
                    /\ \A m \in T : m \in Min(T)..Min(T) + Cardinality(T) - 1
                    /\ \A s \in 1..Cardinality(T) : Min(T) + s - 1 \in T
  BY <1>1
<1> DEFINE a == Min(T)
           c == Max(T)
<1>2. a \in T /\ \A m \in T : a <= m
  <2>1. T \subseteq Nat
    OBVIOUS
  <2> QED  BY <2>1, MinOfNumbers
<1>3. c \in T /\ \A m \in T : m <= c
  <2>1. T \subseteq 0..n
    OBVIOUS
  <2> QED  BY <2>1, MaxOfNumbers
<1> HIDE DEF a, c
<1>4. T = a..c /\ a \in 1..n /\ c \in 1..n /\ a <= c
  <2>1. T \subseteq a..c
    BY <1>2, <1>3
  <2>2. a..c \subseteq T
    BY <1>2, <1>3
  <2> QED  BY <1>2, <1>3, <2>1, <2>2
<1>5. Cardinality(T) = c - a + 1
  BY <1>4, FS_Interval
<1>6. /\ Cardinality(T) > 0
      /\ \A m \in T : m \in a..a + Cardinality(T) - 1
      /\ \A s \in 1..Cardinality(T) : a + s - 1 \in T
  BY <1>4, <1>5
<1> QED  BY <1>4, <1>6 DEF a

(* What LeafOf makes of the points of a leaf.                              *)
Here(points, i) == {j \in DOMAIN points : home[points[j]] = i}
Inside(points, at, i, b) == {j \in Here(points, i) : at[j] = b}
Blocks(points, at, i) == Max({0} \cup {at[j] : j \in Here(points, i)})
BlockOf(points, at, i, b) ==
  [s \in 1..Cardinality(Inside(points, at, i, b)) |->
     points[Min(Inside(points, at, i, b)) + s - 1]]
Separator(points, at, i, b) ==
  IF BlockOf(points, at, i, b + 1) # <<>> THEN BlockOf(points, at, i, b + 1)[1]
  ELSE 1 + Max({points[j] : j \in {m \in Here(points, i) : at[m] <= b}})

LEMMA LeafOfIs ==
  ASSUME NEW points, NEW at, NEW i, Blocks(points, at, i) \in Nat
  PROVE  LeafOf(i, points, at)
           = [blocks   |-> [b \in 1..Blocks(points, at, i) |-> BlockOf(points, at, i, b)],
              slotkeys |-> [b \in 1..Blocks(points, at, i) - 1 |->
                              Separator(points, at, i, b)]]
<1> DEFINE M == Blocks(points, at, i)
           B == [b \in 1..M |-> BlockOf(points, at, i, b)]
           S(b) == IF B[b + 1] # <<>> THEN B[b + 1][1]
                   ELSE 1 + Max({points[j] : j \in {m \in Here(points, i) : at[m] <= b}})
<1>1. LeafOf(i, points, at) = [blocks |-> B, slotkeys |-> [b \in 1..Len(B) - 1 |-> S(b)]]
  BY DEF LeafOf, Here, Inside, Blocks, BlockOf
<1>2. Len(B) = M
  <2>1. B = [b \in 1..M |-> B[b]] /\ M \in Nat
    OBVIOUS
  <2> HIDE DEF B, M
  <2> QED  BY <2>1, LengthIs
<1>3. \A b \in 1..M - 1 : S(b) = Separator(points, at, i, b)
  <2> TAKE b \in 1..M - 1
  <2>1. M \in Nat
    OBVIOUS
  <2> HIDE DEF M
  <2>2. b + 1 \in 1..M
    BY <2>1
  <2>3. B[b + 1] = BlockOf(points, at, i, b + 1)
    BY <2>2
  <2> HIDE DEF B
  <2> QED  BY <2>3 DEF Separator
<1> HIDE DEF S, M
<1>4. [b \in 1..M - 1 |-> S(b)] = [b \in 1..M - 1 |-> Separator(points, at, i, b)]
  BY <1>3
<1> QED  BY <1>1, <1>2, <1>4 DEF M

Dealing(points, at) ==
  HomesRise /\ Given(points) /\ DOMAIN points = 1..Len(points) /\ DealtTo(points, at)

LEMMA HereIs ==
  ASSUME NEW points, NEW at, Dealing(points, at), NEW i
  PROVE  /\ \A j : j \in Here(points, i) <=> j \in 1..Len(points) /\ home[points[j]] = i
         /\ \A j \in 1..Len(points) : j \in Nat /\ points[j] \in Key /\ points[j] \in Nat
                                      /\ at[j] \in 1..MaxBlockNum /\ at[j] \in Nat
BY SizesAssumption DEF Here, Dealing, Given, DealtTo

LEMMA BlocksAre ==
  ASSUME NEW points, NEW at, Dealing(points, at), NEW i
  PROVE  /\ Blocks(points, at, i) \in 0..MaxBlockNum /\ Blocks(points, at, i) \in Nat
         /\ \A j \in Here(points, i) : at[j] \in 1..Blocks(points, at, i)
         /\ Blocks(points, at, i) > 0 => Here(points, i) # {}
<1> DEFINE T == {0} \cup {at[j] : j \in Here(points, i)}
<1>1. MaxBlockNum \in Nat
  BY SizesAssumption
<1>2. \A j \in Here(points, i) : at[j] \in 1..MaxBlockNum
  BY HereIs
<1>3. T \subseteq 0..MaxBlockNum /\ T # {} /\ \A j \in Here(points, i) : at[j] \in T
  BY <1>1, <1>2
<1>4. \A x \in T : x > 0 => Here(points, i) # {}
  OBVIOUS
<1> HIDE DEF T
<1>5. Max(T) \in T /\ \A x \in T : x <= Max(T)
  BY <1>1, <1>3, MaxOfNumbers
<1>6. Blocks(points, at, i) = Max(T)
  BY DEF Blocks, T
<1> DEFINE m == Max(T)
<1>7. m \in T /\ m \in 0..MaxBlockNum /\ \A x \in T : x <= m
  BY <1>3, <1>5
<1> HIDE DEF m
<1>8. \A j \in Here(points, i) : at[j] \in 1..m
  BY <1>1, <1>2, <1>3, <1>7
<1> QED  BY <1>1, <1>4, <1>6, <1>7, <1>8 DEF m

(* The points of a block follow each other, and are at most Cap.           *)
InsideIs(points, at, i, b) ==
  LET I == Inside(points, at, i, b)
  IN /\ Cardinality(I) \in 0..Cap
     /\ I = {} => Cardinality(I) = 0
     /\ I # {} => Cardinality(I) > 0 /\ Min(I) \in I /\ \A m \in I : Min(I) <= m
     /\ \A s \in 1..Cardinality(I) :
          Min(I) + s - 1 \in I /\ Min(I) + s - 1 \in 1..Len(points)
     /\ \A s, t \in 1..Cardinality(I) : s <= t => Min(I) + s - 1 <= Min(I) + t - 1

LEMMA InsideBlock ==
  ASSUME NEW points, NEW at, Dealing(points, at), NEW i, NEW b
  PROVE  InsideIs(points, at, i, b)
<1> DEFINE I == Inside(points, at, i, b)
           n == Len(points)
           c == Cardinality(I)
           a == Min(I)
<1>1. \A j : j \in I <=> j \in 1..n /\ home[points[j]] = i /\ at[j] = b
  BY HereIs DEF Inside
<1>2. n \in Nat /\ HomesRise /\ Given(points) /\ DealtTo(points, at) /\ Cap \in Nat \ {0}
  BY SizesAssumption DEF Dealing, Given
<1> HIDE DEF I
<1>3. I \subseteq 1..n
  BY <1>1
<1>4. ASSUME NEW j \in I, NEW k \in I, NEW m \in 1..n, j <= m, m <= k
      PROVE  m \in I
  <2>1. /\ j \in 1..n /\ k \in 1..n /\ home[points[j]] = i /\ home[points[k]] = i
        /\ at[j] = b /\ at[k] = b
    BY <1>1
  <2>2. /\ home[points[j]] \in 1..Leaves /\ home[points[m]] \in 1..Leaves
        /\ home[points[k]] \in 1..Leaves
        /\ home[points[j]] <= home[points[m]] /\ home[points[m]] <= home[points[k]]
    BY <1>2, <1>4, <2>1, HomesOfPoints
  <2>3. home[points[m]] = i
    BY <2>1, <2>2, SizesAssumption
  <2>4. at[j] <= at[m] /\ at[m] <= at[k]
    BY <1>2, <1>4, <2>1, <2>3, DealRises
  <2>5. at[j] \in Nat /\ at[m] \in Nat /\ at[k] \in Nat
    BY <2>1, HereIs
  <2>6. at[m] = b
    BY <2>1, <2>4, <2>5
  <2> QED  BY <1>1, <2>3, <2>6
<1> HIDE DEF n
<1>5. /\ c \in 0..n
      /\ I = {} => c = 0
      /\ I # {} => /\ c > 0 /\ a \in 1..n
                   /\ \A m \in I : m \in a..a + c - 1
                   /\ \A s \in 1..c : a + s - 1 \in I
  BY <1>2, <1>3, <1>4, NoGap
<1>6. \A s \in 1..c : I # {} /\ a + s - 1 \in I /\ a + s - 1 \in 1..n
  BY <1>2, <1>3, <1>5
<1> HIDE DEF a, c
<1>7. I # {} => a \in I /\ \A m \in I : a <= m
  <2>1. I # {} => 1 \in 1..c /\ a + 1 - 1 = a
    BY <1>2, <1>5
  <2>2. I # {} => a + 1 - 1 \in I
    BY <1>5, <2>1
  <2>3. \A m \in I : m \in a..a + c - 1 /\ a <= m
    BY <1>5
  <2> QED  BY <2>1, <2>2, <2>3
<1>8. c <= Cap
  <2> SUFFICES ASSUME ~ (c <= Cap) PROVE FALSE
    OBVIOUS
  <2> DEFINE j == a + (Cap + 1) - 1
  <2>1. Cap + 1 \in 1..c
    BY <1>2, <1>5
  <2>2. j \in I /\ j \in 1..n /\ I # {}
    BY <1>6, <2>1
  <2>3. a \in I /\ a \in 1..n
    BY <1>5, <1>7, <2>2
  <2>4. j - Cap = a /\ a \in 1..j
    BY <1>2, <2>3
  <2> HIDE DEF j
  <2>5. home[points[a]] = i /\ home[points[j]] = i /\ at[a] = b /\ at[j] = b
    BY <1>1, <2>2, <2>3
  <2>6. at[j - Cap] < at[j]
    BY <1>2, <2>2, <2>4, <2>5 DEF DealtTo, n
  <2>7. at[j] \in Nat
    BY <2>2, HereIs DEF n
  <2> QED  BY <2>4, <2>5, <2>6, <2>7
<1>9. \A s, t \in 1..c : s <= t => a + s - 1 <= a + t - 1
  <2> TAKE s, t \in 1..c
  <2>1. a \in Nat /\ c \in Nat
    BY <1>2, <1>5, <1>6
  <2> QED  BY <2>1
<1>10. c \in 0..Cap
  BY <1>2, <1>5, <1>8
<1> QED  BY <1>5, <1>6, <1>7, <1>9, <1>10 DEF InsideIs, I, a, c, n

BlockIsOf(points, at, i, b) ==
  LET B == BlockOf(points, at, i, b)
      I == Inside(points, at, i, b)
  IN /\ B \in Seq(Key) /\ Len(B) = Cardinality(I) /\ Len(B) \in 0..Cap
     /\ B = <<>> <=> I = {}
     /\ \A s \in 1..Len(B) : B[s] = points[Min(I) + s - 1]

LEMMA BlockOfIs ==
  ASSUME NEW points, NEW at, Dealing(points, at), NEW i, NEW b
  PROVE  BlockIsOf(points, at, i, b)
<1> DEFINE I == Inside(points, at, i, b)
           B == BlockOf(points, at, i, b)
           c == Cardinality(I)
           a == Min(I)
<1>1. /\ c \in 0..Cap /\ (I = {} => c = 0) /\ (I # {} => c > 0)
      /\ \A s \in 1..c : a + s - 1 \in 1..Len(points)
  BY InsideBlock DEF InsideIs
<1>2. Cap \in Nat
  BY SizesAssumption
<1>3. B = [s \in 1..c |-> points[a + s - 1]]
  BY DEF BlockOf
<1> HIDE DEF a, c, B
<1>4. \A s \in 1..c : points[a + s - 1] \in Key
  BY <1>1, HereIs
<1>5. B \in [1..c -> Key] /\ c \in Nat /\ \A s \in 1..c : B[s] = points[a + s - 1]
  BY <1>1, <1>2, <1>3, <1>4
<1>6. B \in Seq(Key) /\ Len(B) = c
  BY <1>5
<1>7. B = <<>> <=> Len(B) = 0
  BY <1>6, EmptySeq
<1> HIDE DEF I
<1>8. B = <<>> <=> I = {}
  BY <1>1, <1>5, <1>6, <1>7
<1> QED  BY <1>1, <1>5, <1>6, <1>8 DEF BlockIsOf, B, I, c, a

(* Of two points of a leaf, that in a block before is less, if no key is in*)
(* two blocks.                                                             *)
LEMMA DealtApart ==
  ASSUME NEW points, NEW at, Dealing(points, at), NEW i,
         NEW j \in Here(points, i), NEW m \in Here(points, i), at[j] < at[m]
  PROVE  points[j] <= points[m] /\ (NoKeyInTwo => points[j] < points[m])
<1>1. /\ j \in 1..Len(points) /\ m \in 1..Len(points)
      /\ home[points[j]] = i /\ home[points[m]] = i
      /\ j \in Nat /\ m \in Nat /\ at[j] \in Nat /\ at[m] \in Nat
      /\ points[j] \in Nat /\ points[m] \in Nat
  BY HereIs
<1>2. HomesRise /\ Given(points) /\ DealtTo(points, at)
  BY DEF Dealing
<1>3. j <= m
  <2>1. CASE m <= j
    <3>1. at[m] <= at[j]
      BY <1>1, <1>2, <2>1, DealRises
    <3> QED  BY <1>1, <3>1
  <2> QED  BY <1>1, <2>1
<1>4. points[j] <= points[m]
  BY <1>1, <1>2, <1>3 DEF Given
<1>5. NoKeyInTwo => points[j] # points[m]
  <2>1. NoKeyInTwo /\ points[j] = points[m] => at[j] = at[m]
    BY <1>1, <1>2, <1>3, DealRises
  <2> QED  BY <1>1, <2>1
<1> QED  BY <1>1, <1>4, <1>5

(* What a separator is.                                                    *)
SeparatorIs(points, at, i, b) ==
  \E j \in Here(points, i) :
    \/ /\ at[j] = b + 1 /\ Separator(points, at, i, b) = points[j]
       /\ \A m \in Here(points, i) : at[m] = b + 1 => points[j] <= points[m]
    \/ /\ at[j] <= b /\ Separator(points, at, i, b) = 1 + points[j]
       /\ \A m \in Here(points, i) : at[m] # b + 1 /\ (at[m] <= b => points[m] <= points[j])

LEMMA SeparatorFrom ==
  ASSUME NEW points, NEW at, Dealing(points, at), NEW i,
         NEW b \in 1..Blocks(points, at, i) - 1
  PROVE  SeparatorIs(points, at, i, b)
<1> DEFINE I == Inside(points, at, i, b + 1)
           B == BlockOf(points, at, i, b + 1)
           S == {points[j] : j \in {m \in Here(points, i) : at[m] <= b}}
           H == Here(points, i)
           n == Len(points)
<1>1. /\ \A j : j \in H <=> j \in 1..n /\ home[points[j]] = i
      /\ \A j \in H : j \in Nat /\ at[j] \in Nat /\ points[j] \in Nat
  BY HereIs
<1>2. b \in Nat /\ b >= 1 /\ H # {}
  <2>1. Blocks(points, at, i) \in Nat /\ (Blocks(points, at, i) > 0 => H # {})
    BY BlocksAre
  <2> QED  BY <2>1
<1>3. n \in Nat /\ Given(points) /\ HomesRise /\ DealtTo(points, at)
  BY DEF Dealing, Given
<1>4. Separator(points, at, i, b) = IF B # <<>> THEN B[1] ELSE 1 + Max(S)
  BY DEF Separator
<1>5. \A j : j \in I <=> j \in H /\ at[j] = b + 1
  BY DEF Inside
<1>6. /\ B = <<>> <=> I = {}
      /\ Len(B) = Cardinality(I) /\ \A s \in 1..Len(B) : B[s] = points[Min(I) + s - 1]
  BY BlockOfIs DEF BlockIsOf
<1> HIDE DEF B, H, n
<1>7. CASE B # <<>>
  <2>1. I # {}
    BY <1>6, <1>7
  <2>2. Cardinality(I) > 0 /\ Min(I) \in I /\ Cardinality(I) \in 0..Cap /\ \A m \in I : Min(I) <= m
    BY <2>1, InsideBlock DEF InsideIs
  <2> HIDE DEF I
  <2> DEFINE a == Min(I)
  <2>3. a \in H /\ at[a] = b + 1 /\ a \in Nat /\ a \in 1..n
    BY <1>1, <1>5, <2>2
  <2>4. 1 \in 1..Len(B) /\ a + 1 - 1 = a
    BY <1>6, <2>2, <2>3, SizesAssumption
  <2>5. B[1] = points[a]
    BY <1>6, <2>4
  <2>6. ASSUME NEW m \in H, at[m] = b + 1
        PROVE  points[a] <= points[m]
    <3>1. m \in I /\ m \in 1..n
      BY <1>1, <1>5, <2>6
    <3>2. a <= m
      BY <2>2, <3>1
    <3> QED  BY <1>3, <2>3, <3>1, <3>2 DEF Given, n
  <2> HIDE DEF a
  <2> QED  BY <1>4, <1>7, <2>3, <2>5, <2>6 DEF SeparatorIs, H
<1>8. CASE B = <<>>
  <2>1. I = {}
    BY <1>6, <1>8
  <2>2. \A m \in H : at[m] # b + 1
    BY <1>5, <2>1
  <2>3. \E j \in H : at[j] <= b
    <3>1. H \subseteq Nat
      BY <1>1
    <3> DEFINE a == Min(H)
    <3>2. a \in H /\ \A m \in H : a <= m
      BY <1>2, <3>1, MinOfNumbers
    <3> HIDE DEF a
    <3>3. a \in 1..n /\ home[points[a]] = i
      BY <1>1, <3>2
    <3>4. ~ (a - 1 \in 1..a /\ home[points[a - 1]] = home[points[a]])
      <4> SUFFICES ASSUME a - 1 \in 1..a, home[points[a - 1]] = home[points[a]] PROVE FALSE
        OBVIOUS
      <4>1. a - 1 \in 1..n
        BY <1>3, <3>3
      <4>2. a - 1 \in H
        BY <1>1, <3>3, <4>1
      <4>3. a <= a - 1
        BY <3>2, <4>2
      <4> QED  BY <3>3, <4>3
    <3>5. at[a] = 1
      BY <1>3, <3>3, <3>4 DEF DealtTo, n
    <3> QED  BY <1>2, <3>2, <3>5
  <2>4. S \subseteq 0..points[n] /\ S # {} /\ points[n] \in Nat
    <3>1. \A m \in H : m \in 1..n /\ m <= n /\ n \in 1..n
      BY <1>1, <1>3
    <3>2. \A m \in H : points[m] \in Nat /\ points[m] <= points[n]
      BY <1>1, <1>3, <3>1 DEF Given, n
    <3>3. n \in 1..n
      BY <1>2, <3>1
    <3>4. points[n] \in Nat
      BY <1>3, <3>3 DEF Given, n
    <3>5. S # {}
      BY <2>3 DEF H
    <3>6. S \subseteq 0..points[n]
      BY <3>2, <3>4 DEF H
    <3> QED  BY <3>4, <3>5, <3>6
  <2>5. \A x \in S : \E j \in H : at[j] <= b /\ x = points[j]
    BY DEF H
  <2>6. \A j \in H : at[j] <= b => points[j] \in S
    BY DEF H
  <2> HIDE DEF S
  <2>7. Max(S) \in S /\ \A x \in S : x <= Max(S)
    BY <2>4, MaxOfNumbers
  <2>8. PICK j \in H : at[j] <= b /\ Max(S) = points[j]
    BY <2>5, <2>7
  <2>9. \A m \in H : at[m] <= b => points[m] <= points[j]
    BY <2>6, <2>7, <2>8
  <2>10. Separator(points, at, i, b) = 1 + points[j]
    BY <1>4, <1>8, <2>8
  <2> QED  BY <2>2, <2>8, <2>9, <2>10 DEF SeparatorIs, H
<1> QED  BY <1>7, <1>8

(* The separators of a leaf rise, and lie between the keys of its blocks.  *)
LEMMA SeparatorsLie ==
  ASSUME NEW points, NEW at, Dealing(points, at), NoKeyInTwo, NEW i,
         NEW b \in 1..Blocks(points, at, i) - 1, NEW m \in Here(points, i)
  PROVE  IF at[m] <= b THEN points[m] < Separator(points, at, i, b)
         ELSE Separator(points, at, i, b) <= points[m]
<1>1. PICK j \in Here(points, i) :
        \/ /\ at[j] = b + 1 /\ Separator(points, at, i, b) = points[j]
           /\ \A q \in Here(points, i) : at[q] = b + 1 => points[j] <= points[q]
        \/ /\ at[j] <= b /\ Separator(points, at, i, b) = 1 + points[j]
           /\ \A q \in Here(points, i) : at[q] # b + 1 /\ (at[q] <= b => points[q] <= points[j])
  BY SeparatorFrom DEF SeparatorIs
<1>2. /\ at[j] \in Nat /\ at[m] \in Nat /\ points[j] \in Nat /\ points[m] \in Nat
  BY HereIs
<1>3. b \in Nat
  BY BlocksAre
<1>4. at[j] < at[m] => points[j] < points[m]
  BY DealtApart
<1>5. at[m] < at[j] => points[m] < points[j]
  BY DealtApart
<1>6. CASE /\ at[j] = b + 1 /\ Separator(points, at, i, b) = points[j]
           /\ (at[m] = b + 1 => points[j] <= points[m])
  BY <1>2, <1>3, <1>4, <1>5, <1>6
<1>7. CASE /\ at[j] <= b /\ Separator(points, at, i, b) = 1 + points[j]
           /\ at[m] # b + 1 /\ (at[m] <= b => points[m] <= points[j])
  BY <1>2, <1>3, <1>4, <1>5, <1>7
<1> QED  BY <1>1, <1>6, <1>7

LEMMA SeparatorsRise ==
  ASSUME NEW points, NEW at, Dealing(points, at), NoKeyInTwo, NEW i,
         NEW b \in 1..Blocks(points, at, i) - 1, NEW c \in 1..Blocks(points, at, i) - 1, b <= c
  PROVE  /\ Separator(points, at, i, b) \in Nat
         /\ Separator(points, at, i, b) <= Separator(points, at, i, c)
<1>1. \A d \in 1..Blocks(points, at, i) - 1 : Separator(points, at, i, d) \in Nat /\ d \in Nat
  <2> TAKE d \in 1..Blocks(points, at, i) - 1
  <2>1. PICK j \in Here(points, i) :
          \/ Separator(points, at, i, d) = points[j]
          \/ Separator(points, at, i, d) = 1 + points[j]
    BY SeparatorFrom DEF SeparatorIs
  <2>2. points[j] \in Nat /\ d \in Nat
    BY HereIs, BlocksAre
  <2> QED  BY <2>1, <2>2
<1>2. CASE b = c
  BY <1>1, <1>2
<1>3. CASE b # c
  <2>1. PICK j \in Here(points, i) :
          \/ at[j] = b + 1 /\ Separator(points, at, i, b) = points[j]
          \/ at[j] <= b /\ Separator(points, at, i, b) = 1 + points[j]
    BY SeparatorFrom DEF SeparatorIs
  <2>2. at[j] \in Nat /\ points[j] \in Nat
    BY HereIs
  <2>3. at[j] <= c
    BY <1>1, <1>3, <2>1, <2>2
  <2>4. points[j] < Separator(points, at, i, c)
    BY <2>3, SeparatorsLie
  <2> QED  BY <1>1, <2>1, <2>2, <2>4
<1> QED  BY <1>2, <1>3

LEMMA SeparatorIsNumber ==
  ASSUME NEW points, NEW at, Dealing(points, at), NEW i,
         NEW b \in 1..Blocks(points, at, i) - 1
  PROVE  Separator(points, at, i, b) \in Nat
<1>1. PICK j \in Here(points, i) :
        \/ Separator(points, at, i, b) = points[j]
        \/ Separator(points, at, i, b) = 1 + points[j]
  BY SeparatorFrom DEF SeparatorIs
<1>2. points[j] \in Nat
  BY HereIs
<1> QED  BY <1>1, <1>2

(* The chain that the points are dealt to.                                 *)
DealtChain(lf, points, at) ==
  Dealing(points, at) /\ lf = [i \in 1..Leaves |-> LeafOf(i, points, at)]

LeafDealt(lf, points, at, i) ==
  /\ lf[i] = [blocks   |-> [b \in 1..Blocks(points, at, i) |-> BlockOf(points, at, i, b)],
              slotkeys |-> [b \in 1..Blocks(points, at, i) - 1 |->
                              Separator(points, at, i, b)]]
  /\ NumIn(lf, i) = Blocks(points, at, i) /\ Blocks(points, at, i) \in 0..MaxBlockNum
  /\ \A b \in 1..Blocks(points, at, i) : lf[i].blocks[b] = BlockOf(points, at, i, b)
  /\ \A c \in 1..Blocks(points, at, i) - 1 :
       lf[i].slotkeys[c] = Separator(points, at, i, c)

LEMMA DealtLeaf ==
  ASSUME NEW points, NEW at, NEW lf, DealtChain(lf, points, at), NEW i \in 1..Leaves
  PROVE  LeafDealt(lf, points, at, i)
<1> DEFINE M == Blocks(points, at, i)
           B == [b \in 1..M |-> BlockOf(points, at, i, b)]
           S == [b \in 1..M - 1 |-> Separator(points, at, i, b)]
<1>1. M \in Nat /\ M \in 0..MaxBlockNum
  BY BlocksAre DEF DealtChain
<1>2. lf[i] = [blocks |-> B, slotkeys |-> S]
  BY <1>1, LeafOfIs DEF DealtChain
<1>3. B = [b \in 1..M |-> B[b]] /\ (\A b \in 1..M : B[b] = BlockOf(points, at, i, b))
      /\ (\A b \in 1..M - 1 : S[b] = Separator(points, at, i, b))
  OBVIOUS
<1>4. Len(B) = M
  <2> HIDE DEF B, M
  <2> QED  BY <1>1, <1>3, LengthIs
<1>5. lf[i].blocks = B /\ lf[i].slotkeys = S
  BY <1>2
<1>6. NumIn(lf, i) = M
  BY <1>4, <1>5 DEF NumIn
<1> QED  BY <1>1, <1>2, <1>3, <1>5, <1>6 DEF LeafDealt

LEMMA DealtIsShaped ==
  ASSUME NEW points, NEW at, NEW lf, DealtChain(lf, points, at)
  PROVE  Shaped(lf)
<1>1. ASSUME NEW i \in 1..Leaves
      PROVE  /\ lf[i] \in [blocks : Seq(Seq(Key)), slotkeys : Seq(Nat)]
             /\ Len(lf[i].blocks) <= MaxBlockNum
             /\ \A b \in 1..Len(lf[i].blocks) : Len(lf[i].blocks[b]) <= Cap
  <2> DEFINE M == Blocks(points, at, i)
             B == [b \in 1..M |-> BlockOf(points, at, i, b)]
             S == [b \in 1..M - 1 |-> Separator(points, at, i, b)]
  <2>1. M \in Nat /\ M <= MaxBlockNum
    BY BlocksAre, SizesAssumption DEF DealtChain
  <2>2. \A b \in 1..M : BlockOf(points, at, i, b) \in Seq(Key) /\ Len(BlockOf(points, at, i, b)) <= Cap
    BY BlockOfIs, SizesAssumption DEF BlockIsOf, DealtChain
  <2>3. B \in [1..M -> Seq(Key)] /\ B \in Seq(Seq(Key))
    BY <2>1, <2>2
  <2>4. \A b \in 1..M - 1 : Separator(points, at, i, b) \in Nat
    BY SeparatorIsNumber DEF DealtChain
  <2>5. S \in Seq(Nat)
    <3>1. CASE M = 0
      <4> HIDE DEF M
      <4>1. 1..M - 1 = {} /\ 1..M - 1 = 1..0
        BY <3>1
      <4>2. S \in [1..0 -> Nat]
        BY <2>4, <4>1
      <4> HIDE DEF S
      <4> QED  BY <4>2
    <3>2. CASE M # 0
      <4>1. M - 1 \in Nat
        BY <2>1, <3>2
      <4>2. S \in [1..M - 1 -> Nat]
        BY <2>4
      <4> HIDE DEF S, M
      <4> QED  BY <4>1, <4>2
    <3> QED  BY <3>1, <3>2
  <2>6. lf[i] = [blocks |-> B, slotkeys |-> S] /\ NumIn(lf, i) = M
        /\ \A b \in 1..M : lf[i].blocks[b] = BlockOf(points, at, i, b)
    BY DealtLeaf DEF LeafDealt
  <2>7. Len(lf[i].blocks) = M
    BY <2>6 DEF NumIn
  <2> HIDE DEF B, S, M
  <2> QED  BY <2>1, <2>2, <2>3, <2>5, <2>6, <2>7 DEF M
<1>2. lf = [i \in 1..Leaves |-> lf[i]]
  BY DEF DealtChain
<1>3. lf \in [1..Leaves -> [blocks : Seq(Seq(Key)), slotkeys : Seq(Nat)]]
  BY <1>1, <1>2
<1> QED  BY <1>1, <1>3 DEF Shaped

(* A point of a block is one of those that were dealt to it.               *)
DealtAs(lf, points, at, i, b, s, j) ==
  /\ j \in Here(points, i) /\ at[j] = b + 1 /\ lf[i].blocks[b + 1][s] = points[j]
  /\ j = Min(Inside(points, at, i, b + 1)) + s - 1
  /\ s \in 1..Cardinality(Inside(points, at, i, b + 1))

LEMMA DealtPoint ==
  ASSUME NEW points, NEW at, NEW lf, DealtChain(lf, points, at),
         NEW i, NEW b, NEW s, IsPoint(lf, i, b, s)
  PROVE  \E j : DealtAs(lf, points, at, i, b, s, j)
<1> DEFINE I == Inside(points, at, i, b + 1)
           B == BlockOf(points, at, i, b + 1)
<1>1. i \in 1..Leaves /\ b \in 0..NumIn(lf, i) - 1 /\ s \in 1..SizeIn(lf, i, b)
  BY DEF IsPoint
<1>2. NumIn(lf, i) = Blocks(points, at, i) /\ NumIn(lf, i) \in Nat
  <2>1. LeafDealt(lf, points, at, i)
    BY <1>1, DealtLeaf
  <2> QED  BY <2>1, SizesAssumption DEF LeafDealt
<1>3. b + 1 \in 1..Blocks(points, at, i) /\ b < NumIn(lf, i)
  BY <1>1, <1>2
<1>4. lf[i].blocks[b + 1] = B
  <2>1. LeafDealt(lf, points, at, i)
    BY <1>1, DealtLeaf
  <2> QED  BY <1>3, <2>1 DEF LeafDealt
<1>5. s \in 1..Len(B)
  BY <1>1, <1>3, <1>4 DEF SizeIn
<1>6. Len(B) = Cardinality(I) /\ B[s] = points[Min(I) + s - 1]
  BY <1>5, BlockOfIs DEF BlockIsOf, DealtChain
<1>7. Min(I) + s - 1 \in I
  BY <1>5, <1>6, InsideBlock DEF InsideIs, DealtChain
<1>8. Min(I) + s - 1 \in Here(points, i) /\ at[Min(I) + s - 1] = b + 1
  BY <1>7 DEF Inside
<1> QED  BY <1>4, <1>5, <1>6, <1>8 DEF DealtAs

(* Each point that was dealt is in a block of its home.                    *)
LEMMA DealtSomewhere ==
  ASSUME NEW points, NEW at, NEW lf, DealtChain(lf, points, at),
         NEW i \in 1..Leaves, NEW j \in Here(points, i)
  PROVE  IsPoint(lf, i, at[j] - 1, 1) /\ NumIn(lf, i) > 0
<1> DEFINE b == at[j] - 1
           I == Inside(points, at, i, b + 1)
           B == BlockOf(points, at, i, b + 1)
<1>1. at[j] \in 1..Blocks(points, at, i) /\ Blocks(points, at, i) \in Nat
  BY BlocksAre DEF DealtChain
<1>2. b \in Nat /\ b + 1 = at[j] /\ b \in 0..Blocks(points, at, i) - 1 /\ b < Blocks(points, at, i)
  BY <1>1
<1>3. j \in I
  BY <1>2 DEF Inside
<1>4. Cardinality(I) > 0 /\ Cardinality(I) \in 0..Cap
  BY <1>3, InsideBlock DEF InsideIs, DealtChain
<1>5. Len(B) = Cardinality(I)
  BY BlockOfIs DEF BlockIsOf, DealtChain
<1> HIDE DEF b
<1>6. NumIn(lf, i) = Blocks(points, at, i) /\ lf[i].blocks[b + 1] = B
  <2>1. LeafDealt(lf, points, at, i)
    BY DealtLeaf
  <2> QED  BY <1>1, <1>2, <2>1 DEF LeafDealt
<1>7. SizeIn(lf, i, b) = Cardinality(I)
  BY <1>2, <1>5, <1>6 DEF SizeIn
<1>8. 1 \in 1..SizeIn(lf, i, b)
  BY <1>4, <1>7, SizesAssumption
<1>9. IsPoint(lf, i, b, 1) /\ NumIn(lf, i) > 0
  BY <1>1, <1>2, <1>6, <1>8 DEF IsPoint
<1> QED  BY <1>9 DEF b

NoBareLeaf == "bare last leaf" \notin Odd

LEMMA InitIsDealt ==
  ASSUME Init
  PROVE  \E points, at : /\ DealtChain(leaf, points, at) /\ Len(points) > 0
                         /\ LET used == {home[points[j]] : j \in 1..Len(points)}
                            IN /\ firstLeaf \in 1..Min(used)
                               /\ NoBareLeaf => lastLeaf = Max(used)
<1>1. HomesRise
  BY DEF Init, HomesRise
<1>2. PICK points \in SortedPoints :
        LET used == {home[k] : k \in ToSet(points)}
        IN /\ \E at \in Deals(points) : leaf = [i \in 1..Leaves |-> LeafOf(i, points, at)]
           /\ firstLeaf \in 1..Min(used)
           /\ lastLeaf \in {Max(used)} \cup
                IF "bare last leaf" \in Odd THEN Max(used)..Leaves ELSE {}
  BY DEF Init
<1>3. Given(points) /\ DOMAIN points = 1..Len(points)
  BY SortedIsGiven
<1>4. PICK at \in Deals(points) : leaf = [i \in 1..Leaves |-> LeafOf(i, points, at)]
  BY <1>2
<1>5. DealtTo(points, at)
  BY <1>3, DealsAre
<1>6. DealtChain(leaf, points, at)
  BY <1>1, <1>3, <1>4, <1>5 DEF DealtChain, Dealing
<1> DEFINE used == {home[points[j]] : j \in 1..Len(points)}
<1>7. {home[k] : k \in ToSet(points)} = used
  BY <1>3 DEF ToSet
<1> HIDE DEF used
<1>8. firstLeaf \in 1..Min(used) /\ (NoBareLeaf => lastLeaf = Max(used))
  BY <1>2, <1>7 DEF NoBareLeaf
<1>9. Len(points) > 0
  BY <1>3 DEF Given
<1> QED  BY <1>6, <1>8, <1>9 DEF used

LEMMA InitMakesMap ==
  ASSUME Init, NoBareLeaf
  PROVE  MapInv /\ it = NoIterator
<1>1. PICK points, at : /\ DealtChain(leaf, points, at) /\ Len(points) > 0
                        /\ LET used == {home[points[j]] : j \in 1..Len(points)}
                           IN /\ firstLeaf \in 1..Min(used)
                              /\ NoBareLeaf => lastLeaf = Max(used)
  BY InitIsDealt
<1> DEFINE used == {home[points[j]] : j \in 1..Len(points)}
<1>2. Dealing(points, at) /\ HomesRise /\ Given(points) /\ Shaped(leaf)
  BY <1>1, DealtIsShaped DEF DealtChain, Dealing
<1>3. \A j \in 1..Len(points) : home[points[j]] \in 1..Leaves
  BY <1>2, HomesOfPoints DEF Given
<1>4. Leaves \in Nat /\ Len(points) \in Nat
  BY <1>2, SizesAssumption DEF Given
<1>5. used \subseteq 1..Leaves /\ used # {}
  <2>1. 1 \in 1..Len(points)
    BY <1>1, <1>4
  <2>2. home[points[1]] \in used
    BY <2>1
  <2> QED  BY <1>3, <2>2
<1>6. \A i, j : j \in Here(points, i) => i \in used
  BY <1>2, HereIs
<1>7. \A i \in used : \E j : j \in Here(points, i)
  BY <1>2, HereIs
<1>8. firstLeaf \in 1..Min(used) /\ lastLeaf = Max(used)
  BY <1>1
<1> HIDE DEF used
<1>9. Min(used) \in used /\ \A i \in used : Min(used) <= i
  <2>1. used \subseteq Nat
    BY <1>5
  <2> QED  BY <1>5, <2>1, MinOfNumbers
<1>10. Max(used) \in used /\ \A i \in used : i <= Max(used)
  <2>1. used \subseteq 0..Leaves
    BY <1>5
  <2> QED  BY <1>4, <1>5, <2>1, MaxOfNumbers
<1>11. firstLeaf \in 1..Leaves /\ lastLeaf \in 1..Leaves
       /\ \A i \in used : i \in 1..Leaves /\ firstLeaf <= i /\ i <= lastLeaf
  <2>1. Min(used) \in 1..Leaves
    BY <1>5, <1>9
  <2>2. ASSUME NEW i \in used
        PROVE  i \in 1..Leaves /\ firstLeaf <= i /\ i <= lastLeaf
    <3>1. i \in 1..Leaves /\ Min(used) <= i /\ i <= Max(used)
      BY <1>5, <1>9, <1>10
    <3> QED  BY <1>8, <2>1, <3>1
  <2>3. firstLeaf \in 1..Leaves
    <3> DEFINE a == Min(used)
    <3>1. a \in 1..Leaves /\ firstLeaf \in 1..a
      BY <1>8, <2>1
    <3> HIDE DEF a
    <3> QED  BY <1>4, <3>1
  <2> QED  BY <1>5, <1>8, <1>10, <2>2, <2>3
<1>12. ASSUME NEW i \in 1..Leaves, NEW b \in 0..NumIn(leaf, i) - 1, SizeIn(leaf, i, b) > 0
       PROVE  firstLeaf <= i /\ i <= lastLeaf
  <2>1. SizeIn(leaf, i, b) \in Nat
    <3>1. IsPlace(leaf, i, b)
      BY <1>2, LeafJoins, SizesAssumption DEF IsPlace
    <3> QED  BY <1>2, <3>1, PlaceIs, SizesAssumption
  <2>2. IsPoint(leaf, i, b, 1)
    BY <1>12, <2>1 DEF IsPoint
  <2>3. PICK j : DealtAs(leaf, points, at, i, b, 1, j)
    BY <1>1, <2>2, DealtPoint
  <2>4. i \in used
    BY <1>6, <2>3 DEF DealtAs
  <2> QED  BY <1>11, <2>4
<1>13. NumIn(leaf, lastLeaf) > 0 /\ Len(PointsIn(leaf)) > 0
  <2>1. PICK j : j \in Here(points, lastLeaf)
    BY <1>7, <1>8, <1>10
  <2>2. IsPoint(leaf, lastLeaf, at[j] - 1, 1) /\ NumIn(leaf, lastLeaf) > 0
    BY <1>1, <1>11, <2>1, DealtSomewhere
  <2> DEFINE p == Before(leaf, lastLeaf, at[j] - 1) + 1
  <2>3. p \in 1..Len(PointsIn(leaf))
    BY <1>2, <2>2, PointAt
  <2>4. Len(PointsIn(leaf)) \in Nat
    <3>1. PointsIn(leaf) \in Seq(Key)
      BY <1>2, MapJoins
    <3> QED  BY <3>1
  <2> HIDE DEF p
  <2> QED  BY <2>2, <2>3, <2>4
<1>14. it = NoIterator /\ home \in [Key -> 1..Leaves]
  BY DEF Init
<1> QED  BY <1>2, <1>11, <1>12, <1>13, <1>14 DEF MapInv

----------------------------------------------------------------------------
(* The type invariant.                                                     *)
ItPlaced == it = NoIterator \/ Placed(it)
ItHeld == it = NoIterator \/ Held(it)

LEMMA NextKeepsMap ==
  ASSUME MapInv, ItPlaced, [Next]_vars
  PROVE  /\ MapInv' /\ ItPlaced'
         /\ "converted at a block's edge" \notin Odd /\ ItHeld => ItHeld'
<1> DEFINE Keeps == /\ MapInv' /\ ItPlaced'
                    /\ "converted at a block's edge" \notin Odd /\ ItHeld => ItHeld'
<1>1. ASSUME NEW op, NEW k, NEW x, Take(op, k, x), Held(x)
      PROVE  Keeps
  <2>1. MapInv' /\ Placed(it)' /\ Held(it)'
    BY <1>1, TakeKeeps DEF Held
  <2> QED  BY <2>1 DEF ItPlaced, ItHeld
<1>2. CASE Edge \/ ConstEdge
  BY <1>1, <1>2, EdgeGives
<1>3. CASE IteratorStep \/ ConstStep \/ ReverseStep \/ ConstReverseStep
  BY <1>1, <1>3, StepGives DEF ItPlaced
<1>4. ASSUME NEW class \in DOMAIN From, Convert(class)
      PROVE  Keeps
  <2>1. PICK x : /\ Take("convert", 0, x) /\ Placed(x) /\ Placed(it)
                 /\ "converted at a block's edge" \notin Odd /\ Held(it) => Held(x)
    BY <1>4, ConvertGives DEF ItPlaced
  <2>2. MapInv' /\ Placed(it)' /\ (Held(x) => Held(it)')
    BY <2>1, TakeKeeps
  <2>3. it # NoIterator
    <3>1. it.class # "none"
      BY <2>1 DEF Placed, Forward, Backward
    <3> QED  BY <3>1, AtIs DEF NoIterator
  <2> QED  BY <2>1, <2>2, <2>3 DEF ItPlaced, ItHeld
<1>5. ASSUME NEW k \in Key,
             \/ Take("lower_bound", k, LowerBound(k))
             \/ Take("upper_bound", k, UpperBound(k))
             \/ Take("find", k, Find(k))
      PROVE  Keeps
  <2>1. PICK op, x : Take(op, k, x) /\ Held(x)
    BY <1>5, LookupGives
  <2> QED  BY <1>1, <2>1
<1>6. ASSUME NEW k \in Key, Erase(k)
      PROVE  Keeps
  <2>1. MapInv' /\ it' = NoIterator
    BY <1>6, EraseKeeps
  <2>2. NoIterator' = NoIterator
    BY DEF NoIterator, At
  <2> QED  BY <2>1, <2>2 DEF ItPlaced, ItHeld
<1>7. CASE UNCHANGED vars
  <2>1. SameMap /\ it' = it
    BY <1>7 DEF vars, SameMap
  <2> QED  BY <2>1, MapStays, PlacesStay DEF ItPlaced, ItHeld
<1> QED  BY <1>2, <1>3, <1>4, <1>5, <1>6, <1>7 DEF Next

LEMMA PlacedIsTyped ==
  ASSUME MapInv, ItPlaced
  PROVE  TypeOK
<1>1. home \in [Key -> 1..Leaves] /\ Shaped(leaf) /\ {firstLeaf, lastLeaf} \subseteq 1..Leaves
  BY DEF MapInv
<1>2. ASSUME NEW i \in 1..Leaves
      PROVE  /\ Num(i) \in 0..MaxBlockNum
             /\ \A b \in 1..Num(i) : leaf[i].blocks[b] \in BoundedSeq(Key, Cap)
  <2>1. Num(i) = Len(leaf[i].blocks) /\ Num(i) \in 0..MaxBlockNum
    BY <1>1, LeafJoins, NumIs
  <2>2. ASSUME NEW b \in 1..Num(i)
        PROVE  leaf[i].blocks[b] \in BoundedSeq(Key, Cap)
    <3> DEFINE B == leaf[i].blocks[b]
    <3>1. B \in Seq(Key) /\ Len(B) <= Cap
      <4>1. /\ leaf[i].blocks \in Seq(Seq(Key))
            /\ \A c \in 1..Len(leaf[i].blocks) : Len(leaf[i].blocks[c]) <= Cap
        BY <1>1 DEF Shaped
      <4>2. b \in 1..Len(leaf[i].blocks)
        BY <2>1
      <4> QED  BY <4>1, <4>2
    <3> HIDE DEF B
    <3>2. Len(B) \in 0..Cap /\ B \in [1..Len(B) -> Key]
      BY <3>1, SizesAssumption
    <3>3. B \in BoundedSeq(Key, Cap)
      BY <3>2 DEF BoundedSeq, SeqOf
    <3> QED  BY <3>3 DEF B
  <2> QED  BY <2>1, <2>2
<1>3. it = NoIterator \/
      it \in [class : Forward \cup Backward, node : 1..Leaves,
              block : 0..MaxBlockNum - 1, slot : 0..Cap]
  BY DEF ItPlaced, Placed
<1> QED  BY <1>1, <1>2, <1>3 DEF TypeOK

(* Whatever the chain of leaves is like, with leaves that were split off   *)
(* without points and blocks that erase left empty: each iterator that     *)
(* CARMIMap gives or moves is at a slot of a leaf of the chain or behind   *)
(* its last one, if the last leaf has blocks.                              *)
THEOREM IteratorsTypeCorrect ==
  ASSUME NoBareLeaf
  PROVE  Spec => []TypeOK
<1>1. Init => MapInv /\ ItPlaced
  BY InitMakesMap DEF ItPlaced
<1>2. MapInv /\ ItPlaced /\ [Next]_vars => MapInv' /\ ItPlaced'
  BY NextKeepsMap
<1>3. MapInv /\ ItPlaced => TypeOK
  BY PlacedIsTyped
<1> QED  BY <1>1, <1>2, <1>3, PTL DEF Spec

----------------------------------------------------------------------------
(* The places of the properties are those of the proofs.                   *)
LEMMA FirstBlocks ==
  ASSUME NEW S, NEW s \in Seq(S), NEW b \in 0..Len(s)
  PROVE  SubSeq(s, 1, b) = FirstOf(s, b)
<1> DEFINE u == SubSeq(s, 1, b)
<1>1. b \in Nat /\ b \in Int /\ 1 \in Int /\ \A i \in 1..b : s[i] \in S
  OBVIOUS
<1>2. /\ u \in Seq(S) /\ Len(u) = IF 1 <= b THEN b - 1 + 1 ELSE 0
      /\ \A i \in 1..b - 1 + 1 : u[i] = s[1 + i - 1]
  BY <1>1, SubSeqProperties
<1>3. b - 1 + 1 = b /\ \A i \in 1..b : 1 + i - 1 = i
  BY <1>1
<1> HIDE DEF u
<1>4. Len(u) = b
  BY <1>1, <1>2, <1>3
<1>5. u = [i \in 1..Len(u) |-> u[i]]
  BY <1>2
<1>6. u = [i \in 1..b |-> s[i]]
  BY <1>2, <1>3, <1>4, <1>5
<1> QED  BY <1>6 DEF u, FirstOf

LEMMA PointsBeforeIs ==
  ASSUME Shaped(leaf), NEW x, Placed(x)
  PROVE  PointsBefore(x) = PlaceOf(x) /\ x # NoIterator
<1> DEFINE i == x.node
           b == x.block
<1>1. /\ i \in 1..Leaves /\ b \in Nat /\ x.slot \in Nat /\ IsPlace(leaf, i, b)
      /\ x.class \in Forward \cup Backward
  BY PlacedIs
<1>2. x # NoIterator
  BY <1>1, AtIs DEF NoIterator, Forward, Backward
<1>3. [j \in 1..i - 1 |-> PointsOf(j)] = FirstOf(ByLeaf(leaf), i - 1)
  <2>1. \A j \in 1..i - 1 : j \in 1..Leaves
    BY <1>1, SizesAssumption
  <2>2. \A j \in 1..i - 1 : PointsOf(j) = ByLeaf(leaf)[j]
    BY <2>1 DEF PointsOf, ByLeaf
  <2> QED  BY <2>2 DEF FirstOf
<1>4. SubSeq(leaf[i].blocks, 1, b) = FirstOf(leaf[i].blocks, b)
  <2>1. leaf[i].blocks \in Seq(Seq(Key))
    BY <1>1 DEF Shaped
  <2>2. b \in 0..Len(leaf[i].blocks)
    BY <1>1, LeafJoins DEF IsPlace
  <2> QED  BY <2>1, <2>2, FirstBlocks
<1>5. PointsBefore(x) = x.slot + Len(FlattenSeq(FirstOf(ByLeaf(leaf), i - 1)))
                               + Len(FlattenSeq(FirstOf(leaf[i].blocks, b)))
  BY <1>2, <1>3, <1>4 DEF PointsBefore
<1>6. PointsBefore(x) = x.slot + Upto(ByLeaf(leaf), i - 1) + Upto(leaf[i].blocks, b)
  BY <1>5 DEF Upto, JoinedTo
<1>7. Upto(ByLeaf(leaf), i - 1) \in Nat /\ Upto(leaf[i].blocks, b) \in Nat
  BY <1>1, PlaceIs
<1>8. PlaceOf(x) = (Upto(ByLeaf(leaf), i - 1) + Upto(leaf[i].blocks, b)) + x.slot
  BY DEF PlaceOf, Before
<1> QED  BY <1>1, <1>2, <1>6, <1>7, <1>8

(* An iterator without a point to refer to is the end of its direction.    *)
NoEdgeConverted == "converted at a block's edge" \notin Odd

LEMMA HeldKnowsItsEnd ==
  ASSUME MapInv, ItHeld
  PROVE  EndIsRecognized
<1>1. CASE it = NoIterator
  BY <1>1, AtIs DEF NoIterator, EndIsRecognized, Forward, Backward
<1>2. CASE Held(it)
  <2> DEFINE N == Len(PointsIn(leaf))
             s == it.slot
             n == SizeIn(leaf, it.node, it.block)
             f == Before(leaf, it.node, it.block)
  <2>1. Placed(it) /\ (it = EndOf(it) \/ AtPoint(it)) /\ Shaped(leaf)
    BY <1>2 DEF Held, MapInv
  <2>2. /\ it.class \in Forward \cup Backward /\ s \in Nat /\ s <= n /\ n \in 0..Cap
        /\ SizeAt(it) = n /\ f \in Nat /\ f + n <= N /\ N \in Nat
    BY <2>1, PlacedIs
  <2>3. PointsBefore(it) = f + s /\ Len(Points) = N
    BY <2>1, PointsBeforeIs, PointsAre DEF PlaceOf
  <2>4. it = EndOf(it) => f + s = IF it.class \in Forward THEN N ELSE 0
    <3>1. PlaceOf(EndOf(it)) = EndPlace(it.class)
      BY <2>2, EndOfIs
    <3> QED  BY <3>1 DEF PlaceOf, EndPlace
  <2>5. AtPoint(it) <=> IF it.class \in Forward THEN s < n ELSE s > 0
    BY DEF AtPoint
  <2>6. n \in Nat
    BY <2>2, SizesAssumption
  <2> HIDE DEF N, s, n, f
  <2>7. CASE it.class \in Forward
    <3>1. it.class \notin Backward
      BY <2>7, ClassesApart
    <3>2. CASE AtPoint(it)
      <4>1. s < n /\ f + s # N
        BY <2>2, <2>5, <2>6, <2>7, <3>2
      <4> QED  BY <2>2, <2>3, <3>1, <4>1 DEF EndIsRecognized, s
    <3>3. CASE it = EndOf(it)
      <4>1. f + s = N
        BY <2>4, <2>7, <3>3
      <4> QED  BY <2>3, <3>1, <3>3, <4>1 DEF EndIsRecognized
    <3> QED  BY <2>1, <3>2, <3>3
  <2>8. CASE it.class \notin Forward
    <3>1. CASE AtPoint(it)
      <4>1. s \in 1..n /\ f + s # 0
        BY <2>2, <2>5, <2>6, <2>8, <3>1
      <4> QED  BY <2>2, <2>3, <2>8, <4>1 DEF EndIsRecognized, s
    <3>2. CASE it = EndOf(it)
      <4>1. f + s = 0
        BY <2>4, <2>8, <3>2
      <4> QED  BY <2>3, <2>8, <3>2, <4>1 DEF EndIsRecognized
    <3> QED  BY <2>1, <3>1, <3>2
  <2> QED  BY <2>7, <2>8
<1> QED  BY <1>1, <1>2 DEF ItHeld

(* A loop over the map ends: each iterator that CARMIMap gives or moves    *)
(* compares equal to its end when no point is left in its direction, and   *)
(* refers to a point otherwise, through leaves and blocks without points,  *)
(* unless it is converted at the edge of a block.                          *)
THEOREM IteratorsKnowTheirEnd ==
  ASSUME NoBareLeaf, NoEdgeConverted
  PROVE  Spec => []EndIsRecognized
<1>1. Init => MapInv /\ ItPlaced /\ ItHeld
  BY InitMakesMap DEF ItPlaced, ItHeld
<1>2. MapInv /\ ItPlaced /\ ItHeld /\ [Next]_vars => MapInv' /\ ItPlaced' /\ ItHeld'
  BY NextKeepsMap DEF NoEdgeConverted
<1>3. MapInv /\ ItHeld => EndIsRecognized
  BY HeldKnowsItsEnd
<1> QED  BY <1>1, <1>2, <1>3, PTL DEF Spec

----------------------------------------------------------------------------
(* The order of the points.  The root and the inner nodes lead to the leaf *)
(* of each point, blocks are sorted, and the separators of a leaf lie      *)
(* between the keys of its blocks, which is what SearchLeaf depends on.    *)
AtHome(lf) ==
  \A i, b, s : IsPoint(lf, i, b, s) => home[lf[i].blocks[b + 1][s]] = i

InBlockOrder(lf) ==
  \A i, b, s, t : IsPoint(lf, i, b, s) /\ IsPoint(lf, i, b, t) /\ s <= t
                    => lf[i].blocks[b + 1][s] <= lf[i].blocks[b + 1][t]

SeparatorsRising(lf) ==
  \A i \in 1..Leaves : \A c, d \in 1..NumIn(lf, i) - 1 :
    /\ lf[i].slotkeys[c] \in Nat
    /\ c <= d => lf[i].slotkeys[c] <= lf[i].slotkeys[d]

SeparatorsBetween(lf) ==
  \A i, b, s : IsPoint(lf, i, b, s) =>
    \A c \in 1..NumIn(lf, i) - 1 :
      IF b < c THEN lf[i].blocks[b + 1][s] < lf[i].slotkeys[c]
      ELSE lf[i].slotkeys[c] <= lf[i].blocks[b + 1][s]

Ordered(lf) ==
  AtHome(lf) /\ InBlockOrder(lf) /\ SeparatorsRising(lf) /\ SeparatorsBetween(lf)

OrderInv == HomesRise /\ Ordered(leaf)

LEMMA DealtIsOrdered ==
  ASSUME NEW points, NEW at, NEW lf, DealtChain(lf, points, at), NoKeyInTwo
  PROVE  Ordered(lf)
<1>1. Dealing(points, at) /\ Given(points)
  BY DEF DealtChain, Dealing
<1>2. AtHome(lf)
  <2> SUFFICES ASSUME NEW i, NEW b, NEW s, IsPoint(lf, i, b, s)
               PROVE  home[lf[i].blocks[b + 1][s]] = i
    BY DEF AtHome
  <2>1. PICK j : DealtAs(lf, points, at, i, b, s, j)
    BY DealtPoint
  <2>2. j \in Here(points, i) /\ lf[i].blocks[b + 1][s] = points[j]
    BY <2>1 DEF DealtAs
  <2> QED  BY <1>1, <2>2, HereIs
<1>3. InBlockOrder(lf)
  <2> SUFFICES ASSUME NEW i, NEW b, NEW s, NEW t,
                      IsPoint(lf, i, b, s), IsPoint(lf, i, b, t), s <= t
               PROVE  lf[i].blocks[b + 1][s] <= lf[i].blocks[b + 1][t]
    BY DEF InBlockOrder
  <2> DEFINE I == Inside(points, at, i, b + 1)
  <2>1. PICK j : DealtAs(lf, points, at, i, b, s, j)
    BY DealtPoint
  <2>2. PICK m : DealtAs(lf, points, at, i, b, t, m)
    BY DealtPoint
  <2>3. /\ j \in Here(points, i) /\ lf[i].blocks[b + 1][s] = points[j]
        /\ m \in Here(points, i) /\ lf[i].blocks[b + 1][t] = points[m]
        /\ j = Min(I) + s - 1 /\ m = Min(I) + t - 1
        /\ s \in 1..Cardinality(I) /\ t \in 1..Cardinality(I)
    BY <2>1, <2>2 DEF DealtAs
  <2>4. j <= m
    <3>1. Min(I) + s - 1 <= Min(I) + t - 1
      BY <1>1, <2>3, InsideBlock DEF InsideIs
    <3> QED  BY <2>3, <3>1
  <2>5. j \in 1..Len(points) /\ m \in 1..Len(points)
    BY <1>1, <2>3, HereIs
  <2>6. points[j] <= points[m]
    BY <1>1, <2>4, <2>5 DEF Given
  <2> QED  BY <2>3, <2>6
<1>4. ASSUME NEW i \in 1..Leaves
      PROVE  /\ NumIn(lf, i) = Blocks(points, at, i)
             /\ \A c \in 1..Blocks(points, at, i) - 1 :
                  lf[i].slotkeys[c] = Separator(points, at, i, c)
  <2>1. LeafDealt(lf, points, at, i)
    BY DealtLeaf
  <2> QED  BY <2>1 DEF LeafDealt
<1>5. SeparatorsRising(lf)
  <2> SUFFICES ASSUME NEW i \in 1..Leaves, NEW c \in 1..NumIn(lf, i) - 1,
                      NEW d \in 1..NumIn(lf, i) - 1
               PROVE  /\ lf[i].slotkeys[c] \in Nat
                      /\ c <= d => lf[i].slotkeys[c] <= lf[i].slotkeys[d]
    BY DEF SeparatorsRising
  <2>1. c \in 1..Blocks(points, at, i) - 1 /\ d \in 1..Blocks(points, at, i) - 1
    BY <1>4
  <2>2. /\ lf[i].slotkeys[c] = Separator(points, at, i, c)
        /\ lf[i].slotkeys[d] = Separator(points, at, i, d)
    BY <1>4, <2>1
  <2>3. Separator(points, at, i, c) \in Nat
    BY <1>1, <2>1, SeparatorIsNumber
  <2>4. c <= d => Separator(points, at, i, c) <= Separator(points, at, i, d)
    BY <1>1, <2>1, SeparatorsRise
  <2> QED  BY <2>2, <2>3, <2>4
<1>6. SeparatorsBetween(lf)
  <2> SUFFICES ASSUME NEW i, NEW b, NEW s, IsPoint(lf, i, b, s), NEW c \in 1..NumIn(lf, i) - 1
               PROVE  IF b < c THEN lf[i].blocks[b + 1][s] < lf[i].slotkeys[c]
                      ELSE lf[i].slotkeys[c] <= lf[i].blocks[b + 1][s]
    BY DEF SeparatorsBetween
  <2>1. PICK j : DealtAs(lf, points, at, i, b, s, j)
    BY DealtPoint
  <2>2. j \in Here(points, i) /\ at[j] = b + 1 /\ lf[i].blocks[b + 1][s] = points[j]
    BY <2>1 DEF DealtAs
  <2>3. i \in 1..Leaves /\ b \in 0..NumIn(lf, i) - 1
    BY DEF IsPoint
  <2>4. NumIn(lf, i) = Blocks(points, at, i) /\ Blocks(points, at, i) \in Nat
    BY <1>1, <1>4, <2>3, BlocksAre
  <2>5. c \in 1..Blocks(points, at, i) - 1 /\ (b < c <=> b + 1 <= c)
    BY <2>3, <2>4
  <2>6. lf[i].slotkeys[c] = Separator(points, at, i, c)
    BY <1>4, <2>3, <2>5
  <2>7. IF at[j] <= c THEN points[j] < Separator(points, at, i, c)
        ELSE Separator(points, at, i, c) <= points[j]
    BY <1>1, <2>2, <2>5, SeparatorsLie
  <2> QED  BY <2>2, <2>5, <2>6, <2>7
<1> QED  BY <1>2, <1>3, <1>5, <1>6 DEF Ordered

(* A point that is left was one before.                                    *)
LEMMA CutFrom ==
  ASSUME NEW lf, Shaped(lf), NEW i, NEW b, NEW s, IsPoint(lf, i, b, s),
         NEW cut, HasCut(lf, cut, i, b, s), NEW j, NEW c, NEW t, IsPoint(cut, j, c, t)
  PROVE  LET u == IF j = i /\ c = b /\ t >= s THEN t + 1 ELSE t
         IN IsPoint(lf, j, c, u) /\ cut[j].blocks[c + 1][t] = lf[j].blocks[c + 1][u]
<1>1. /\ i \in 1..Leaves /\ b \in 0..NumIn(lf, i) - 1 /\ s \in 1..SizeIn(lf, i, b)
      /\ j \in 1..Leaves /\ c \in 0..NumIn(lf, j) - 1 /\ t \in 1..SizeIn(cut, j, c)
  BY DEF IsPoint, HasCut
<1>2. SizeIn(cut, j, c) = IF j = i /\ c = b THEN SizeIn(lf, j, c) - 1 ELSE SizeIn(lf, j, c)
  BY <1>1, CutSizes
<1>3. c \in Nat /\ b \in Nat
  BY <1>1, LeafJoins
<1>4. CASE ~ (j = i /\ c = b)
  <2>1. cut[j].blocks[c + 1] = lf[j].blocks[c + 1]
    BY <1>1, <1>3, <1>4 DEF HasCut
  <2> QED  BY <1>1, <1>2, <1>4, <2>1 DEF IsPoint
<1>5. CASE j = i /\ c = b
  <2> DEFINE D == lf[i].blocks[b + 1]
  <2>1. D \in Seq(Key) /\ SizeIn(lf, i, b) = Len(D)
    <3>1. b + 1 \in 1..NumIn(lf, i) /\ b < NumIn(lf, i) /\ NumIn(lf, i) = Len(lf[i].blocks)
      BY <1>1, <1>3, LeafJoins
    <3>2. lf[i].blocks \in Seq(Seq(Key))
      BY <1>1 DEF Shaped
    <3>3. SizeIn(lf, i, b) = Len(D)
      BY <3>1 DEF SizeIn
    <3> QED  BY <3>1, <3>2, <3>3
  <2>2. cut[j].blocks[c + 1] = WithoutAt(D, s)
    BY <1>5 DEF HasCut
  <2> HIDE DEF D
  <2>3. t \in 1..Len(D) - 1 /\ s \in 1..Len(D) /\ Len(D) \in Nat
    BY <1>1, <1>2, <1>5, <2>1
  <2>4. WithoutAt(D, s)[t] = IF t < s THEN D[t] ELSE D[t + 1]
    BY <2>1, <2>3, CutOut
  <2>5. IsPoint(lf, i, b, t) /\ IsPoint(lf, i, b, t + 1)
    BY <1>1, <2>1, <2>3 DEF IsPoint
  <2>6. t < s <=> ~ (t >= s)
    BY <2>3
  <2> QED  BY <1>5, <2>2, <2>4, <2>5, <2>6 DEF D
<1> QED  BY <1>4, <1>5

LEMMA CutIsOrdered ==
  ASSUME NEW lf, Shaped(lf), Ordered(lf), NEW i, NEW b, NEW s, IsPoint(lf, i, b, s),
         NEW cut, HasCut(lf, cut, i, b, s)
  PROVE  Ordered(cut)
<1> DEFINE U(j, c, t) == IF j = i /\ c = b /\ t >= s THEN t + 1 ELSE t
<1>1. \A j, c, t : IsPoint(cut, j, c, t) =>
        IsPoint(lf, j, c, U(j, c, t)) /\ cut[j].blocks[c + 1][t] = lf[j].blocks[c + 1][U(j, c, t)]
  BY CutFrom
<1>2. \A j, c, t, v : IsPoint(cut, j, c, t) /\ IsPoint(cut, j, c, v) /\ t <= v
                        => U(j, c, t) <= U(j, c, v)
  <2> SUFFICES ASSUME NEW j, NEW c, NEW t, NEW v,
                      IsPoint(cut, j, c, t), IsPoint(cut, j, c, v), t <= v
               PROVE  U(j, c, t) <= U(j, c, v)
    OBVIOUS
  <2>1. t \in Int /\ v \in Int /\ s \in Int
    BY DEF IsPoint
  <2> QED  BY <2>1
<1> HIDE DEF U
<1>3. /\ \A j : NumIn(cut, j) = NumIn(lf, j)
      /\ \A j \in 1..Leaves : cut[j].slotkeys = lf[j].slotkeys
      /\ \A j, c, t : IsPoint(cut, j, c, t) => j \in 1..Leaves
  BY DEF HasCut, IsPoint
<1>4. AtHome(cut)
  BY <1>1 DEF AtHome, Ordered
<1>5. InBlockOrder(cut)
  <2> SUFFICES ASSUME NEW j, NEW c, NEW t, NEW v,
                      IsPoint(cut, j, c, t), IsPoint(cut, j, c, v), t <= v
               PROVE  cut[j].blocks[c + 1][t] <= cut[j].blocks[c + 1][v]
    BY DEF InBlockOrder
  <2>1. /\ IsPoint(lf, j, c, U(j, c, t)) /\ cut[j].blocks[c + 1][t] = lf[j].blocks[c + 1][U(j, c, t)]
        /\ IsPoint(lf, j, c, U(j, c, v)) /\ cut[j].blocks[c + 1][v] = lf[j].blocks[c + 1][U(j, c, v)]
        /\ U(j, c, t) <= U(j, c, v)
    BY <1>1, <1>2
  <2>2. lf[j].blocks[c + 1][U(j, c, t)] <= lf[j].blocks[c + 1][U(j, c, v)]
    BY <2>1 DEF Ordered, InBlockOrder
  <2> QED  BY <2>1, <2>2
<1>6. SeparatorsRising(cut)
  BY <1>3 DEF SeparatorsRising, Ordered
<1>7. SeparatorsBetween(cut)
  <2> SUFFICES ASSUME NEW j, NEW c, NEW t, IsPoint(cut, j, c, t),
                      NEW d \in 1..NumIn(cut, j) - 1
               PROVE  IF c < d THEN cut[j].blocks[c + 1][t] < cut[j].slotkeys[d]
                      ELSE cut[j].slotkeys[d] <= cut[j].blocks[c + 1][t]
    BY DEF SeparatorsBetween
  <2>1. /\ IsPoint(lf, j, c, U(j, c, t)) /\ cut[j].blocks[c + 1][t] = lf[j].blocks[c + 1][U(j, c, t)]
        /\ d \in 1..NumIn(lf, j) - 1 /\ cut[j].slotkeys = lf[j].slotkeys
    BY <1>1, <1>3
  <2>2. IF c < d THEN lf[j].blocks[c + 1][U(j, c, t)] < lf[j].slotkeys[d]
        ELSE lf[j].slotkeys[d] <= lf[j].blocks[c + 1][U(j, c, t)]
    BY <2>1 DEF Ordered, SeparatorsBetween
  <2> QED  BY <2>1, <2>2
<1> QED  BY <1>4, <1>5, <1>6, <1>7 DEF Ordered

LEMMA PointIsKey ==
  ASSUME NEW lf, Shaped(lf), NEW i, NEW b, NEW s, IsPoint(lf, i, b, s)
  PROVE  lf[i].blocks[b + 1][s] \in Key /\ lf[i].blocks[b + 1][s] \in Nat
<1>1. /\ Before(lf, i, b) + s \in 1..Len(PointsIn(lf))
      /\ PointsIn(lf)[Before(lf, i, b) + s] = lf[i].blocks[b + 1][s]
  BY PointAt
<1>2. PointsIn(lf) \in Seq(Key)
  BY MapJoins
<1> DEFINE p == Before(lf, i, b) + s
<1>3. p \in 1..Len(PointsIn(lf)) /\ PointsIn(lf)[p] = lf[i].blocks[b + 1][s]
  BY <1>1
<1> HIDE DEF p
<1>4. PointsIn(lf)[p] \in Key
  BY <1>2, <1>3
<1> QED  BY <1>3, <1>4, KeyAssumption

LEMMA SearchInLeaf ==
  ASSUME Shaped(leaf), NEW i \in 1..Leaves, NEW k, NumIn(leaf, i) # 0
  PROVE  Search(i, k) \in 0..NumIn(leaf, i) - 1
<1>1. NumIn(leaf, i) \in Nat /\ Num(i) = NumIn(leaf, i)
  BY LeafJoins, NumIs
<1>2. NumIn(leaf, i) - 1 \in Nat
  BY <1>1
<1> DEFINE T == {c \in 1..NumIn(leaf, i) - 1 : leaf[i].slotkeys[c] <= k}
<1>3. T \subseteq 1..NumIn(leaf, i) - 1
  OBVIOUS
<1>4. Search(i, k) = Cardinality(T)
  BY <1>1 DEF Search
<1> HIDE DEF T
<1> QED  BY <1>2, <1>3, <1>4, SubsetCounts

(* Search comes to the last block that is not behind the key.              *)
LEMMA SearchIs ==
  ASSUME Shaped(leaf), Ordered(leaf), NEW i \in 1..Leaves, NEW k \in Key
  PROVE  \A c \in 1..NumIn(leaf, i) - 1 :
           leaf[i].slotkeys[c] \in Nat /\ (leaf[i].slotkeys[c] <= k <=> c <= Search(i, k))
<1> DEFINE n == NumIn(leaf, i) - 1
           T == {c \in 1..n : leaf[i].slotkeys[c] <= k}
<1>1. NumIn(leaf, i) \in Nat /\ Num(i) = NumIn(leaf, i)
  BY LeafJoins, NumIs
<1>2. Search(i, k) = Cardinality(T)
  BY <1>1 DEF Search
<1>3. \A c, d \in 1..n : leaf[i].slotkeys[c] \in Nat /\ leaf[i].slotkeys[d] \in Nat
                         /\ (c <= d => leaf[i].slotkeys[c] <= leaf[i].slotkeys[d])
  BY DEF Ordered, SeparatorsRising
<1>4. k \in Nat /\ n \in Int
  BY <1>1, KeyAssumption
<1> HIDE DEF n
<1>5. T \subseteq 1..n /\ \A c \in T : \A d \in 1..n : d < c => d \in T
  <2> SUFFICES ASSUME NEW c \in T, NEW d \in 1..n, d < c PROVE leaf[i].slotkeys[d] <= k
    OBVIOUS
  <2>1. c \in 1..n /\ leaf[i].slotkeys[c] <= k /\ d <= c
    BY <1>4
  <2>2. /\ leaf[i].slotkeys[c] \in Nat /\ leaf[i].slotkeys[d] \in Nat
        /\ leaf[i].slotkeys[d] <= leaf[i].slotkeys[c]
    BY <1>3, <2>1
  <2> QED  BY <1>4, <2>1, <2>2
<1>6. \A c \in 1..n : c \in T <=> leaf[i].slotkeys[c] <= k
  OBVIOUS
<1> HIDE DEF T
<1>7. CASE n \in Nat
  <2>1. \A c \in 1..n : c \in T <=> c <= Cardinality(T)
    BY <1>5, <1>7, FirstOnes
  <2> QED  BY <1>2, <1>3, <1>6, <2>1 DEF n
<1>8. CASE n \notin Nat
  <2>1. 1..n = {}
    BY <1>4, <1>8
  <2> QED  BY <2>1 DEF n
<1> QED  BY <1>7, <1>8

LEMMA SearchDataBlockIs ==
  ASSUME Shaped(leaf), Ordered(leaf), NEW k \in Key, NEW i, NEW b, IsPlace(leaf, i, b),
         i \in 1..Leaves
  PROVE  \A s \in 1..SizeIn(leaf, i, b) :
           leaf[i].blocks[b + 1][s] < k <=> s <= SearchDataBlock(i, b, k)
<1> DEFINE n == SizeIn(leaf, i, b)
           T == {s \in 1..n : leaf[i].blocks[b + 1][s] < k}
<1>1. n \in Nat /\ b \in Nat /\ NumIn(leaf, i) \in Nat
  BY PlaceIs, SizesAssumption
<1>2. GetBlockSize(i, b) = n
  BY <1>1, SizeIs
<1>3. SearchDataBlock(i, b, k) = Cardinality(T)
  BY <1>2 DEF SearchDataBlock
<1>4. \A s \in 1..n : IsPoint(leaf, i, b, s)
  <2> TAKE s \in 1..n
  <2>1. b < NumIn(leaf, i)
    BY <1>1 DEF SizeIn
  <2> QED  BY <1>1, <2>1 DEF IsPoint
<1>5. \A s \in 1..n : leaf[i].blocks[b + 1][s] \in Nat
  BY <1>4, PointIsKey
<1>6. k \in Nat
  BY KeyAssumption
<1> HIDE DEF n
<1>7. T \subseteq 1..n /\ \A s \in T : \A t \in 1..n : t < s => t \in T
  <2> SUFFICES ASSUME NEW s \in T, NEW t \in 1..n, t < s
               PROVE  leaf[i].blocks[b + 1][t] < k
    OBVIOUS
  <2>1. s \in 1..n /\ leaf[i].blocks[b + 1][s] < k /\ t <= s
    BY <1>1
  <2>2. IsPoint(leaf, i, b, s) /\ IsPoint(leaf, i, b, t)
    BY <1>4, <2>1
  <2>3. leaf[i].blocks[b + 1][t] <= leaf[i].blocks[b + 1][s]
    BY <2>1, <2>2 DEF Ordered, InBlockOrder
  <2>4. leaf[i].blocks[b + 1][t] \in Nat /\ leaf[i].blocks[b + 1][s] \in Nat
    BY <1>5, <2>1
  <2> QED  BY <1>6, <2>1, <2>3, <2>4
<1>8. \A s \in 1..n : s \in T <=> leaf[i].blocks[b + 1][s] < k
  OBVIOUS
<1> HIDE DEF T
<1>9. \A s \in 1..n : s \in T <=> s <= Cardinality(T)
  BY <1>1, <1>7, FirstOnes
<1> QED  BY <1>3, <1>8, <1>9 DEF n

(* The place that CARMI::Find comes to has exactly the points of less keys *)
(* before it.                                                              *)
LEMMA PositionSplits ==
  ASSUME MapInv, OrderInv, NEW k \in Key, NEW j \in 1..Len(PointsIn(leaf))
  PROVE  PointsIn(leaf)[j] < k <=> j <= PlaceOf(Position(k))
<1> DEFINE x == Position(k)
           h == home[k]
           c == Search(h, k)
           u == SearchDataBlock(h, c, k)
           v == PointsIn(leaf)[j]
           g == Before(leaf, h, c)
<1>1. Placed(x) /\ x.node = h /\ x.block = c /\ x.slot = u
  BY PositionIs
<1>2. Shaped(leaf) /\ Ordered(leaf) /\ HomesRise
  BY DEF MapInv, OrderInv
<1> HIDE DEF x, u
<1>3. /\ h \in 1..Leaves /\ c \in Nat /\ u \in Nat /\ u <= SizeIn(leaf, h, c)
      /\ SizeIn(leaf, h, c) \in Nat /\ g \in Nat /\ IsPlace(leaf, h, c) /\ PlaceOf(x) = g + u
  <2>1. PlaceOf(x) = g + u
    BY <1>1 DEF PlaceOf
  <2>2. /\ x.node \in 1..Leaves /\ x.block \in Nat /\ x.slot \in Nat
        /\ x.slot <= SizeIn(leaf, x.node, x.block) /\ SizeIn(leaf, x.node, x.block) \in 0..Cap
        /\ Before(leaf, x.node, x.block) \in Nat /\ IsPlace(leaf, x.node, x.block)
    BY <1>1, <1>2, PlacedIs
  <2> HIDE DEF h, c
  <2>3. SizeIn(leaf, h, c) \in 0..Cap
    BY <1>1, <2>2
  <2>4. SizeIn(leaf, h, c) \in Nat
    BY <2>3, SizesAssumption
  <2> QED  BY <1>1, <2>1, <2>2, <2>4 DEF g
<1>4. PICK i, b, s : IsPoint(leaf, i, b, s) /\ j = Before(leaf, i, b) + s
  BY <1>2, PointFrom
<1>5. /\ i \in 1..Leaves /\ b \in 0..NumIn(leaf, i) - 1 /\ s \in 1..SizeIn(leaf, i, b)
      /\ v = leaf[i].blocks[b + 1][s] /\ IsPlace(leaf, i, b) /\ s \in Nat
  BY <1>2, <1>4, PointAt DEF IsPoint
<1>6. v \in Key /\ v \in Nat /\ k \in Nat /\ home[v] = i
  <2>1. home[v] = i
    BY <1>2, <1>4, <1>5 DEF Ordered, AtHome
  <2> QED  BY <1>2, <1>4, <1>5, <2>1, PointIsKey, KeyAssumption
<1>7. b \in Nat /\ Before(leaf, i, b) \in Nat /\ i \in Nat /\ h \in Nat
  BY <1>2, <1>3, <1>5, PlaceIs
<1> HIDE DEF v, g
<1>8. Precedes(<<i, b>>, <<h, c>>) => j <= g
  BY <1>2, <1>3, <1>4, PointsApart DEF g
<1>9. Precedes(<<h, c>>, <<i, b>>) => g + SizeIn(leaf, h, c) <= Before(leaf, i, b)
  BY <1>2, <1>3, <1>5, Rises DEF g
<1>10. CASE i < h
  <2>1. Precedes(<<i, b>>, <<h, c>>)
    BY <1>10, PrecedesIs
  <2>2. v < k
    <3>1. k < v => home[k] <= home[v]
      BY <1>2, <1>6 DEF HomesRise
    <3>2. ~ (k < v) /\ k # v
      BY <1>6, <1>7, <1>10, <3>1
    <3> HIDE DEF h, c
    <3> QED  BY <1>6, <3>2
  <2>3. j <= g + u
    BY <1>3, <1>8, <2>1
  <2> QED  BY <1>3, <2>2, <2>3 DEF v, x
<1>11. CASE h < i
  <2>1. Precedes(<<h, c>>, <<i, b>>)
    BY <1>11, PrecedesIs
  <2>2. ~ (v < k)
    <3>1. v < k => home[v] <= home[k]
      BY <1>2, <1>6 DEF HomesRise
    <3> QED  BY <1>6, <1>7, <1>11, <3>1
  <2> HIDE DEF h, c
  <2>3. ~ (j <= g + u)
    BY <1>3, <1>4, <1>5, <1>7, <1>9, <2>1
  <2> QED  BY <1>3, <2>2, <2>3 DEF v, x
<1>12. CASE i = h
  <2>1. \A d \in 1..NumIn(leaf, i) - 1 :
          /\ leaf[i].slotkeys[d] \in Nat /\ (leaf[i].slotkeys[d] <= k <=> d <= c)
          /\ IF b < d THEN v < leaf[i].slotkeys[d] ELSE leaf[i].slotkeys[d] <= v
    <3> TAKE d \in 1..NumIn(leaf, i) - 1
    <3>1. leaf[i].slotkeys[d] \in Nat /\ (leaf[i].slotkeys[d] <= k <=> d <= c)
      BY <1>2, <1>5, <1>12, SearchIs
    <3>2. IF b < d THEN v < leaf[i].slotkeys[d] ELSE leaf[i].slotkeys[d] <= v
      BY <1>2, <1>4, <1>5 DEF Ordered, SeparatorsBetween
    <3> QED  BY <3>1, <3>2
  <2>2. \A s1 \in 1..SizeIn(leaf, h, c) : leaf[h].blocks[c + 1][s1] < k <=> s1 <= u
    BY <1>2, <1>3, SearchDataBlockIs DEF u
  <2>3. NumIn(leaf, i) \in Nat /\ c \in 0..NumIn(leaf, i)
    BY <1>2, <1>3, <1>5, <1>12, PlaceIs DEF IsPlace
  <2> HIDE DEF c, h
  <2>4. c <= NumIn(leaf, i) - 1
    <3>1. NumIn(leaf, i) # 0
      BY <1>5, <2>3
    <3>2. c \in 0..NumIn(leaf, i) - 1
      BY <1>2, <1>5, <1>12, <3>1, SearchInLeaf DEF c, h
    <3> QED  BY <2>3, <3>2
  <2>5. CASE b < c
    <3>1. Precedes(<<i, b>>, <<h, c>>)
      BY <1>12, <2>5, PrecedesIs
    <3>2. c \in 1..NumIn(leaf, i) - 1
      BY <1>3, <1>7, <2>3, <2>4, <2>5
    <3>3. v < leaf[i].slotkeys[c] /\ leaf[i].slotkeys[c] <= k /\ leaf[i].slotkeys[c] \in Nat
      BY <1>3, <2>1, <2>5, <3>2
    <3>4. v < k
      BY <1>6, <3>3
    <3>5. j <= g + u
      BY <1>3, <1>8, <3>1
    <3> QED  BY <1>3, <3>4, <3>5 DEF v, x
  <2>6. CASE c < b
    <3>1. Precedes(<<h, c>>, <<i, b>>)
      BY <1>12, <2>6, PrecedesIs
    <3>2. c + 1 \in 1..NumIn(leaf, i) - 1 /\ ~ (c + 1 <= c) /\ ~ (b < c + 1)
      BY <1>3, <1>5, <1>7, <2>3, <2>6
    <3>3. leaf[i].slotkeys[c + 1] <= v /\ ~ (leaf[i].slotkeys[c + 1] <= k)
          /\ leaf[i].slotkeys[c + 1] \in Nat
      BY <2>1, <3>2
    <3>4. ~ (v < k)
      BY <1>6, <3>3
    <3>5. ~ (j <= g + u)
      BY <1>3, <1>4, <1>5, <1>7, <1>9, <3>1
    <3> QED  BY <1>3, <3>4, <3>5 DEF v, x
  <2>7. CASE b = c
    <3>1. j = g + s
      BY <1>4, <1>12, <2>7 DEF g
    <3>2. v < k <=> s <= u
      BY <1>5, <1>12, <2>2, <2>7
    <3>3. j <= g + u <=> s <= u
      BY <1>3, <1>5, <3>1
    <3> QED  BY <1>3, <3>2, <3>3 DEF v, x
  <2> QED  BY <1>3, <1>7, <2>5, <2>6, <2>7
<1> QED  BY <1>7, <1>10, <1>11, <1>12

(* All points of the key are in the block that it leads to.                *)
LEMMA PositionInBlock ==
  ASSUME MapInv, OrderInv, NEW k \in Key, NEW j \in 1..Len(PointsIn(leaf)),
         PointsIn(leaf)[j] = k
  PROVE  j <= Before(leaf, Position(k).node, Position(k).block)
                + SizeIn(leaf, Position(k).node, Position(k).block)
<1> DEFINE h == home[k]
           c == Search(h, k)
           g == Before(leaf, h, c)
           z == SizeIn(leaf, h, c)
<1>1. Placed(Position(k)) /\ Position(k).node = h /\ Position(k).block = c
  BY PositionIs
<1>2. Shaped(leaf) /\ Ordered(leaf) /\ HomesRise
  BY DEF MapInv, OrderInv
<1>3. h \in 1..Leaves /\ c \in Nat /\ z \in Nat /\ g \in Nat /\ IsPlace(leaf, h, c)
  BY <1>1, <1>2, PlacedIs, SizesAssumption
<1>4. PICK i, b, s : IsPoint(leaf, i, b, s) /\ j = Before(leaf, i, b) + s
  BY <1>2, PointFrom
<1>5. /\ i \in 1..Leaves /\ b \in 0..NumIn(leaf, i) - 1 /\ s \in 1..SizeIn(leaf, i, b)
      /\ k = leaf[i].blocks[b + 1][s] /\ IsPlace(leaf, i, b) /\ s \in Nat
  BY <1>2, <1>4, PointAt DEF IsPoint
<1>6. k \in Nat /\ i = h
  BY <1>2, <1>4, <1>5, KeyAssumption DEF Ordered, AtHome
<1>7. b \in Nat /\ NumIn(leaf, i) \in Nat /\ Before(leaf, i, b) \in Nat
  BY <1>2, <1>5, PlaceIs
<1>8. Precedes(<<i, b>>, <<h, c>>) => j <= g
  BY <1>2, <1>3, <1>4, PointsApart
<1>9. ASSUME c < b
      PROVE  FALSE
  <2> HIDE DEF c
  <2>1. c + 1 \in 1..NumIn(leaf, i) - 1 /\ ~ (c + 1 <= c) /\ ~ (b < c + 1)
    BY <1>3, <1>5, <1>7, <1>9
  <2>2. leaf[i].slotkeys[c + 1] <= k
    BY <1>2, <1>4, <1>5, <2>1 DEF Ordered, SeparatorsBetween
  <2>3. leaf[i].slotkeys[c + 1] <= k <=> c + 1 <= c
    BY <1>2, <1>5, <1>6, <2>1, SearchIs DEF c
  <2> QED  BY <2>1, <2>2, <2>3
<1> HIDE DEF g, z, c, h
<1>10. CASE b < c
  <2>1. Precedes(<<i, b>>, <<h, c>>)
    BY <1>6, <1>10, PrecedesIs
  <2>2. j <= g + z
    BY <1>3, <1>8, <2>1
  <2> QED  BY <1>1, <2>2 DEF g, z
<1>11. CASE b = c
  <2>1. j <= g + z
    BY <1>3, <1>4, <1>5, <1>6, <1>11 DEF g, z
  <2> QED  BY <1>1, <2>1 DEF g, z
<1> QED  BY <1>3, <1>7, <1>9, <1>10, <1>11

(* The points are sorted.                                                  *)
LEMMA PointsRise ==
  ASSUME MapInv, OrderInv
  PROVE  /\ PointsIn(leaf) \in Seq(Key) /\ Len(PointsIn(leaf)) \in Nat
         /\ \A j \in 1..Len(PointsIn(leaf)) : PointsIn(leaf)[j] \in Key /\ PointsIn(leaf)[j] \in Int
         /\ \A i, j \in 1..Len(PointsIn(leaf)) :
              i <= j => PointsIn(leaf)[i] <= PointsIn(leaf)[j]
<1> DEFINE P == PointsIn(leaf)
           N == Len(P)
<1>1. P \in Seq(Key)
  BY MapJoins DEF MapInv
<1>2. N \in Nat /\ \A j \in 1..N : P[j] \in Key
  BY <1>1
<1>3. \A j \in 1..N : P[j] \in Nat
  BY <1>2, KeyAssumption
<1>4. ASSUME NEW i \in 1..N, NEW j \in 1..N, i <= j, P[j] < P[i]
      PROVE  FALSE
  <2> DEFINE p == PlaceOf(Position(P[i]))
  <2>1. P[i] \in Key
    BY <1>2
  <2>2. (P[j] < P[i] <=> j <= p) /\ (P[i] < P[i] <=> i <= p)
    BY <2>1, PositionSplits
  <2>3. p \in Nat
    <3>1. Placed(Position(P[i])) /\ Shaped(leaf)
      BY <2>1, PositionIs DEF MapInv
    <3> QED  BY <3>1, PlacedIs
  <2> HIDE DEF p, N, P
  <2>4. i <= p
    BY <1>2, <1>4, <2>2, <2>3
  <2>5. P[i] \in Nat
    BY <1>3
  <2> QED  BY <2>2, <2>4, <2>5
<1>5. \A i, j \in 1..N : i <= j => P[i] <= P[j]
  <2> TAKE i, j \in 1..N
  <2>1. P[i] \in Nat /\ P[j] \in Nat
    BY <1>3
  <2> HIDE DEF P, N
  <2> QED  BY <1>4, <2>1
<1> QED  BY <1>1, <1>2, <1>3, <1>5

Less(k) == HowManyLess(PointsIn(leaf), Len(PointsIn(leaf)), k)
Equal(k) == HowMany(PointsIn(leaf), Len(PointsIn(leaf)), k)

(* How the points of a key lie among the others, and where Find comes to.  *)
LEMMA PositionAmong ==
  ASSUME MapInv, OrderInv, NEW k \in Key
  PROVE  /\ Less(k) \in Nat /\ Equal(k) \in Nat /\ Len(PointsIn(leaf)) \in Nat
         /\ Less(k) + Equal(k) <= Len(PointsIn(leaf))
         /\ PlaceOf(Position(k)) = Less(k)
         /\ \A j \in 1..Len(PointsIn(leaf)) :
              PointsIn(leaf)[j] = k <=> Less(k) < j /\ j <= Less(k) + Equal(k)
<1> DEFINE P == PointsIn(leaf)
           N == Len(P)
           p == PlaceOf(Position(k))
<1>1. /\ N \in Nat /\ \A j \in 1..N : P[j] \in Int
      /\ \A i, j \in 1..N : i <= j => P[i] <= P[j]
  BY PointsRise
<1>2. k \in Int
  BY KeyAssumption
<1>3. \A j \in 1..N : P[j] < k <=> j <= p
  BY PositionSplits
<1>4. p \in 0..N
  <2>1. Placed(Position(k)) /\ Shaped(leaf)
    BY PositionIs DEF MapInv
  <2> QED  BY <2>1, PlacedIs
<1> HIDE DEF P, N, p
<1>5. /\ HowManyLess(P, N, k) \in Nat /\ HowMany(P, N, k) \in Nat
      /\ HowManyLess(P, N, k) + HowMany(P, N, k) <= N
      /\ \A i \in 1..N :
           /\ P[i] < k <=> i <= HowManyLess(P, N, k)
           /\ P[i] = k <=> /\ HowManyLess(P, N, k) < i
                           /\ i <= HowManyLess(P, N, k) + HowMany(P, N, k)
  BY <1>1, <1>2, LessThenEqual
<1>6. Less(k) = HowManyLess(P, N, k) /\ Equal(k) = HowMany(P, N, k)
  BY DEF Less, Equal, P, N
<1> DEFINE l == Less(k)
<1>7. p = l
  <2>1. l \in 0..N /\ \A i \in 1..N : i <= l <=> i <= p
    BY <1>1, <1>3, <1>5, <1>6
  <2> HIDE DEF l
  <2>2. CASE p < l
    <3>1. p + 1 \in 1..N /\ p + 1 <= l /\ ~ (p + 1 <= p)
      BY <1>1, <1>4, <2>1, <2>2
    <3> QED  BY <2>1, <3>1
  <2>3. CASE l < p
    <3>1. l + 1 \in 1..N /\ l + 1 <= p /\ ~ (l + 1 <= l)
      BY <1>1, <1>4, <2>1, <2>3
    <3> QED  BY <2>1, <3>1
  <2> QED  BY <1>1, <1>4, <2>1, <2>2, <2>3
<1> QED  BY <1>1, <1>5, <1>6, <1>7 DEF P, N, p

----------------------------------------------------------------------------
(* Where the lookups come to.                                              *)
LEMMA EndIs ==
  ASSUME MapInv
  PROVE  /\ Placed(End("iterator")) /\ End("iterator").class = "iterator"
         /\ PlaceOf(End("iterator")) = Len(PointsIn(leaf))
         /\ ~ AtPoint(End("iterator"))
         /\ \A x : x.class = "iterator" => EndOf(x) = End("iterator")
<1>1. "iterator" \in Forward
  BY DEF Forward
<1>2. \A x : x.class = "iterator" => EndOf(x) = End("iterator")
  BY <1>1 DEF EndOf
<1> DEFINE x == At("iterator", 0, 0, 0)
<1>3. x.class = "iterator"
  BY AtIs
<1> HIDE DEF x
<1>4. /\ Placed(EndOf(x)) /\ EndOf(x).class = x.class
      /\ PlaceOf(EndOf(x)) = EndPlace(x.class)
      /\ ~ AtPoint(EndOf(x))
  BY <1>1, <1>3, EndOfIs
<1> QED  BY <1>1, <1>2, <1>3, <1>4 DEF EndPlace

(* A forward iterator, and the point that it refers to.                    *)
IsForward(x) == Placed(x) /\ x.class = "iterator"

LEMMA ForwardIs ==
  ASSUME MapInv, NEW x, IsForward(x)
  PROVE  /\ x.slot < SizeAt(x) <=> AtPoint(x)
         /\ PlaceOf(x) \in Nat /\ PlaceOf(x) <= Len(PointsIn(leaf))
         /\ AtPoint(x) => /\ KeyAt(x) = PointsIn(leaf)[PlaceOf(x) + 1]
                          /\ PlaceOf(x) < Len(PointsIn(leaf)) /\ x # End("iterator")
         /\ PlaceUp(x) = IF AtPoint(x) THEN PlaceOf(x) + 1 ELSE PlaceOf(x)
<1>1. x.class \in Forward /\ Shaped(leaf) /\ Placed(x)
  BY DEF Forward, IsForward, MapInv
<1>2. /\ x.slot \in Nat /\ x.slot <= SizeIn(leaf, x.node, x.block)
      /\ SizeIn(leaf, x.node, x.block) \in 0..Cap /\ SizeAt(x) = SizeIn(leaf, x.node, x.block)
      /\ Len(PointsIn(leaf)) \in Nat
      /\ PlaceOf(x) \in 0..Len(PointsIn(leaf))
  BY <1>1, PlacedIs
<1>3. x.slot < SizeAt(x) <=> AtPoint(x)
  BY <1>1, <1>2 DEF AtPoint
<1>4. AtPoint(x) => KeyAt(x) = PointsIn(leaf)[PlaceOf(x) + 1]
                    /\ PlaceOf(x) + 1 \in 1..Len(PointsIn(leaf))
  BY <1>1, KeyAtIs
<1>5. AtPoint(x) => x # End("iterator")
  BY EndIs
<1>6. PlaceUp(x) = IF AtPoint(x) THEN PlaceOf(x) + 1 ELSE PlaceOf(x)
  <2>1. AtPoint(x) <=> ~ (x.slot = SizeIn(leaf, x.node, x.block))
    BY <1>2, <1>3, SizesAssumption
  <2> QED  BY <1>1, <2>1 DEF PlaceUp
<1>7. PlaceOf(x) \in Nat /\ PlaceOf(x) <= Len(PointsIn(leaf))
  BY <1>2
<1>8. PlaceOf(x) + 1 \in 1..Len(PointsIn(leaf)) => PlaceOf(x) < Len(PointsIn(leaf))
  BY <1>2
<1> QED  BY <1>3, <1>4, <1>5, <1>6, <1>7, <1>8

LEMMA PositionIsAt ==
  ASSUME MapInv, OrderInv, NEW k \in Key
  PROVE  IsForward(Position(k)) /\ PlaceOf(Position(k)) = Less(k)
BY PositionIs, PositionAmong DEF IsForward

(* lower_bound.                                                            *)
LEMMA LowerBoundIs ==
  ASSUME MapInv, OrderInv, NEW k \in Key
  PROVE  /\ IsForward(LowerBound(k)) /\ PlaceOf(LowerBound(k)) = Less(k)
         /\ LowerBound(k) = End("iterator") \/ AtPoint(LowerBound(k))
<1> DEFINE x == Position(k)
           y == LowerBound(k)
           N == Len(PointsIn(leaf))
<1>1. IsForward(x) /\ PlaceOf(x) = Less(k)
  BY PositionIsAt
<1>2. y = IF x.slot >= SizeAt(x) THEN Up(x) ELSE x
  BY DEF LowerBound
<1> HIDE DEF x, y
<1>3. x.slot \in Nat /\ SizeAt(x) \in Nat
  <2>1. Placed(x) /\ Shaped(leaf)
    BY <1>1 DEF IsForward, MapInv
  <2>2. x.slot \in Nat /\ SizeIn(leaf, x.node, x.block) \in 0..Cap
        /\ SizeAt(x) = SizeIn(leaf, x.node, x.block)
    BY <2>1, PlacedIs
  <2> QED  BY <2>2, SizesAssumption
<1>4. /\ x.slot < SizeAt(x) <=> AtPoint(x)
      /\ PlaceOf(x) \in Nat /\ PlaceOf(x) <= N
      /\ PlaceUp(x) = IF AtPoint(x) THEN PlaceOf(x) + 1 ELSE PlaceOf(x)
  BY <1>1, ForwardIs
<1>5. CASE AtPoint(x)
  <2>1. y = x
    BY <1>2, <1>3, <1>4, <1>5
  <2> QED  BY <1>1, <1>5, <2>1 DEF y
<1>6. CASE ~ AtPoint(x)
  <2>1. y = Up(x)
    BY <1>2, <1>3, <1>4, <1>6
  <2>2. Leads(x, y, PlaceUp(x))
    BY <1>1, <2>1, UpIs DEF IsForward
  <2>3. x.class = "iterator" /\ "iterator" \in Forward
    BY <1>1 DEF IsForward, Forward
  <2>4. IsForward(y)
    BY <2>2, <2>3 DEF Leads, IsForward
  <2>5. CASE PlaceOf(x) \in 0..N - 1
    <3>1. Refers(x.class, PlaceUp(x))
      BY <1>4, <1>6, <2>3, <2>5 DEF Refers, N
    <3> QED  BY <1>1, <1>4, <1>6, <2>2, <2>4, <3>1 DEF Leads, y
  <2>6. CASE PlaceOf(x) \notin 0..N - 1
    <3>1. ~ Refers(x.class, PlaceUp(x))
      BY <1>4, <1>6, <2>3, <2>6 DEF Refers, N
    <3>2. y = EndOf(x)
      BY <2>2, <3>1 DEF Leads
    <3>3. y = End("iterator") /\ PlaceOf(y) = N
      BY <2>3, <3>2, EndIs DEF N
    <3>4. N \in Nat
      BY PositionAmong DEF N
    <3>5. PlaceOf(x) = N
      BY <1>4, <2>6, <3>4
    <3> QED  BY <1>1, <2>4, <3>3, <3>5 DEF y
  <2> QED  BY <2>5, <2>6
<1> QED  BY <1>5, <1>6

(* find.                                                                   *)
LEMMA FindIs ==
  ASSUME MapInv, OrderInv, NEW k \in Key
  PROVE  /\ IsForward(Find(k))
         /\ PlaceOf(Find(k)) = IF Equal(k) > 0 THEN Less(k) ELSE Len(PointsIn(leaf))
<1> DEFINE x == Position(k)
           P == PointsIn(leaf)
           N == Len(P)
           l == Less(k)
           e == Equal(k)
<1>1. IsForward(x) /\ PlaceOf(x) = l
  BY PositionIsAt
<1>2. /\ l \in Nat /\ e \in Nat /\ N \in Nat /\ l + e <= N
      /\ \A j \in 1..N : P[j] = k <=> l < j /\ j <= l + e
  BY PositionAmong
<1>3. /\ x.slot < SizeAt(x) <=> AtPoint(x)
      /\ AtPoint(x) => KeyAt(x) = P[l + 1] /\ l < N
  BY <1>1, ForwardIs
<1>4. /\ x.slot \in Nat /\ SizeAt(x) \in Nat /\ x.slot <= SizeAt(x)
      /\ SizeAt(x) = SizeIn(leaf, x.node, x.block)
  <2>1. Placed(x) /\ Shaped(leaf)
    BY <1>1 DEF IsForward, MapInv
  <2>2. x.slot \in Nat /\ SizeIn(leaf, x.node, x.block) \in 0..Cap
        /\ x.slot <= SizeIn(leaf, x.node, x.block)
        /\ SizeAt(x) = SizeIn(leaf, x.node, x.block)
    BY <2>1, PlacedIs
  <2> QED  BY <2>2, SizesAssumption
<1>5. Find(k) = IF x.slot >= SizeAt(x) \/ KeyAt(x) # k THEN End("iterator") ELSE x
  BY DEF Find
<1>6. IsForward(End("iterator")) /\ PlaceOf(End("iterator")) = N
  BY EndIs DEF IsForward
<1>7. CASE AtPoint(x)
  <2>1. l + 1 \in 1..N /\ l < l + 1 /\ (l + 1 <= l + e <=> e > 0)
    BY <1>2, <1>3, <1>7
  <2>2. KeyAt(x) = k <=> e > 0
    BY <1>2, <1>3, <1>7, <2>1
  <2>3. ~ (x.slot >= SizeAt(x))
    BY <1>3, <1>4, <1>7
  <2> QED  BY <1>1, <1>5, <1>6, <2>2, <2>3
<1>8. CASE ~ AtPoint(x)
  <2>1. x.slot >= SizeAt(x) /\ x.slot = SizeAt(x)
    BY <1>3, <1>4, <1>8
  <2>2. ~ (e > 0)
    <3> SUFFICES ASSUME e > 0 PROVE FALSE
      OBVIOUS
    <3>1. l + 1 \in 1..N /\ l < l + 1 /\ l + 1 <= l + e
      BY <1>2
    <3>2. P[l + 1] = k
      BY <1>2, <3>1
    <3>3. l + 1 <= Before(leaf, x.node, x.block) + SizeIn(leaf, x.node, x.block)
      BY <3>1, <3>2, PositionInBlock
    <3>4. PlaceOf(x) = Before(leaf, x.node, x.block) + SizeIn(leaf, x.node, x.block)
      BY <1>4, <2>1 DEF PlaceOf
    <3>5. l + 1 <= l
      BY <1>1, <3>3, <3>4
    <3> QED  BY <1>2, <3>5
  <2> QED  BY <1>5, <1>6, <2>1, <2>2
<1> QED  BY <1>7, <1>8

(* The loop of upper_bound goes on at the points of the key only.          *)
LEMMA StopsWhere ==
  ASSUME MapInv, OrderInv, NEW k \in Key, NEW y, IsForward(y), Less(k) <= PlaceOf(y)
  PROVE  StopsAt(k, y) <=>
           y = End("iterator") \/ (AtPoint(y) /\ Less(k) + Equal(k) <= PlaceOf(y))
<1> DEFINE P == PointsIn(leaf)
           N == Len(P)
           l == Less(k)
           e == Equal(k)
           p == PlaceOf(y)
<1>1. /\ l \in Nat /\ e \in Nat /\ N \in Nat /\ l + e <= N
      /\ \A j \in 1..N : P[j] = k <=> l < j /\ j <= l + e
  BY PositionAmong
<1>2. /\ y.slot < SizeAt(y) <=> AtPoint(y)
      /\ p \in Nat /\ (AtPoint(y) => KeyAt(y) = P[p + 1] /\ p < N)
  BY ForwardIs
<1>3. l <= p
  OBVIOUS
<1>4. StopsAt(k, y) <=> y = End("iterator") \/ (AtPoint(y) /\ KeyAt(y) # k)
  BY <1>2 DEF StopsAt
<1> HIDE DEF P, N, l, e, p
<1>5. AtPoint(y) => (KeyAt(y) # k <=> l + e <= p)
  <2> SUFFICES ASSUME AtPoint(y) PROVE KeyAt(y) # k <=> l + e <= p
    OBVIOUS
  <2>1. p + 1 \in 1..N /\ l < p + 1 /\ (p + 1 <= l + e <=> ~ (l + e <= p))
    BY <1>1, <1>2, <1>3
  <2>2. P[p + 1] = k <=> l < p + 1 /\ p + 1 <= l + e
    BY <1>1, <2>1
  <2> QED  BY <1>2, <2>1, <2>2
<1> QED  BY <1>4, <1>5 DEF l, e, p

(* A walk from x is n steps on behind n points, as far as there are any.   *)
WalkedTo(w, x, n) ==
  /\ IsForward(w[n])
  /\ IF PlaceUp(x) + (n - 1) < Len(PointsIn(leaf))
     THEN PlaceOf(w[n]) = PlaceUp(x) + (n - 1) /\ AtPoint(w[n])
     ELSE w[n] = End("iterator") /\ PlaceOf(w[n]) = Len(PointsIn(leaf))

LEMMA WalksTo ==
  ASSUME MapInv, NEW x, IsForward(x), NEW w, Walk(w, x),
         NEW n \in 1..Len(PointsIn(leaf)) + 1
  PROVE  WalkedTo(w, x, n)
<1>1. WalkIsAt(w, x, n)
  BY WalkIs DEF IsForward
<1> QED  BY <1>1, EndIs DEF WalkIsAt, WalkedTo, IsForward

(* upper_bound.                                                            *)
LEMMA UpperBoundIs ==
  ASSUME MapInv, OrderInv, NEW k \in Key
  PROVE  /\ IsForward(UpperBound(k))
         /\ PlaceOf(UpperBound(k)) = Less(k) + Equal(k)
<1> DEFINE x == Position(k)
           N == Len(PointsIn(leaf))
           l == Less(k)
           m == Less(k) + Equal(k)
           w == WalkUp(x)
           s == Stop(k, w)
           u == PlaceUp(x)
           p == PlaceOf(w[s])
<1>1. IsForward(x) /\ PlaceOf(x) = l
  BY PositionIsAt
<1>2. /\ Walk(w, x) /\ UpperBound(k) = w[s] /\ s \in DOMAIN w /\ StopsAt(k, w[s])
      /\ \A n \in DOMAIN w : StopsAt(k, w[n]) => s <= n
      /\ IsForward(w[s])
  BY StopIs DEF IsForward
<1>3. l \in Nat /\ m \in Nat /\ N \in Nat /\ l <= m /\ m <= N
  BY PositionAmong
<1>4. DOMAIN w = 0..N + 1 /\ w[0] = x /\ \A n \in DOMAIN w : IsForward(w[n])
  <2>1. Placed(x) /\ x.class = "iterator" /\ Walk(w, x)
    BY <1>1, <1>2 DEF IsForward
  <2> HIDE DEF w, x
  <2>2. DOMAIN w = 0..N + 1 /\ \A n \in DOMAIN w : Placed(w[n]) /\ w[n].class = "iterator"
    BY <2>1, WalkEnds
  <2> QED  BY <2>1, <2>2 DEF Walk, IsForward
<1>5. u = IF AtPoint(x) THEN l + 1 ELSE l
  BY <1>1, ForwardIs
<1> HIDE DEF x, w, s, u
<1>6. ASSUME NEW n \in 1..N + 1
      PROVE  /\ IsForward(w[n])
             /\ IF u + (n - 1) < N THEN PlaceOf(w[n]) = u + (n - 1) /\ AtPoint(w[n])
                ELSE w[n] = End("iterator") /\ PlaceOf(w[n]) = N
  BY <1>1, <1>2, WalksTo DEF WalkedTo, u
<1>7. ASSUME NEW n \in DOMAIN w, l <= PlaceOf(w[n])
      PROVE  StopsAt(k, w[n]) <=> w[n] = End("iterator") \/ (AtPoint(w[n]) /\ m <= PlaceOf(w[n]))
  BY <1>4, <1>7, StopsWhere
<1>8. s \in Nat /\ s \in 0..N + 1 /\ u \in Nat /\ l <= u /\ u <= l + 1
  BY <1>2, <1>3, <1>4, <1>5
<1>9. s # 0 => /\ s \in 1..N + 1
               /\ p = IF u + (s - 1) < N THEN u + (s - 1) ELSE N
  BY <1>3, <1>6, <1>8
<1>10. s = 0 => p = l
  BY <1>1, <1>4
<1>11. p \in Nat /\ p <= N /\ l <= p
  <2>1. s # 0 => u + (s - 1) \in Nat /\ l <= u + (s - 1)
    BY <1>3, <1>8
  <2> HIDE DEF l, N, p
  <2> QED  BY <1>3, <1>9, <1>10, <2>1
<1>12. m <= p
  <2>1. w[s] = End("iterator") \/ (AtPoint(w[s]) /\ m <= PlaceOf(w[s]))
    BY <1>2, <1>7, <1>11
  <2>2. w[s] = End("iterator") => p = N
    BY EndIs
  <2> QED  BY <1>3, <2>1, <2>2
<1>13. p <= m
  <2> SUFFICES ASSUME m < p PROVE FALSE
    BY <1>3, <1>11
  <2>1. s # 0
    BY <1>3, <1>10
  <2>2. CASE s = 1
    <3>1. p = IF u < N THEN u ELSE N
      BY <1>8, <1>9, <2>2
    <3>2. m < u /\ m = l /\ u = l + 1
      <4> HIDE DEF l, m, N, p
      <4> QED  BY <1>3, <1>8, <3>1
    <3>3. AtPoint(x)
      BY <1>3, <1>5, <3>2
    <3>4. 0 \in DOMAIN w /\ l <= PlaceOf(w[0]) /\ AtPoint(w[0]) /\ m <= PlaceOf(w[0])
      BY <1>1, <1>3, <1>4, <3>2, <3>3
    <3>5. StopsAt(k, w[0])
      BY <1>7, <3>4
    <3>6. s <= 0
      BY <1>2, <3>4, <3>5
    <3> QED  BY <2>2, <3>6
  <2>3. CASE s # 1
    <3> DEFINE n == s - 1
    <3>1. n \in 1..N + 1 /\ n \in DOMAIN w /\ ~ (s <= n) /\ n \in Nat /\ n >= 1
      BY <1>3, <1>4, <1>8, <2>1, <2>3
    <3>2. p = IF u + n < N THEN u + n ELSE N
      BY <1>9, <2>1
    <3>3. IF u + (n - 1) < N THEN PlaceOf(w[n]) = u + (n - 1) /\ AtPoint(w[n])
          ELSE w[n] = End("iterator") /\ PlaceOf(w[n]) = N
      BY <1>6, <3>1
    <3> HIDE DEF n
    <3>4. m <= u + (n - 1)
      <4> HIDE DEF l, m, N, p
      <4> QED  BY <1>3, <1>8, <3>1, <3>2
    <3>5. l <= PlaceOf(w[n]) /\ (w[n] = End("iterator") \/ (AtPoint(w[n]) /\ m <= PlaceOf(w[n])))
      <4> DEFINE q == PlaceOf(w[n])
      <4>1. CASE u + (n - 1) < N
        <5>1. q = u + (n - 1) /\ AtPoint(w[n])
          BY <3>3, <4>1
        <5>2. l <= q /\ m <= q
          <6> HIDE DEF l, m, N, q
          <6> QED  BY <1>3, <1>8, <3>1, <3>4, <5>1
        <5> QED  BY <5>1, <5>2
      <4>2. CASE ~ (u + (n - 1) < N)
        <5>1. q = N /\ w[n] = End("iterator")
          BY <3>3, <4>2
        <5> QED  BY <1>3, <5>1
      <4> QED  BY <4>1, <4>2
    <3>6. StopsAt(k, w[n])
      BY <1>7, <3>1, <3>5
    <3> QED  BY <1>2, <3>1, <3>6
  <2> QED  BY <2>2, <2>3
<1>14. p = m
  BY <1>3, <1>11, <1>12, <1>13
<1> QED  BY <1>2, <1>14

(* count.                                                                  *)
LEMMA CountIs ==
  ASSUME MapInv, OrderInv, NEW k \in Key
  PROVE  Count(k) = Equal(k)
<1> DEFINE y == LowerBound(k)
           P == PointsIn(leaf)
           N == Len(P)
           l == Less(k)
           e == Equal(k)
           w == WalkUp(y)
           S == {n \in DOMAIN w : w[n] = End("iterator") \/ KeyAt(w[n]) # k}
<1>1. IsForward(y) /\ PlaceOf(y) = l /\ (y = End("iterator") \/ AtPoint(y))
  BY LowerBoundIs
<1>2. /\ l \in Nat /\ e \in Nat /\ N \in Nat /\ l + e <= N
      /\ \A j \in 1..N : P[j] = k <=> l < j /\ j <= l + e
  BY PositionAmong
<1>3. Placed(y) /\ y.class = "iterator"
  BY <1>1 DEF IsForward
<1>4. Walk(w, y)
  BY <1>3, WalkExists
<1>5. Count(k) = Min(S)
  BY DEF Count
<1> HIDE DEF y, w
<1>6. DOMAIN w = 0..N + 1 /\ w[0] = y
  BY <1>3, <1>4, WalkEnds DEF Walk
<1>7. PlaceUp(y) = IF AtPoint(y) THEN l + 1 ELSE l
  BY <1>1, ForwardIs
<1>8. \A n \in S : n \in Nat /\ n \in 0..N + 1 /\ (w[n] = End("iterator") \/ KeyAt(w[n]) # k)
  BY <1>2, <1>6
<1>9. S \subseteq Nat
  BY <1>8
<1>10. \A n \in 0..N + 1 : (w[n] = End("iterator") \/ KeyAt(w[n]) # k) => n \in S
  BY <1>6
<1> HIDE DEF S, l, e, P, N
<1>11. ASSUME e \in S, \A n \in S : e <= n
       PROVE  Min(S) = e
  <2>1. Min(S) \in S /\ \A n \in S : Min(S) <= n
    BY <1>9, <1>11, MinOfNumbers
  <2>2. Min(S) \in Nat /\ Min(S) <= e /\ e <= Min(S)
    BY <1>9, <1>11, <2>1
  <2> QED  BY <1>2, <2>2
<1>12. CASE y = End("iterator")
  <2>1. l = N
    BY <1>1, <1>12, EndIs DEF N, P
  <2>2. e = 0 /\ 0 \in 0..N + 1
    BY <1>2, <2>1
  <2>3. e \in S
    BY <1>6, <1>10, <1>12, <2>2
  <2>4. \A n \in S : e <= n
    BY <1>8, <2>2
  <2> QED  BY <1>5, <1>11, <2>3, <2>4 DEF e
<1>13. CASE AtPoint(y)
  <2>1. l < N /\ PlaceUp(y) = l + 1
    BY <1>1, <1>7, <1>13, ForwardIs DEF l, N, P
  <2>2. ASSUME NEW n \in 0..N + 1
        PROVE  IF l + n < N THEN IsForward(w[n]) /\ PlaceOf(w[n]) = l + n /\ AtPoint(w[n])
               ELSE w[n] = End("iterator")
    <3>1. CASE n = 0
      <4>1. l + n = l /\ w[n] = y
        BY <1>2, <1>6, <3>1
      <4> QED  BY <1>1, <1>13, <2>1, <4>1 DEF l
    <3>2. CASE n # 0
      <4>1. n \in 1..N + 1 /\ (l + 1) + (n - 1) = l + n
        BY <1>2, <3>2
      <4>2. WalkedTo(w, y, n)
        BY <1>1, <1>4, <4>1, WalksTo DEF N, P
      <4>3. IF l + n < N THEN IsForward(w[n]) /\ PlaceOf(w[n]) = (l + 1) + (n - 1) /\ AtPoint(w[n])
            ELSE w[n] = End("iterator")
        BY <2>1, <4>1, <4>2 DEF WalkedTo, N, P
      <4> QED  BY <4>1, <4>3
    <3> QED  BY <3>1, <3>2
  <2>3. ASSUME NEW n \in 0..N + 1, l + n < N
        PROVE  KeyAt(w[n]) = P[(l + n) + 1] /\ w[n] # End("iterator")
    <3>1. IsForward(w[n]) /\ PlaceOf(w[n]) = l + n /\ AtPoint(w[n])
      BY <2>2, <2>3
    <3> QED  BY <3>1, ForwardIs DEF P
  <2>4. e \in S
    <3>1. e \in 0..N + 1
      BY <1>2
    <3>2. CASE l + e < N
      <4>1. (l + e) + 1 \in 1..N /\ ~ ((l + e) + 1 <= l + e)
        BY <1>2, <3>2
      <4>2. KeyAt(w[e]) # k
        BY <1>2, <2>3, <3>1, <3>2, <4>1
      <4> QED  BY <1>10, <3>1, <4>2
    <3>3. CASE ~ (l + e < N)
      BY <1>10, <2>2, <3>1, <3>3
    <3> QED  BY <3>2, <3>3
  <2>5. ASSUME NEW n \in S, ~ (e <= n)
        PROVE  FALSE
    <3>1. n \in 0..N + 1 /\ n \in Nat /\ (w[n] = End("iterator") \/ KeyAt(w[n]) # k)
      BY <1>8
    <3>2. n < e /\ l + n < N /\ (l + n) + 1 \in 1..N /\ l < (l + n) + 1 /\ (l + n) + 1 <= l + e
      BY <1>2, <2>5, <3>1
    <3>3. P[(l + n) + 1] = k
      BY <1>2, <3>2
    <3>4. KeyAt(w[n]) = k /\ w[n] # End("iterator")
      BY <2>3, <3>1, <3>2, <3>3
    <3> QED  BY <3>1, <3>4
  <2>6. Min(S) = e
    BY <1>11, <2>4, <2>5
  <2> QED  BY <1>5, <2>6 DEF e
<1> QED  BY <1>1, <1>12, <1>13

----------------------------------------------------------------------------
(* The invariant of the order of the points.                               *)
IteratorsInv == MapInv /\ ItHeld /\ OrderInv

LEMMA OrderStays ==
  ASSUME OrderInv, SameMap
  PROVE  OrderInv'
<1>1. HomesRise'
  BY DEF OrderInv, HomesRise, SameMap
<1>2. AtHome(leaf)'
  BY DEF OrderInv, Ordered, AtHome, IsPoint, SizeIn, NumIn, SameMap
<1>3. InBlockOrder(leaf)' /\ SeparatorsRising(leaf)' /\ SeparatorsBetween(leaf)'
  BY DEF OrderInv, Ordered, InBlockOrder, SeparatorsRising, SeparatorsBetween,
         IsPoint, SizeIn, NumIn, SameMap
<1> QED  BY <1>1, <1>2, <1>3 DEF OrderInv, Ordered

LEMMA EraseKeepsOrder ==
  ASSUME MapInv, OrderInv, NEW k \in Key, Erase(k)
  PROVE  OrderInv'
<1>1. PICK i, b, s : Erases(k, i, b, s)
  BY EraseIs
<1>2. IsPoint(leaf, i, b, s) /\ HasCut(leaf, leaf', i, b, s) /\ home' = home
  BY <1>1 DEF Erases
<1>3. Ordered(leaf')
  BY <1>2, CutIsOrdered DEF MapInv, OrderInv
<1>4. HomesRise'
  BY <1>2 DEF OrderInv, HomesRise
<1>5. AtHome(leaf)'
  BY <1>2, <1>3 DEF Ordered, AtHome
<1>6. InBlockOrder(leaf)' /\ SeparatorsRising(leaf)' /\ SeparatorsBetween(leaf)'
  BY <1>3 DEF Ordered
<1> QED  BY <1>4, <1>5, <1>6 DEF OrderInv, Ordered

LEMMA TakesOrErases ==
  ASSUME Next
  PROVE  SameMap \/ \E k \in Key : Erase(k)
BY DEF Next, Edge, ConstEdge, IteratorStep, ConstStep, ReverseStep, ConstReverseStep,
       Convert, Take, SameMap

LEMMA NextKeepsOrder ==
  ASSUME MapInv, OrderInv, [Next]_vars
  PROVE  OrderInv'
<1>1. CASE Next
  BY <1>1, TakesOrErases, OrderStays, EraseKeepsOrder
<1>2. CASE UNCHANGED vars
  BY <1>2, OrderStays DEF vars, SameMap
<1> QED  BY <1>1, <1>2

LEMMA InitMakesOrder ==
  ASSUME Init, NoKeyInTwo
  PROVE  OrderInv
<1>1. PICK points, at : DealtChain(leaf, points, at)
  BY InitIsDealt
<1>2. Ordered(leaf)
  BY <1>1, DealtIsOrdered
<1> QED  BY <1>1, <1>2 DEF OrderInv, DealtChain, Dealing

LEMMA CountsAreRight ==
  ASSUME MapInv, OrderInv
  PROVE  CountIsRight
<1>1. Points = PointsIn(leaf) /\ DOMAIN PointsIn(leaf) = 1..Len(PointsIn(leaf))
  BY PointsAre, PointsRise
<1>2. \A k \in Key : Count(k) = Equal(k)
  BY CountIs
<1>3. \A k \in Key : Equal(k) = Cardinality({j \in DOMAIN Points : Points[j] = k})
  BY <1>1 DEF Equal, HowMany
<1> QED  BY <1>2, <1>3 DEF CountIsRight

(* count returns the number of the points of its key, whatever leaves and  *)
(* blocks without points lie among theirs, after any number of calls of    *)
(* erase, if the points of a key are in one block.                         *)
THEOREM IteratorsCountRight ==
  ASSUME NoBareLeaf, NoKeyInTwo
  PROVE  Spec => []CountIsRight
<1>1. Init => MapInv /\ ItPlaced /\ OrderInv
  BY InitMakesMap, InitMakesOrder DEF ItPlaced
<1>2. MapInv /\ ItPlaced /\ OrderInv /\ [Next]_vars => (MapInv /\ ItPlaced /\ OrderInv)'
  BY NextKeepsMap, NextKeepsOrder
<1>3. MapInv /\ ItPlaced /\ OrderInv => CountIsRight
  BY CountsAreRight
<1> QED  BY <1>1, <1>2, <1>3, PTL DEF Spec

----------------------------------------------------------------------------
(* The refinement: the points are a sorted sequence, and an iterator is a  *)
(* place between two of them.                                              *)
WayOf(x) == IF x.class \in Forward THEN "forward"
            ELSE IF x.class \in Backward THEN "reverse" ELSE "none"

LEMMA WaysAre ==
  /\ \A x : x.class \in Forward => WayOf(x) = "forward"
  /\ \A x : x.class \in Backward => WayOf(x) = "reverse"
  /\ WayOf(NoIterator) = "none"
BY AtIs DEF WayOf, Forward, Backward, NoIterator

LEMMA EndPlaceOf ==
  ASSUME MapInv, NEW x, x.class \in Forward \cup Backward
  PROVE  EndOf(x) # NoIterator /\ ~ AtPoint(EndOf(x)) /\ PlaceOf(EndOf(x)) = EndPlace(x.class)
<1>1. Placed(EndOf(x)) /\ ~ AtPoint(EndOf(x)) /\ PlaceOf(EndOf(x)) = EndPlace(x.class)
  BY EndOfIs
<1>2. Shaped(leaf)
  BY DEF MapInv
<1> QED  BY <1>1, <1>2, PointsBeforeIs

LEMMA KeyIsReferred ==
  ASSUME MapInv, NEW x, Held(x)
  PROVE  KeyOf(x) = Cursor!Refers(Points, WayOf(x), PointsBefore(x))
<1> DEFINE P == PointsIn(leaf)
           N == Len(P)
           p == PlaceOf(x)
           w == WayOf(x)
<1>1. /\ Shaped(leaf) /\ Placed(x) /\ (x = EndOf(x) \/ AtPoint(x))
  BY DEF Held, MapInv
<1>2. /\ x.class \in Forward \cup Backward /\ N \in Nat /\ p \in 0..N
  BY <1>1, PlacedIs
<1>3. Points = P /\ PointsBefore(x) = p /\ x # NoIterator
  BY <1>1, PointsAre, PointsBeforeIs
<1>4. KeyOf(x) = IF x = EndOf(x) THEN 0
                 ELSE IF x.class \in Forward THEN KeyAt(x) ELSE KeyBefore(x)
  BY <1>3 DEF KeyOf
<1>5. Cursor!Refers(P, w, p)
           = CASE w = "forward" /\ p < N -> P[p + 1]
               [] w = "reverse" /\ p > 0 -> P[p]
               [] OTHER                  -> 0
  BY DEF Cursor!Refers
<1> SUFFICES KeyOf(x) = Cursor!Refers(P, w, p)
  BY <1>3
<1> HIDE DEF w, p, N, P
<1>6. CASE x.class \in Forward
  <2>1. w = "forward"
    BY <1>6, WaysAre DEF w
  <2>2. CASE x = EndOf(x)
    <3>1. p = N
      BY <1>2, <1>6, <2>2, EndPlaceOf DEF EndPlace, p, N, P
    <3>2. ~ (p < N)
      BY <1>2, <3>1
    <3> QED  BY <1>3, <1>4, <1>5, <2>1, <2>2, <3>2
  <2>3. CASE x # EndOf(x)
    <3>1. KeyAt(x) = P[p + 1] /\ p + 1 \in 1..N
      BY <1>1, <1>6, <2>3, KeyAtIs DEF p, N, P
    <3>2. p < N
      BY <1>2, <3>1
    <3> QED  BY <1>3, <1>4, <1>5, <1>6, <2>1, <2>3, <3>1, <3>2
  <2> QED  BY <2>2, <2>3
<1>7. CASE x.class \notin Forward
  <2>1. w = "reverse" /\ x.class \in Backward
    BY <1>2, <1>7, WaysAre DEF w
  <2>2. CASE x = EndOf(x)
    <3>1. p = 0
      BY <1>2, <1>7, <2>2, EndPlaceOf DEF EndPlace, p
    <3>2. ~ (p > 0)
      BY <3>1
    <3> QED  BY <1>3, <1>4, <1>5, <2>1, <2>2, <3>2
  <2>3. CASE x # EndOf(x)
    <3>1. KeyBefore(x) = P[p] /\ p \in 1..N
      BY <1>1, <1>7, <2>3, KeyAtIs DEF p, N, P
    <3>2. p > 0
      BY <1>2, <3>1
    <3> QED  BY <1>3, <1>4, <1>5, <1>7, <2>1, <2>3, <3>1, <3>2
  <2> QED  BY <2>2, <2>3
<1> QED  BY <1>6, <1>7
LEMMA PlaceStays ==
  ASSUME SameMap, NEW x, it' = x
  PROVE  /\ Points' = Points /\ PointsBefore(it)' = PointsBefore(x)
         /\ KeyOf(it)' = KeyOf(x)
         /\ WayOf(it)' = WayOf(x)
<1>1. Points' = Points
  BY DEF Points, PointsOf, SameMap
<1>2. PointsBefore(it)' = PointsBefore(x)
  BY DEF PointsBefore, PointsOf, SameMap
<1>3. EndOf(it)' = EndOf(x)
  BY EndsStay DEF EndOf
<1>4. KeyOf(it)' = KeyOf(x)
  BY <1>3 DEF KeyOf, KeyAt, KeyBefore, SameMap
<1> QED  BY <1>1, <1>2, <1>4 DEF WayOf

(* A call that gives an iterator.                                          *)
LEMMA TakeMaps ==
  ASSUME MapInv, NEW op, NEW k, NEW x, Take(op, k, x), Held(x)
  PROVE  Cursor!Take(op, k, WayOf(x), PlaceOf(x))
<1>1. SameMap /\ it' = x /\ call' = <<op, k>>
  BY TakeKeeps DEF Take
<1>2. /\ Points' = Points /\ PointsBefore(it)' = PointsBefore(x)
      /\ KeyOf(it)' = KeyOf(x)
      /\ WayOf(it)' = WayOf(x)
  BY <1>1, PlaceStays
<1>3. PointsBefore(x) = PlaceOf(x)
  BY PointsBeforeIs DEF Held, MapInv
<1>4. KeyOf(x) = Cursor!Refers(Points, WayOf(x), PlaceOf(x))
  BY <1>3, KeyIsReferred
<1> QED  BY <1>1, <1>2, <1>3, <1>4 DEF Cursor!Take, WayOf

GoesTo(x, w, p) == Held(x) /\ WayOf(x) = w /\ PlaceOf(x) = p

LEMMA TakesTo ==
  ASSUME MapInv, NEW op, NEW k, NEW x, NEW w, NEW p, Take(op, k, x), GoesTo(x, w, p)
  PROVE  Cursor!Take(op, k, w, p)
BY TakeMaps DEF GoesTo

LEMMA EndIsEdge ==
  ASSUME MapInv
  PROVE  /\ \A class \in Forward : GoesTo(End(class), "forward", Len(PointsIn(leaf)))
         /\ \A class \in Backward : GoesTo(REnd(class), "reverse", 0)
<1>1. ASSUME NEW class \in Forward
      PROVE  GoesTo(End(class), "forward", Len(PointsIn(leaf)))
  <2> DEFINE x == At(class, 0, 0, 0)
  <2>1. x.class = class
    BY AtIs
  <2>2. EndOf(x) = End(class)
    BY <2>1 DEF EndOf
  <2>3. Held(End(class)) /\ End(class).class = class
    BY EndIsHeld
  <2> HIDE DEF x
  <2>4. PlaceOf(End(class)) = Len(PointsIn(leaf))
    BY <2>1, <2>2, EndOfIs DEF EndPlace
  <2> QED  BY <2>3, <2>4, WaysAre DEF GoesTo
<1>2. ASSUME NEW class \in Backward
      PROVE  GoesTo(REnd(class), "reverse", 0)
  <2> DEFINE x == At(class, 0, 0, 0)
  <2>0. class \notin Forward
    BY ClassesApart
  <2>1. x.class = class
    BY AtIs
  <2>2. EndOf(x) = REnd(class)
    BY <2>0, <2>1 DEF EndOf
  <2>3. Held(REnd(class)) /\ REnd(class).class = class
    BY <2>0, EndIsHeld
  <2> HIDE DEF x
  <2>4. PlaceOf(REnd(class)) = 0
    BY <2>0, <2>1, <2>2, EndOfIs DEF EndPlace
  <2> QED  BY <2>3, <2>4, WaysAre DEF GoesTo
<1> QED  BY <1>1, <1>2

LEMMA EdgeMaps ==
  ASSUME MapInv, Edge \/ ConstEdge
  PROVE  Cursor!Edge
<1>1. Cursor!End = Len(PointsIn(leaf))
  BY PointsAre DEF Cursor!End
<1>2. /\ \A class \in Forward : GoesTo(Begin(class), "forward", 0)
      /\ \A class \in Backward : GoesTo(RBegin(class), "reverse", Len(PointsIn(leaf)))
  BY BeginIsHeld, WaysAre DEF GoesTo
<1>3. \/ \E class \in Forward : Take("begin", 0, Begin(class))
      \/ \E class \in Forward : Take("end", 0, End(class))
      \/ \E class \in Backward : Take("rbegin", 0, RBegin(class))
      \/ \E class \in Backward : Take("rend", 0, REnd(class))
  BY DEF Edge, ConstEdge, Forward, Backward
<1>4. CASE \E class \in Forward : Take("begin", 0, Begin(class))
  BY <1>2, <1>4, TakesTo DEF Cursor!Edge
<1>5. CASE \E class \in Forward : Take("end", 0, End(class))
  BY <1>1, <1>5, EndIsEdge, TakesTo DEF Cursor!Edge
<1>6. CASE \E class \in Backward : Take("rbegin", 0, RBegin(class))
  BY <1>1, <1>2, <1>6, TakesTo DEF Cursor!Edge
<1>7. CASE \E class \in Backward : Take("rend", 0, REnd(class))
  BY <1>7, EndIsEdge, TakesTo DEF Cursor!Edge
<1> QED  BY <1>3, <1>4, <1>5, <1>6, <1>7

(* ++ and --.                                                              *)
LEMMA HeldIsAt ==
  ASSUME MapInv, NEW x, Held(x)
  PROVE  /\ x.class \in Forward \cup Backward /\ Placed(x)
         /\ Len(PointsIn(leaf)) \in Nat /\ PlaceOf(x) \in 0..Len(PointsIn(leaf))
         /\ PlaceUp(x) = IF x.class \in Forward /\ PlaceOf(x) = Len(PointsIn(leaf))
                         THEN PlaceOf(x) ELSE PlaceOf(x) + 1
         /\ PlaceDown(x) = IF x.class \notin Forward /\ PlaceOf(x) = 0
                           THEN PlaceOf(x) ELSE PlaceOf(x) - 1
<1> DEFINE N == Len(PointsIn(leaf))
           p == PlaceOf(x)
           n == SizeIn(leaf, x.node, x.block)
<1>1. Shaped(leaf) /\ Placed(x) /\ (x = EndOf(x) \/ AtPoint(x))
  BY DEF Held, MapInv
<1>2. /\ x.class \in Forward \cup Backward /\ N \in Nat /\ p \in 0..N
      /\ x.slot \in Nat /\ x.slot <= n /\ n \in 0..Cap
  BY <1>1, PlacedIs
<1>3. ~ AtPoint(x) => p = EndPlace(x.class)
  BY <1>1, <1>2, EndPlaceOf
<1>4. AtPoint(x) => IF x.class \in Forward THEN p + 1 \in 1..N ELSE p \in 1..N
  BY <1>1, KeyAtIs
<1>5. AtPoint(x) <=> IF x.class \in Forward THEN x.slot < n ELSE x.slot > 0
  BY DEF AtPoint
<1>6. /\ PlaceUp(x) = IF x.class \in Forward /\ x.slot = n THEN p ELSE p + 1
      /\ PlaceDown(x) = IF x.class \notin Forward /\ x.slot = 0 THEN p ELSE p - 1
  BY DEF PlaceUp, PlaceDown
<1>7. EndPlace(x.class) = IF x.class \in Forward THEN N ELSE 0
  BY DEF EndPlace
<1>8. n \in Nat
  BY <1>2, SizesAssumption
<1> HIDE DEF N, p, n
<1>9. CASE x.class \in Forward
  <2>1. x.slot = n <=> p = N
    BY <1>2, <1>3, <1>4, <1>5, <1>7, <1>8, <1>9
  <2> QED  BY <1>1, <1>2, <1>6, <1>9, <2>1 DEF N, p
<1>10. CASE x.class \notin Forward
  <2>1. x.slot = 0 <=> p = 0
    BY <1>2, <1>3, <1>4, <1>5, <1>7, <1>8, <1>10
  <2> QED  BY <1>1, <1>2, <1>6, <1>10, <2>1 DEF N, p
<1> QED  BY <1>9, <1>10
LEMMA StepsTo ==
  ASSUME MapInv, NEW x, Held(x)
  PROVE  LET N == Len(PointsIn(leaf))
             p == PlaceOf(x)
             e == IF x.class \in Forward THEN N ELSE 0
         IN /\ GoesTo(Up(x), WayOf(x), IF p < N THEN p + 1 ELSE e)
            /\ GoesTo(Down(x), WayOf(x), IF p > 0 THEN p - 1 ELSE e)
<1> DEFINE N == Len(PointsIn(leaf))
           p == PlaceOf(x)
           e == IF x.class \in Forward THEN N ELSE 0
           u == PlaceUp(x)
           d == PlaceDown(x)
<1>1. /\ x.class \in Forward \cup Backward /\ Placed(x)
      /\ N \in Nat /\ p \in 0..N
      /\ u = IF x.class \in Forward /\ p = N THEN p ELSE p + 1
      /\ d = IF x.class \notin Forward /\ p = 0 THEN p ELSE p - 1
  BY HeldIsAt
<1>2. Leads(x, Up(x), u) /\ Leads(x, Down(x), d)
  BY <1>1, UpIs, DownIs
<1>3. /\ Held(Up(x)) /\ WayOf(Up(x)) = WayOf(x)
      /\ Held(Down(x)) /\ WayOf(Down(x)) = WayOf(x)
  BY <1>2, LedIsHeld DEF WayOf
<1>4. PlaceOf(EndOf(x)) = e
  BY <1>1, EndOfIs DEF EndPlace
<1>5. \A q : Refers(x.class, q) <=> IF x.class \in Forward THEN q \in 0..N - 1 ELSE q \in 1..N
  BY DEF Refers
<1>6. /\ PlaceOf(Up(x)) = IF Refers(x.class, u) THEN u ELSE e
      /\ PlaceOf(Down(x)) = IF Refers(x.class, d) THEN d ELSE e
  BY <1>2, <1>4 DEF Leads
<1> HIDE DEF N, p, u, d
<1>7. CASE x.class \in Forward
  <2>1. Refers(x.class, u) <=> u \in 0..N - 1
    BY <1>5, <1>7
  <2>2. Refers(x.class, d) <=> d \in 0..N - 1
    BY <1>5, <1>7
  <2>3. e = N /\ u = (IF p = N THEN p ELSE p + 1) /\ d = p - 1
    BY <1>1, <1>7
  <2>4. PlaceOf(Up(x)) = IF p < N THEN p + 1 ELSE e
    BY <1>1, <1>6, <2>1, <2>3
  <2>5. PlaceOf(Down(x)) = IF p > 0 THEN p - 1 ELSE e
    BY <1>1, <1>6, <2>2, <2>3
  <2> QED  BY <1>3, <2>4, <2>5 DEF GoesTo, N, p
<1>8. CASE x.class \notin Forward
  <2>1. Refers(x.class, u) <=> u \in 1..N
    BY <1>5, <1>8
  <2>2. Refers(x.class, d) <=> d \in 1..N
    BY <1>5, <1>8
  <2>3. e = 0 /\ u = p + 1 /\ d = (IF p = 0 THEN p ELSE p - 1)
    BY <1>1, <1>8
  <2>4. PlaceOf(Up(x)) = IF p < N THEN p + 1 ELSE e
    BY <1>1, <1>6, <2>1, <2>3
  <2>5. PlaceOf(Down(x)) = IF p > 0 THEN p - 1 ELSE e
    BY <1>1, <1>6, <2>2, <2>3
  <2> QED  BY <1>3, <2>4, <2>5 DEF GoesTo, N, p
<1> QED  BY <1>7, <1>8

LEMMA StepMaps ==
  ASSUME MapInv, ItHeld, IteratorStep \/ ConstStep \/ ReverseStep \/ ConstReverseStep
  PROVE  Cursor!Step
<1> DEFINE p == PlaceOf(it)
<1>1. /\ Held(it)
      /\ \/ /\ it.class \in Forward
            /\ Take("++", 0, Up(it)) \/ Take("--", 0, Down(it))
         \/ /\ it.class \in Backward
            /\ Take("++", 0, Down(it)) \/ Take("--", 0, Up(it))
  BY AtIs DEF ItHeld, IteratorStep, ConstStep, ReverseStep, ConstReverseStep,
              Forward, Backward, NoIterator
<1>2. PointsBefore(it) = p /\ Cursor!End = Len(PointsIn(leaf))
  BY <1>1, PointsBeforeIs, PointsAre DEF Held, MapInv, Cursor!End
<1>3. /\ Cursor!Up = IF p < Cursor!End THEN p + 1
                     ELSE IF WayOf(it) = "forward" THEN Cursor!End ELSE 0
      /\ Cursor!Down = IF p > 0 THEN p - 1
                       ELSE IF WayOf(it) = "forward" THEN Cursor!End ELSE 0
  BY <1>2 DEF Cursor!Up, Cursor!Down, WayOf
<1>4. WayOf(it) = (IF it.class \in Forward THEN "forward" ELSE "reverse")
      /\ (it.class \in Backward <=> it.class \notin Forward)
  BY <1>1, WaysAre, ClassesApart
<1>5. GoesTo(Up(it), WayOf(it), Cursor!Up) /\ GoesTo(Down(it), WayOf(it), Cursor!Down)
  BY <1>1, <1>2, <1>3, <1>4, StepsTo
<1>6. \A op, x, q : Take(op, 0, x) /\ GoesTo(x, WayOf(it), q)
                      => Cursor!Take(op, 0, WayOf(it), q)
  BY TakesTo
<1>7. CASE it.class \in Forward
  <2>1. Take("++", 0, Up(it)) \/ Take("--", 0, Down(it))
    BY <1>1, <1>4, <1>7
  <2>2. \/ Cursor!Take("++", 0, WayOf(it), Cursor!Up)
        \/ Cursor!Take("--", 0, WayOf(it), Cursor!Down)
    BY <1>5, <1>6, <2>1
  <2>3. WayOf(it) = "forward"
    BY <1>4, <1>7
  <2> QED  BY <2>2, <2>3 DEF Cursor!Step, WayOf
<1>8. CASE it.class \notin Forward
  <2>1. Take("++", 0, Down(it)) \/ Take("--", 0, Up(it))
    BY <1>1, <1>8
  <2>2. \/ Cursor!Take("++", 0, WayOf(it), Cursor!Down)
        \/ Cursor!Take("--", 0, WayOf(it), Cursor!Up)
    BY <1>5, <1>6, <2>1
  <2>3. WayOf(it) = "reverse"
    BY <1>4, <1>8
  <2> QED  BY <2>2, <2>3 DEF Cursor!Step, WayOf
<1> QED  BY <1>7, <1>8

LEMMA ConvertMaps ==
  ASSUME MapInv, ItHeld, NoEdgeConverted, NEW class \in DOMAIN From, Convert(class)
  PROVE  Cursor!Convert
<1>1. it = NoIterator \/ (Placed(it) /\ Held(it))
  BY DEF ItHeld, Held
<1>2. PICK x : /\ Take("convert", 0, x) /\ Placed(x) /\ PlaceOf(x) = PlaceOf(it)
               /\ x.class = class /\ class \in Forward \cup Backward /\ Placed(it)
               /\ "converted at a block's edge" \notin Odd /\ Held(it) => Held(x)
  BY <1>1, ConvertGives
<1>3. Shaped(leaf)
  BY DEF MapInv
<1>4. PointsBefore(it) = PlaceOf(it) /\ it # NoIterator
  BY <1>2, <1>3, PointsBeforeIs
<1>5. Held(x)
  BY <1>1, <1>2, <1>4 DEF NoEdgeConverted
<1>6. it.class \in Forward \cup Backward
  BY <1>2, <1>3, PlacedIs
<1>7. WayOf(x) \in {"forward", "reverse"} /\ WayOf(it) # "none"
  BY <1>2, <1>6, WaysAre
<1>8. Cursor!Take("convert", 0, WayOf(x), PointsBefore(it))
  BY <1>2, <1>4, <1>5, TakeMaps
<1>9. \E w \in {"forward", "reverse"} : Cursor!Take("convert", 0, w, PointsBefore(it))
  BY <1>7, <1>8
<1> QED  BY <1>7, <1>9 DEF Cursor!Convert, WayOf

(* The sizes of sets that the cursor speaks of are those of this module.   *)
LEMMA CursorCardinality ==
  ASSUME NEW S
  PROVE  Cursor!Cardinality(S) = Cardinality(S)
BY DEF Cursor!Cardinality, Cardinality

LEMMA CursorCounts ==
  ASSUME MapInv, OrderInv, NEW k \in Key
  PROVE  /\ Cursor!End = Len(PointsIn(leaf))
         /\ Cursor!Below(k) = Less(k) /\ Cursor!UpTo(k) = Less(k) + Equal(k)
<1> DEFINE P == PointsIn(leaf)
           N == Len(P)
           l == Less(k)
           e == Equal(k)
           T == {i \in 1..N : P[i] <= k}
<1>1. Points = P
  BY PointsAre
<1>2. /\ Cursor!End = N
      /\ Cursor!Below(k) = Cursor!Cardinality({i \in 1..N : P[i] < k})
      /\ Cursor!UpTo(k) = Cursor!Cardinality(T)
  BY <1>1 DEF Cursor!Below, Cursor!UpTo, Cursor!End
<1>3. Cursor!Below(k) = l
  BY <1>2, CursorCardinality DEF Less, HowManyLess
<1>4. /\ l \in Nat /\ e \in Nat /\ N \in Nat /\ l + e <= N /\ PlaceOf(Position(k)) = l
      /\ \A j \in 1..N : P[j] = k <=> l < j /\ j <= l + e
  BY PositionAmong
<1>5. \A j \in 1..N : P[j] \in Int
  BY PointsRise
<1>6. \A j \in 1..N : P[j] < k <=> j <= l
  BY <1>4, PositionSplits
<1>7. k \in Int
  BY KeyAssumption
<1> HIDE DEF P, N, l, e
<1>8. T = 1..(l + e)
  <2>1. ASSUME NEW j \in 1..N
        PROVE  P[j] <= k <=> j <= l + e
    <3>1. P[j] <= k <=> P[j] < k \/ P[j] = k
      BY <1>5, <1>7
    <3>2. P[j] < k \/ P[j] = k <=> j <= l \/ (l < j /\ j <= l + e)
      BY <1>4, <1>6
    <3>3. j <= l \/ (l < j /\ j <= l + e) <=> j <= l + e
      BY <1>4
    <3> QED  BY <3>1, <3>2, <3>3
  <2>2. \A j : j \in 1..(l + e) <=> j \in 1..N /\ j <= l + e
    BY <1>4
  <2>3. \A j : j \in T <=> j \in 1..N /\ P[j] <= k
    OBVIOUS
  <2> HIDE DEF T
  <2> QED  BY <2>1, <2>2, <2>3
<1>9. Cardinality(1..(l + e)) = l + e
  <2>1. l + e \in Nat
    BY <1>4
  <2>2. Cardinality(1..(l + e)) = IF 1 <= l + e THEN (l + e) - 1 + 1 ELSE 0
    BY <2>1, FS_Interval
  <2> QED  BY <2>1, <2>2
<1>10. Cursor!UpTo(k) = l + e
  BY <1>2, <1>8, <1>9, CursorCardinality
<1> QED  BY <1>2, <1>3, <1>10 DEF N, P, l, e

LEMMA LookupMaps ==
  ASSUME MapInv, OrderInv, NEW k \in Key,
         \/ Take("lower_bound", k, LowerBound(k))
         \/ Take("upper_bound", k, UpperBound(k))
         \/ Take("find", k, Find(k))
  PROVE  Cursor!LowerBound(k) \/ Cursor!UpperBound(k) \/ Cursor!Find(k)
<1>1. /\ Cursor!End = Len(PointsIn(leaf))
      /\ Cursor!Below(k) = Less(k) /\ Cursor!UpTo(k) = Less(k) + Equal(k)
  BY CursorCounts
<1>2. Less(k) \in Nat /\ Equal(k) \in Nat
  BY PositionAmong
<1>3. \A x : x.class = "iterator" => WayOf(x) = "forward"
  BY WaysAre DEF Forward
<1>4. CASE Take("lower_bound", k, LowerBound(k))
  <2>1. GoesTo(LowerBound(k), "forward", Cursor!Below(k))
    BY <1>1, <1>3, LowerBoundIs, LowerBoundIsHeld DEF GoesTo
  <2> QED  BY <1>4, <2>1, TakesTo DEF Cursor!LowerBound
<1>5. CASE Take("upper_bound", k, UpperBound(k))
  <2>1. GoesTo(UpperBound(k), "forward", Cursor!UpTo(k))
    BY <1>1, <1>3, UpperBoundIs, UpperBoundIsHeld DEF GoesTo
  <2> QED  BY <1>5, <2>1, TakesTo DEF Cursor!UpperBound
<1>6. CASE Take("find", k, Find(k))
  <2> DEFINE p == IF Cursor!Below(k) < Cursor!UpTo(k) THEN Cursor!Below(k) ELSE Cursor!End
  <2>1. Equal(k) > 0 <=> Cursor!Below(k) < Cursor!UpTo(k)
    BY <1>1, <1>2
  <2>2. GoesTo(Find(k), "forward", p)
    BY <1>1, <1>3, <2>1, FindIs, FindIsHeld DEF GoesTo
  <2>3. Cursor!Take("find", k, "forward", p)
    <3> HIDE DEF p
    <3> QED  BY <1>6, <2>2, TakesTo
  <2> QED  BY <2>3 DEF Cursor!Find
<1> QED  BY <1>4, <1>5, <1>6

LEMMA EraseMaps ==
  ASSUME MapInv, OrderInv, NEW k \in Key, Erase(k)
  PROVE  Cursor!Erase(k)
<1> DEFINE P == PointsIn(leaf)
           l == Less(k)
<1>1. PICK i, b, s : Erases(k, i, b, s)
  BY EraseIs
<1>2. /\ IsPoint(leaf, i, b, s) /\ HasCut(leaf, leaf', i, b, s)
      /\ Before(leaf, i, b) + s = PlaceOf(Position(k)) + 1
      /\ Cardinality({j \in DOMAIN P : P[j] = k}) = 1
      /\ it' = NoIterator /\ call' = <<"erase", k>>
  BY <1>1 DEF Erases
<1>3. PointsIn(leaf') = WithoutAt(P, Before(leaf, i, b) + s)
  BY <1>2, CutPoints DEF MapInv
<1>4. /\ Cursor!End = Len(P)
      /\ Cursor!Below(k) = l /\ Cursor!UpTo(k) = l + Equal(k)
      /\ PlaceOf(Position(k)) = l /\ l \in Nat
  BY CursorCounts, PositionAmong
<1>5. Equal(k) = 1
  <2>1. DOMAIN P = 1..Len(P)
    BY PointsRise
  <2> QED  BY <1>2, <2>1 DEF Equal, HowMany
<1>6. PointsIn(leaf') = SubSeq(P, 1, Cursor!Below(k)) \o SubSeq(P, Cursor!UpTo(k) + 1, Cursor!End)
  <2>1. (l + 1) - 1 = l /\ (l + 1) + 1 = Cursor!UpTo(k) + 1
    BY <1>4, <1>5
  <2>2. PointsIn(leaf') = SubSeq(P, 1, (l + 1) - 1) \o SubSeq(P, (l + 1) + 1, Len(P))
    BY <1>2, <1>3, <1>4 DEF WithoutAt
  <2> HIDE DEF l, P
  <2> QED  BY <1>4, <2>1, <2>2
<1>7. Points = P /\ Points' = PointsIn(leaf')
  BY PointsAre DEF Points, PointsOf, PointsIn, ByLeaf
<1>8. NoIterator' = NoIterator /\ it'.class \notin Forward /\ it'.class \notin Backward
  BY <1>2, AtIs DEF NoIterator, At, Forward, Backward
<1>9. PointsBefore(it)' = 0 /\ KeyOf(it)' = 0
  BY <1>2, <1>8 DEF PointsBefore, KeyOf
<1> HIDE DEF P
<1> QED  BY <1>2, <1>6, <1>7, <1>8, <1>9 DEF Cursor!Erase
LEMMA InitMaps ==
  ASSUME Init, NoBareLeaf, NoKeyInTwo
  PROVE  Cursor!Init
<1>1. MapInv /\ it = NoIterator /\ OrderInv
  BY InitMakesMap, InitMakesOrder
<1>2. /\ Points \in Seq(Key) /\ Len(Points) \in Nat
      /\ \A i, j \in 1..Len(Points) : i <= j => Points[i] <= Points[j]
  BY <1>1, PointsRise, PointsAre
<1>3. \A i \in 1..Len(Points) - 1 : Points[i] <= Points[i + 1]
  <2>1. \A i \in 1..Len(Points) - 1 :
          i \in 1..Len(Points) /\ i + 1 \in 1..Len(Points) /\ i <= i + 1
    BY <1>2
  <2> QED  BY <1>2, <2>1
<1>4. it.class \notin Forward /\ it.class \notin Backward
  BY <1>1, AtIs DEF NoIterator, Forward, Backward
<1>5. call = <<"none", 0>> /\ PointsBefore(it) = 0 /\ KeyOf(it) = 0
  BY <1>1 DEF Init, PointsBefore, KeyOf
<1> QED  BY <1>2, <1>3, <1>4, <1>5 DEF Cursor!Init, Cursor!End

NothingMoves ==
  /\ Points' = Points /\ call' = call /\ WayOf(it)' = WayOf(it)
  /\ PointsBefore(it)' = PointsBefore(it) /\ KeyOf(it)' = KeyOf(it)

LEMMA NextMaps ==
  ASSUME IteratorsInv, NoEdgeConverted, [Next]_vars
  PROVE  Cursor!Next \/ NothingMoves
<1>1. MapInv /\ ItHeld /\ OrderInv
  BY DEF IteratorsInv
<1>2. CASE Edge \/ ConstEdge
  BY <1>1, <1>2, EdgeMaps DEF Cursor!Next
<1>3. CASE IteratorStep \/ ConstStep \/ ReverseStep \/ ConstReverseStep
  BY <1>1, <1>3, StepMaps DEF Cursor!Next
<1>4. CASE \E class \in DOMAIN From : Convert(class)
  BY <1>1, <1>4, ConvertMaps DEF Cursor!Next
<1>5. ASSUME NEW k \in Key,
             \/ Take("lower_bound", k, LowerBound(k))
             \/ Take("upper_bound", k, UpperBound(k))
             \/ Take("find", k, Find(k))
      PROVE  Cursor!Next
  BY <1>1, <1>5, LookupMaps DEF Cursor!Next
<1>6. ASSUME NEW k \in Key, Erase(k)
      PROVE  Cursor!Next
  BY <1>1, <1>6, EraseMaps DEF Cursor!Next
<1>7. CASE UNCHANGED vars
  <2>1. SameMap /\ it' = it /\ call' = call
    BY <1>7 DEF vars, SameMap
  <2> QED  BY <2>1, PlaceStays DEF NothingMoves
<1> QED  BY <1>2, <1>3, <1>4, <1>5, <1>6, <1>7 DEF Next

LEMMA NextKeepsInv ==
  ASSUME NoEdgeConverted, IteratorsInv, [Next]_vars
  PROVE  IteratorsInv'
<1>1. MapInv /\ ItHeld /\ ItPlaced /\ OrderInv
  BY DEF IteratorsInv, ItHeld, ItPlaced, Held
<1> QED  BY <1>1, NextKeepsMap, NextKeepsOrder DEF IteratorsInv, NoEdgeConverted

(* The iterators of CARMIMap are places in one sorted sequence: begin, end *)
(* and the lookups come to the right one, ++ and -- go to the next point of*)
(* the map over leaves and blocks without points, erase takes out the one  *)
(* point of its key, in none of the odd cases.                             *)
THEOREM IteratorsWalk ==
  ASSUME NoBareLeaf, NoKeyInTwo, NoEdgeConverted
  PROVE  Spec => Walks
<1>1. Init => IteratorsInv
  BY InitMakesMap, InitMakesOrder DEF IteratorsInv, ItHeld
<1>2. IteratorsInv /\ [Next]_vars => IteratorsInv'
  BY NextKeepsInv
<1>3. Init => Cursor!Init
  BY InitMaps
<1>4. IteratorsInv /\ [Next]_vars
        => [Cursor!Next]_<<Points, call,
                           IF it.class \in Forward THEN "forward"
                           ELSE IF it.class \in Backward THEN "reverse" ELSE "none",
                           PointsBefore(it), KeyOf(it)>>
  BY NextMaps DEF NothingMoves, WayOf
<1> QED  BY <1>1, <1>2, <1>3, <1>4, PTL DEF Spec, Walks, Cursor!Spec
=============================================================================
