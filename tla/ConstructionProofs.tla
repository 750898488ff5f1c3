------------------------- MODULE ConstructionProofs -------------------------
(***************************************************************************)
(* What the construction divides and stores it neither loses nor mixes up, *)
(* whatever the points, the keys expected, the costs and the bounds: every *)
(* call is about a range of the points there are, the way down leads each  *)
(* point, and each key that is expected, to the leaf that was made for it, *)
(* and the chain of the leaves leads through all points in order.          *)
(***************************************************************************)
EXTENDS Construction, NumberProofs

----------------------------------------------------------------------------
(* Sorted sequences.                                                       *)
Ordered(s) == s \in Seq(Key) /\ Rising(s)

LEMMA KeysAreInts == Key \subseteq Int /\ Seq(Key) \subseteq Seq(Int)
<1>1. Key \subseteq Int
  BY DataAssumption
<1>2. ASSUME NEW s \in Seq(Key)
      PROVE  s \in Seq(Int)
  <2>1. Len(s) \in Nat /\ s \in [1..Len(s) -> Key]
    OBVIOUS
  <2>2. s \in [1..Len(s) -> Int]
    BY <1>1, <2>1
  <2> QED  BY <2>1, <2>2
<1> QED  BY <1>1, <1>2

LEMMA SequenceIs ==
  ASSUME NEW S, NEW s \in Seq(S)
  PROVE  Len(s) \in Nat /\ DOMAIN s = 1..Len(s) /\ (\A i \in 1..Len(s) : s[i] \in S)
         /\ s = [i \in 1..Len(s) |-> s[i]]
OBVIOUS

LEMMA IsSequence ==
  ASSUME NEW S, NEW n \in Nat, NEW s, s = [i \in 1..n |-> s[i]], \A i \in 1..n : s[i] \in S
  PROVE  s \in Seq(S) /\ Len(s) = n
<1>1. s \in [1..n -> S]
  OBVIOUS
<1> QED  BY <1>1

(* A key is placed behind those that are not above it.                     *)
LEMMA PlacedIsOrdered ==
  ASSUME NEW s, Ordered(s), NEW k \in Key
  PROVE  Ordered(Placed(s, k)) /\ Len(Placed(s, k)) = Len(s) + 1
<1> DEFINE T == {i \in 1..Len(s) : s[i] <= k}
           m == NotAbove(s, k)
           p == Placed(s, k)
           n == Len(s)
<1>0. n \in Nat /\ k \in Int /\ (\A i \in 1..n : s[i] \in Key /\ s[i] \in Int)
      /\ \A i, j \in 1..n : i <= j => s[i] <= s[j]
  BY KeysAreInts, SequenceIs DEF Ordered, Rising
<1>1. m \in 0..n /\ \A i \in 1..n : s[i] <= k <=> i <= m
  <2>1. T \subseteq 1..n /\ \A i \in T : \A j \in 1..n : j < i => j \in T
    <3> SUFFICES ASSUME NEW i \in T, NEW j \in 1..n, j < i PROVE j \in T
      OBVIOUS
    <3>1. s[j] <= s[i] /\ s[i] <= k /\ s[i] \in Int /\ s[j] \in Int
      BY <1>0
    <3> QED  BY <1>0, <3>1
  <2> HIDE DEF T, n
  <2>2. Cardinality(T) \in 0..n /\ \A i \in 1..n : i \in T <=> i <= Cardinality(T)
    BY <1>0, <2>1, FirstOnes
  <2>3. m = Cardinality(T)
    BY DEF NotAbove, T
  <2> QED  BY <2>2, <2>3 DEF T, n
<1>2. p = [i \in 1..n + 1 |-> IF i <= m THEN s[i] ELSE IF i = m + 1 THEN k ELSE s[i - 1]]
  BY DEF Placed
<1> HIDE DEF m, p, n
<1>3. \A i \in 1..n + 1 : p[i] \in Key
  BY <1>0, <1>1, <1>2
<1>4. p \in Seq(Key) /\ Len(p) = n + 1
  <2>1. p = [i \in 1..n + 1 |-> p[i]]
    BY <1>2
  <2> QED  BY <1>0, <1>3, <2>1, IsSequence
<1>5. ASSUME NEW i \in 1..n + 1, NEW j \in 1..n + 1, i <= j
      PROVE  p[i] <= p[j]
  <2>1. CASE j <= m
    <3>1. i \in 1..n /\ j \in 1..n /\ i <= m /\ p[i] = s[i] /\ p[j] = s[j]
      BY <1>0, <1>1, <1>2, <1>5, <2>1
    <3> QED  BY <1>0, <1>5, <3>1
  <2>2. CASE i <= m /\ j = m + 1
    <3>1. i \in 1..n /\ p[i] = s[i] /\ p[j] = k
      BY <1>0, <1>1, <1>2, <2>2
    <3> QED  BY <1>1, <2>2, <3>1
  <2>3. CASE i <= m /\ j > m + 1
    <3>1. i \in 1..n /\ j - 1 \in 1..n /\ i <= j - 1 /\ p[i] = s[i] /\ p[j] = s[j - 1]
      BY <1>0, <1>1, <1>2, <2>3
    <3> QED  BY <1>0, <3>1
  <2>4. CASE i = m + 1 /\ j > m + 1
    <3>1. j - 1 \in 1..n /\ ~ (j - 1 <= m) /\ p[i] = k /\ p[j] = s[j - 1]
      BY <1>0, <1>1, <1>2, <2>4
    <3>2. ~ (s[j - 1] <= k) /\ s[j - 1] \in Int
      BY <1>0, <1>1, <3>1
    <3> QED  BY <1>0, <3>1, <3>2
  <2>5. CASE i > m + 1
    <3>1. i - 1 \in 1..n /\ j - 1 \in 1..n /\ i - 1 <= j - 1 /\ p[i] = s[i - 1] /\ p[j] = s[j - 1]
      BY <1>0, <1>1, <1>2, <1>5, <2>5
    <3> QED  BY <1>0, <3>1
  <2>6. CASE i = m + 1 /\ j = m + 1
    <3>1. p[i] = k /\ p[j] = k
      BY <1>0, <1>1, <1>2, <2>6
    <3> QED  BY <1>0, <3>1
  <2> QED  BY <1>0, <1>1, <1>5, <2>1, <2>2, <2>3, <2>4, <2>5, <2>6
<1>6. Rising(p)
  BY <1>4, <1>5 DEF Rising
<1> QED  BY <1>4, <1>6 DEF p, n, Ordered

LEMMA PreprocessIsOrdered ==
  ASSUME NEW points \in Seq(Key)
  PROVE  Ordered(PreprocessInput(points)) /\ Len(PreprocessInput(points)) = Len(points)
<1> DEFINE N == Len(points)
           V == {s \in Seq(Key) : Rising(s)}
           g == [x \in Nat \X V |-> IF x[1] \in 1..N THEN Placed(x[2], points[x[1]]) ELSE x[2]]
           Is(h) == h = [n \in 0..N |-> IF n = 0 THEN <<>> ELSE Placed(h[n - 1], points[n])]
           c == CHOOSE h : Is(h)
<1>0. N \in Nat /\ \A n \in 1..N : points[n] \in Key
  BY SequenceIs
<1>1. <<>> \in V
  BY DEF Rising
<1>2. ASSUME NEW n \in Nat, NEW s \in V
      PROVE  (n \in 1..N => Placed(s, points[n]) \in V) /\ g[<<n, s>>] \in V
             /\ (n \in 1..N => g[<<n, s>>] = Placed(s, points[n]))
  <2>1. n \in 1..N => Placed(s, points[n]) \in V
    <3>1. Ordered(s)
      BY DEF Ordered
    <3> QED  BY <1>0, <3>1, PlacedIsOrdered DEF Ordered
  <2>2. g[<<n, s>>] = IF n \in 1..N THEN Placed(s, points[n]) ELSE s
    OBVIOUS
  <2> QED  BY <2>1, <2>2
<1>3. g \in [Nat \X V -> V]
  <2>1. \A x \in Nat \X V : g[x] \in V
    <3> SUFFICES ASSUME NEW x \in Nat \X V PROVE g[x] \in V
      OBVIOUS
    <3>1. PICK n \in Nat, s \in V : x = <<n, s>>
      OBVIOUS
    <3> HIDE DEF g
    <3> QED  BY <1>2, <3>1
  <2>2. DOMAIN g = Nat \X V /\ g = [x \in Nat \X V |-> g[x]]
    OBVIOUS
  <2> HIDE DEF g, V
  <2> QED  BY <2>1, <2>2
<1> HIDE DEF g, V
<1>4. \E h : Chain(h, N, V, <<>>, g)
  BY <1>0, <1>1, <1>3, ChainsExist
<1>5. PICK h : Chain(h, N, V, <<>>, g)
  BY <1>4
<1>6. Is(h)
  <2>1. h \in [0..N -> V] /\ h[0] = <<>> /\ \A k \in 0..N - 1 : h[k + 1] = g[<<k + 1, h[k]>>]
    BY <1>5 DEF Chain
  <2>2. ASSUME NEW n \in 1..N
        PROVE  h[n] = Placed(h[n - 1], points[n])
    <3>1. n - 1 \in 0..N - 1 /\ (n - 1) + 1 = n /\ n \in Nat /\ h[n - 1] \in V
      BY <1>0, <2>1
    <3>2. h[n] = g[<<n, h[n - 1]>>]
      BY <2>1, <3>1
    <3> QED  BY <1>2, <3>1, <3>2
  <2>3. \A n \in 0..N : h[n] = IF n = 0 THEN <<>> ELSE Placed(h[n - 1], points[n])
    BY <1>0, <2>1, <2>2
  <2> QED  BY <2>1, <2>3
<1>7. Is(c)
  <2> HIDE DEF Is
  <2> QED  BY <1>6
<1>8. PreprocessInput(points) = c[N]
  BY DEF PreprocessInput
<1> HIDE DEF c, N
<1>9. c[0] = <<>> /\ \A n \in 1..N : c[n] = Placed(c[n - 1], points[n])
  BY <1>0, <1>7
<1> DEFINE T == {n \in Nat : n <= N => Ordered(c[n]) /\ Len(c[n]) = n}
<1>10. 0 \in T
  <2>1. Ordered(<<>>)
    BY DEF Ordered, Rising
  <2> QED  BY <1>9, <2>1
<1>11. ASSUME NEW n \in Nat, n \in T
       PROVE  n + 1 \in T
  <2> SUFFICES ASSUME n + 1 <= N PROVE Ordered(c[n + 1]) /\ Len(c[n + 1]) = n + 1
    OBVIOUS
  <2>1. n + 1 \in 1..N /\ (n + 1) - 1 = n /\ Ordered(c[n]) /\ Len(c[n]) = n
    BY <1>0, <1>11
  <2> QED  BY <1>0, <1>9, <2>1, PlacedIsOrdered
<1>12. Nat \subseteq T
  <2> HIDE DEF T
  <2> QED  BY <1>10, <1>11, Induction
<1> QED  BY <1>0, <1>8, <1>12 DEF N

----------------------------------------------------------------------------
(* What the construction works on.                                         *)
IsMap(f, c) ==
  /\ f \in [Key -> 0..c - 1]
  /\ \A j, k \in Key : j <= k => f[j] <= f[k]

Data ==
  /\ Ordered(initDataset) /\ initDataset # <<>> /\ Ordered(insertQuery)
  /\ IsMap(root, RootChildren)

Pairs(keys) == {p \in [left : Nat, size : Nat] : IsPair(p, keys)}
Ranges == [init : Pairs(initDataset), insert : Pairs(insertQuery)]

LEMMA PairIs ==
  ASSUME NEW keys, Ordered(keys), NEW p \in Pairs(keys)
  PROVE  /\ p \in [left : Nat, size : Nat] /\ p.left \in Nat /\ p.size \in Nat
         /\ \A i \in 1..p.size : p.left + i - 1 \in 1..Len(keys)
         /\ Positions(p) \subseteq 1..Len(keys)
         /\ \A i \in 1..p.size : keys[p.left + i - 1] \in Int /\ keys[p.left + i - 1] \in Key
         /\ \A i, j \in 1..p.size : i <= j => keys[p.left + i - 1] <= keys[p.left + j - 1]
<1>1. p \in [left : Nat, size : Nat] /\ p.left \in Nat /\ p.size \in Nat
  BY DEF Pairs
<1>2. Len(keys) \in Nat /\ DOMAIN keys = 1..Len(keys) /\ \A i \in 1..Len(keys) : keys[i] \in Key
  BY SequenceIs DEF Ordered
<1>3. p.size = 0 \/ /\ p.left \in 1..Len(keys)
                    /\ p.left + p.size - 1 \in 1..Len(keys)
  BY <1>2 DEF Pairs, IsPair, emptyRange, Pair
<1>4. \A i \in 1..p.size : p.left + i - 1 \in 1..Len(keys)
  BY <1>1, <1>2, <1>3
<1>5. Positions(p) \subseteq 1..Len(keys)
  BY <1>1, <1>2, <1>3 DEF Positions
<1>6. \A i \in 1..p.size : keys[p.left + i - 1] \in Int /\ keys[p.left + i - 1] \in Key
  BY <1>2, <1>4, KeysAreInts
<1>7. ASSUME NEW i \in 1..p.size, NEW j \in 1..p.size, i <= j
      PROVE  keys[p.left + i - 1] <= keys[p.left + j - 1]
  <2>1. p.left + i - 1 \in 1..Len(keys) /\ p.left + j - 1 \in 1..Len(keys)
        /\ p.left + i - 1 <= p.left + j - 1
    BY <1>1, <1>4, <1>7
  <2> QED  BY <2>1 DEF Ordered, Rising
<1> QED  BY <1>1, <1>4, <1>5, <1>6, <1>7

LEMMA RangeIs ==
  ASSUME Data, NEW range \in Ranges
  PROVE  /\ range.init \in Pairs(initDataset) /\ range.insert \in Pairs(insertQuery)
         /\ range.init.size \in Nat /\ range.insert.size \in Nat
         /\ Points(range) = range.init.size + range.insert.size /\ Points(range) \in Nat
         /\ \A i \in 1..range.init.size : Own(range, i) \in Int /\ Own(range, i) \in Key
         /\ \A i, j \in 1..range.init.size : i <= j => Own(range, i) <= Own(range, j)
         /\ \A i \in 1..range.insert.size : Expected(range, i) \in Int /\ Expected(range, i) \in Key
         /\ \A i, j \in 1..range.insert.size : i <= j => Expected(range, i) <= Expected(range, j)
<1>1. range.init \in Pairs(initDataset) /\ range.insert \in Pairs(insertQuery)
  BY DEF Ranges
<1>2. Ordered(initDataset) /\ Ordered(insertQuery)
  BY DEF Data
<1>3. /\ range.init.size \in Nat
      /\ \A i \in 1..range.init.size :
           /\ initDataset[range.init.left + i - 1] \in Int
           /\ initDataset[range.init.left + i - 1] \in Key
      /\ \A i, j \in 1..range.init.size :
           i <= j => initDataset[range.init.left + i - 1] <= initDataset[range.init.left + j - 1]
  BY <1>1, <1>2, PairIs
<1>4. /\ range.insert.size \in Nat
      /\ \A i \in 1..range.insert.size :
           /\ insertQuery[range.insert.left + i - 1] \in Int
           /\ insertQuery[range.insert.left + i - 1] \in Key
      /\ \A i, j \in 1..range.insert.size :
           i <= j => insertQuery[range.insert.left + i - 1] <= insertQuery[range.insert.left + j - 1]
  BY <1>1, <1>2, PairIs
<1> QED  BY <1>1, <1>3, <1>4 DEF Own, Expected, Points

(* What is taken of the points and of those expected.                      *)
Takes(range, t) ==
  /\ t[0] = 0
  /\ \A n \in 1..Points(range) :
       \/ OwnIsNext(range, t[n - 1], n - 1 - t[n - 1]) /\ t[n] = t[n - 1] + 1
       \/ ~ OwnIsNext(range, t[n - 1], n - 1 - t[n - 1]) /\ t[n] = t[n - 1]

LEMMA TakenIs ==
  ASSUME Data, NEW range \in Ranges
  PROVE  /\ Takes(range, Taken(range))
         /\ \A n \in 0..Points(range) : /\ Taken(range)[n] \in 0..range.init.size
                                        /\ n - Taken(range)[n] \in 0..range.insert.size
<1> DEFINE N == Points(range)
           a == range.init.size
           b == range.insert.size
           Next1(n, i) == IF OwnIsNext(range, i, n - 1 - i) THEN i + 1 ELSE i
           g == [x \in Nat \X Int |-> Next1(x[1], x[2])]
           Is(h) == h = [n \in 0..N |->
                           IF n = 0 THEN 0
                           ELSE IF OwnIsNext(range, h[n - 1], n - 1 - h[n - 1])
                                THEN h[n - 1] + 1 ELSE h[n - 1]]
           t == CHOOSE h : Is(h)
<1>0. N \in Nat /\ a \in Nat /\ b \in Nat /\ N = a + b
  BY RangeIs
<1>1. g \in [Nat \X Int -> Int] /\ \A n \in Nat, i \in Int : g[<<n, i>>] = Next1(n, i)
  OBVIOUS
<1> HIDE DEF g
<1>2. \E h : Chain(h, N, Int, 0, g)
  <2> HIDE DEF N, a, b, Next1
  <2>1. 0 \in Int
    OBVIOUS
  <2> QED  BY <1>0, <1>1, <2>1, ChainsExist
<1>3. PICK h : Chain(h, N, Int, 0, g)
  BY <1>2
<1>4. Is(h)
  <2>1. h \in [0..N -> Int] /\ h[0] = 0 /\ \A k \in 0..N - 1 : h[k + 1] = g[<<k + 1, h[k]>>]
    BY <1>3 DEF Chain
  <2>2. ASSUME NEW n \in 1..N
        PROVE  h[n] = Next1(n, h[n - 1])
    <3>1. n - 1 \in 0..N - 1 /\ (n - 1) + 1 = n /\ n \in Nat /\ h[n - 1] \in Int
      BY <1>0, <2>1
    <3>2. h[n] = g[<<n, h[n - 1]>>]
      BY <2>1, <3>1
    <3> HIDE DEF Next1
    <3> QED  BY <1>1, <3>1, <3>2
  <2>3. \A n \in 0..N : h[n] = IF n = 0 THEN 0 ELSE Next1(n, h[n - 1])
    BY <1>0, <2>1, <2>2
  <2> QED  BY <2>1, <2>3
<1>5. Is(t)
  <2> HIDE DEF Is
  <2> QED  BY <1>4
<1>6. Taken(range) = t
  BY DEF Taken
<1> HIDE DEF t, N
<1>7. t[0] = 0 /\ \A n \in 1..N : t[n] = Next1(n, t[n - 1])
  <2>1. \A n \in 0..N : t[n] = IF n = 0 THEN 0 ELSE Next1(n, t[n - 1])
    BY <1>5
  <2> HIDE DEF Next1, Is
  <2>2. \A n \in 1..N : n \in 0..N /\ n # 0
    BY <1>0
  <2>3. 0 \in 0..N
    BY <1>0
  <2> QED  BY <2>1, <2>2, <2>3
<1>8. Takes(range, t)
  BY <1>7 DEF Takes, N
<1> HIDE DEF Next1, Is
<1> DEFINE T == {n \in Nat : n <= N => t[n] \in 0..a /\ n - t[n] \in 0..b}
<1>9. 0 \in T
  BY <1>0, <1>7
<1>10. ASSUME NEW n \in Nat, n \in T
       PROVE  n + 1 \in T
  <2> SUFFICES ASSUME n + 1 <= N PROVE t[n + 1] \in 0..a /\ (n + 1) - t[n + 1] \in 0..b
    OBVIOUS
  <2>1. n + 1 \in 1..N /\ (n + 1) - 1 = n /\ t[n] \in 0..a /\ n - t[n] \in 0..b
    BY <1>0, <1>10
  <2>2. CASE OwnIsNext(range, t[n], n - t[n]) /\ t[n + 1] = t[n] + 1
    <3>1. t[n] < a
      BY <2>2 DEF OwnIsNext
    <3> QED  BY <1>0, <2>1, <2>2, <3>1
  <2>3. CASE ~ OwnIsNext(range, t[n], n - t[n]) /\ t[n + 1] = t[n]
    <3>1. ~ (t[n] < a) \/ n - t[n] < b
      BY <2>3 DEF OwnIsNext
    <3> HIDE DEF a, b
    <3> QED  BY <1>0, <2>1, <2>3, <3>1
  <2>4. \/ OwnIsNext(range, t[(n + 1) - 1], (n + 1) - 1 - t[(n + 1) - 1]) /\ t[n + 1] = t[(n + 1) - 1] + 1
        \/ ~ OwnIsNext(range, t[(n + 1) - 1], (n + 1) - 1 - t[(n + 1) - 1]) /\ t[n + 1] = t[(n + 1) - 1]
    BY <1>8, <2>1 DEF Takes, N
  <2> QED  BY <2>1, <2>2, <2>3, <2>4
<1>11. Nat \subseteq T
  <2> HIDE DEF T
  <2> QED  BY <1>9, <1>10, Induction
<1> QED  BY <1>0, <1>6, <1>8, <1>11 DEF N

(* The n-th of both is a point, or one that is expected.                   *)
MergesOwn(range, t, n) ==
  /\ OwnIsNext(range, t[n - 1], n - 1 - t[n - 1]) /\ t[n] = t[n - 1] + 1
  /\ t[n] \in 1..range.init.size /\ n - t[n] \in 0..range.insert.size
  /\ Merged(range)[n] = [key |-> Own(range, t[n]), expected |-> FALSE]
MergesExpected(range, t, n) ==
  /\ ~ OwnIsNext(range, t[n - 1], n - 1 - t[n - 1]) /\ t[n] = t[n - 1]
  /\ t[n] \in 0..range.init.size /\ n - t[n] \in 1..range.insert.size
  /\ Merged(range)[n] = [key |-> Expected(range, n - t[n]), expected |-> TRUE]

LEMMA MergedIs ==
  ASSUME Data, NEW range \in Ranges
  PROVE  /\ Merged(range) = [n \in 1..Points(range) |-> Merged(range)[n]]
         /\ \A n \in 1..Points(range) :
              MergesOwn(range, Taken(range), n) \/ MergesExpected(range, Taken(range), n)
<1> DEFINE t == Taken(range)
           N == Points(range)
           a == range.init.size
           b == range.insert.size
           M(n) == IF t[n] > t[n - 1] THEN [key |-> Own(range, t[n]), expected |-> FALSE]
                   ELSE [key |-> Expected(range, n - t[n]), expected |-> TRUE]
<1>1. Merged(range) = [n \in 1..N |-> M(n)]
  BY DEF Merged
<1>2. /\ Takes(range, t) /\ N \in Nat /\ a \in Nat /\ b \in Nat
      /\ \A n \in 0..N : t[n] \in 0..a /\ n - t[n] \in 0..b
  BY RangeIs, TakenIs
<1> HIDE DEF t
<1>3. ASSUME NEW n \in 1..N
      PROVE  MergesOwn(range, t, n) \/ MergesExpected(range, t, n)
  <2>1. n - 1 \in 0..N /\ n \in 0..N /\ t[n - 1] \in 0..a /\ t[n] \in 0..a
        /\ (n - 1) - t[n - 1] \in 0..b /\ n - t[n] \in 0..b
    BY <1>2
  <2>2. Merged(range)[n] = M(n)
    BY <1>1
  <2>3. CASE OwnIsNext(range, t[n - 1], n - 1 - t[n - 1]) /\ t[n] = t[n - 1] + 1
    <3>1. t[n] > t[n - 1] /\ t[n] \in 1..a
      BY <2>1, <2>3
    <3> QED  BY <2>1, <2>2, <2>3, <3>1 DEF MergesOwn
  <2>4. CASE ~ OwnIsNext(range, t[n - 1], n - 1 - t[n - 1]) /\ t[n] = t[n - 1]
    <3>1. ~ (t[n] > t[n - 1]) /\ n - t[n] \in 1..b
      BY <1>2, <2>1, <2>4
    <3> QED  BY <2>1, <2>2, <2>4, <3>1 DEF MergesExpected
  <2> QED  BY <1>2, <2>3, <2>4 DEF Takes
<1> QED  BY <1>1, <1>3 DEF t

LEMMA KeysOfIsOrdered ==
  ASSUME Data, NEW range \in Ranges
  PROVE  Ordered(KeysOf(range)) /\ Len(KeysOf(range)) = Points(range)
<1> DEFINE t == Taken(range)
           N == Points(range)
           a == range.init.size
           b == range.insert.size
           K == KeysOf(range)
           A(n) == /\ OwnIsNext(range, t[n - 1], n - 1 - t[n - 1]) /\ t[n] = t[n - 1] + 1
                   /\ t[n] \in 1..a /\ n - t[n] \in 0..b /\ K[n] = Own(range, t[n])
           B(n) == /\ ~ OwnIsNext(range, t[n - 1], n - 1 - t[n - 1]) /\ t[n] = t[n - 1]
                   /\ t[n] \in 0..a /\ n - t[n] \in 1..b /\ K[n] = Expected(range, n - t[n])
<1>1. /\ a \in Nat /\ b \in Nat /\ N \in Nat
      /\ \A i \in 1..a : Own(range, i) \in Int /\ Own(range, i) \in Key
      /\ \A i, j \in 1..a : i <= j => Own(range, i) <= Own(range, j)
      /\ \A i \in 1..b : Expected(range, i) \in Int /\ Expected(range, i) \in Key
      /\ \A i, j \in 1..b : i <= j => Expected(range, i) <= Expected(range, j)
  BY RangeIs
<1>2. K = [n \in 1..N |-> Merged(range)[n].key]
  <2>1. DOMAIN Merged(range) = 1..N
    BY MergedIs
  <2> QED  BY <2>1 DEF KeysOf
<1>3. ASSUME NEW n \in 1..N
      PROVE  A(n) \/ B(n)
  <2>1. K[n] = Merged(range)[n].key
    BY <1>2
  <2>2. MergesOwn(range, t, n) \/ MergesExpected(range, t, n)
    BY MergedIs
  <2> HIDE DEF K, t
  <2> QED  BY <2>1, <2>2 DEF MergesOwn, MergesExpected
<1>0. \A n \in 0..N : t[n] \in 0..a
  BY TakenIs
<1> HIDE DEF t, N, K, a, b
<1>4. \A n \in 1..N : K[n] \in Key
  BY <1>1, <1>3
<1>5. K \in Seq(Key) /\ Len(K) = N
  <2>1. K = [n \in 1..N |-> K[n]]
    BY <1>2
  <2> QED  BY <1>1, <1>4, <2>1, IsSequence
<1>6. ASSUME NEW n \in 1..N - 1
      PROVE  K[n] <= K[n + 1]
  <2>1. n \in 1..N /\ n + 1 \in 1..N /\ (n + 1) - 1 = n /\ t[n - 1] \in 0..a /\ t[n] \in 0..a
        /\ t[n + 1] \in 0..a
    BY <1>0, <1>1
  <2>2. (A(n) \/ B(n)) /\ (A(n + 1) \/ B(n + 1))
    BY <1>3, <2>1
  <2>3. CASE A(n) /\ A(n + 1)
    BY <1>1, <2>1, <2>3
  <2>4. CASE A(n) /\ B(n + 1)
    <3>1. t[n] = t[n - 1] + 1 /\ t[n + 1] = t[n] /\ t[n] \in 1..a /\ n + 1 - t[n] \in 1..b
      BY <2>1, <2>4
    <3>2. n - 1 - t[n - 1] < b /\ t[n - 1] + 1 = t[n] /\ n - 1 - t[n - 1] + 1 = n + 1 - t[n + 1]
          /\ t[n - 1] = t[n] - 1
      BY <1>1, <2>1, <3>1
    <3>3. Own(range, t[n - 1] + 1) <= Expected(range, n - 1 - t[n - 1] + 1)
      BY <2>4, <3>2 DEF OwnIsNext, b
    <3> QED  BY <2>4, <3>2, <3>3
  <2>5. CASE B(n) /\ A(n + 1)
    <3>1. t[n] = t[n - 1] /\ t[n + 1] = t[n] + 1 /\ t[n + 1] \in 1..a /\ n - t[n] \in 1..b
          /\ t[n] \in 0..a
      BY <2>1, <2>5
    <3>2. t[n - 1] < a /\ (n - 1) - t[n - 1] + 1 = n - t[n]
      BY <1>1, <2>1, <3>1
    <3>3. ~ (Own(range, t[n - 1] + 1) <= Expected(range, n - 1 - t[n - 1] + 1))
      BY <2>5, <3>2 DEF OwnIsNext, a
    <3>4. Own(range, t[n - 1] + 1) \in Int /\ Expected(range, n - t[n]) \in Int
      BY <1>1, <3>1
    <3> QED  BY <2>5, <3>1, <3>2, <3>3, <3>4
  <2>6. CASE B(n) /\ B(n + 1)
    BY <1>1, <2>1, <2>6
  <2> QED  BY <2>2, <2>3, <2>4, <2>5, <2>6
<1>7. Rising(K)
  <2>1. K \in Seq(Int)
    BY <1>5, KeysAreInts
  <2> QED  BY <1>5, <1>6, <2>1, AdjacentRise
<1> QED  BY <1>5, <1>7 DEF Ordered, K, N

----------------------------------------------------------------------------
(* The inner nodes that the construction may choose: whatever they are     *)
(* trained with, they map the keys to their children in order.             *)
ChildMap(m) == [k \in Key |-> ChildFor(m, k)]

Fits == {Fit(t, s, c, cut) : t \in Type, s \in Seq(Key), c \in Nat, cut \in Nat \X Nat}

Models == {m \in Fits : /\ m.type \in Type
                        /\ m.children \in Nat \ {0}
                        /\ IsMap(ChildMap(m), m.children)}

LEMMA CutIs ==
  ASSUME NEW ks, Len(ks) \in Nat
  PROVE  LET cut == CHOOSE cut \in Cuts(ks) : TRUE
         IN cut \in Cuts(ks) /\ CutsFor(ks, cut) /\ cut \in Nat \X Nat
<1> DEFINE n    == Len(ks)
           some == {cut \in (1..n - 3) \X (3..n - 2) :
                      /\ cut[1] < cut[2]
                      /\ ks[1] < ks[cut[1] + 1]
                      /\ ks[cut[1] + 1] < ks[cut[2] + 1]
                      /\ SegmentLine(ks, 1, cut[2], n - 1).slope > 0}
<1>1. Cuts(ks) = IF some = {} THEN {<<0, 0>>} ELSE some
  BY DEF Cuts
<1>2. some \subseteq Nat \X Nat
  OBVIOUS
<1>3. <<0, 0>> \in Nat \X Nat
  OBVIOUS
<1> HIDE DEF some
<1>4. Cuts(ks) # {} /\ Cuts(ks) \subseteq Nat \X Nat
  BY <1>1, <1>2, <1>3
<1> QED  BY <1>4, CutsAre

LEMMA FitIsModel ==
  ASSUME NEW t \in Type, NEW s, Ordered(s), Len(s) > 0, NEW c \in Nat, c >= 2,
         NEW cut \in Nat \X Nat, CutsFor(s, cut)
  PROVE  Fit(t, s, c, cut) \in Models
<1> DEFINE m == Fit(t, s, c, cut)
<1>1. Trainable(s) /\ s \in Seq(Key)
  BY KeysAreInts DEF Trainable, Ordered
<1>2. t \in {"lr", "plr", "his", "bs"}
  BY DEF Type
<1>3. Fitted(m, s)
  BY <1>1, <1>2, LRIsSound, PLRIsSound, HistogramIsSound, BSIsSound
<1>4. m.children \in Nat \ {0}
  <2>1. CASE t = "bs"
    <3>1. BSChildren(c) \in Nat /\ BSChildren(c) >= 2
      BY BSChildrenIs
    <3>2. m.children = BSChildren(c)
      BY <2>1 DEF Fit
    <3>3. BSChildren(c) # 0
      BY <3>1
    <3> QED  BY <3>1, <3>2, <3>3
  <2>2. CASE t # "bs"
    <3>1. m.children = c
      BY <1>2, <2>2 DEF Fit
    <3> QED  BY <3>1
  <2> QED  BY <2>1, <2>2
<1>5. m \in Fits
  BY <1>1 DEF Fits
<1> HIDE DEF m
<1>6. IsMap(ChildMap(m), m.children)
  <2>1. \A k \in Key : k \in Int
    BY KeysAreInts
  <2>2. /\ \A k \in Int : ChildFor(m, k) \in 0..m.children - 1
        /\ \A j, k \in Int : j <= k => ChildFor(m, j) <= ChildFor(m, k)
    BY <1>3 DEF Fitted
  <2> QED  BY <2>1, <2>2 DEF IsMap, ChildMap
<1>7. m.type \in Type
  BY <1>3 DEF Fitted
<1> QED  BY <1>4, <1>5, <1>6, <1>7 DEF Models, m

LEMMA InnerNodeIsModel ==
  ASSUME Data, NEW range \in Ranges, Points(range) > 0, NEW t \in Type,
         NEW c \in Nat, c >= 2
  PROVE  InnerNode(range, t, c) \in Models
<1> DEFINE s   == KeysOf(range)
           cut == CHOOSE cut \in Cuts(s) : TRUE
<1>1. Ordered(s) /\ Len(s) > 0 /\ Len(s) \in Nat
  BY KeysOfIsOrdered, RangeIs
<1>2. InnerNode(range, t, c) = Fit(t, s, c, cut)
  BY DEF InnerNode
<1> HIDE DEF s
<1>3. CutsFor(s, cut) /\ cut \in Nat \X Nat
  BY <1>1, CutIs
<1> HIDE DEF cut
<1> QED  BY <1>1, <1>2, <1>3, FitIsModel

----------------------------------------------------------------------------
(* How the points of a range are divided.                                  *)
LEMMA PartIsPair ==
  ASSUME NEW keys, Ordered(keys), NEW p \in Pairs(keys), NEW f, NEW c
  PROVE  PartOf(f, keys, p, c) \in Pairs(keys)
<1> DEFINE own == {i \in Positions(p) : f[keys[i]] = c}
           n   == Len(keys)
<1>1. PartOf(f, keys, p, c) =
        IF own = {} THEN emptyRange ELSE Pair(Min(own), Cardinality(own))
  BY DEF PartOf, FirstOf
<1>2. n \in Nat /\ DOMAIN keys = 1..n /\ Positions(p) \subseteq 1..n
  BY SequenceIs, PairIs DEF Ordered
<1>3. own \subseteq 1..n
  BY <1>2
<1> HIDE DEF own, n
<1>4. CASE own = {}
  BY <1>1, <1>4 DEF Pairs, IsPair, emptyRange, Pair
<1>5. CASE own # {}
  <2> DEFINE l == Min(own)
             m == Cardinality(own)
  <2>1. l \in own /\ l \in 1..n /\ \A x \in own : l <= x
    <3>1. own \subseteq Nat
      BY <1>2, <1>3
    <3> QED  BY <1>3, <1>5, <3>1, MinOfNumbers
  <2> HIDE DEF l
  <2>2. own \subseteq l..n /\ IsFiniteSet(l..n) /\ Cardinality(l..n) = n - l + 1
    <3>1. own \subseteq l..n
      BY <1>2, <1>3, <2>1
    <3>2. IsFiniteSet(l..n) /\ Cardinality(l..n) = n - l + 1
      <4>1. l \in Int /\ n \in Int /\ ~ (l > n)
        BY <1>2, <2>1
      <4> QED  BY <4>1, FS_Interval
    <3> QED  BY <3>1, <3>2
  <2>3. IsFiniteSet(own) /\ m \in Nat /\ m <= n - l + 1
    <3>1. IsFiniteSet(own) /\ Cardinality(own) <= Cardinality(l..n)
      BY <2>2, FS_Subset
    <3>2. m \in Nat
      BY <3>1, FS_CardinalityType
    <3> QED  BY <2>2, <3>1, <3>2
  <2>4. m # 0
    BY <1>5, <2>3, FS_EmptySet
  <2> HIDE DEF m
  <2>5. PartOf(f, keys, p, c) = [left |-> l, size |-> m]
    BY <1>1, <1>5 DEF Pair, l, m
  <2>6. l \in DOMAIN keys /\ m > 0 /\ l + m - 1 \in DOMAIN keys
    BY <1>2, <2>1, <2>3, <2>4
  <2> QED  BY <1>2, <2>1, <2>3, <2>5, <2>6 DEF Pairs, IsPair
<1> QED  BY <1>4, <1>5

LEMMA DividedInRanges ==
  ASSUME Data, NEW range \in Ranges, NEW f, NEW c, NEW i \in 0..c - 1
  PROVE  /\ DOMAIN Divide(f, range, c) = 0..c - 1
         /\ Divide(f, range, c)[i] \in Ranges
         /\ Divide(f, range, c)[i].init = PartOf(f, initDataset, range.init, i)
         /\ Divide(f, range, c)[i].insert = PartOf(f, insertQuery, range.insert, i)
<1>1. /\ range.init \in Pairs(initDataset) /\ range.insert \in Pairs(insertQuery)
      /\ Ordered(initDataset) /\ Ordered(insertQuery)
  BY DEF Data, Ranges
<1>2. /\ PartOf(f, initDataset, range.init, i) \in Pairs(initDataset)
      /\ PartOf(f, insertQuery, range.insert, i) \in Pairs(insertQuery)
  BY <1>1, PartIsPair
<1>3. Divide(f, range, c)[i] = [init   |-> PartOf(f, initDataset, range.init, i),
                                insert |-> PartOf(f, insertQuery, range.insert, i)]
  BY DEF Divide
<1>4. DOMAIN Divide(f, range, c) = 0..c - 1
  BY DEF Divide
<1> QED  BY <1>2, <1>3, <1>4 DEF Ranges

(* How many points go to the children before i.                            *)
ChildAt(f, keys, p) == [j \in 1..p.size |-> f[keys[p.left + j - 1]]]
Before(f, keys, p, i) == HowManyLess(ChildAt(f, keys, p), p.size, i)

LEMMA ChildrenAt ==
  ASSUME NEW keys, Ordered(keys), NEW p \in Pairs(keys), NEW c \in Nat, NEW f, IsMap(f, c)
  PROVE  /\ p.size \in Nat /\ p.left \in Nat
         /\ \A j \in 1..p.size : ChildAt(f, keys, p)[j] \in 0..c - 1
         /\ \A i, j \in 1..p.size : i <= j => ChildAt(f, keys, p)[i] <= ChildAt(f, keys, p)[j]
<1>1. /\ p.size \in Nat /\ p.left \in Nat
      /\ \A i \in 1..p.size : keys[p.left + i - 1] \in Key
      /\ \A i, j \in 1..p.size : i <= j => keys[p.left + i - 1] <= keys[p.left + j - 1]
  BY PairIs
<1>2. \A k \in Key : f[k] \in 0..c - 1
  BY DEF IsMap
<1>3. \A j \in 1..p.size : ChildAt(f, keys, p)[j] = f[keys[p.left + j - 1]]
  BY DEF ChildAt
<1> QED  BY <1>1, <1>2, <1>3 DEF IsMap

LEMMA PartIs ==
  ASSUME NEW keys, Ordered(keys), NEW p \in Pairs(keys), NEW c \in Nat, NEW f, IsMap(f, c),
         NEW i \in 0..c - 1
  PROVE  /\ Before(f, keys, p, i) \in Nat /\ PartOf(f, keys, p, i).size \in Nat
         /\ Before(f, keys, p, i) + PartOf(f, keys, p, i).size <= p.size
         /\ PartOf(f, keys, p, i).size > 0 =>
              PartOf(f, keys, p, i).left = p.left + Before(f, keys, p, i)
         /\ \A j \in 1..p.size :
              /\ ChildAt(f, keys, p)[j] < i <=> j <= Before(f, keys, p, i)
              /\ ChildAt(f, keys, p)[j] = i <=>
                   /\ Before(f, keys, p, i) < j
                   /\ j <= Before(f, keys, p, i) + PartOf(f, keys, p, i).size
<1> DEFINE F == ChildAt(f, keys, p)
           n == p.size
           l == p.left
           L == HowManyLess(F, n, i)
           H == HowMany(F, n, i)
           own == {x \in Positions(p) : f[keys[x]] = i}
<1>1. /\ n \in Nat /\ l \in Nat /\ \A j \in 1..n : F[j] \in 0..c - 1
      /\ \A j, k \in 1..n : j <= k => F[j] <= F[k]
  BY ChildrenAt
<1>2. \A j \in 1..n : F[j] = f[keys[l + j - 1]]
  BY DEF ChildAt
<1>3. Positions(p) = l..l + n - 1
  BY DEF Positions
<1> HIDE DEF F, n, l
<1>4. /\ L \in Nat /\ H \in Nat /\ L + H <= n
      /\ \A j \in 1..n : /\ F[j] < i <=> j <= L
                         /\ F[j] = i <=> L < j /\ j <= L + H
  <2>1. \A j \in 1..n : F[j] \in Int
    BY <1>1
  <2>2. i \in Int
    OBVIOUS
  <2> QED  BY <1>1, <2>1, <2>2, LessThenEqual
<1> HIDE DEF L, H
<1>5. own = l + L..l + L + H - 1
  <2>1. ASSUME NEW x \in l..l + n - 1
        PROVE  f[keys[x]] = i <=> x \in l + L..l + L + H - 1
    <3>1. x - l + 1 \in 1..n /\ l + (x - l + 1) - 1 = x
      BY <1>1
    <3>2. F[x - l + 1] = f[keys[x]]
      BY <1>2, <3>1
    <3>3. F[x - l + 1] = i <=> L < x - l + 1 /\ x - l + 1 <= L + H
      BY <1>4, <3>1
    <3> QED  BY <1>1, <1>4, <3>2, <3>3
  <2>2. l + L..l + L + H - 1 \subseteq l..l + n - 1
    BY <1>1, <1>4
  <2> QED  BY <1>3, <2>1, <2>2
<1>6. PartOf(f, keys, p, i) =
        IF own = {} THEN emptyRange ELSE Pair(Min(own), Cardinality(own))
  BY DEF PartOf, FirstOf
<1> HIDE DEF own
<1>7. PartOf(f, keys, p, i).size = H /\ (H > 0 => PartOf(f, keys, p, i).left = l + L)
  <2>1. CASE H = 0
    <3>1. own = {}
      BY <1>1, <1>4, <1>5, <2>1
    <3> QED  BY <1>6, <2>1, <3>1 DEF emptyRange, Pair
  <2>2. CASE H > 0
    <3>1. l + L \in own /\ own \subseteq Nat /\ \A x \in own : l + L <= x
      BY <1>1, <1>4, <1>5, <2>2
    <3>2. Min(own) = l + L
      <4>1. Min(own) \in own /\ \A x \in own : Min(own) <= x
        BY <3>1, MinOfNumbers
      <4> HIDE DEF Min
      <4>2. Min(own) <= l + L /\ l + L <= Min(own) /\ Min(own) \in Nat
        BY <3>1, <4>1
      <4> QED  BY <1>1, <1>4, <4>2
    <3>3. Cardinality(own) = H
      <4>1. l + L \in Int /\ l + L + H - 1 \in Int /\ ~ (l + L > l + L + H - 1)
            /\ (l + L + H - 1) - (l + L) + 1 = H
        BY <1>1, <1>4, <2>2
      <4> QED  BY <1>5, <4>1, FS_Interval
    <3>4. own # {}
      BY <3>1
    <3>5. PartOf(f, keys, p, i) = [left |-> l + L, size |-> H]
      BY <1>6, <3>2, <3>3, <3>4 DEF Pair
    <3> QED  BY <3>5
  <2> QED  BY <1>4, <2>1, <2>2
<1>8. Before(f, keys, p, i) = L
  BY DEF Before, L, F, n
<1> QED  BY <1>4, <1>7, <1>8 DEF F, n, l

LEMMA DividedIs ==
  ASSUME NEW keys, Ordered(keys), NEW p \in Pairs(keys), NEW c \in Nat \ {0}, NEW f, IsMap(f, c)
  PROVE  /\ Before(f, keys, p, 0) = 0 /\ Before(f, keys, p, c) = p.size
         /\ \A i \in 0..c : Before(f, keys, p, i) \in Nat
         /\ \A i \in 0..c - 1 :
              Before(f, keys, p, i + 1) = Before(f, keys, p, i) + PartOf(f, keys, p, i).size
         /\ \A x \in Positions(p) : /\ f[keys[x]] \in 0..c - 1
                                    /\ x \in Positions(PartOf(f, keys, p, f[keys[x]]))
<1> DEFINE F == ChildAt(f, keys, p)
           n == p.size
           l == p.left
           L(i) == Before(f, keys, p, i)
           P(i) == PartOf(f, keys, p, i)
<1>1. /\ n \in Nat /\ l \in Nat /\ \A j \in 1..n : F[j] \in 0..c - 1
      /\ \A j, k \in 1..n : j <= k => F[j] <= F[k]
  BY ChildrenAt
<1>2. \A j \in 1..n : F[j] = f[keys[l + j - 1]]
  BY DEF ChildAt
<1>3. ASSUME NEW i \in 0..c
      PROVE  L(i) \in 0..n /\ \A j \in 1..n : F[j] < i <=> j <= L(i)
  <2>1. (\A j \in 1..n : F[j] \in Int) /\ i \in Int
    BY <1>1
  <2>2. L(i) = HowManyLess(F, n, i)
    BY DEF Before
  <2> HIDE DEF F, n, L
  <2>3. /\ HowManyLess(F, n, i) \in Nat /\ HowMany(F, n, i) \in Nat
        /\ HowManyLess(F, n, i) + HowMany(F, n, i) <= n
        /\ \A j \in 1..n : F[j] < i <=> j <= HowManyLess(F, n, i)
    BY <1>1, <2>1, LessThenEqual
  <2> QED  BY <1>1, <2>2, <2>3
<1>4. ASSUME NEW i \in 0..c - 1
      PROVE  /\ L(i) \in Nat /\ P(i).size \in Nat /\ L(i) + P(i).size <= n
             /\ P(i).size > 0 => P(i).left = l + L(i)
             /\ \A j \in 1..n : /\ F[j] < i <=> j <= L(i)
                                /\ F[j] = i <=> L(i) < j /\ j <= L(i) + P(i).size
  BY PartIs
<1> HIDE DEF F, n, l, L, P
<1>5. L(0) = 0
  <2>1. L(0) \in 0..n /\ \A j \in 1..n : ~ (j <= L(0))
    BY <1>1, <1>3
  <2> QED  BY <1>1, <2>1
<1>6. L(c) = n
  <2>1. L(c) \in 0..n /\ \A j \in 1..n : j <= L(c)
    <3>1. c \in 0..c
      OBVIOUS
    <3>2. \A j \in 1..n : F[j] < c
      BY <1>1
    <3> QED  BY <1>3, <3>1, <3>2
  <2> QED  BY <1>1, <2>1
<1>7. ASSUME NEW i \in 0..c - 1
      PROVE  L(i + 1) = L(i) + P(i).size
  <2>1. i \in 0..c /\ i + 1 \in 0..c
    OBVIOUS
  <2>2. L(i + 1) \in 0..n /\ L(i) \in Nat /\ P(i).size \in Nat /\ L(i) + P(i).size <= n
    BY <1>3, <1>4, <2>1
  <2>3. ASSUME NEW j \in 1..n
        PROVE  j <= L(i + 1) <=> j <= L(i) + P(i).size
    <3>1. (F[j] < i + 1 <=> j <= L(i + 1)) /\ (F[j] < i <=> j <= L(i))
          /\ (F[j] = i <=> L(i) < j /\ j <= L(i) + P(i).size)
      BY <1>3, <1>4, <2>1
    <3>2. F[j] \in Int /\ i \in Int
      BY <1>1
    <3>3. F[j] < i + 1 <=> F[j] < i \/ F[j] = i
      BY <3>2
    <3> DEFINE a == L(i + 1)
               b == L(i)
               s == P(i).size
    <3>4. a \in Int /\ b \in Int /\ s \in Nat /\ j \in Int
      BY <1>1, <2>2
    <3>5. (j <= a) <=> (j <= b \/ (b < j /\ j <= b + s))
      BY <3>1, <3>3
    <3> HIDE DEF a, b, s
    <3>6. (j <= b \/ (b < j /\ j <= b + s)) <=> j <= b + s
      BY <3>4
    <3>7. j <= a <=> j <= b + s
      BY <3>5, <3>6
    <3> QED  BY <3>7 DEF a, b, s
  <2>4. CASE L(i + 1) > L(i) + P(i).size
    BY <1>1, <2>2, <2>3, <2>4
  <2>5. CASE L(i + 1) < L(i) + P(i).size
    BY <1>1, <2>2, <2>3, <2>5
  <2> QED  BY <2>2, <2>4, <2>5
<1>8. ASSUME NEW x \in Positions(p)
      PROVE  f[keys[x]] \in 0..c - 1 /\ x \in Positions(P(f[keys[x]]))
  <2>1. x - l + 1 \in 1..n /\ l + (x - l + 1) - 1 = x /\ x \in Int
    BY <1>1 DEF Positions, l, n
  <2> DEFINE i == f[keys[x]]
  <2>2. F[x - l + 1] = i
    BY <1>2, <2>1
  <2> HIDE DEF i
  <2>3. i \in 0..c - 1
    BY <1>1, <2>1, <2>2
  <2>4. /\ L(i) \in Nat /\ P(i).size \in Nat /\ L(i) < x - l + 1
        /\ x - l + 1 <= L(i) + P(i).size /\ (P(i).size > 0 => P(i).left = l + L(i))
    BY <1>4, <2>1, <2>2, <2>3
  <2>5. P(i).left = l + L(i)
    BY <2>1, <2>4
  <2>6. x \in Positions(P(i))
    BY <1>1, <2>1, <2>4, <2>5 DEF Positions
  <2> QED  BY <2>3, <2>6 DEF i
<1> QED  BY <1>3, <1>5, <1>6, <1>7, <1>8 DEF L, P, n

----------------------------------------------------------------------------
(* What the search tries, and what a leaf costs.                           *)
LEMMA DoubledIs ==
  ASSUME NEW i \in Nat
  PROVE  Doubled(i) \in Nat /\ Doubled(i) >= 2
<1> DEFINE V == {x \in Nat : x >= 2}
           g == [x \in Nat \X V |-> 2 * x[2]]
           Is(h) == h = [j \in 0..i |-> IF j = 0 THEN MinChild ELSE 2 * h[j - 1]]
           c == CHOOSE h : Is(h)
<1>1. MinChild \in V
  BY SizesAssumption
<1>2. g \in [Nat \X V -> V] /\ \A n \in Nat, x \in V : g[<<n, x>>] = 2 * x
  OBVIOUS
<1> HIDE DEF g, V
<1>3. \E h : Chain(h, i, V, MinChild, g)
  BY <1>1, <1>2, ChainsExist
<1>4. PICK h : Chain(h, i, V, MinChild, g)
  BY <1>3
<1>5. Is(h) /\ h[i] \in V
  <2>1. h \in [0..i -> V] /\ h[0] = MinChild /\ \A k \in 0..i - 1 : h[k + 1] = g[<<k + 1, h[k]>>]
    BY <1>4 DEF Chain
  <2>2. ASSUME NEW j \in 1..i
        PROVE  h[j] = 2 * h[j - 1]
    <3>1. j - 1 \in 0..i - 1 /\ (j - 1) + 1 = j /\ j \in Nat /\ h[j - 1] \in V
      BY <2>1
    <3>2. h[j] = g[<<j, h[j - 1]>>]
      BY <2>1, <3>1
    <3> QED  BY <1>2, <3>1, <3>2
  <2>3. \A j \in 0..i : h[j] = IF j = 0 THEN MinChild ELSE 2 * h[j - 1]
    BY <2>1, <2>2
  <2>4. i \in 0..i
    OBVIOUS
  <2> QED  BY <2>1, <2>3, <2>4
<1>6. Is(c)
  <2> HIDE DEF Is
  <2> QED  BY <1>5
<1>7. Doubled(i) = c[i]
  BY DEF Doubled
<1> HIDE DEF c
<1>8. \A j \in 0..i : c[j] \in V
  <2> DEFINE T == {j \in Nat : j <= i => c[j] \in V}
  <2>1. c[0] = MinChild /\ \A j \in 1..i : c[j] = 2 * c[j - 1]
    BY <1>6
  <2>2. 0 \in T
    BY <1>1, <2>1
  <2>3. ASSUME NEW n \in Nat, n \in T
        PROVE  n + 1 \in T
    <3> SUFFICES ASSUME n + 1 <= i PROVE c[n + 1] \in V
      OBVIOUS
    <3>1. n + 1 \in 1..i /\ (n + 1) - 1 = n /\ c[n] \in V
      BY <2>3
    <3>2. c[n + 1] = 2 * c[n]
      BY <2>1, <3>1
    <3> QED  BY <3>1, <3>2 DEF V
  <2>4. Nat \subseteq T
    <3> HIDE DEF T
    <3> QED  BY <2>2, <2>3, Induction
  <2> QED  BY <2>4
<1>9. i \in 0..i
  OBVIOUS
<1> QED  BY <1>7, <1>8, <1>9 DEF V

Tries == [type : Type, c : {c \in Nat : c >= 2}]

LEMMA CandidatesAre ==
  ASSUME Data, NEW range \in Ranges
  PROVE  Candidates(range) \in Seq(Tries)
<1> DEFINE limit == Max({MinChild, range.init.size \div PerChild})
           turns == Cardinality({i \in 0..limit : Doubled(i) <= limit})
           try(n) == [type |-> <<"lr", "plr", "his", "bs">>[((n - 1) % 4) + 1],
                      c    |-> Doubled((n - 1) \div 4)]
<1>1. Candidates(range) = [n \in 1..4 * turns |-> try(n)]
  BY DEF Candidates
<1>2. turns \in Nat
  <2>1. range.init.size \div PerChild \in Int
    <3>1. range.init.size \in Int /\ PerChild \in Nat /\ PerChild > 0
      BY RangeIs, SizesAssumption
    <3> QED  BY <3>1
  <2>2. limit \in Int
    <3>1. MinChild \in Int
      BY SizesAssumption
    <3> QED  BY <2>1, <3>1, MaxOfTwo
  <2> HIDE DEF limit
  <2>3. IsFiniteSet(0..limit)
    <3>1. 0 \in Int
      OBVIOUS
    <3> QED  BY <2>2, <3>1, FS_Interval
  <2>4. IsFiniteSet({i \in 0..limit : Doubled(i) <= limit})
    <3>1. {i \in 0..limit : Doubled(i) <= limit} \subseteq 0..limit
      OBVIOUS
    <3> QED  BY <2>3, <3>1, FS_Subset
  <2> QED  BY <2>4, FS_CardinalityType
<1> HIDE DEF turns
<1>3. ASSUME NEW n \in 1..4 * turns
      PROVE  try(n) \in Tries
  <2>1. n \in Int /\ n >= 1
    BY <1>2
  <2>2. (n - 1) \div 4 \in Nat /\ ((n - 1) % 4) + 1 \in 1..4
    BY <2>1
  <2>3. \A j \in 1..4 : <<"lr", "plr", "his", "bs">>[j] \in Type
    BY DEF Type
  <2>4. <<"lr", "plr", "his", "bs">>[((n - 1) % 4) + 1] \in Type
    BY <2>2, <2>3
  <2>5. Doubled((n - 1) \div 4) \in Nat /\ Doubled((n - 1) \div 4) >= 2
    BY <2>2, DoubledIs
  <2> QED  BY <2>4, <2>5 DEF Tries
<1> HIDE DEF try
<1>4. 4 * turns \in Nat
  BY <1>2
<1> DEFINE s == Candidates(range)
           m == 4 * turns
<1>5. s = [n \in 1..m |-> s[n]] /\ \A n \in 1..m : s[n] \in Tries
  BY <1>1, <1>3
<1> HIDE DEF s, m
<1> QED  BY <1>4, <1>5, IsSequence DEF s, m

LEMMA CeilDivIs ==
  ASSUME NEW m \in Nat, NEW n \in Nat \ {0}
  PROVE  CeilDiv(m, n) \in Nat /\ (m > 0 => CeilDiv(m, n) > 0)
<1> DEFINE a == m + n - 1
           q == a \div n
<1>1. a \in Int /\ a >= 0 /\ (m > 0 => a >= n) /\ n > 0
  OBVIOUS
<1>2. q \in Int /\ q * n <= a /\ a < q * n + n
  <2> HIDE DEF a
  <2> QED  BY <1>1, Quotient
<1> HIDE DEF a, q
<1>3. q * n + n = (q + 1) * n
  BY <1>2
<1>4. q + 1 > 0
  <2> SUFFICES ASSUME q + 1 <= 0 PROVE FALSE
    BY <1>2
  <2>1. (q + 1) * n <= 0
    BY <1>2
  <2> QED  BY <1>1, <1>2, <1>3, <2>1
<1>5. m > 0 => q > 0
  <2> SUFFICES ASSUME m > 0, q = 0 PROVE FALSE
    BY <1>2, <1>4
  <2>1. q * n = 0
    OBVIOUS
  <2> QED  BY <1>1, <1>2, <2>1
<1> QED  BY <1>2, <1>4, <1>5 DEF CeilDiv, q, a

LEMMA BlocksAre ==
  ASSUME NEW n \in Nat
  PROVE  /\ CalNeededBlockNum(n) \in Nat /\ (n > 0 => CalNeededBlockNum(n) > 0)
         /\ AvgSlotNum(n) \in 1..BlockCap
<1>0. BlockCap \in Nat \ {0} /\ MaxBlockNum \in Nat \ {0}
  BY SizesAssumption
<1>1. CalNeededBlockNum(n) \in Nat /\ (n > 0 => CalNeededBlockNum(n) > 0)
  <2>1. CeilDiv(n, BlockCap) \in Nat /\ (n > 0 => CeilDiv(n, BlockCap) > 0)
    BY <1>0, CeilDivIs
  <2>2. CalNeededBlockNum(n) =
          IF MaxBlockNum <= CeilDiv(n, BlockCap) THEN MaxBlockNum ELSE CeilDiv(n, BlockCap)
    BY <1>0, <2>1, MinOfTwo DEF CalNeededBlockNum
  <2> QED  BY <1>0, <2>1, <2>2
<1>2. AvgSlotNum(n) \in 1..BlockCap
  <2>1. CASE n = 0
    BY <1>0, <2>1 DEF AvgSlotNum
  <2>2. CASE n # 0
    <3> DEFINE d == CeilDiv(n, CalNeededBlockNum(n))
    <3>1. d \in Nat /\ d > 0
      <4>1. CalNeededBlockNum(n) \in Nat \ {0} /\ n > 0
        BY <1>1, <2>2
      <4> QED  BY <4>1, CeilDivIs
    <3>2. AvgSlotNum(n) = Min({BlockCap, d})
      BY <2>2 DEF AvgSlotNum
    <3> HIDE DEF d
    <3>3. AvgSlotNum(n) = IF BlockCap <= d THEN BlockCap ELSE d
      BY <1>0, <3>1, <3>2, MinOfTwo
    <3> QED  BY <1>0, <3>1, <3>3
  <2> QED  BY <2>1, <2>2
<1> QED  BY <1>1, <1>2

LEMMA CostsAre ==
  ASSUME Data, NEW range \in Ranges
  PROVE  /\ LeafCost(range) \in Nat
         /\ \A t \in Type, c \in Nat : InnerCost(range, t, c) \in Nat
<1> DEFINE n == Points(range)
           s == SearchTime[AvgSlotNum(n)]
<1>1. n \in Nat /\ range.insert.size \in Nat
  BY RangeIs
<1> HIDE DEF n
<1>2. CalNeededBlockNum(n) \in Nat /\ AvgSlotNum(n) \in 1..BlockCap
  BY <1>1, BlocksAre
<1>3. MoveTime \in Nat /\ BlockSpace \in Nat /\ NodeSpace \in Nat /\ BlockCap \in Nat
  BY SizesAssumption
<1>4. s \in Nat
  BY <1>2, SizesAssumption
<1> HIDE DEF s
<1>5. AvgSlotNum(n) \in Nat /\ 1 + AvgSlotNum(n) \in Nat
  BY <1>2, <1>3
<1>6. LeafCost(range) = n * s + range.insert.size * MoveTime * (1 + AvgSlotNum(n))
                        + BlockSpace * CalNeededBlockNum(n)
  BY DEF LeafCost, n, s
<1>7. LeafCost(range) \in Nat
  <2>1. n * s \in Nat /\ range.insert.size * MoveTime \in Nat
        /\ BlockSpace * CalNeededBlockNum(n) \in Nat
    BY <1>1, <1>2, <1>3, <1>4, NotNegativeProduct
  <2>2. (range.insert.size * MoveTime) * (1 + AvgSlotNum(n)) \in Nat
    BY <1>5, <2>1, NotNegativeProduct
  <2> QED  BY <1>6, <2>1, <2>2
<1>8. ASSUME NEW t \in Type, NEW c \in Nat
      PROVE  InnerCost(range, t, c) \in Nat
  <2>1. InnerTime[t] \in Nat
    BY SizesAssumption
  <2>2. InnerTime[t] * n \in Nat /\ NodeSpace * c \in Nat
    BY <1>1, <1>3, <2>1, NotNegativeProduct
  <2> QED  BY <2>2 DEF InnerCost, n
<1> QED  BY <1>7, <1>8

----------------------------------------------------------------------------
(* What the search holds.                                                  *)
MapsTo(map, P, V) == DOMAIN map \subseteq P /\ map \in [DOMAIN map -> V]

LEMMA MapsGrow ==
  ASSUME NEW P, NEW V, NEW map, MapsTo(map, P, V), NEW k \in P, NEW v \in V
  PROVE  MapsTo(With(map, k, v), P, V) /\ MapsTo(Inserted(map, k, v), P, V)
<1> DEFINE w == With(map, k, v)
<1>1. w = [p \in DOMAIN map \cup {k} |-> IF p = k THEN v ELSE map[p]]
  BY DEF With
<1>2. DOMAIN w = DOMAIN map \cup {k}
  BY <1>1
<1>3. \A p \in DOMAIN map \cup {k} : w[p] \in V
  BY <1>1 DEF MapsTo
<1>4. w \in [DOMAIN w -> V]
  BY <1>1, <1>2, <1>3
<1>5. MapsTo(w, P, V)
  BY <1>2, <1>4 DEF MapsTo
<1> HIDE DEF w
<1>6. Inserted(map, k, v) = map \/ Inserted(map, k, v) = w
  BY DEF Inserted, w
<1> QED  BY <1>5, <1>6 DEF w

LEMMA NoMap ==
  ASSUME NEW P, NEW V PROVE MapsTo(<<>>, P, V)
BY DEF MapsTo

FullRanges == {r \in Ranges : Points(r) > 0}
Divisions == UNION {[0..c - 1 -> Ranges] : c \in Nat}

Frames ==
  {f \in [alg : {"dp", "greedy"}, range : FullRanges, candidates : Seq(Tries),
          cost : Nat, model : Models \cup {NoSetting}, parts : Divisions, next : Nat,
          optimalCost : Nat, optimal : Models \cup {LeafSetting}] :
     f.alg = "dp" /\ f.model # NoSetting => f.candidates # <<>>}

Calls == {NoCall} \cup [alg : {"dp", "leaf"}, range : Ranges]
                  \cup [alg : {"greedy"}, range : FullRanges]

IsCost(map) == MapsTo(map, Pairs(initDataset), Nat)
IsStruct(map) == MapsTo(map, Pairs(initDataset), Models \cup {LeafSetting})

Searches(ph, ch, ca, re, fr, co, st) ==
  /\ ph \in {"children", "search", "store", "fill", "done", "crashed"}
  /\ ch \in 0..RootChildren
  /\ ph \in {"search", "store"} => ch < RootChildren
  /\ ca \in Calls
  /\ re \in Nat \cup {NoCost}
  /\ fr \in Seq(Frames) /\ Len(fr) <= StackSize
  /\ IsCost(co) /\ IsStruct(st)

SearchOK == Searches(phase, child, call, returned, frames, COST, structMap)

LEMMA SameData ==
  ASSUME UNCHANGED dataset
  PROVE  /\ Ranges' = Ranges /\ Data' = Data
         /\ Searches(phase', child', call', returned', frames', COST', structMap')
              => SearchOK'
<1>1. initDataset' = initDataset /\ insertQuery' = insertQuery /\ root' = root
  BY DEF dataset
<1>2. Ranges' = Ranges /\ Data' = Data
  BY <1>1 DEF Ranges, Pairs, IsPair, Data, Ordered, IsMap
<1>3. FullRanges' = FullRanges /\ Pairs(initDataset)' = Pairs(initDataset)
  BY <1>1, <1>2 DEF FullRanges, Pairs, IsPair, Points
<1>4. Divisions' = Divisions
  BY <1>2 DEF Divisions
<1>5. Frames' = Frames /\ Calls' = Calls
  BY <1>2, <1>3, <1>4 DEF Frames, Calls
<1>6. ASSUME Searches(phase', child', call', returned', frames', COST', structMap')
      PROVE  SearchOK'
  BY <1>1, <1>3, <1>5, <1>6 DEF SearchOK, Searches, IsCost, IsStruct
<1> QED  BY <1>2, <1>6

LEMMA EmptyIsPair ==
  ASSUME NEW keys PROVE emptyRange \in Pairs(keys)
BY DEF emptyRange, Pair, Pairs, IsPair

LEMMA ChildrenAre ==
  ASSUME Data, NEW range \in Ranges, NEW m, NEW c \in Nat
  PROVE  ChildrenOf(m, range, c) \in [0..c - 1 -> Ranges]
         /\ ChildrenOf(m, range, c) \in Divisions
<1> DEFINE f == [k \in Key |-> ChildFor(m, k)]
           d == Divide(f, range, c)
<1>1. ChildrenOf(m, range, c) = d
  BY DEF ChildrenOf
<1> HIDE DEF f
<1>2. \A i \in 0..c - 1 : d[i] \in Ranges
  BY DividedInRanges
<1>3. d = [i \in 0..c - 1 |-> d[i]]
  BY DEF Divide
<1> HIDE DEF d
<1>4. d \in [0..c - 1 -> Ranges]
  BY <1>2, <1>3
<1> QED  BY <1>1, <1>4 DEF Divisions

(* All the points, and all keys that are expected.                         *)
Whole ==
  [init   |-> Pair(1, Len(initDataset)),
   insert |-> IF insertQuery = <<>> THEN emptyRange ELSE Pair(1, Len(insertQuery))]

LEMMA WholeIs ==
  ASSUME Data
  PROVE  /\ Whole \in Ranges /\ RootRanges = Divide(root, Whole, RootChildren)
         /\ Whole.init.left = 1 /\ Whole.init.size = Len(initDataset)
         /\ Positions(Whole.init) = DOMAIN initDataset
         /\ Positions(Whole.insert) = DOMAIN insertQuery
<1>1. /\ Len(initDataset) \in Nat /\ DOMAIN initDataset = 1..Len(initDataset)
      /\ Len(insertQuery) \in Nat /\ DOMAIN insertQuery = 1..Len(insertQuery)
      /\ Len(initDataset) # 0 /\ (insertQuery # <<>> <=> Len(insertQuery) # 0)
  <2>1. initDataset \in Seq(Key) /\ insertQuery \in Seq(Key) /\ initDataset # <<>>
    BY DEF Data, Ordered
  <2> QED  BY <2>1
<1> DEFINE I == Whole.init
           Q == Whole.insert
           R == Pair(1, Len(insertQuery))
<1>2. I = [left |-> 1, size |-> Len(initDataset)] /\ R = [left |-> 1, size |-> Len(insertQuery)]
      /\ Q = IF insertQuery = <<>> THEN [left |-> 0, size |-> 0] ELSE R
  BY DEF Whole, Pair, emptyRange
<1>3. Whole = [init |-> I, insert |-> Q]
  BY DEF Whole
<1> HIDE DEF I, Q, R
<1>4. I \in Pairs(initDataset)
  BY <1>1, <1>2 DEF Pairs, IsPair
<1>5. Q \in Pairs(insertQuery)
  <2>1. CASE insertQuery = <<>>
    BY <1>2, <2>1 DEF Pairs, IsPair, emptyRange, Pair
  <2>2. CASE insertQuery # <<>>
    BY <1>1, <1>2, <2>2 DEF Pairs, IsPair
  <2> QED  BY <2>1, <2>2
<1>6. Positions(I) = DOMAIN initDataset
  BY <1>1, <1>2 DEF Positions
<1>7. Positions(R) = DOMAIN insertQuery /\ Positions(Q) = Positions(R)
  <2>1. Positions(R) = DOMAIN insertQuery
    BY <1>1, <1>2 DEF Positions
  <2>2. CASE insertQuery = <<>>
    <3>1. Positions(Q) = {}
      BY <1>2, <2>2 DEF Positions
    <3>2. Len(insertQuery) = 0
      BY <1>1, <2>2
    <3> QED  BY <1>1, <2>1, <3>1, <3>2
  <2>3. CASE insertQuery # <<>>
    BY <1>2, <2>1, <2>3
  <2> QED  BY <2>1, <2>2, <2>3
<1>8. \A i : PartOf(root, insertQuery, Q, i) = PartOf(root, insertQuery, R, i)
  BY <1>7 DEF PartOf
<1>9. RootRanges = Divide(root, Whole, RootChildren)
  BY <1>3, <1>8 DEF RootRanges, Divide, Whole, I, R
<1>10. Whole \in Ranges
  BY <1>3, <1>4, <1>5 DEF Ranges
<1> QED  BY <1>2, <1>6, <1>7, <1>9, <1>10 DEF I, Q

LEMMA RootRangesAre ==
  ASSUME Data
  PROVE  RootRanges \in [0..RootChildren - 1 -> Ranges]
<1>1. \A i \in 0..RootChildren - 1 : RootRanges[i] \in Ranges
  BY WholeIs, DividedInRanges
<1>2. RootRanges = [i \in 0..RootChildren - 1 |-> RootRanges[i]]
  BY WholeIs DEF Divide
<1> QED  BY <1>1, <1>2

LEMMA LeafIsStored ==
  ASSUME Data, NEW range \in Ranges, NEW cost, NEW struct, IsCost(cost), IsStruct(struct),
         DPLeaf(range, cost, struct)
  PROVE  IsCost(COST') /\ IsStruct(structMap')
<1>1. range.init \in Pairs(initDataset)
  BY DEF Ranges
<1>2. LeafCost(range) \in Nat
  BY CostsAre
<1>3. LeafSetting \in Models \cup {LeafSetting}
  OBVIOUS
<1>4. /\ IsCost(With(cost, range.init, LeafCost(range)))
      /\ IsStruct(With(struct, range.init, LeafSetting))
      /\ IsStruct(Inserted(struct, range.init, LeafSetting))
  BY <1>1, <1>2, <1>3, MapsGrow DEF IsCost, IsStruct
<1> QED  BY <1>4 DEF DPLeaf

LEMMA FrameIs ==
  ASSUME Data, NEW alg \in {"dp", "greedy"}, NEW range \in FullRanges
  PROVE  Frame(alg, range) \in Frames
<1>1. Candidates(range) \in Seq(Tries)
  BY CandidatesAre DEF FullRanges
<1>2. DBLMAX \in Nat
  BY SizesAssumption
<1>3. <<>> \in Divisions
  <2>1. <<>> \in [0..0 - 1 -> Ranges] /\ 0 \in Nat
    OBVIOUS
  <2> QED  BY <2>1 DEF Divisions
<1> QED  BY <1>1, <1>2, <1>3 DEF Frame, Frames

(* The innermost of the open calls.                                        *)
LEMMA TopIs ==
  ASSUME NEW n \in Nat, frames \in Seq(Frames), Len(frames) <= n, frames # <<>>
  PROVE  /\ top \in Frames
         /\ Front(frames) \in Seq(Frames) /\ Len(Front(frames)) <= n
         /\ \A f \in Frames : WithTop(f) \in Seq(Frames) /\ Len(WithTop(f)) <= n
<1>1. Len(frames) \in Nat /\ Len(frames) # 0
  OBVIOUS
<1>2. top \in Frames
  BY <1>1 DEF top, Last
<1>3. Front(frames) \in Seq(Frames) /\ Len(Front(frames)) <= n
  BY <1>1 DEF Front
<1>4. ASSUME NEW f \in Frames
      PROVE  WithTop(f) \in Seq(Frames) /\ Len(WithTop(f)) <= n
  BY <1>1 DEF WithTop
<1> QED  BY <1>2, <1>3, <1>4

----------------------------------------------------------------------------
(* No step of the search takes it out of the points there are.             *)
Searched == Searches(phase', child', call', returned', frames', COST', structMap')

LEMMA CallsBegin ==
  ASSUME Data, SearchOK
  PROVE  /\ StartChild => Searched
         /\ BeginInner => Searched
         /\ StackOverflow \/ GreedyFails => Searched
<1>1. ASSUME StartChild
      PROVE  Searched
  <2> DEFINE range == RootRanges[child]
  <2>1. child \in 0..RootChildren - 1 /\ RootChildren \in Nat
    BY <1>1, SizesAssumption DEF StartChild, SearchOK, Searches
  <2>2. range \in Ranges
    BY <2>1, RootRangesAre
  <2>3. call' = Call(IF Points(range) > Threshold THEN "greedy" ELSE "dp", range)
    BY <1>1 DEF StartChild
  <2> HIDE DEF range
  <2>4. Points(range) > Threshold => range \in FullRanges
    <3>1. Points(range) \in Nat /\ Threshold \in Nat
      BY <2>2, RangeIs, SizesAssumption
    <3> QED  BY <2>2, <3>1 DEF FullRanges
  <2>5. call' \in Calls
    BY <2>2, <2>3, <2>4 DEF Calls, Call
  <2>6. IsCost(COST')
    <3>1. emptyRange \in Pairs(initDataset) /\ 0 \in Nat
      BY EmptyIsPair
    <3>2. COST' = With(<<>>, emptyRange, 0)
      BY <1>1 DEF StartChild
    <3> QED  BY <3>1, <3>2, NoMap, MapsGrow DEF IsCost
  <2>7. phase' = "search" /\ UNCHANGED <<child, returned, frames, structMap>>
    BY <1>1 DEF StartChild
  <2> QED  BY <2>1, <2>5, <2>6, <2>7 DEF SearchOK, Searches, Searched
<1>2. ASSUME BeginInner
      PROVE  Searched
  <2> DEFINE f == Frame("dp", call.range)
  <2>1. call.alg = "dp" /\ Unsolved(call.range) /\ Len(frames) < StackSize
        /\ frames' = Append(frames, f) /\ call' = NoCall
        /\ UNCHANGED <<phase, child, returned, COST, structMap>>
    BY <1>2 DEF BeginInner
  <2>2. call.range \in Ranges
    BY <2>1 DEF SearchOK, Searches, Calls, NoCall, FullRanges
  <2>3. call.range \in FullRanges
    <3>1. call.range.init.size \in Nat /\ call.range.insert.size \in Nat
          /\ Points(call.range) = call.range.init.size + call.range.insert.size
      BY <2>2, RangeIs
    <3>2. call.range.init.size > 0
      BY <2>1 DEF Unsolved
    <3> QED  BY <2>2, <3>1, <3>2 DEF FullRanges
  <2>4. f \in Frames
    BY <2>3, FrameIs
  <2>5. frames \in Seq(Frames) /\ StackSize \in Nat
    BY SizesAssumption DEF SearchOK, Searches
  <2> HIDE DEF f
  <2>6. frames' \in Seq(Frames) /\ Len(frames') <= StackSize
    BY <2>1, <2>4, <2>5
  <2>7. NoCall \in Calls
    BY DEF Calls
  <2> QED  BY <2>1, <2>6, <2>7 DEF SearchOK, Searches, Searched
<1>3. ASSUME StackOverflow \/ GreedyFails
      PROVE  Searched
  <2>1. phase' = "crashed" /\ call' = NoCall /\ UNCHANGED <<child, returned, frames, COST, structMap>>
    BY <1>3 DEF StackOverflow, GreedyFails
  <2>2. NoCall \in Calls
    BY DEF Calls
  <2> QED  BY <2>1, <2>2 DEF SearchOK, Searches, Searched
<1> QED  BY <1>1, <1>2, <1>3

LEMMA CallsReturn ==
  ASSUME Data, SearchOK
  PROVE  (DPEmpty \/ DPSolved \/ DPSmall) => Searched
<1>0. /\ NoCall \in Calls
      /\ call # NoCall => call.range \in Ranges /\ call.range.init \in Pairs(initDataset)
  BY DEF SearchOK, Searches, Calls, FullRanges, Ranges
<1>01. call = NoCall => call.alg = "none"
  BY DEF NoCall
<1>1. ASSUME DPEmpty
      PROVE  Searched
  <2>1. /\ call # NoCall /\ structMap' = Inserted(structMap, call.range.init, LeafSetting)
        /\ returned' = 0 /\ call' = NoCall /\ UNCHANGED <<phase, child, frames, COST>>
    BY <1>01, <1>1 DEF DPEmpty, Return
  <2>2. IsStruct(structMap')
    <3>1. LeafSetting \in Models \cup {LeafSetting}
      OBVIOUS
    <3>2. IsStruct(structMap)
      BY DEF SearchOK, Searches
    <3> QED  BY <1>0, <2>1, <3>1, <3>2, MapsGrow DEF IsStruct
  <2> QED  BY <1>0, <2>1, <2>2 DEF SearchOK, Searches, Searched
<1>2. ASSUME DPSolved
      PROVE  Searched
  <2>1. /\ call.range.init \in DOMAIN COST /\ returned' = COST[call.range.init]
        /\ call' = NoCall /\ UNCHANGED <<phase, child, frames, COST, structMap>>
    BY <1>2 DEF DPSolved, Return
  <2>2. returned' \in Nat
    BY <2>1 DEF SearchOK, Searches, IsCost, MapsTo
  <2> QED  BY <1>0, <2>1, <2>2 DEF SearchOK, Searches, Searched
<1>3. ASSUME DPSmall
      PROVE  Searched
  <2>1. /\ call # NoCall /\ DPLeaf(call.range, COST, structMap)
        /\ returned' = LeafCost(call.range)
        /\ call' = NoCall /\ UNCHANGED <<phase, child, frames>>
    BY <1>01, <1>3 DEF DPSmall, Return
  <2>2. IsCost(COST') /\ IsStruct(structMap')
    BY <1>0, <2>1, LeafIsStored DEF SearchOK, Searches
  <2>3. returned' \in Nat
    BY <1>0, <2>1, CostsAre
  <2> QED  BY <1>0, <2>1, <2>2, <2>3 DEF SearchOK, Searches, Searched
<1> QED  BY <1>1, <1>2, <1>3

(* What the loop over the children knows.                                  *)
LEMMA Open ==
  ASSUME Data, SearchOK, frames # <<>>
  PROVE  /\ top \in Frames /\ top.range \in Ranges /\ Points(top.range) > 0
         /\ top.range.init \in Pairs(initDataset)
         /\ Front(frames) \in Seq(Frames) /\ Len(Front(frames)) <= StackSize
         /\ \A f \in Frames : WithTop(f) \in Seq(Frames) /\ Len(WithTop(f)) <= StackSize
<1>1. frames \in Seq(Frames) /\ Len(frames) <= StackSize /\ StackSize \in Nat
  BY SizesAssumption DEF SearchOK, Searches
<1>2. /\ top \in Frames
      /\ Front(frames) \in Seq(Frames) /\ Len(Front(frames)) <= StackSize
      /\ \A f \in Frames : WithTop(f) \in Seq(Frames) /\ Len(WithTop(f)) <= StackSize
  BY <1>1, TopIs
<1>3. top.range \in FullRanges
  BY <1>2 DEF Frames
<1> QED  BY <1>2, <1>3 DEF FullRanges, Ranges

LEMMA NextCandidateIs ==
  ASSUME NEW f \in Frames, f.candidates # <<>>
  PROVE  NextCandidate(f) \in Frames
<1>1. Tail(f.candidates) \in Seq(Tries)
  BY DEF Frames
<1>2. <<>> \in Divisions
  <2>1. <<>> \in [0..0 - 1 -> Ranges] /\ 0 \in Nat
    OBVIOUS
  <2> QED  BY <2>1 DEF Divisions
<1> QED  BY <1>1, <1>2 DEF Frames, NextCandidate

LEMMA CandidateIsTried ==
  ASSUME Data, SearchOK, TryCandidate
  PROVE  Searched
<1> DEFINE candidate == Head(top.candidates)
           cost      == InnerCost(top.range, candidate.type, candidate.c)
           model     == InnerNode(top.range, candidate.type, candidate.c)
           parts     == ChildrenOf(model, top.range, candidate.c)
           f         == [top EXCEPT !.cost = cost, !.model = model, !.next = 0, !.parts = parts]
<1>1. frames # <<>> /\ top.candidates # <<>>
      /\ UNCHANGED <<phase, child, call, returned, COST, structMap>>
      /\ frames' = WithTop(IF ~ Permitted(candidate) \/ cost > top.optimalCost
                           THEN NextCandidate(top) ELSE f)
  BY DEF TryCandidate, Working
<1>2. /\ top \in Frames /\ top.range \in Ranges /\ Points(top.range) > 0
      /\ \A g \in Frames : WithTop(g) \in Seq(Frames) /\ Len(WithTop(g)) <= StackSize
  BY <1>1, Open
<1>3. candidate.type \in Type /\ candidate.c \in Nat /\ candidate.c >= 2
  <2>1. top.candidates \in Seq(Tries)
    BY <1>2 DEF Frames
  <2>2. Head(top.candidates) \in Tries
    BY <1>1, <2>1
  <2> QED  BY <2>2 DEF Tries
<1> HIDE DEF candidate
<1>4. cost \in Nat
  BY <1>2, <1>3, CostsAre
<1>5. model \in Models
  BY <1>2, <1>3, InnerNodeIsModel
<1> HIDE DEF model, cost
<1>6. parts \in Divisions
  BY <1>2, <1>3, ChildrenAre
<1> HIDE DEF parts
<1>7. f \in Frames
  <2>1. f.candidates = top.candidates
    BY <1>2 DEF Frames
  <2> QED  BY <1>1, <1>2, <1>4, <1>5, <1>6, <2>1 DEF Frames
<1>8. NextCandidate(top) \in Frames
  BY <1>1, <1>2, NextCandidateIs
<1> HIDE DEF f
<1>9. frames' \in Seq(Frames) /\ Len(frames') <= StackSize
  BY <1>1, <1>2, <1>7, <1>8
<1> QED  BY <1>1, <1>9 DEF SearchOK, Searches, Searched

LEMMA PartIsRange ==
  ASSUME NEW f \in Frames, NEW i \in DOMAIN f.parts
  PROVE  f.parts[i] \in Ranges
<1>1. f.parts \in Divisions
  BY DEF Frames
<1>2. PICK c \in Nat : f.parts \in [0..c - 1 -> Ranges]
  BY <1>1 DEF Divisions
<1> QED  BY <1>2

LEMMA ChildIsTried ==
  ASSUME Data, SearchOK
  PROVE  TryChild \/ GreedyChild => Searched
<1>1. ASSUME TryChild
      PROVE  Searched
  <2> DEFINE part == top.parts[top.next]
  <2>1. /\ frames # <<>> /\ top.alg = "dp" /\ top.model # NoSetting
        /\ top.next \in DOMAIN top.parts
        /\ UNCHANGED <<phase, child, returned, COST, structMap>>
        /\ \/ frames' = WithTop(NextCandidate(top)) /\ UNCHANGED call
           \/ call' = Call("dp", part) /\ UNCHANGED frames
    BY <1>1 DEF TryChild, Working
  <2>2. /\ top \in Frames
        /\ \A f \in Frames : WithTop(f) \in Seq(Frames) /\ Len(WithTop(f)) <= StackSize
    BY <2>1, Open
  <2>3. NextCandidate(top) \in Frames
    <3>1. top.candidates # <<>>
      BY <2>1, <2>2 DEF Frames
    <3> QED  BY <2>2, <3>1, NextCandidateIs
  <2>4. Call("dp", part) \in Calls
    <3>1. part \in Ranges
      BY <2>1, <2>2, PartIsRange
    <3> QED  BY <3>1 DEF Call, Calls
  <2> QED  BY <2>1, <2>2, <2>3, <2>4 DEF SearchOK, Searches, Searched
<1>2. ASSUME GreedyChild
      PROVE  Searched
  <2> DEFINE part == top.parts[top.next]
             alg  == IF IsSmall(part) THEN "leaf"
                     ELSE IF Points(part) > Threshold THEN "greedy" ELSE "dp"
  <2>1. /\ frames # <<>> /\ top.next \in DOMAIN top.parts /\ call' = Call(alg, part)
        /\ UNCHANGED <<phase, child, returned, frames, COST, structMap>>
    BY <1>2 DEF GreedyChild, Working
  <2>2. part \in Ranges
    BY <2>1, Open, PartIsRange
  <2> HIDE DEF part
  <2>3. alg = "greedy" => part \in FullRanges
    <3>1. Points(part) \in Nat /\ Threshold \in Nat
      BY <2>2, RangeIs, SizesAssumption
    <3> QED  BY <2>2, <3>1 DEF FullRanges
  <2>4. alg \in {"leaf", "greedy", "dp"}
    OBVIOUS
  <2> HIDE DEF alg
  <2>5. call' \in Calls
    BY <2>1, <2>2, <2>3, <2>4 DEF Call, Calls
  <2> QED  BY <2>1, <2>5 DEF SearchOK, Searches, Searched
<1> QED  BY <1>1, <1>2

LEMMA ChildIsAdded ==
  ASSUME Data, SearchOK
  PROVE  AddChild \/ Compare => Searched
<1>1. ASSUME AddChild
      PROVE  Searched
  <2> DEFINE cost == Min({DBLMAX, top.cost + returned})
             f == [top EXCEPT !.cost = cost, !.next = top.next + 1]
  <2>1. /\ frames # <<>> /\ returned # NoCost /\ frames' = WithTop(f) /\ returned' = NoCost
        /\ UNCHANGED <<phase, child, call, COST, structMap>>
    BY <1>1 DEF AddChild
  <2>2. /\ top \in Frames
        /\ \A g \in Frames : WithTop(g) \in Seq(Frames) /\ Len(WithTop(g)) <= StackSize
    BY <2>1, Open
  <2>3. top.cost \in Nat /\ top.next \in Nat
    BY <2>2 DEF Frames
  <2>4. cost \in Nat
    <3>1. returned \in Nat /\ DBLMAX \in Nat
      BY <2>1, SizesAssumption DEF SearchOK, Searches
    <3>2. cost = IF DBLMAX <= top.cost + returned THEN DBLMAX ELSE top.cost + returned
      BY <2>3, <3>1, MinOfTwo
    <3> QED  BY <2>3, <3>1, <3>2
  <2> HIDE DEF cost
  <2>5. f \in Frames
    <3>1. top.next + 1 \in Nat
      BY <2>3
    <3>2. /\ f.alg = top.alg /\ f.model = top.model /\ f.candidates = top.candidates
      BY <2>2 DEF Frames
    <3>3. top.alg = "dp" /\ top.model # NoSetting => top.candidates # <<>>
      BY <2>2 DEF Frames
    <3> QED  BY <2>2, <2>4, <3>1, <3>2, <3>3 DEF Frames
  <2> HIDE DEF f
  <2> QED  BY <2>1, <2>2, <2>5 DEF SearchOK, Searches, Searched
<1>2. ASSUME Compare
      PROVE  Searched
  <2> DEFINE f == IF top.cost <= top.optimalCost
                  THEN [top EXCEPT !.optimalCost = top.cost, !.optimal = top.model]
                  ELSE top
  <2>1. /\ frames # <<>> /\ top.alg = "dp" /\ top.model # NoSetting
        /\ frames' = WithTop(NextCandidate(f))
        /\ UNCHANGED <<phase, child, call, returned, COST, structMap>>
    BY <1>2 DEF Compare, Working
  <2>2. /\ top \in Frames
        /\ \A g \in Frames : WithTop(g) \in Seq(Frames) /\ Len(WithTop(g)) <= StackSize
    BY <2>1, Open
  <2>3. top.candidates # <<>> /\ top.model \in Models /\ top.cost \in Nat
    BY <2>1, <2>2 DEF Frames
  <2>4. f \in Frames /\ f.candidates # <<>>
    <3>1. [top EXCEPT !.optimalCost = top.cost, !.optimal = top.model] \in Frames
          /\ [top EXCEPT !.optimalCost = top.cost, !.optimal = top.model].candidates
               = top.candidates
      BY <2>2, <2>3 DEF Frames
    <3> QED  BY <2>2, <2>3, <3>1
  <2> HIDE DEF f
  <2>5. NextCandidate(f) \in Frames
    BY <2>4, NextCandidateIs
  <2> QED  BY <2>1, <2>2, <2>5 DEF SearchOK, Searches, Searched
<1> QED  BY <1>1, <1>2

LEMMA CallsEnd ==
  ASSUME Data, SearchOK
  PROVE  EndInner \/ EndGreedy => Searched
<1>0. NoCall \in Calls
  BY DEF Calls
<1>1. ASSUME EndInner
      PROVE  Searched
  <2> DEFINE range  == top.range
             cost   == Inserted(COST, range.init, top.optimalCost)
             struct == Inserted(structMap, range.init, top.optimal)
  <2>1. /\ frames # <<>> /\ frames' = Front(frames) /\ call' = NoCall
        /\ UNCHANGED <<phase, child>>
        /\ \/ COST' = cost /\ structMap' = struct /\ returned' = top.optimalCost
           \/ DPLeaf(range, cost, struct)
              /\ returned' = Min({top.optimalCost, LeafCost(range)})
    BY <1>1 DEF EndInner, Working, Return
  <2>2. /\ top \in Frames /\ range \in Ranges /\ range.init \in Pairs(initDataset)
        /\ Front(frames) \in Seq(Frames) /\ Len(Front(frames)) <= StackSize
    BY <2>1, Open
  <2>3. top.optimalCost \in Nat /\ top.optimal \in Models \cup {LeafSetting}
    BY <2>2 DEF Frames
  <2>4. IsCost(cost) /\ IsStruct(struct)
    <3>1. IsCost(COST) /\ IsStruct(structMap)
      BY DEF SearchOK, Searches
    <3> QED  BY <2>2, <2>3, <3>1, MapsGrow DEF IsCost, IsStruct
  <2>5. Min({top.optimalCost, LeafCost(range)}) \in Nat
    <3>1. LeafCost(range) \in Nat
      BY <2>2, CostsAre
    <3>2. Min({top.optimalCost, LeafCost(range)}) =
            IF top.optimalCost <= LeafCost(range) THEN top.optimalCost ELSE LeafCost(range)
      BY <2>3, <3>1, MinOfTwo
    <3> QED  BY <2>3, <3>1, <3>2
  <2> HIDE DEF range, cost, struct
  <2>6. IsCost(COST') /\ IsStruct(structMap')
    BY <2>1, <2>2, <2>4, LeafIsStored
  <2> QED  BY <1>0, <2>1, <2>2, <2>3, <2>5, <2>6 DEF SearchOK, Searches, Searched
<1>2. ASSUME EndGreedy
      PROVE  Searched
  <2>1. /\ frames # <<>> /\ frames' = Front(frames) /\ call' = NoCall
        /\ structMap' = Inserted(structMap, top.range.init, top.optimal)
        /\ COST' = Inserted(COST, top.range.init, top.cost)
        /\ returned' = top.cost /\ UNCHANGED <<phase, child>>
    BY <1>2 DEF EndGreedy, Working, Return
  <2>2. /\ top \in Frames /\ top.range.init \in Pairs(initDataset)
        /\ Front(frames) \in Seq(Frames) /\ Len(Front(frames)) <= StackSize
    BY <2>1, Open
  <2>3. top.cost \in Nat /\ top.optimal \in Models \cup {LeafSetting}
    BY <2>2 DEF Frames
  <2>4. IsCost(COST') /\ IsStruct(structMap')
    <3>1. IsCost(COST) /\ IsStruct(structMap)
      BY DEF SearchOK, Searches
    <3> QED  BY <2>1, <2>2, <2>3, <3>1, MapsGrow DEF IsCost, IsStruct
  <2> QED  BY <1>0, <2>1, <2>2, <2>3, <2>4 DEF SearchOK, Searches, Searched
<1> QED  BY <1>1, <1>2

LEMMA GreedyIsSearched ==
  ASSUME Data, SearchOK, Greedy
  PROVE  Searched
<1> DEFINE Model(i) == InnerNode(call.range, Candidates(call.range)[i].type,
                                 Candidates(call.range)[i].c)
           Parts1(i) == ChildrenOf(Model(i), call.range, Model(i).children)
           g(i) == [Frame("greedy", call.range) EXCEPT
                      !.model = Model(i), !.optimal = Model(i), !.optimalCost = 0,
                      !.parts = Parts1(i)]
<1>1. /\ call.alg = "greedy" /\ Len(frames) < StackSize /\ call' = NoCall
      /\ \E i \in DOMAIN Candidates(call.range) : frames' = Append(frames, g(i))
      /\ UNCHANGED <<phase, child, returned, COST, structMap>>
  BY DEF Greedy
<1>2. PICK i \in DOMAIN Candidates(call.range) : frames' = Append(frames, g(i))
  BY <1>1
<1>3. call.range \in FullRanges /\ call.range \in Ranges /\ Points(call.range) > 0
  BY <1>1 DEF SearchOK, Searches, Calls, NoCall, FullRanges
<1>4. Candidates(call.range)[i].type \in Type /\ Candidates(call.range)[i].c \in Nat
      /\ Candidates(call.range)[i].c >= 2
  <2>1. Candidates(call.range) \in Seq(Tries)
    BY <1>3, CandidatesAre
  <2>2. Candidates(call.range)[i] \in Tries
    BY <2>1
  <2> QED  BY <2>2 DEF Tries
<1>5. Model(i) \in Models
  BY <1>3, <1>4, InnerNodeIsModel
<1> HIDE DEF Model
<1>6. Parts1(i) \in Divisions
  <2>1. Model(i).children \in Nat
    BY <1>5 DEF Models
  <2> QED  BY <1>3, <2>1, ChildrenAre
<1> HIDE DEF Parts1
<1>7. Frame("greedy", call.range) \in Frames
  BY <1>3, FrameIs
<1>8. Frame("greedy", call.range).alg = "greedy"
  BY DEF Frame
<1>9. g(i) \in Frames
  BY <1>5, <1>6, <1>7, <1>8 DEF Frames
<1> HIDE DEF g
<1>10. frames' \in Seq(Frames) /\ Len(frames') <= StackSize
  <2>1. frames \in Seq(Frames) /\ StackSize \in Nat
    BY SizesAssumption DEF SearchOK, Searches
  <2> QED  BY <1>1, <1>2, <1>9, <2>1
<1>11. NoCall \in Calls
  BY DEF Calls
<1> QED  BY <1>1, <1>10, <1>11 DEF SearchOK, Searches, Searched

----------------------------------------------------------------------------
(* What has been stored.  D is the range of each of the n nodes.           *)
Inner(nd, i) == nd[i].type = "inner"

(* The children of an inner node are behind it, and have its range divided.*)
Divides(nd, n, D, i) ==
  LET model == nd[i].model
      first == nd[i].childLeft
  IN /\ model \in Models
     /\ first \in i + 1..n /\ first + model.children - 1 \in 1..n
     /\ \A c \in 0..model.children - 1 :
          D[first + c] = ChildrenOf(model, D[i], model.children)[c]

TreeIs(nd, n, D) ==
  /\ n \in Nat /\ n >= RootChildren /\ nd = [i \in 1..n |-> nd[i]]
  /\ D \in [1..n -> Ranges]
  /\ \A c \in 0..RootChildren - 1 : D[c + 1] = RootRanges[c]
  /\ \A i \in 1..n : Inner(nd, i) => Divides(nd, n, D, i)

Scanned(sc, i) == \E j \in 1..Len(sc) : sc[j] = i

(* A leaf that is filled, but not chained.                                 *)
IsFilled(nd, D, i) == nd[i] = Leaf(D[i], nd[i].blocks)

(* A leaf has been scanned, and is filled or waits for it, in W.           *)
LeavesAre(nd, n, D, sc, W) ==
  /\ sc \in Seq(Nat) /\ \A j \in 1..Len(sc) : sc[j] \in 1..n
  /\ \A i, j \in 1..Len(sc) : sc[i] = sc[j] => i = j
  /\ \A i \in 1..n : nd[i].type = "leaf" => Scanned(sc, i) /\ IsFilled(nd, D, i)
  /\ \A i \in 1..n : Scanned(sc, i) =>
       /\ ~ Inner(nd, i)
       /\ nd[i].type = "leaf" \/ \E w \in W : w.at = i
  /\ \A w \in W : w.at \in 1..n /\ Scanned(sc, w.at) /\ w.range = D[w.at]

Tasks == [at : Nat, range : Ranges]

InQueue(ts, i) == \E j \in 1..Len(ts) : ts[j].at = i

(* Any other node is inner, to be stored or below the root and yet to come.*)
QueueIs(nd, n, D, sc, ts, u) ==
  /\ ts \in Seq(Tasks) /\ \A j \in 1..Len(ts) : ts[j].at \in 1..n
  /\ \A i, j \in 1..Len(ts) : ts[i].at = ts[j].at => i = j
  /\ \A j \in 1..Len(ts) : /\ ts[j].range = D[ts[j].at]
                           /\ ~ Inner(nd, ts[j].at) /\ ~ Scanned(sc, ts[j].at)
  /\ \A i \in u + 1..RootChildren : ~ Inner(nd, i) /\ ~ Scanned(sc, i) /\ ~ InQueue(ts, i)
  /\ \A i \in 1..n : Inner(nd, i) \/ Scanned(sc, i) \/ InQueue(ts, i) \/ i \in u + 1..RootChildren
  /\ Len(sc) + Len(ts) + (RootChildren - u) <= n

(* The n pairs of r follow each other from a to b.                         *)
RowBy(T, r, n, a, b) ==
  /\ T \in [0..n -> Nat] /\ T[0] = a /\ T[n] = b
  /\ \A j \in 1..n : /\ T[j] = T[j - 1] + r[j].size
                     /\ r[j].size > 0 => r[j].left = T[j - 1]
Row(r, n, a, b) == \E T : RowBy(T, r, n, a, b)

ScannedPairs(D, sc) == [j \in 1..Len(sc) |-> D[sc[j]].init]
QueuedPairs(ts) == [j \in 1..Len(ts) |-> ts[j].range.init]

(* Where the points of the children of the root from u on are.             *)
Start(u) == 1 + Before(root, initDataset, Whole.init, u)

OrderIs(D, sc, ts, u) ==
  \E b \in Nat : /\ Row(ScannedPairs(D, sc), Len(sc), 1, b)
                 /\ Row(QueuedPairs(ts), Len(ts), b, Start(u))

Size(D, sc, j) == D[sc[j]].init.size

(* The first and the last leaf that has points.                            *)
EndsAre(D, sc, fl, ll) ==
  \/ fl = 0 /\ ll = 0 /\ \A j \in 1..Len(sc) : Size(D, sc, j) = 0
  \/ \E f, l \in 1..Len(sc) :
       /\ fl = sc[f] /\ Size(D, sc, f) > 0 /\ \A j \in 1..f - 1 : Size(D, sc, j) = 0
       /\ ll = sc[l] /\ Size(D, sc, l) > 0 /\ \A j \in l + 1..Len(sc) : Size(D, sc, j) = 0

Stored(D, n, nd, sc, ts, W, fl, ll, u) ==
  /\ u \in 0..RootChildren
  /\ TreeIs(nd, n, D) /\ LeavesAre(nd, n, D, sc, W) /\ QueueIs(nd, n, D, sc, ts, u)
  /\ OrderIs(D, sc, ts, u) /\ EndsAre(D, sc, fl, ll)

(* Rows.                                                                   *)
LEMMA RowOfNone ==
  ASSUME NEW r, NEW a \in Nat, NEW b
  PROVE  Row(r, 0, a, a) /\ (Row(r, 0, a, b) => a = b)
<1>1. RowBy([j \in 0..0 |-> a], r, 0, a, a)
  BY DEF RowBy
<1> QED  BY <1>1 DEF Row, RowBy

LEMMA RowGrows ==
  ASSUME NEW n \in Nat, NEW r, NEW s, NEW a \in Nat, NEW b \in Nat, Row(r, n, a, b),
         \A j \in 1..n : s[j] = r[j],
         s[n + 1].size \in Nat, s[n + 1].size > 0 => s[n + 1].left = b
  PROVE  Row(s, n + 1, a, b + s[n + 1].size)
<1>1. PICK T : RowBy(T, r, n, a, b)
  BY DEF Row
<1> DEFINE c == b + s[n + 1].size
           U == [j \in 0..n + 1 |-> IF j <= n THEN T[j] ELSE c]
<1>2. c \in Nat /\ T \in [0..n -> Nat] /\ T[0] = a /\ T[n] = b
  BY <1>1 DEF RowBy
<1>3. U \in [0..n + 1 -> Nat] /\ U[0] = a /\ U[n + 1] = c /\ \A j \in 0..n : U[j] = T[j]
  <2> HIDE DEF c
  <2> QED  BY <1>2
<1> HIDE DEF U
<1>4. ASSUME NEW j \in 1..n + 1
      PROVE  U[j] = U[j - 1] + s[j].size /\ (s[j].size > 0 => s[j].left = U[j - 1])
  <2>1. CASE j = n + 1
    <3>1. U[j - 1] = b /\ U[j] = c
      BY <1>2, <1>3, <2>1
    <3> QED  BY <2>1, <3>1
  <2>2. CASE j # n + 1
    <3>1. j \in 1..n /\ j - 1 \in 0..n /\ j \in 0..n
      BY <2>2
    <3>2. U[j] = T[j] /\ U[j - 1] = T[j - 1] /\ s[j] = r[j]
      BY <1>3, <3>1
    <3> QED  BY <1>1, <3>1, <3>2 DEF RowBy
  <2> QED  BY <2>1, <2>2
<1>5. RowBy(U, s, n + 1, a, c)
  BY <1>3, <1>4 DEF RowBy
<1> QED  BY <1>5 DEF Row, c

Behind1(s, r, n) == \A j \in 1..n : s[j] = r[j + 1]

LEMMA RowShrinks ==
  ASSUME NEW n \in Nat, NEW r, NEW s, NEW a, NEW b, Row(r, n + 1, a, b),
         Behind1(s, r, n), r[1].size \in Nat
  PROVE  /\ Row(s, n, a + r[1].size, b) /\ (r[1].size > 0 => r[1].left = a)
         /\ a \in Nat
<1>1. PICK T : RowBy(T, r, n + 1, a, b)
  BY DEF Row
<1> DEFINE U == [j \in 0..n |-> T[j + 1]]
<1>2. T \in [0..n + 1 -> Nat] /\ T[0] = a /\ T[n + 1] = b
      /\ T[1] = T[0] + r[1].size /\ (r[1].size > 0 => r[1].left = T[0])
  <2>1. 1 \in 1..n + 1 /\ 1 - 1 = 0
    OBVIOUS
  <2> QED  BY <1>1, <2>1 DEF RowBy
<1>3. U \in [0..n -> Nat] /\ U[0] = a + r[1].size /\ U[n] = b /\ \A j \in 0..n : U[j] = T[j + 1]
  BY <1>2
<1> HIDE DEF U
<1>4. ASSUME NEW j \in 1..n
      PROVE  U[j] = U[j - 1] + s[j].size /\ (s[j].size > 0 => s[j].left = U[j - 1])
  <2>1. j + 1 \in 1..n + 1 /\ (j + 1) - 1 = j /\ j \in 0..n /\ j - 1 \in 0..n /\ (j - 1) + 1 = j
    OBVIOUS
  <2>2. U[j] = T[j + 1] /\ U[j - 1] = T[j] /\ s[j] = r[j + 1]
    BY <1>3, <2>1 DEF Behind1
  <2>3. T[j + 1] = T[(j + 1) - 1] + r[j + 1].size
        /\ (r[j + 1].size > 0 => r[j + 1].left = T[(j + 1) - 1])
    BY <1>1, <2>1 DEF RowBy
  <2> QED  BY <2>1, <2>2, <2>3
<1>5. RowBy(U, s, n, a + r[1].size, b)
  BY <1>3, <1>4 DEF RowBy
<1>6. a \in Nat
  BY <1>2
<1> QED  BY <1>2, <1>5, <1>6 DEF Row

LEMMA RowsJoin ==
  ASSUME NEW m \in Nat, NEW n \in Nat, NEW r, NEW s, NEW u, NEW a, NEW b, NEW c,
         Row(r, m, a, b), Row(s, n, b, c),
         \A j \in 1..m : u[j] = r[j], \A j \in 1..n : u[m + j] = s[j]
  PROVE  Row(u, m + n, a, c)
<1>1. PICK T : RowBy(T, r, m, a, b)
  BY DEF Row
<1>2. PICK V : RowBy(V, s, n, b, c)
  BY DEF Row
<1> DEFINE U == [j \in 0..m + n |-> IF j <= m THEN T[j] ELSE V[j - m]]
<1>3. /\ T \in [0..m -> Nat] /\ T[0] = a /\ T[m] = b
      /\ V \in [0..n -> Nat] /\ V[0] = b /\ V[n] = c
  BY <1>1, <1>2 DEF RowBy
<1>4. U \in [0..m + n -> Nat] /\ \A j \in 0..m : U[j] = T[j]
  BY <1>3
<1>5. \A j \in 0..n : U[m + j] = V[j]
  <2> SUFFICES ASSUME NEW j \in 0..n PROVE U[m + j] = V[j]
    OBVIOUS
  <2>1. CASE j = 0
    BY <1>3, <2>1
  <2>2. CASE j > 0
    <3>1. m + j \in 0..m + n /\ ~ (m + j <= m) /\ (m + j) - m = j
      BY <2>2
    <3> QED  BY <3>1
  <2> QED  BY <2>1, <2>2
<1> HIDE DEF U
<1>6. ASSUME NEW j \in 1..m + n
      PROVE  U[j] = U[j - 1] + u[j].size /\ (u[j].size > 0 => u[j].left = U[j - 1])
  <2>1. CASE j <= m
    <3>1. j \in 1..m /\ j \in 0..m /\ j - 1 \in 0..m
      BY <2>1
    <3> QED  BY <1>1, <1>4, <3>1 DEF RowBy
  <2>2. CASE j > m
    <3>1. j - m \in 1..n /\ j - m \in 0..n /\ (j - m) - 1 \in 0..n /\ m + (j - m) = j
          /\ m + ((j - m) - 1) = j - 1
      BY <2>2
    <3>2. U[j] = V[j - m] /\ U[j - 1] = V[(j - m) - 1] /\ u[j] = s[j - m]
      BY <1>5, <3>1
    <3>3. V[j - m] = V[(j - m) - 1] + s[j - m].size
          /\ (s[j - m].size > 0 => s[j - m].left = V[(j - m) - 1])
      BY <1>2, <3>1 DEF RowBy
    <3> QED  BY <3>2, <3>3
  <2> QED  BY <2>1, <2>2
<1>7. U[0] = a /\ U[m + n] = c
  <2>1. 0 \in 0..m /\ n \in 0..n
    OBVIOUS
  <2> QED  BY <1>3, <1>4, <1>5, <2>1
<1>8. RowBy(U, u, m + n, a, c)
  BY <1>4, <1>6, <1>7 DEF RowBy
<1> QED  BY <1>8 DEF Row

(* The children of a range are a row.                                      *)
LEMMA ChildrenAreRow ==
  ASSUME Data, NEW range \in Ranges, NEW c \in Nat \ {0}, NEW f, IsMap(f, c),
         NEW parts, parts = Divide(f, range, c), NEW a \in Nat,
         range.init.size > 0 => range.init.left = a
  PROVE  Row([j \in 1..c |-> parts[j - 1].init], c, a, a + range.init.size)
<1> DEFINE p == range.init
           B(i) == Before(f, initDataset, p, i)
           P(i) == PartOf(f, initDataset, p, i)
           r == [j \in 1..c |-> parts[j - 1].init]
           T == [j \in 0..c |-> a + B(j)]
<1>1. Ordered(initDataset) /\ p \in Pairs(initDataset) /\ p.size \in Nat
  BY RangeIs DEF Data
<1>2. /\ B(0) = 0 /\ B(c) = p.size /\ \A i \in 0..c : B(i) \in Nat
      /\ \A i \in 0..c - 1 : B(i + 1) = B(i) + P(i).size
  BY <1>1, DividedIs
<1>3. \A i \in 0..c - 1 : /\ P(i).size \in Nat /\ B(i) + P(i).size <= p.size
                          /\ P(i).size > 0 => P(i).left = p.left + B(i)
  BY <1>1, PartIs
<1>4. \A j \in 1..c : r[j] = P(j - 1)
  <2>1. \A i \in 0..c - 1 : parts[i].init = P(i)
    BY DividedInRanges
  <2> QED  BY <2>1
<1> HIDE DEF B, P, r, p
<1>5. T \in [0..c -> Nat] /\ T[0] = a /\ T[c] = a + p.size /\ \A j \in 0..c : T[j] = a + B(j)
  BY <1>2
<1> HIDE DEF T
<1>6. ASSUME NEW j \in 1..c
      PROVE  T[j] = T[j - 1] + r[j].size /\ (r[j].size > 0 => r[j].left = T[j - 1])
  <2>1. j - 1 \in 0..c - 1 /\ (j - 1) + 1 = j /\ j \in 0..c /\ j - 1 \in 0..c
    OBVIOUS
  <2> DEFINE x == B(j - 1)
             y == P(j - 1).size
  <2>2. /\ T[j] = a + B(j) /\ T[j - 1] = a + x /\ B(j) = x + y /\ r[j] = P(j - 1)
        /\ x \in Nat /\ y \in Nat /\ x + y <= p.size /\ (y > 0 => r[j].left = p.left + x)
        /\ r[j].size = y
    BY <1>2, <1>3, <1>4, <1>5, <2>1
  <2> HIDE DEF x, y
  <2>3. y > 0 => p.left = a
    BY <1>1, <2>2 DEF p
  <2> QED  BY <2>2, <2>3
<1>7. RowBy(T, r, c, a, a + p.size)
  BY <1>5, <1>6 DEF RowBy
<1> QED  BY <1>7 DEF Row, r, p

Begun(ph, ch) == IF ph = "store" THEN ch + 1 ELSE ch

LEMMA StartIs ==
  ASSUME Data
  PROVE  /\ Start(0) = 1 /\ Start(RootChildren) = 1 + Len(initDataset)
         /\ \A u \in 0..RootChildren - 1 :
              LET p == RootRanges[u].init
              IN /\ Start(u) \in Nat /\ p.size \in Nat /\ Start(u + 1) = Start(u) + p.size
                 /\ p.size > 0 => p.left = Start(u)
<1> DEFINE w == Whole.init
           B(i) == Before(root, initDataset, w, i)
           P(i) == PartOf(root, initDataset, w, i)
<1>1. /\ Ordered(initDataset) /\ w \in Pairs(initDataset) /\ w.left = 1
      /\ w.size = Len(initDataset) /\ IsMap(root, RootChildren)
  BY WholeIs DEF Data, Ranges
<1>2. RootChildren \in Nat \ {0}
  BY SizesAssumption
<1>3. /\ B(0) = 0 /\ B(RootChildren) = w.size /\ \A i \in 0..RootChildren : B(i) \in Nat
      /\ \A i \in 0..RootChildren - 1 : B(i + 1) = B(i) + P(i).size
  BY <1>1, <1>2, DividedIs
<1>4. \A i \in 0..RootChildren - 1 : P(i).size \in Nat /\ (P(i).size > 0 => P(i).left = w.left + B(i))
  BY <1>1, <1>2, PartIs
<1>5. \A i \in 0..RootChildren - 1 : RootRanges[i].init = P(i)
  BY WholeIs, DividedInRanges
<1>6. \A i : Start(i) = 1 + B(i)
  BY DEF Start
<1> HIDE DEF B, P, w
<1>7. ASSUME NEW u \in 0..RootChildren - 1
      PROVE  LET p == RootRanges[u].init
             IN /\ Start(u) \in Nat /\ p.size \in Nat /\ Start(u + 1) = Start(u) + p.size
                /\ p.size > 0 => p.left = Start(u)
  <2>1. B(u) \in Nat /\ P(u).size \in Nat /\ B(u + 1) = B(u) + P(u).size
        /\ (P(u).size > 0 => P(u).left = 1 + B(u)) /\ RootRanges[u].init = P(u)
    BY <1>1, <1>2, <1>3, <1>4, <1>5
  <2>2. Start(u) = 1 + B(u) /\ Start(u + 1) = 1 + B(u + 1)
    BY <1>6
  <2> DEFINE x == B(u)
             y == P(u).size
  <2>3. x \in Nat /\ y \in Nat /\ B(u + 1) = x + y
    BY <2>1
  <2> HIDE DEF x, y
  <2>4. 1 + x \in Nat /\ 1 + (x + y) = (1 + x) + y
    BY <2>3
  <2> QED  BY <2>1, <2>2, <2>3, <2>4 DEF x, y
<1>8. Start(0) = 1 /\ Start(RootChildren) = 1 + Len(initDataset)
  BY <1>1, <1>3, <1>6
<1> QED  BY <1>7, <1>8

(* A child of the root comes to its turn.                                  *)
LEMMA ChildIsQueued ==
  ASSUME Data, NEW D, NEW n, NEW nd, NEW sc, NEW W, NEW fl, NEW ll,
         NEW u \in 0..RootChildren - 1, Stored(D, n, nd, sc, <<>>, W, fl, ll, u),
         NEW ts, ts = <<[at |-> u + 1, range |-> RootRanges[u]]>>
  PROVE  Stored(D, n, nd, sc, ts, W, fl, ll, u + 1)
<1> DEFINE range == RootRanges[u]
<1>0. RootChildren \in Nat /\ u \in Nat /\ u + 1 \in 0..RootChildren /\ u + 1 \in u + 1..RootChildren
  BY SizesAssumption
<1>1. TreeIs(nd, n, D) /\ LeavesAre(nd, n, D, sc, W) /\ EndsAre(D, sc, fl, ll)
      /\ QueueIs(nd, n, D, sc, <<>>, u) /\ OrderIs(D, sc, <<>>, u)
  BY DEF Stored
<1>2. n \in Nat /\ u + 1 \in 1..n /\ D[u + 1] = range
  BY <1>0, <1>1 DEF TreeIs
<1>3. range \in Ranges
  BY RootRangesAre
<1> HIDE DEF range
<1>4. /\ ts \in Seq(Tasks) /\ Len(ts) = 1 /\ ts[1] = [at |-> u + 1, range |-> range]
      /\ \A i : InQueue(ts, i) <=> i = u + 1
  <2>1. [at |-> u + 1, range |-> range] \in Tasks
    BY <1>0, <1>3 DEF Tasks
  <2>2. ts = <<[at |-> u + 1, range |-> range]>>
    BY DEF range
  <2>3. ts \in Seq(Tasks) /\ Len(ts) = 1 /\ ts[1] = [at |-> u + 1, range |-> range]
    BY <2>1, <2>2
  <2> QED  BY <2>3 DEF InQueue
<1>5. QueueIs(nd, n, D, sc, ts, u + 1)
  <2>1. ~ Inner(nd, u + 1) /\ ~ Scanned(sc, u + 1)
    BY <1>0, <1>1 DEF QueueIs
  <2>2. \A i \in u + 1 + 1..RootChildren : i \in u + 1..RootChildren /\ i # u + 1
    BY <1>0
  <2>3. \A i \in u + 1 + 1..RootChildren : ~ Inner(nd, i) /\ ~ Scanned(sc, i) /\ ~ InQueue(ts, i)
    BY <1>1, <1>4, <2>2 DEF QueueIs
  <2>4. \A i \in 1..n : Inner(nd, i) \/ Scanned(sc, i) \/ InQueue(ts, i)
                          \/ i \in u + 1 + 1..RootChildren
    <3> SUFFICES ASSUME NEW i \in 1..n, i # u + 1, ~ Inner(nd, i), ~ Scanned(sc, i)
                 PROVE  i \in u + 1 + 1..RootChildren
      BY <1>4
    <3>1. ~ InQueue(<<>>, i)
      BY DEF InQueue
    <3>2. i \in u + 1..RootChildren
      BY <1>1, <3>1 DEF QueueIs
    <3> QED  BY <1>0, <3>2
  <2>5. Len(sc) + Len(ts) + (RootChildren - (u + 1)) <= n
    <3>1. Len(sc) + Len(<<>>) + (RootChildren - u) <= n /\ Len(sc) \in Nat
      BY <1>1 DEF QueueIs, LeavesAre
    <3>2. Len(<<>>) = 0
      OBVIOUS
    <3> QED  BY <1>0, <1>2, <1>4, <3>1, <3>2
  <2>6. \A j \in 1..Len(ts) : /\ ts[j].at \in 1..n /\ ts[j].range = D[ts[j].at]
                              /\ ~ Inner(nd, ts[j].at) /\ ~ Scanned(sc, ts[j].at)
    BY <1>2, <1>4, <2>1
  <2>7. \A i, j \in 1..Len(ts) : ts[i].at = ts[j].at => i = j
    BY <1>4
  <2> QED  BY <1>4, <2>3, <2>4, <2>5, <2>6, <2>7 DEF QueueIs
<1>6. OrderIs(D, sc, ts, u + 1)
  <2>1. PICK b \in Nat : /\ Row(ScannedPairs(D, sc), Len(sc), 1, b)
                         /\ Row(QueuedPairs(<<>>), Len(<<>>), b, Start(u))
    BY <1>1 DEF OrderIs
  <2>2. b = Start(u)
    <3>1. Len(<<>>) = 0
      OBVIOUS
    <3> QED  BY <2>1, <3>1, RowOfNone
  <2> DEFINE q == QueuedPairs(ts)
  <2>3. q[1] = range.init /\ range.init.size \in Nat /\ Start(u + 1) = b + range.init.size
        /\ (range.init.size > 0 => range.init.left = b)
    <3>1. q[1] = range.init
      BY <1>4 DEF QueuedPairs
    <3> QED  BY <2>2, <3>1, StartIs DEF range
  <2>4. Row(q, 0, b, b)
    BY <2>1, RowOfNone
  <2> HIDE DEF q
  <2>5. Row(q, 0 + 1, b, b + q[0 + 1].size)
    <3>1. 0 \in Nat /\ 0 + 1 = 1 /\ \A j \in 1..0 : q[j] = q[j]
      OBVIOUS
    <3>2. q[0 + 1].size \in Nat /\ (q[0 + 1].size > 0 => q[0 + 1].left = b)
      BY <2>3, <3>1
    <3> QED  BY <2>1, <2>4, <3>1, <3>2, RowGrows
  <2>6. Row(q, Len(ts), b, Start(u + 1))
    BY <1>4, <2>3, <2>5
  <2> QED  BY <2>1, <2>6 DEF OrderIs, q
<1> QED  BY <1>0, <1>1, <1>5, <1>6 DEF Stored

LEMMA Appended ==
  ASSUME NEW S, NEW s \in Seq(S), NEW a \in S
  PROVE  /\ Append(s, a) \in Seq(S) /\ Len(s) \in Nat /\ Len(Append(s, a)) = Len(s) + 1
         /\ \A j \in 1..Len(s) : Append(s, a)[j] = s[j]
         /\ Append(s, a)[Len(s) + 1] = a
OBVIOUS

LEMMA HeadAndTail ==
  ASSUME NEW S, NEW s \in Seq(S), s # <<>>
  PROVE  /\ Tail(s) \in Seq(S) /\ Len(s) \in Nat \ {0} /\ Len(Tail(s)) = Len(s) - 1
         /\ \A j \in 1..Len(s) - 1 : Tail(s)[j] = s[j + 1]
         /\ Head(s) = s[1] /\ Head(s) \in S
OBVIOUS

(* The first and the last leaf, when a new one has come last.              *)
EndsMove(new, fl, ll, f2, l2) ==
  IF new.range.init.size = 0 THEN f2 = fl /\ l2 = ll
  ELSE l2 = new.at /\ f2 = IF fl = 0 THEN new.at ELSE fl

(* The next of the nodes to be stored is a leaf.                           *)
LEMMA HeadIsScanned ==
  ASSUME Data, NEW D, NEW n, NEW nd, NEW sc, NEW ts, NEW W, NEW fl, NEW ll, NEW u,
         Stored(D, n, nd, sc, ts, W, fl, ll, u), ts # <<>>,
         NEW s2, s2 = Append(sc, Head(ts).at), NEW t2, t2 = Tail(ts),
         NEW V, V = W \cup {Head(ts)}, NEW f2, NEW l2,
         EndsMove(Head(ts), fl, ll, f2, l2)
  PROVE  Stored(D, n, nd, s2, t2, V, f2, l2, u)
<1> DEFINE h == Head(ts)
           a == Head(ts).at
           m == Len(sc)
           k == Len(ts)
<1>0. u \in 0..RootChildren /\ RootChildren \in Nat
  BY SizesAssumption DEF Stored
<1>1. TreeIs(nd, n, D) /\ LeavesAre(nd, n, D, sc, W) /\ EndsAre(D, sc, fl, ll)
      /\ QueueIs(nd, n, D, sc, ts, u) /\ OrderIs(D, sc, ts, u)
  BY DEF Stored
<1>2. /\ t2 \in Seq(Tasks) /\ k \in Nat \ {0} /\ Len(t2) = k - 1
      /\ \A j \in 1..k - 1 : t2[j] = ts[j + 1]
      /\ h = ts[1] /\ h \in Tasks
  BY <1>1, HeadAndTail DEF QueueIs
<1>3. n \in Nat /\ a \in 1..n /\ h.range = D[a] /\ D[a] \in Ranges /\ ~ Inner(nd, a)
      /\ ~ Scanned(sc, a) /\ a \in Nat
  <2>1. 1 \in 1..k
    BY <1>2
  <2>2. n \in Nat
    BY <1>1 DEF TreeIs
  <2>3. a \in 1..n /\ h.range = D[a] /\ ~ Inner(nd, a) /\ ~ Scanned(sc, a)
    BY <1>1, <1>2, <2>1 DEF QueueIs
  <2> QED  BY <1>1, <2>2, <2>3 DEF TreeIs
<1>4. /\ s2 \in Seq(Nat) /\ m \in Nat /\ Len(s2) = m + 1
      /\ \A j \in 1..m : s2[j] = sc[j]
      /\ s2[m + 1] = a
  <2>1. sc \in Seq(Nat)
    BY <1>1 DEF LeavesAre
  <2> QED  BY <1>3, <2>1, Appended
<1> HIDE DEF h, a, m, k
<1>5. \A i : Scanned(s2, i) <=> Scanned(sc, i) \/ i = a
  <2>1. \A j \in 1..m : j \in 1..m + 1
    BY <1>4
  <2>2. m + 1 \in 1..m + 1 /\ \A j \in 1..m + 1 : j \in 1..m \/ j = m + 1
    BY <1>4
  <2> QED  BY <1>4, <2>1, <2>2 DEF Scanned, m
<1>6. \A i : InQueue(ts, i) => InQueue(t2, i) \/ i = a
  <2>1. \A j \in 1..k : j = 1 \/ (j - 1 \in 1..k - 1 /\ (j - 1) + 1 = j)
    BY <1>2
  <2>2. ts[1].at = a
    BY <1>2 DEF a, h
  <2> SUFFICES ASSUME NEW i, NEW j \in 1..k, ts[j].at = i, j # 1
               PROVE  InQueue(t2, i)
    BY <2>2 DEF InQueue, k
  <2>3. j - 1 \in 1..k - 1 /\ t2[j - 1] = ts[j]
    BY <1>2, <2>1
  <2> QED  BY <1>2, <2>3 DEF InQueue
<1>7. \A j \in 1..k - 1 : j + 1 \in 1..k /\ j + 1 # 1 /\ t2[j] = ts[j + 1]
  BY <1>2
<1>8. \A i : InQueue(t2, i) => InQueue(ts, i) /\ i # a
  <2> SUFFICES ASSUME NEW j \in 1..k - 1 PROVE InQueue(ts, t2[j].at) /\ t2[j].at # a
    BY <1>2 DEF InQueue
  <2>1. j + 1 \in 1..k /\ 1 \in 1..k /\ j + 1 # 1 /\ t2[j] = ts[j + 1] /\ a = ts[1].at
    BY <1>2, <1>7 DEF a, h
  <2>2. ts[j + 1].at # ts[1].at
    BY <1>1, <2>1 DEF QueueIs, k
  <2> QED  BY <2>1, <2>2 DEF InQueue, k
<1>9. LeavesAre(nd, n, D, s2, V)
  <2>1. \A j \in 1..m + 1 : s2[j] \in 1..n
    <3>1. \A j \in 1..m + 1 : j \in 1..m \/ j = m + 1
      BY <1>4
    <3> QED  BY <1>1, <1>3, <1>4, <3>1 DEF LeavesAre, m
  <2>2. ASSUME NEW i \in 1..m + 1, NEW j \in 1..m + 1, s2[i] = s2[j]
        PROVE  i = j
    <3>1. CASE i \in 1..m /\ j \in 1..m
      BY <1>1, <1>4, <2>2, <3>1 DEF LeavesAre, m
    <3>2. CASE i \in 1..m /\ j = m + 1
      BY <1>3, <1>4, <2>2, <3>2 DEF Scanned, m
    <3>3. CASE i = m + 1 /\ j \in 1..m
      BY <1>3, <1>4, <2>2, <3>3 DEF Scanned, m
    <3>4. i \in 1..m \/ i = m + 1
      BY <1>4
    <3>5. j \in 1..m \/ j = m + 1
      BY <1>4
    <3> QED  BY <3>1, <3>2, <3>3, <3>4, <3>5
  <2>3. \A i \in 1..n : nd[i].type = "leaf" => Scanned(s2, i) /\ IsFilled(nd, D, i)
    BY <1>1, <1>5 DEF LeavesAre
  <2>4. \A i \in 1..n : Scanned(s2, i) =>
          ~ Inner(nd, i) /\ (nd[i].type = "leaf" \/ \E w \in V : w.at = i)
    <3> SUFFICES ASSUME NEW i \in 1..n, Scanned(s2, i)
                 PROVE  ~ Inner(nd, i) /\ (nd[i].type = "leaf" \/ \E w \in V : w.at = i)
      OBVIOUS
    <3>1. CASE i = a
      BY <1>3, <3>1 DEF a, h
    <3>2. CASE i # a
      <4>1. Scanned(sc, i)
        BY <1>5, <3>2
      <4>2. ~ Inner(nd, i) /\ (nd[i].type = "leaf" \/ \E w \in W : w.at = i)
        BY <1>1, <4>1 DEF LeavesAre
      <4> QED  BY <4>2
    <3> QED  BY <3>1, <3>2
  <2>5. \A w \in V : w.at \in 1..n /\ Scanned(s2, w.at) /\ w.range = D[w.at]
    <3>1. \A w \in W : w.at \in 1..n /\ Scanned(s2, w.at) /\ w.range = D[w.at]
      BY <1>1, <1>5 DEF LeavesAre
    <3>2. h.at = a /\ V = W \cup {h}
      BY DEF h, a
    <3>3. h.at \in 1..n /\ Scanned(s2, h.at) /\ h.range = D[h.at]
      BY <1>3, <1>5, <3>2
    <3> QED  BY <3>1, <3>2, <3>3
  <2> QED  BY <1>4, <2>1, <2>2, <2>3, <2>4, <2>5 DEF LeavesAre
<1>10. QueueIs(nd, n, D, s2, t2, u)
  <2>1. ASSUME NEW j \in 1..k - 1
        PROVE  /\ t2[j].at \in 1..n /\ t2[j].range = D[t2[j].at]
               /\ ~ Inner(nd, t2[j].at) /\ ~ Scanned(s2, t2[j].at)
    <3>1. j + 1 \in 1..k /\ t2[j] = ts[j + 1]
      BY <1>7
    <3>2. /\ ts[j + 1].at \in 1..n /\ ts[j + 1].range = D[ts[j + 1].at]
          /\ ~ Inner(nd, ts[j + 1].at) /\ ~ Scanned(sc, ts[j + 1].at)
      BY <1>1, <3>1 DEF QueueIs, k
    <3>3. InQueue(t2, t2[j].at)
      BY <1>2 DEF InQueue
    <3> QED  BY <1>5, <1>8, <3>1, <3>2, <3>3
  <2>2. \A i, j \in 1..k - 1 : t2[i].at = t2[j].at => i = j
    <3> SUFFICES ASSUME NEW i \in 1..k - 1, NEW j \in 1..k - 1, t2[i].at = t2[j].at PROVE i = j
      OBVIOUS
    <3>1. i + 1 \in 1..k /\ j + 1 \in 1..k /\ t2[i] = ts[i + 1] /\ t2[j] = ts[j + 1]
      BY <1>7
    <3>2. i + 1 = j + 1
      BY <1>1, <3>1 DEF QueueIs, k
    <3> QED  BY <1>2, <3>2
  <2>3. \A i \in u + 1..RootChildren : ~ Inner(nd, i) /\ ~ Scanned(s2, i) /\ ~ InQueue(t2, i)
    <3>1. InQueue(ts, a)
      <4>1. 1 \in 1..k /\ ts[1].at = a
        BY <1>2 DEF a, h
      <4> QED  BY <4>1 DEF InQueue, k
    <3> QED  BY <1>1, <1>5, <1>8, <3>1 DEF QueueIs
  <2>4. \A i \in 1..n : Inner(nd, i) \/ Scanned(s2, i) \/ InQueue(t2, i) \/ i \in u + 1..RootChildren
    BY <1>1, <1>5, <1>6 DEF QueueIs
  <2>5. Len(s2) + Len(t2) + (RootChildren - u) <= n
    <3>1. m + k + (RootChildren - u) <= n
      BY <1>1 DEF QueueIs, m, k
    <3>2. Len(s2) = m + 1 /\ Len(t2) = k - 1 /\ m \in Nat /\ k \in Nat
      BY <1>2, <1>4
    <3>3. (m + 1) + (k - 1) = m + k
      BY <3>2
    <3> QED  BY <1>0, <1>3, <3>1, <3>2, <3>3
  <2> QED  BY <1>2, <2>1, <2>2, <2>3, <2>4, <2>5 DEF QueueIs
<1>11. OrderIs(D, s2, t2, u)
  <2> DEFINE r == ScannedPairs(D, sc)
             r2 == ScannedPairs(D, s2)
             q == QueuedPairs(ts)
             q2 == QueuedPairs(t2)
  <2>1. PICK b \in Nat : Row(r, m, 1, b) /\ Row(q, k, b, Start(u))
    BY <1>1 DEF OrderIs, m, k
  <2>2. (\A j \in 1..m : r2[j] = r[j]) /\ r2[m + 1] = h.range.init
    <3>1. \A j \in 1..m : j \in 1..m + 1 /\ r[j] = D[sc[j]].init
      BY <1>4 DEF ScannedPairs, m
    <3>2. \A j \in 1..m + 1 : r2[j] = D[s2[j]].init
      BY <1>4 DEF ScannedPairs
    <3>3. m + 1 \in 1..m + 1
      BY <1>4
    <3> QED  BY <1>3, <1>4, <3>1, <3>2, <3>3
  <2>3. (\A j \in 1..k - 1 : q2[j] = q[j + 1]) /\ q[1] = h.range.init
    <3>1. \A j \in 1..k : q[j] = ts[j].range.init
      BY DEF QueuedPairs, k
    <3>2. \A j \in 1..k - 1 : q2[j] = t2[j].range.init
      BY <1>2 DEF QueuedPairs
    <3>3. 1 \in 1..k
      BY <1>2
    <3> QED  BY <1>2, <1>7, <3>1, <3>2, <3>3
  <2> HIDE DEF r, r2, q, q2
  <2> DEFINE z == h.range.init.size
  <2>4. z \in Nat
    BY <1>3, RangeIs
  <2>5. Row(q2, k - 1, b + z, Start(u)) /\ (z > 0 => h.range.init.left = b)
    <3>1. k - 1 \in Nat /\ (k - 1) + 1 = k
      BY <1>2
    <3>2. Row(q, (k - 1) + 1, b, Start(u)) /\ q[1].size \in Nat
      BY <2>1, <2>3, <2>4, <3>1
    <3> DEFINE e == k - 1
    <3>3. e \in Nat /\ Behind1(q2, q, e) /\ Row(q, e + 1, b, Start(u))
      BY <2>3, <3>1, <3>2 DEF Behind1
    <3> HIDE DEF e
    <3>4. Row(q2, e, b + q[1].size, Start(u)) /\ (q[1].size > 0 => q[1].left = b)
      BY <3>2, <3>3, RowShrinks
    <3> QED  BY <2>3, <3>4 DEF e
  <2>6. Row(r2, m + 1, 1, b + z)
    <3>1. r2[m + 1].size \in Nat /\ (r2[m + 1].size > 0 => r2[m + 1].left = b)
      BY <2>2, <2>4, <2>5
    <3>2. 1 \in Nat
      OBVIOUS
    <3>3. Row(r2, m + 1, 1, b + r2[m + 1].size)
      BY <1>4, <2>1, <2>2, <3>1, <3>2, RowGrows
    <3> QED  BY <2>2, <3>3
  <2>7. b + z \in Nat
    BY <2>4
  <2> QED  BY <1>2, <1>4, <2>5, <2>6, <2>7 DEF OrderIs, r2, q2
<1>12. EndsAre(D, s2, f2, l2)
  <2>1. (\A j \in 1..m : Size(D, s2, j) = Size(D, sc, j)) /\ Size(D, s2, m + 1) = h.range.init.size
    BY <1>3, <1>4 DEF Size
  <2>2. h.range.init.size \in Nat
    BY <1>3, RangeIs
  <2>3. \A j \in 1..m + 1 : j \in 1..m \/ j = m + 1
    BY <1>4
  <2>4. CASE h.range.init.size = 0
    <3>1. f2 = fl /\ l2 = ll
      BY <2>4 DEF h, EndsMove
    <3>2. CASE fl = 0 /\ ll = 0 /\ \A j \in 1..m : Size(D, sc, j) = 0
      <4>1. \A j \in 1..m + 1 : Size(D, s2, j) = 0
        BY <2>1, <2>3, <2>4, <3>2
      <4> QED  BY <1>4, <3>1, <3>2, <4>1 DEF EndsAre
    <3>3. ASSUME NEW f \in 1..m, NEW l \in 1..m,
                 fl = sc[f] /\ Size(D, sc, f) > 0 /\ \A j \in 1..f - 1 : Size(D, sc, j) = 0,
                 ll = sc[l] /\ Size(D, sc, l) > 0 /\ \A j \in l + 1..m : Size(D, sc, j) = 0
          PROVE  EndsAre(D, s2, f2, l2)
      <4>1. f \in 1..m + 1 /\ l \in 1..m + 1 /\ f2 = s2[f] /\ l2 = s2[l]
            /\ Size(D, s2, f) > 0 /\ Size(D, s2, l) > 0
        BY <1>4, <2>1, <3>1, <3>3
      <4>2. \A j \in 1..f - 1 : j \in 1..m
        BY <1>4
      <4>3. \A j \in l + 1..m + 1 : (j \in l + 1..m /\ j \in 1..m) \/ j = m + 1
        BY <1>4
      <4>4. \A j \in 1..f - 1 : Size(D, s2, j) = 0
        BY <2>1, <3>3, <4>2
      <4>5. \A j \in l + 1..m + 1 : Size(D, s2, j) = 0
        BY <2>1, <2>4, <3>3, <4>3
      <4> QED  BY <1>4, <4>1, <4>4, <4>5 DEF EndsAre
    <3> QED  BY <1>1, <3>2, <3>3 DEF EndsAre, m
  <2>5. CASE h.range.init.size # 0
    <3>1. l2 = a /\ f2 = (IF fl = 0 THEN a ELSE fl) /\ m + 1 \in 1..m + 1
          /\ Size(D, s2, m + 1) > 0 /\ l2 = s2[m + 1]
      BY <1>4, <2>1, <2>2, <2>5 DEF h, a, EndsMove
    <3>2. \A j \in m + 1 + 1..m + 1 : Size(D, s2, j) = 0
      BY <1>4
    <3>3. CASE fl = 0 /\ ll = 0 /\ \A j \in 1..m : Size(D, sc, j) = 0
      <4>1. f2 = s2[m + 1] /\ \A j \in 1..m + 1 - 1 : Size(D, s2, j) = 0
        BY <1>4, <2>1, <3>1, <3>3
      <4> QED  BY <1>4, <3>1, <3>2, <4>1 DEF EndsAre
    <3>4. ASSUME NEW f \in 1..m, NEW l \in 1..m,
                 fl = sc[f] /\ Size(D, sc, f) > 0 /\ \A j \in 1..f - 1 : Size(D, sc, j) = 0
          PROVE  EndsAre(D, s2, f2, l2)
      <4>1. sc[f] \in 1..n
        BY <1>1 DEF LeavesAre, m
      <4>2. fl # 0
        BY <3>4, <4>1
      <4>3. f \in 1..m + 1 /\ f2 = s2[f] /\ Size(D, s2, f) > 0
        BY <1>4, <2>1, <3>1, <3>4, <4>2
      <4>4. \A j \in 1..f - 1 : j \in 1..m
        BY <1>4
      <4>5. \A j \in 1..f - 1 : Size(D, s2, j) = 0
        BY <2>1, <3>4, <4>4
      <4> QED  BY <1>4, <3>1, <3>2, <4>3, <4>5 DEF EndsAre
    <3> QED  BY <1>1, <3>3, <3>4 DEF EndsAre, m
  <2> QED  BY <2>4, <2>5
<1> QED  BY <1>0, <1>1, <1>9, <1>10, <1>11, <1>12 DEF Stored

(* A leaf that waits is filled.                                            *)
IsDone(W, V, w) == w \in W /\ V \subseteq W /\ W \ {w} \subseteq V
Fills(nd, w, blocks, d2) == d2 = [nd EXCEPT ![w.at] = Leaf(w.range, blocks)]

LEMMA LeafIsFilled ==
  ASSUME NEW D, NEW n, NEW nd, NEW sc, NEW ts, NEW W, NEW fl, NEW ll, NEW u,
         Stored(D, n, nd, sc, ts, W, fl, ll, u), NEW V, NEW w, IsDone(W, V, w),
         NEW blocks, NEW d2, Fills(nd, w, blocks, d2)
  PROVE  Stored(D, n, d2, sc, ts, V, fl, ll, u)
<1> DEFINE a == w.at
           leaf == Leaf(w.range, blocks)
<1>1. d2 = [nd EXCEPT ![a] = leaf]
  BY DEF Fills
<1>2. w \in W /\ V \subseteq W /\ W \ {w} \subseteq V
  BY DEF IsDone
<1>3. leaf = Leaf(w.range, blocks)
  OBVIOUS
<1> HIDE DEF leaf
<1>4. TreeIs(nd, n, D) /\ LeavesAre(nd, n, D, sc, W) /\ EndsAre(D, sc, fl, ll)
      /\ QueueIs(nd, n, D, sc, ts, u) /\ OrderIs(D, sc, ts, u) /\ u \in 0..RootChildren
  BY DEF Stored
<1>5. a \in 1..n /\ Scanned(sc, a) /\ w.range = D[a] /\ ~ Inner(nd, a)
  BY <1>2, <1>4 DEF LeavesAre
<1>6. /\ d2 = [i \in 1..n |-> d2[i]] /\ d2[a] = leaf /\ \A i \in 1..n : i # a => d2[i] = nd[i]
      /\ DOMAIN nd = 1..n
  <2>1. nd = [i \in 1..n |-> nd[i]]
    BY <1>4 DEF TreeIs
  <2>2. DOMAIN nd = 1..n
    BY <2>1
  <2> QED  BY <1>1, <1>5, <2>2
<1> HIDE DEF a
<1>7. \A i \in 1..n : Inner(d2, i) <=> Inner(nd, i)
  <2>1. ~ Inner(d2, a)
    BY <1>3, <1>6 DEF Inner, Leaf
  <2>2. \A i \in 1..n : i # a => (Inner(d2, i) <=> Inner(nd, i))
    BY <1>6 DEF Inner
  <2> QED  BY <1>5, <2>1, <2>2
<1>8. TreeIs(d2, n, D)
  <2>1. \A i \in 1..n : Inner(d2, i) => d2[i] = nd[i]
    BY <1>5, <1>6, <1>7
  <2>2. \A i \in 1..n : Inner(d2, i) => Divides(d2, n, D, i)
    <3> SUFFICES ASSUME NEW i \in 1..n, Inner(d2, i) PROVE Divides(d2, n, D, i)
      OBVIOUS
    <3>1. d2[i] = nd[i] /\ Divides(nd, n, D, i)
      BY <1>4, <1>7, <2>1 DEF TreeIs
    <3> QED  BY <3>1 DEF Divides
  <2> QED  BY <1>4, <1>6, <2>2 DEF TreeIs
<1>9. LeavesAre(d2, n, D, sc, V)
  <2>0. d2[a].type = "leaf" /\ IsFilled(d2, D, a)
    BY <1>3, <1>5, <1>6 DEF Leaf, IsFilled, a
  <2>1. \A i \in 1..n : d2[i].type = "leaf" => Scanned(sc, i) /\ IsFilled(d2, D, i)
    <3> SUFFICES ASSUME NEW i \in 1..n, d2[i].type = "leaf"
                 PROVE  Scanned(sc, i) /\ IsFilled(d2, D, i)
      OBVIOUS
    <3>1. CASE i = a
      BY <1>5, <2>0, <3>1
    <3>2. CASE i # a
      BY <1>4, <1>6, <3>2 DEF LeavesAre, IsFilled
    <3> QED  BY <3>1, <3>2
  <2>2. ASSUME NEW i \in 1..n, Scanned(sc, i)
        PROVE  ~ Inner(d2, i) /\ (d2[i].type = "leaf" \/ \E v \in V : v.at = i)
    <3>1. CASE i = a
      BY <1>5, <1>7, <2>0, <3>1
    <3>2. CASE i # a
      <4>1. ~ Inner(nd, i) /\ (nd[i].type = "leaf" \/ \E v \in W : v.at = i)
        BY <1>4, <2>2 DEF LeavesAre
      <4>2. \A v \in W : v.at = i => v \in V
        BY <1>2, <3>2 DEF a
      <4> QED  BY <1>6, <1>7, <3>2, <4>1, <4>2
    <3> QED  BY <3>1, <3>2
  <2>3. \A v \in V : v.at \in 1..n /\ Scanned(sc, v.at) /\ v.range = D[v.at]
    BY <1>2, <1>4 DEF LeavesAre
  <2> QED  BY <1>4, <2>1, <2>2, <2>3 DEF LeavesAre
<1>10. QueueIs(d2, n, D, sc, ts, u)
  <2>1. n \in Nat /\ n >= RootChildren /\ RootChildren \in Nat /\ u \in Nat
    BY <1>4, SizesAssumption DEF TreeIs
  <2>2. \A i \in u + 1..RootChildren : i \in 1..n
    BY <2>1
  <2> QED  BY <1>4, <1>7, <2>2 DEF QueueIs
<1> QED  BY <1>4, <1>8, <1>9, <1>10 DEF Stored

(* The next of the nodes to be stored is inner: its children are stored    *)
(* behind the nodes there are, and next.                                   *)
AddsChildren(nd, n, a, model, d2, n2) ==
  /\ d2 = [i \in 1..n2 |-> d2[i]]
  /\ d2[a] = [type |-> "inner", model |-> model, childLeft |-> n + 1]
  /\ \A i \in 1..n : i # a => d2[i] = nd[i]
  /\ \A i \in n + 1..n2 : d2[i] = NoSetting

QueuesChildren(ts, n, c, parts, t2) ==
  /\ t2 \in Seq(Tasks) /\ Len(t2) = c + (Len(ts) - 1)
  /\ \A j \in 1..c : t2[j].at = n + j /\ t2[j].range = parts[j - 1]
  /\ \A j \in 1..Len(ts) - 1 : t2[c + j] = ts[j + 1]

IsStored(n, nd, sc, ts, W, fl, ll, u) == \E D : Stored(D, n, nd, sc, ts, W, fl, ll, u)

LEMMA HeadIsDivided ==
  ASSUME Data, NEW D, NEW n, NEW nd, NEW sc, NEW ts, NEW W, NEW fl, NEW ll, NEW u,
         Stored(D, n, nd, sc, ts, W, fl, ll, u), ts # <<>>,
         NEW model \in Models, NEW c, c = model.children,
         NEW parts, parts = ChildrenOf(model, Head(ts).range, c),
         NEW d2, NEW n2, n2 = n + c, AddsChildren(nd, n, Head(ts).at, model, d2, n2),
         NEW t2, QueuesChildren(ts, n, c, parts, t2)
  PROVE  IsStored(n2, d2, sc, t2, W, fl, ll, u)
<1> DEFINE h == Head(ts)
           a == Head(ts).at
           m == Len(sc)
           k == Len(ts)
           D2 == [i \in 1..n2 |-> IF i <= n THEN D[i] ELSE parts[i - n - 1]]
<1>0. u \in 0..RootChildren /\ RootChildren \in Nat \ {0}
  BY SizesAssumption DEF Stored
<1>1. TreeIs(nd, n, D) /\ LeavesAre(nd, n, D, sc, W) /\ EndsAre(D, sc, fl, ll)
      /\ QueueIs(nd, n, D, sc, ts, u) /\ OrderIs(D, sc, ts, u)
  BY DEF Stored
<1>2. c \in Nat \ {0} /\ IsMap(ChildMap(model), c)
  BY DEF Models
<1>3. n \in Nat /\ n >= RootChildren /\ n2 \in Nat /\ \A i \in 1..n : i \in 1..n2
  BY <1>1, <1>2 DEF TreeIs
<1>4. h = ts[1] /\ k \in Nat \ {0} /\ h \in Tasks
  BY <1>1, HeadAndTail DEF QueueIs
<1>5. a \in 1..n /\ h.range = D[a] /\ ~ Inner(nd, a) /\ ~ Scanned(sc, a) /\ h.range \in Ranges
  <2>1. 1 \in 1..k
    BY <1>4
  <2>2. a \in 1..n /\ h.range = D[a] /\ ~ Inner(nd, a) /\ ~ Scanned(sc, a)
    BY <1>1, <1>4, <2>1 DEF QueueIs
  <2> QED  BY <1>1, <2>2 DEF TreeIs
<1>6. parts = Divide(ChildMap(model), h.range, c) /\ \A i \in 0..c - 1 : parts[i] \in Ranges
  <2>1. parts = Divide(ChildMap(model), h.range, c)
    BY DEF ChildrenOf, ChildMap
  <2>2. \A i \in 0..c - 1 : Divide(ChildMap(model), h.range, c)[i] \in Ranges
    <3> DEFINE f == ChildMap(model)
    <3> HIDE DEF f, h
    <3>1. \A i \in 0..c - 1 : Divide(f, h.range, c)[i] \in Ranges
      BY <1>5, DividedInRanges
    <3> QED  BY <3>1 DEF f
  <2> QED  BY <2>1, <2>2
<1> HIDE DEF h, a, m, k
<1>7. /\ \A i \in 1..n : D2[i] = D[i]
      /\ \A j \in 1..c : n + j \in 1..n2 /\ n + j \notin 1..n /\ D2[n + j] = parts[j - 1]
      /\ D2 \in [1..n2 -> Ranges]
  <2>1. \A i \in 1..n : D2[i] = D[i] /\ D[i] \in Ranges
    BY <1>1, <1>3 DEF TreeIs
  <2>2. ASSUME NEW j \in 1..c
        PROVE  n + j \in 1..n2 /\ n + j \notin 1..n /\ D2[n + j] = parts[j - 1]
    <3>1. n + j \in 1..n2 /\ ~ (n + j <= n) /\ (n + j) - n - 1 = j - 1
      BY <1>2, <1>3
    <3> QED  BY <1>3, <3>1
  <2>3. \A i \in 1..n2 : i \in 1..n \/ (i - n \in 1..c /\ n + (i - n) = i /\ (i - n) - 1 \in 0..c - 1)
    BY <1>2, <1>3
  <2>4. D2 = [i \in 1..n2 |-> D2[i]]
    OBVIOUS
  <2> HIDE DEF D2
  <2>5. \A i \in 1..n2 : D2[i] \in Ranges
    BY <1>6, <2>1, <2>2, <2>3
  <2> QED  BY <2>1, <2>2, <2>4, <2>5
<1> HIDE DEF D2
<1>8. /\ d2 = [i \in 1..n2 |-> d2[i]]
      /\ d2[a] = [type |-> "inner", model |-> model, childLeft |-> n + 1]
      /\ \A i \in 1..n : i # a => d2[i] = nd[i]
      /\ \A i \in n + 1..n2 : d2[i] = NoSetting
  BY DEF AddsChildren, a
<1>9. \A i \in 1..n2 : Inner(d2, i) <=> i = a \/ (i \in 1..n /\ Inner(nd, i))
  <2>1. Inner(d2, a)
    BY <1>8 DEF Inner
  <2>2. \A i \in 1..n : i # a => (Inner(d2, i) <=> Inner(nd, i))
    BY <1>8 DEF Inner
  <2>3. NoSetting.type # "inner"
    BY DEF NoSetting
  <2>4. ASSUME NEW i \in n + 1..n2
        PROVE  ~ Inner(d2, i) /\ i \notin 1..n
    <3>1. d2[i] = NoSetting
      BY <1>8
    <3>2. i \notin 1..n
      BY <1>3
    <3> QED  BY <2>3, <3>1, <3>2 DEF Inner
  <2>5. \A i \in 1..n2 : i \in 1..n \/ i \in n + 1..n2
    BY <1>3
  <2> QED  BY <1>5, <2>1, <2>2, <2>4, <2>5
<1>10. TreeIs(d2, n2, D2)
  <2>1. n2 >= RootChildren
    BY <1>0, <1>2, <1>3
  <2>2. \A x \in 0..RootChildren - 1 : D2[x + 1] = RootRanges[x]
    <3>1. \A x \in 0..RootChildren - 1 : x + 1 \in 1..n
      BY <1>0, <1>3
    <3> QED  BY <1>1, <1>7, <3>1 DEF TreeIs
  <2>3. ASSUME NEW i \in 1..n2, Inner(d2, i)
        PROVE  Divides(d2, n2, D2, i)
    <3>1. CASE i = a
      <4>1. d2[i].model = model /\ d2[i].childLeft = n + 1
        BY <1>8, <3>1
      <4>2. n + 1 \in i + 1..n2 /\ (n + 1) + c - 1 \in 1..n2
        BY <1>2, <1>3, <1>5, <3>1
      <4>3. ASSUME NEW x \in 0..c - 1
            PROVE  D2[(n + 1) + x] = ChildrenOf(model, D2[i], c)[x]
        <5>1. x + 1 \in 1..c /\ (n + 1) + x = n + (x + 1) /\ (x + 1) - 1 = x
          BY <1>2, <1>3
        <5>2. D2[i] = h.range
          BY <1>5, <1>7, <3>1
        <5> QED  BY <1>7, <5>1, <5>2 DEF h
      <4> QED  BY <4>1, <4>2, <4>3 DEF Divides
    <3>2. CASE i # a
      <4>1. i \in 1..n /\ Inner(nd, i) /\ d2[i] = nd[i]
        BY <1>8, <1>9, <2>3, <3>2
      <4> DEFINE b == nd[i].childLeft
                 w == nd[i].model
      <4>2. /\ w \in Models /\ b \in i + 1..n /\ b + w.children - 1 \in 1..n
            /\ \A x \in 0..w.children - 1 : D[b + x] = ChildrenOf(w, D[i], w.children)[x]
        BY <1>1, <4>1 DEF TreeIs, Divides
      <4>3. w.children \in Nat
        BY <4>2 DEF Models
      <4> HIDE DEF b, w
      <4>4. b \in i + 1..n2 /\ b + w.children - 1 \in 1..n2
        BY <1>3, <4>2
      <4>5. ASSUME NEW x \in 0..w.children - 1
            PROVE  D2[b + x] = ChildrenOf(w, D2[i], w.children)[x]
        <5>1. b + x \in 1..n
          BY <1>3, <4>1, <4>2, <4>3
        <5> QED  BY <1>7, <4>1, <4>2, <5>1
      <4> QED  BY <4>1, <4>2, <4>4, <4>5 DEF Divides, b, w
    <3> QED  BY <3>1, <3>2
  <2> QED  BY <1>3, <1>7, <1>8, <2>1, <2>2, <2>3 DEF TreeIs
<1>11. \A i : Scanned(sc, i) => i \in 1..n /\ i # a
  BY <1>1, <1>5 DEF LeavesAre, Scanned
<1>12. LeavesAre(d2, n2, D2, sc, W)
  <2>1. \A j \in 1..m : sc[j] \in 1..n2
    BY <1>1, <1>3 DEF LeavesAre, m
  <2>2. ASSUME NEW i \in 1..n2, d2[i].type = "leaf"
        PROVE  Scanned(sc, i) /\ IsFilled(d2, D2, i)
    <3>1. i # a
      BY <1>8, <2>2
    <3>2. i \notin n + 1..n2
      BY <1>8, <2>2 DEF NoSetting
    <3>3. i \in 1..n
      BY <1>3, <3>2
    <3>4. d2[i] = nd[i] /\ D2[i] = D[i]
      BY <1>7, <1>8, <3>1, <3>3
    <3> QED  BY <1>1, <2>2, <3>3, <3>4 DEF LeavesAre, IsFilled
  <2>3. ASSUME NEW i \in 1..n2, Scanned(sc, i)
        PROVE  ~ Inner(d2, i) /\ (d2[i].type = "leaf" \/ \E w \in W : w.at = i)
    <3>1. i \in 1..n /\ i # a
      BY <1>11, <2>3
    <3>2. ~ Inner(nd, i) /\ (nd[i].type = "leaf" \/ \E w \in W : w.at = i)
      BY <1>1, <2>3, <3>1 DEF LeavesAre
    <3> QED  BY <1>8, <1>9, <3>1, <3>2
  <2>4. \A w \in W : w.at \in 1..n2 /\ Scanned(sc, w.at) /\ w.range = D2[w.at]
    BY <1>1, <1>3, <1>7 DEF LeavesAre
  <2> QED  BY <1>1, <2>1, <2>2, <2>3, <2>4 DEF LeavesAre, m
<1>13. /\ t2 \in Seq(Tasks) /\ Len(t2) = c + (k - 1)
       /\ \A j \in 1..c : t2[j].at = n + j /\ t2[j].range = parts[j - 1]
       /\ \A j \in 1..k - 1 : t2[c + j] = ts[j + 1]
  BY DEF QueuesChildren, k
<1>14. ASSUME NEW j \in 1..c + (k - 1)
       PROVE  \/ j \in 1..c /\ t2[j].at = n + j
              \/ /\ j - c \in 1..k - 1 /\ (j - c) + 1 \in 1..k /\ (j - c) + 1 # 1
                 /\ t2[j] = ts[(j - c) + 1]
  <2>1. CASE j <= c
    <3>1. j \in 1..c
      BY <1>2, <2>1
    <3> QED  BY <1>13, <3>1
  <2>2. CASE j > c
    <3>1. j - c \in 1..k - 1 /\ c + (j - c) = j /\ (j - c) + 1 \in 1..k /\ (j - c) + 1 # 1
      BY <1>2, <1>4, <2>2
    <3> QED  BY <1>13, <3>1
  <2> QED  BY <1>2, <1>4, <2>1, <2>2
<1>15. \A j \in 1..k : /\ ts[j].at \in 1..n /\ ts[j].range = D[ts[j].at]
                       /\ ~ Inner(nd, ts[j].at) /\ ~ Scanned(sc, ts[j].at)
                       /\ j # 1 => ts[j].at # a
  <2>1. 1 \in 1..k /\ ts[1].at = a
    BY <1>4 DEF a, h
  <2> QED  BY <1>1, <2>1 DEF QueueIs, k
<1>16. QueueIs(d2, n2, D2, sc, t2, u)
  <2>1. ASSUME NEW j \in 1..c + (k - 1)
        PROVE  /\ t2[j].at \in 1..n2 /\ t2[j].range = D2[t2[j].at]
               /\ ~ Inner(d2, t2[j].at) /\ ~ Scanned(sc, t2[j].at)
    <3>1. CASE j \in 1..c
      <4>1. t2[j].at = n + j /\ t2[j].range = parts[j - 1]
        BY <1>13, <3>1
      <4>2. n + j \in 1..n2 /\ n + j \notin 1..n /\ D2[n + j] = parts[j - 1]
        BY <1>7, <3>1
      <4>3. ~ Inner(d2, n + j)
        BY <1>5, <1>9, <4>2
      <4>4. ~ Scanned(sc, n + j)
        BY <1>11, <4>2
      <4> QED  BY <4>1, <4>2, <4>3, <4>4
    <3>2. CASE j \notin 1..c
      <4> DEFINE x == (j - c) + 1
      <4>1. x \in 1..k /\ x # 1 /\ t2[j] = ts[x]
        BY <1>14, <3>2
      <4> HIDE DEF x
      <4>2. /\ ts[x].at \in 1..n /\ ts[x].range = D[ts[x].at] /\ ts[x].at # a
            /\ ~ Inner(nd, ts[x].at) /\ ~ Scanned(sc, ts[x].at)
        BY <1>15, <4>1
      <4>3. ts[x].at \in 1..n2 /\ D2[ts[x].at] = D[ts[x].at]
        BY <1>3, <1>7, <4>2
      <4>4. ~ Inner(d2, ts[x].at)
        BY <1>9, <4>2, <4>3
      <4> QED  BY <4>1, <4>2, <4>3, <4>4
    <3> QED  BY <3>1, <3>2
  <2>2. ASSUME NEW i \in 1..c + (k - 1), NEW j \in 1..c + (k - 1), t2[i].at = t2[j].at
        PROVE  i = j
    <3>0. \A x \in 1..c : n + x \notin 1..n
      BY <1>7
    <3>1. CASE i \in 1..c /\ j \in 1..c
      <4>1. n + i = n + j
        BY <1>13, <2>2, <3>1
      <4> QED  BY <1>3, <3>1, <4>1
    <3>2. CASE i \in 1..c /\ j \notin 1..c
      <4>1. t2[i].at \notin 1..n
        BY <1>13, <3>0, <3>2
      <4>2. t2[j].at \in 1..n
        BY <1>14, <1>15, <3>2
      <4> QED  BY <2>2, <4>1, <4>2
    <3>3. CASE i \notin 1..c /\ j \in 1..c
      <4>1. t2[j].at \notin 1..n
        BY <1>13, <3>0, <3>3
      <4>2. t2[i].at \in 1..n
        BY <1>14, <1>15, <3>3
      <4> QED  BY <2>2, <4>1, <4>2
    <3>4. CASE i \notin 1..c /\ j \notin 1..c
      <4>1. /\ (i - c) + 1 \in 1..k /\ t2[i] = ts[(i - c) + 1]
            /\ (j - c) + 1 \in 1..k /\ t2[j] = ts[(j - c) + 1]
        BY <1>14, <3>4
      <4>2. (i - c) + 1 = (j - c) + 1
        BY <1>1, <2>2, <4>1 DEF QueueIs, k
      <4> QED  BY <1>2, <1>4, <4>2
    <3> QED  BY <3>1, <3>2, <3>3, <3>4
  <2>3. ASSUME NEW i \in u + 1..RootChildren
        PROVE  ~ Inner(d2, i) /\ ~ Scanned(sc, i) /\ ~ InQueue(t2, i)
    <3>1. i \in 1..n /\ i \in 1..n2
      BY <1>0, <1>3
    <3>2. ~ Inner(nd, i) /\ ~ Scanned(sc, i) /\ ~ InQueue(ts, i)
      BY <1>1 DEF QueueIs
    <3>3. i # a
      <4>1. 1 \in 1..k /\ ts[1].at = a
        BY <1>4 DEF a, h
      <4> QED  BY <3>2, <4>1 DEF InQueue, k
    <3>4. ASSUME NEW j \in 1..c + (k - 1), t2[j].at = i
          PROVE  FALSE
      <4>1. CASE j \in 1..c /\ t2[j].at = n + j
        BY <1>7, <3>1, <3>4, <4>1
      <4>2. CASE (j - c) + 1 \in 1..k /\ t2[j] = ts[(j - c) + 1]
        BY <3>2, <3>4, <4>2 DEF InQueue, k
      <4> QED  BY <1>14, <4>1, <4>2
    <3>5. ~ InQueue(t2, i)
      BY <1>13, <3>4 DEF InQueue
    <3> QED  BY <1>9, <3>1, <3>2, <3>3, <3>5
  <2>4. ASSUME NEW i \in 1..n2
        PROVE  Inner(d2, i) \/ Scanned(sc, i) \/ InQueue(t2, i) \/ i \in u + 1..RootChildren
    <3>1. CASE i \in 1..n
      <4>1. CASE InQueue(ts, i) /\ i # a
        <5>1. PICK j \in 1..k : ts[j].at = i
          BY <4>1 DEF InQueue, k
        <5>2. j # 1
          BY <1>4, <4>1, <5>1 DEF a, h
        <5>3. j - 1 \in 1..k - 1 /\ (j - 1) + 1 = j /\ c + (j - 1) \in 1..c + (k - 1)
          BY <1>2, <1>4, <5>2
        <5>4. t2[c + (j - 1)] = ts[j]
          BY <1>13, <5>3
        <5> QED  BY <1>13, <5>1, <5>3, <5>4 DEF InQueue
      <4>2. Inner(nd, i) \/ Scanned(sc, i) \/ InQueue(ts, i) \/ i \in u + 1..RootChildren
        BY <1>1, <3>1 DEF QueueIs
      <4> QED  BY <1>9, <3>1, <4>1, <4>2
    <3>2. CASE i \notin 1..n
      <4>1. i - n \in 1..c /\ n + (i - n) = i /\ i - n \in 1..c + (k - 1)
        BY <1>2, <1>3, <1>4, <3>2
      <4>2. t2[i - n].at = i
        BY <1>13, <4>1
      <4> QED  BY <1>13, <4>1, <4>2 DEF InQueue
    <3> QED  BY <3>1, <3>2
  <2>5. Len(sc) + Len(t2) + (RootChildren - u) <= n2
    <3>1. m + k + (RootChildren - u) <= n
      BY <1>1 DEF QueueIs, m, k
    <3>2. m \in Nat
      BY <1>1 DEF LeavesAre, m
    <3>3. m + (c + (k - 1)) + (RootChildren - u) <= n + c
      BY <1>0, <1>2, <1>3, <1>4, <3>1, <3>2
    <3> QED  BY <1>13, <3>3 DEF m
  <2> QED  BY <1>13, <2>1, <2>2, <2>3, <2>4, <2>5 DEF QueueIs
<1>17. ScannedPairs(D2, sc) = ScannedPairs(D, sc) /\ \A j \in 1..m : Size(D2, sc, j) = Size(D, sc, j)
  <2>1. \A j \in 1..m : D2[sc[j]] = D[sc[j]]
    BY <1>1, <1>7 DEF LeavesAre, m
  <2> QED  BY <2>1 DEF ScannedPairs, Size, m
<1>18. OrderIs(D2, sc, t2, u)
  <2> DEFINE q == QueuedPairs(ts)
             q2 == QueuedPairs(t2)
             e == k - 1
             t == [j \in 1..e |-> q[j + 1]]
             r == [j \in 1..c |-> parts[j - 1].init]
             z == h.range.init.size
  <2>1. PICK b \in Nat : Row(ScannedPairs(D, sc), m, 1, b) /\ Row(q, k, b, Start(u))
    BY <1>1 DEF OrderIs, m, k
  <2>2. e \in Nat /\ e + 1 = k /\ Behind1(t, q, e) /\ q[1] = h.range.init /\ z \in Nat
    <3>1. q[1] = h.range.init
      <4>1. 1 \in 1..k
        BY <1>4
      <4> QED  BY <1>4, <4>1 DEF QueuedPairs, k
    <3>2. z \in Nat
      BY <1>5, RangeIs
    <3> QED  BY <1>4, <3>1, <3>2 DEF Behind1
  <2>3. /\ \A j \in 1..c : q2[j] = r[j]
        /\ \A j \in 1..e : q2[c + j] = t[j]
    <3>1. \A j \in 1..c + e : q2[j] = t2[j].range.init
      BY <1>13 DEF QueuedPairs
    <3>2. \A j \in 1..c : j \in 1..c + e
      BY <1>2, <2>2
    <3>3. \A j \in 1..e : c + j \in 1..c + e /\ j + 1 \in 1..k
      BY <1>2, <2>2
    <3>4. \A j \in 1..k : q[j] = ts[j].range.init
      BY DEF QueuedPairs, k
    <3>5. \A j \in 1..c : q2[j] = r[j]
      BY <1>13, <3>1, <3>2
    <3>6. \A j \in 1..e : q2[c + j] = t[j]
      BY <1>13, <3>1, <3>3, <3>4
    <3> QED  BY <3>5, <3>6
  <2> HIDE DEF q, q2, t, e
  <2>4. Row(t, e, b + z, Start(u)) /\ (z > 0 => h.range.init.left = b)
    <3>1. Row(q, e + 1, b, Start(u)) /\ q[1].size \in Nat
      BY <2>1, <2>2
    <3>2. Row(t, e, b + q[1].size, Start(u)) /\ (q[1].size > 0 => q[1].left = b)
      BY <2>2, <3>1, RowShrinks
    <3> QED  BY <2>2, <3>2
  <2>5. Row(r, c, b, b + z)
    <3> DEFINE f == ChildMap(model)
    <3>1. IsMap(f, c) /\ parts = Divide(f, h.range, c)
      BY <1>2, <1>6
    <3> HIDE DEF f
    <3> QED  BY <1>2, <1>5, <2>4, <3>1, ChildrenAreRow
  <2> HIDE DEF r
  <2>6. Row(q2, c + e, b, Start(u))
    BY <1>2, <2>2, <2>3, <2>4, <2>5, RowsJoin
  <2>7. Row(q2, Len(t2), b, Start(u))
    BY <1>13, <2>6 DEF e
  <2>8. Row(ScannedPairs(D2, sc), Len(sc), 1, b)
    BY <1>17, <2>1 DEF m
  <2> QED  BY <2>7, <2>8 DEF OrderIs, q2
<1>19. EndsAre(D2, sc, fl, ll)
  <2>1. m \in Nat
    BY <1>1 DEF LeavesAre, m
  <2>2. CASE fl = 0 /\ ll = 0 /\ \A j \in 1..m : Size(D, sc, j) = 0
    BY <1>17, <2>2 DEF EndsAre, m
  <2>3. ASSUME NEW f \in 1..m, NEW l \in 1..m,
               fl = sc[f] /\ Size(D, sc, f) > 0 /\ \A j \in 1..f - 1 : Size(D, sc, j) = 0,
               ll = sc[l] /\ Size(D, sc, l) > 0 /\ \A j \in l + 1..m : Size(D, sc, j) = 0
        PROVE  EndsAre(D2, sc, fl, ll)
    <3>1. (\A j \in 1..f - 1 : j \in 1..m) /\ \A j \in l + 1..m : j \in 1..m
      BY <2>1
    <3>2. /\ Size(D2, sc, f) > 0 /\ \A j \in 1..f - 1 : Size(D2, sc, j) = 0
          /\ Size(D2, sc, l) > 0 /\ \A j \in l + 1..m : Size(D2, sc, j) = 0
      BY <1>17, <2>3, <3>1
    <3> QED  BY <2>3, <3>2 DEF EndsAre, m
  <2> QED  BY <1>1, <2>2, <2>3 DEF EndsAre, m
<1>20. Stored(D2, n2, d2, sc, t2, W, fl, ll, u)
  BY <1>0, <1>10, <1>12, <1>16, <1>18, <1>19 DEF Stored
<1> HIDE DEF D2
<1> QED  BY <1>20 DEF IsStored

----------------------------------------------------------------------------
(* The way down leads to the leaf that has the point.                      *)
LEMMA DividedByChild ==
  ASSUME Data, NEW range \in Ranges, NEW c \in Nat \ {0}, NEW f, IsMap(f, c), NEW k \in Key
  PROVE  LET part == Divide(f, range, c)[f[k]]
         IN /\ f[k] \in 0..c - 1
            /\ \A x \in Positions(range.init) :
                 initDataset[x] = k => x \in Positions(part.init)
            /\ \A x \in Positions(range.insert) :
                 insertQuery[x] = k => x \in Positions(part.insert)
<1> DEFINE part == Divide(f, range, c)[f[k]]
<1>1. f[k] \in 0..c - 1
  BY DEF IsMap
<1>2. /\ part.init = PartOf(f, initDataset, range.init, f[k])
      /\ part.insert = PartOf(f, insertQuery, range.insert, f[k])
  BY <1>1, DividedInRanges
<1>3. /\ Ordered(initDataset) /\ range.init \in Pairs(initDataset)
      /\ Ordered(insertQuery) /\ range.insert \in Pairs(insertQuery)
  BY DEF Data, Ranges
<1>4. \A x \in Positions(range.init) :
        x \in Positions(PartOf(f, initDataset, range.init, f[initDataset[x]]))
  BY <1>3, DividedIs
<1>5. \A x \in Positions(range.insert) :
        x \in Positions(PartOf(f, insertQuery, range.insert, f[insertQuery[x]]))
  BY <1>3, DividedIs
<1> HIDE DEF part
<1> QED  BY <1>1, <1>2, <1>4, <1>5 DEF part

Has(range, k, other) ==
  /\ \A x \in Positions(range.init) : initDataset[x] = k => x \in Positions(other.init)
  /\ \A x \in Positions(range.insert) : insertQuery[x] = k => x \in Positions(other.insert)

(* Where the loop of Find goes from a node.                                *)
Downward(nd, k, n) ==
  [i \in 1..n |-> IF nd[i].type = "inner"
                  THEN nd[i].childLeft + ChildFor(nd[i].model, k) ELSE i]

LEMMA GoesDown ==
  ASSUME Data, NEW D, NEW n, NEW nd, TreeIs(nd, n, D), NEW k \in Key,
         NEW i \in 1..n, Inner(nd, i)
  PROVE  LET J == Downward(nd, k, n)
         IN J[i] \in i + 1..n /\ J[i] = nd[i].childLeft + ChildFor(nd[i].model, k)
            /\ Has(D[i], k, D[J[i]])
<1> DEFINE m == nd[i].model
           b == nd[i].childLeft
           J == Downward(nd, k, n)
           f == ChildMap(m)
           x == ChildFor(m, k)
<1>1. /\ m \in Models /\ b \in i + 1..n /\ b + m.children - 1 \in 1..n /\ n \in Nat
      /\ \A c \in 0..m.children - 1 : D[b + c] = ChildrenOf(m, D[i], m.children)[c]
      /\ D[i] \in Ranges
  BY DEF TreeIs, Divides
<1>2. J[i] = b + x
  BY DEF Downward, Inner
<1>3. f[k] = x
  BY DEF ChildMap
<1>4. m.children \in Nat \ {0} /\ IsMap(f, m.children)
  BY <1>1 DEF Models
<1>5. ChildrenOf(m, D[i], m.children) = Divide(f, D[i], m.children)
  BY DEF ChildrenOf, ChildMap
<1> HIDE DEF m, b, J, f, x
<1>6. x \in 0..m.children - 1 /\ Has(D[i], k, Divide(f, D[i], m.children)[x])
  BY <1>1, <1>3, <1>4, DividedByChild DEF Has
<1>7. D[J[i]] = Divide(f, D[i], m.children)[x]
  BY <1>1, <1>2, <1>5, <1>6
<1>8. J[i] \in i + 1..n
  BY <1>1, <1>2, <1>4, <1>6
<1> QED  BY <1>2, <1>6, <1>7, <1>8 DEF J, b, m, x

Reaches(w, nd, k, n) ==
  w = [i \in 1..n |-> IF nd[i].type = "inner"
                      THEN w[nd[i].childLeft + ChildFor(nd[i].model, k)] ELSE i]

LEMMA WaysDown ==
  ASSUME Data, NEW D, NEW n, NEW nd, TreeIs(nd, n, D), NEW k \in Key
  PROVE  /\ \E w : Reaches(w, nd, k, n)
         /\ \A w : Reaches(w, nd, k, n) =>
              \A i \in 1..n : w[i] \in 1..n /\ ~ Inner(nd, w[i]) /\ Has(D[i], k, D[w[i]])
<1> DEFINE J == Downward(nd, k, n)
<1>0. n \in Nat
  BY DEF TreeIs
<1>1. \A i \in 1..n : IF Inner(nd, i)
                      THEN /\ J[i] \in i + 1..n /\ Has(D[i], k, D[J[i]])
                           /\ J[i] = nd[i].childLeft + ChildFor(nd[i].model, k)
                      ELSE J[i] = i
  <2>1. \A i \in 1..n : Inner(nd, i) =>
          /\ J[i] \in i + 1..n /\ Has(D[i], k, D[J[i]])
          /\ J[i] = nd[i].childLeft + ChildFor(nd[i].model, k)
    BY GoesDown
  <2>2. \A i \in 1..n : ~ Inner(nd, i) => J[i] = i
    BY DEF Downward, Inner
  <2> QED  BY <2>1, <2>2
<1> HIDE DEF J
<1>2. \E w : Reaches(w, nd, k, n)
  <2>1. LeadsOn(J, n)
    BY <1>1 DEF LeadsOn
  <2>2. PICK g : Arrives(g, J, n)
    BY <1>0, <2>1, EndsExist
  <2>3. g = [i \in 1..n |-> g[i]]
    BY <2>2 DEF Arrives
  <2>4. ASSUME NEW i \in 1..n
        PROVE  g[i] = IF nd[i].type = "inner"
                      THEN g[nd[i].childLeft + ChildFor(nd[i].model, k)] ELSE i
    <3>1. g[i] = IF J[i] = i THEN i ELSE g[J[i]]
      BY <2>2 DEF Arrives
    <3>2. CASE Inner(nd, i)
      <4>1. J[i] # i /\ J[i] = nd[i].childLeft + ChildFor(nd[i].model, k)
        BY <1>0, <1>1, <3>2
      <4> QED  BY <3>1, <3>2, <4>1 DEF Inner
    <3>3. CASE ~ Inner(nd, i)
      BY <1>1, <3>1, <3>3 DEF Inner
    <3> QED  BY <3>2, <3>3
  <2>5. Reaches(g, nd, k, n)
    BY <2>3, <2>4 DEF Reaches
  <2> QED  BY <2>5
<1>3. ASSUME NEW w, Reaches(w, nd, k, n)
      PROVE  \A i \in 1..n : w[i] \in 1..n /\ ~ Inner(nd, w[i]) /\ Has(D[i], k, D[w[i]])
  <2> DEFINE G(i) == w[i] \in 1..n /\ ~ Inner(nd, w[i]) /\ Has(D[i], k, D[w[i]])
             S == {d \in Nat : \A i \in 1..n : n - d < i => G(i)}
  <2>0. \A i \in 1..n : w[i] = IF Inner(nd, i) THEN w[nd[i].childLeft + ChildFor(nd[i].model, k)]
                               ELSE i
    BY <1>3 DEF Reaches, Inner
  <2>1. 0 \in S
    BY <1>0
  <2>2. ASSUME NEW d \in Nat, d \in S
        PROVE  d + 1 \in S
    <3> SUFFICES ASSUME NEW i \in 1..n, n - (d + 1) < i PROVE G(i)
      OBVIOUS
    <3>1. CASE Inner(nd, i)
      <4>1. /\ J[i] \in i + 1..n /\ Has(D[i], k, D[J[i]]) /\ w[i] = w[J[i]]
        BY <1>1, <2>0, <3>1
      <4>2. J[i] \in 1..n /\ n - d < J[i]
        BY <1>0, <4>1
      <4>3. G(J[i])
        BY <2>2, <4>2
      <4>4. Has(D[i], k, D[w[i]])
        BY <4>1, <4>3 DEF Has
      <4> QED  BY <4>1, <4>3, <4>4
    <3>2. CASE ~ Inner(nd, i)
      <4>1. w[i] = i
        BY <2>0, <3>2
      <4>2. Has(D[i], k, D[i])
        BY DEF Has
      <4> QED  BY <3>2, <4>1, <4>2
    <3> QED  BY <3>1, <3>2
  <2>3. n \in S
    <3>1. Nat \subseteq S
      <4> HIDE DEF S
      <4> QED  BY <2>1, <2>2, Induction
    <3> QED  BY <1>0, <3>1
  <2>4. \A i \in 1..n : n - n < i
    BY <1>0
  <2> QED  BY <2>3, <2>4
<1> QED  BY <1>2, <1>3

(* All nodes are inner nodes or leaves.                                    *)
LEMMA PointsAreFound ==
  ASSUME Data, NEW D, NEW nd, TreeIs(nd, Len(nd), D),
         \A i \in 1..Len(nd) : ~ Inner(nd, i) => nd[i].type = "leaf" /\ nd[i].range = D[i],
         NEW k \in Key, NEW w, Reaches(w, nd, k, Len(nd)), NEW l, l = w[root[k] + 1]
  PROVE  /\ nd[l].type = "leaf"
         /\ \A i \in DOMAIN initDataset :
              initDataset[i] = k => i \in Positions(nd[l].range.init)
         /\ \A i \in DOMAIN insertQuery :
              insertQuery[i] = k => i \in Positions(nd[l].range.insert)
<1> DEFINE n == Len(nd)
           a == root[k]
<1>1. n \in Nat /\ n >= RootChildren /\ \A c \in 0..RootChildren - 1 : D[c + 1] = RootRanges[c]
  BY DEF TreeIs
<1>2. Reaches(w, nd, k, n)
  OBVIOUS
<1>3. /\ Whole \in Ranges /\ RootRanges = Divide(root, Whole, RootChildren)
      /\ Positions(Whole.init) = DOMAIN initDataset
      /\ Positions(Whole.insert) = DOMAIN insertQuery
  BY WholeIs
<1>4. RootChildren \in Nat \ {0} /\ IsMap(root, RootChildren)
  BY SizesAssumption DEF Data
<1>5. a \in 0..RootChildren - 1 /\ Has(Whole, k, RootRanges[a])
  BY <1>3, <1>4, DividedByChild DEF Has
<1>6. \A i \in 1..n : w[i] \in 1..n /\ ~ Inner(nd, w[i]) /\ Has(D[i], k, D[w[i]])
  BY <1>2, WaysDown
<1> HIDE DEF n, a
<1>7. a + 1 \in 1..n /\ D[a + 1] = RootRanges[a] /\ l = w[a + 1]
  BY <1>1, <1>4, <1>5 DEF a
<1>8. l \in 1..n /\ ~ Inner(nd, l) /\ Has(RootRanges[a], k, D[l])
  BY <1>6, <1>7
<1>9. nd[l].type = "leaf" /\ nd[l].range = D[l]
  BY <1>8 DEF n
<1> QED  BY <1>3, <1>5, <1>8, <1>9 DEF Has


----------------------------------------------------------------------------
(* The chain of the leaves.  A row does not move where there is nothing.   *)
Flat(r, i, k) == \A j \in i + 1..k : r[j].size = 0

LEMMA FlatRow ==
  ASSUME NEW T, NEW r, NEW n \in Nat, NEW a, NEW b, RowBy(T, r, n, a, b),
         NEW i \in 0..n, NEW k \in i..n, Flat(r, i, k)
  PROVE  T[k] = T[i]
<1> DEFINE S == {d \in Nat : i + d <= k => T[i + d] = T[i]}
<1>1. 0 \in S
  OBVIOUS
<1>2. ASSUME NEW d \in Nat, d \in S
      PROVE  d + 1 \in S
  <2> SUFFICES ASSUME i + (d + 1) <= k PROVE T[i + (d + 1)] = T[i]
    OBVIOUS
  <2> DEFINE j == i + (d + 1)
  <2>1. j \in 1..n /\ j \in i + 1..k /\ j - 1 = i + d /\ i + d <= k
    OBVIOUS
  <2>2. T[i + d] = T[i] /\ T[j] = T[j - 1] + r[j].size /\ r[j].size = 0
    BY <1>2, <2>1 DEF RowBy, Flat
  <2>3. T[j - 1] \in Nat
    BY <2>1 DEF RowBy
  <2> QED  BY <2>1, <2>2, <2>3
<1>3. Nat \subseteq S
  <2> HIDE DEF S
  <2> QED  BY <1>1, <1>2, Induction
<1>4. k - i \in S /\ i + (k - i) = k
  BY <1>3
<1> QED  BY <1>4

Ids(k) == [i \in 1..k |-> i]

LEMMA IdsGrow ==
  ASSUME NEW a \in Nat, NEW z \in Nat, NEW s, s = [p \in 1..z |-> s[p]],
         \A p \in 1..z : s[p] = a + p
  PROVE  Ids(a) \o s = Ids(a + z)
<1>1. Ids(a) \in Seq(Nat) /\ Len(Ids(a)) = a /\ \A i \in 1..a : Ids(a)[i] = i
  BY DEF Ids
<1>2. s \in Seq(Nat) /\ Len(s) = z
  <2>1. \A p \in 1..z : s[p] \in Nat
    OBVIOUS
  <2> QED  BY <2>1, IsSequence
<1>3. Ids(a) \o s = [i \in 1..a + z |-> IF i <= a THEN Ids(a)[i] ELSE s[i - a]]
  <2> DEFINE q == Ids(a)
  <2>1. q \in Seq(Nat) /\ s \in Seq(Nat) /\ Len(q) = a
    BY <1>1, <1>2
  <2> HIDE DEF q
  <2>2. q \o s = [i \in 1..Len(q) + Len(s) |-> IF i <= Len(q) THEN q[i] ELSE s[i - Len(q)]]
    BY <2>1, JoinedIs
  <2> QED  BY <1>2, <2>1, <2>2 DEF q
<1>4. \A i \in 1..a + z : (IF i <= a THEN Ids(a)[i] ELSE s[i - a]) = i
  <2> SUFFICES ASSUME NEW i \in 1..a + z PROVE (IF i <= a THEN Ids(a)[i] ELSE s[i - a]) = i
    OBVIOUS
  <2>1. CASE i <= a
    BY <1>1, <2>1
  <2>2. CASE i > a
    <3>1. i - a \in 1..z /\ a + (i - a) = i
      BY <2>2
    <3> QED  BY <2>2, <3>1
  <2> QED  BY <2>1, <2>2
<1> QED  BY <1>3, <1>4 DEF Ids

(* What holds when all leaves are filled.                                  *)
AllStored(D, n, nd, sc) ==
  /\ TreeIs(nd, n, D) /\ Len(sc) \in Nat /\ Len(sc) <= n
  /\ \A j \in 1..Len(sc) : sc[j] \in 1..n /\ IsFilled(nd, D, sc[j])
  /\ \A i, j \in 1..Len(sc) : sc[i] = sc[j] => i = j
  /\ \A i \in 1..n : Inner(nd, i) \/ Scanned(sc, i)
  /\ Row(ScannedPairs(D, sc), Len(sc), 1, 1 + Len(initDataset))

LEMMA AllAreStored ==
  ASSUME Data, NEW D, NEW n, NEW nd, NEW sc, NEW fl, NEW ll,
         Stored(D, n, nd, sc, <<>>, {}, fl, ll, RootChildren)
  PROVE  AllStored(D, n, nd, sc) /\ EndsAre(D, sc, fl, ll)
<1>0. RootChildren \in Nat /\ \A i : i \notin RootChildren + 1..RootChildren
  BY SizesAssumption
<1>1. TreeIs(nd, n, D) /\ LeavesAre(nd, n, D, sc, {}) /\ EndsAre(D, sc, fl, ll)
      /\ QueueIs(nd, n, D, sc, <<>>, RootChildren) /\ OrderIs(D, sc, <<>>, RootChildren)
  BY DEF Stored
<1>2. Len(sc) \in Nat /\ n \in Nat /\ Len(<<>>) = 0 /\ \A i : ~ InQueue(<<>>, i)
  BY <1>1 DEF LeavesAre, TreeIs, InQueue
<1>3. Len(sc) <= n
  <2>1. Len(sc) + Len(<<>>) + (RootChildren - RootChildren) <= n
    BY <1>1 DEF QueueIs
  <2> QED  BY <1>0, <1>2, <2>1
<1>4. \A i \in 1..n : Inner(nd, i) \/ Scanned(sc, i)
  BY <1>0, <1>1, <1>2 DEF QueueIs
<1>5. \A j \in 1..Len(sc) : sc[j] \in 1..n /\ IsFilled(nd, D, sc[j])
  <2> SUFFICES ASSUME NEW j \in 1..Len(sc) PROVE sc[j] \in 1..n /\ IsFilled(nd, D, sc[j])
    OBVIOUS
  <2>1. sc[j] \in 1..n /\ Scanned(sc, sc[j])
    BY <1>1 DEF LeavesAre, Scanned
  <2>2. nd[sc[j]].type = "leaf"
    BY <1>1, <2>1 DEF LeavesAre
  <2> QED  BY <1>1, <2>1, <2>2 DEF LeavesAre
<1>6. Row(ScannedPairs(D, sc), Len(sc), 1, 1 + Len(initDataset))
  <2>1. PICK b \in Nat : /\ Row(ScannedPairs(D, sc), Len(sc), 1, b)
                         /\ Row(QueuedPairs(<<>>), 0, b, Start(RootChildren))
    BY <1>1, <1>2 DEF OrderIs
  <2>2. b = 1 + Len(initDataset)
    BY <2>1, RowOfNone, StartIs
  <2> QED  BY <2>1, <2>2
<1> QED  BY <1>1, <1>2, <1>3, <1>4, <1>5, <1>6 DEF AllStored, LeavesAre

ChainedLeaf(D, sc, j, leaf) ==
  /\ leaf.type = "leaf" /\ leaf.range = D[sc[j]]
  /\ leaf.nextLeaf = (IF j = Len(sc) THEN 0 ELSE sc[j + 1])
  /\ leaf.previousLeaf = (IF j = 1 THEN 0 ELSE sc[j - 1])

(* The others are inner nodes, as they were.                               *)
ChainIs(D, n, nd, sc, d2) ==
  /\ d2 = [i \in 1..n |-> d2[i]]
  /\ \A j \in 1..Len(sc) : ChainedLeaf(D, sc, j, d2[sc[j]])
  /\ \A i \in 1..n : ~ Scanned(sc, i) => d2[i] = nd[i]

LEMMA LeavesAreChained ==
  ASSUME NEW D, NEW n, AllStored(D, n, node, scanLeaf), UpdateLeaf
  PROVE  ChainIs(D, n, node, scanLeaf, node')
<1> DEFINE m == Len(scanLeaf)
           I(i) == {j \in 1..m : scanLeaf[j] = i}
<1>1. /\ DOMAIN node = 1..n /\ m \in Nat
      /\ \A j \in 1..m : scanLeaf[j] \in 1..n /\ IsFilled(node, D, scanLeaf[j])
      /\ \A i, j \in 1..m : scanLeaf[i] = scanLeaf[j] => i = j
  <2>1. node = [i \in 1..n |-> node[i]]
    BY DEF AllStored, TreeIs
  <2> QED  BY <2>1 DEF AllStored
<1>2. node' = [i \in 1..n |-> IF LeastOf(I(i)) = 0 THEN node[i] ELSE Chained(LeastOf(I(i)))]
  <2>1. node' = [i \in DOMAIN node |->
                   IF LeastOf(I(i)) = 0 THEN node[i] ELSE Chained(LeastOf(I(i)))]
    BY DEF UpdateLeaf, SelectInSeq, LeastOf
  <2> QED  BY <1>1, <2>1
<1>3. \A i \in 1..n : ~ Scanned(scanLeaf, i) => node'[i] = node[i]
  <2> SUFFICES ASSUME NEW i \in 1..n, ~ Scanned(scanLeaf, i) PROVE node'[i] = node[i]
    OBVIOUS
  <2>1. I(i) = {}
    BY DEF Scanned
  <2>2. LeastOf(I(i)) = 0
    BY <2>1 DEF LeastOf
  <2> QED  BY <1>2, <2>2
<1>4. ASSUME NEW j \in 1..m
      PROVE  ChainedLeaf(D, scanLeaf, j, node'[scanLeaf[j]])
  <2> DEFINE i == scanLeaf[j]
  <2>1. I(i) = {j}
    BY <1>1
  <2>2. LeastOf(I(i)) = j
    <3>1. I(i) \subseteq 1..m /\ I(i) # {}
      BY <2>1
    <3>2. LeastOf(I(i)) \in I(i)
      <4> HIDE DEF I, i, m
      <4> QED  BY <1>1, <3>1, LeastOfIs
    <3> QED  BY <2>1, <3>2
  <2>3. node'[i] = Chained(j)
    <3>1. j # 0 /\ i \in 1..n
      BY <1>1
    <3> QED  BY <1>2, <2>2, <3>1
  <2>4. node[scanLeaf[j]] = Leaf(D[scanLeaf[j]], node[scanLeaf[j]].blocks)
    BY <1>1 DEF IsFilled
  <2>5. ChainedLeaf(D, scanLeaf, j, Chained(j))
    <3> DEFINE b == node[scanLeaf[j]].blocks
               x == IF j = Len(scanLeaf) THEN 0 ELSE scanLeaf[j + 1]
               y == IF j = 1 THEN 0 ELSE scanLeaf[j - 1]
               lf == Leaf(D[scanLeaf[j]], b)
    <3>1. Chained(j) = [lf EXCEPT !.nextLeaf = x, !.previousLeaf = y]
      BY <2>4 DEF Chained
    <3> HIDE DEF b, x, y
    <3>2. [lf EXCEPT !.nextLeaf = x, !.previousLeaf = y].type = "leaf"
          /\ [lf EXCEPT !.nextLeaf = x, !.previousLeaf = y].range = D[scanLeaf[j]]
          /\ [lf EXCEPT !.nextLeaf = x, !.previousLeaf = y].nextLeaf = x
          /\ [lf EXCEPT !.nextLeaf = x, !.previousLeaf = y].previousLeaf = y
      BY DEF Leaf
    <3> HIDE DEF lf
    <3> QED  BY <3>1, <3>2 DEF ChainedLeaf, x, y
  <2> QED  BY <2>3, <2>5
<1>5. node' = [i \in 1..n |-> node'[i]]
  <2> HIDE DEF I
  <2> QED  BY <1>2
<1> QED  BY <1>3, <1>4, <1>5 DEF ChainIs

(* The loop of ScanFrom.                                                   *)
ScanStep(nd, before) ==
  IF before.at = 0 THEN before
  ELSE [at   |-> nd[before.at].nextLeaf,
        seen |-> before.seen \o [p \in 1..nd[before.at].range.init.size |->
                                   nd[before.at].range.init.left + p - 1]]

Scans(h, nd, n, first) ==
  h = [q \in 0..n |-> IF q = 0 THEN [at |-> first, seen |-> <<>>]
                      ELSE ScanStep(nd, h[q - 1])]

LEMMA ScanStepIs ==
  ASSUME Data, NEW D, NEW n, NEW nd, NEW sc, NEW d2, AllStored(D, n, nd, sc),
         ChainIs(D, n, nd, sc, d2), NEW T,
         RowBy(T, ScannedPairs(D, sc), Len(sc), 1, 1 + Len(initDataset)),
         NEW j \in 1..Len(sc), NEW before, before.at = sc[j], before.seen = Ids(T[j - 1] - 1)
  PROVE  ScanStep(d2, before) = [at   |-> IF j = Len(sc) THEN 0 ELSE sc[j + 1],
                                 seen |-> Ids(T[j] - 1)]
<1> DEFINE a == sc[j]
           p == D[a].init
           s == [i \in 1..p.size |-> p.left + i - 1]
           x == T[j - 1]
<1>1. Len(sc) \in Nat /\ a \in 1..n /\ n \in Nat /\ D[a] \in Ranges
  BY DEF AllStored, TreeIs
<1>2. p.size \in Nat /\ p.left \in Nat
  <2>1. Ordered(initDataset) /\ p \in Pairs(initDataset)
    BY <1>1, RangeIs DEF Data
  <2> QED  BY <2>1, PairIs
<1>3. d2[a].range = D[a] /\ d2[a].nextLeaf = IF j = Len(sc) THEN 0 ELSE sc[j + 1]
  BY DEF ChainIs, ChainedLeaf
<1>4. T[j] = x + p.size /\ (p.size > 0 => p.left = x) /\ x \in Nat
  <2>1. ScannedPairs(D, sc)[j] = p /\ j - 1 \in 0..Len(sc)
    BY DEF ScannedPairs
  <2> QED  BY <2>1 DEF RowBy
<1>5. x >= 1
  <2> DEFINE r == ScannedPairs(D, sc)
             S == {i \in Nat : i <= Len(sc) => T[i] >= 1}
  <2>1. 0 \in S
    BY DEF RowBy
  <2>2. ASSUME NEW i \in Nat, i \in S
        PROVE  i + 1 \in S
    <3> SUFFICES ASSUME i + 1 <= Len(sc) PROVE T[i + 1] >= 1
      OBVIOUS
    <3>1. i + 1 \in 1..Len(sc) /\ (i + 1) - 1 = i /\ i \in 0..Len(sc) /\ i <= Len(sc)
      BY <1>1
    <3>2. T[i + 1] = T[i] + r[i + 1].size /\ T[i] \in Nat
      BY <3>1 DEF RowBy
    <3>3. r[i + 1].size \in Nat
      <4>1. sc[i + 1] \in 1..n /\ D[sc[i + 1]] \in Ranges
        BY <3>1 DEF AllStored, TreeIs
      <4>2. D[sc[i + 1]].init.size \in Nat
        BY <4>1, RangeIs
      <4> QED  BY <3>1, <4>2 DEF ScannedPairs
    <3>4. T[i] >= 1
      BY <2>2, <3>1
    <3> QED  BY <3>2, <3>3, <3>4
  <2>3. Nat \subseteq S
    <3> HIDE DEF S
    <3> QED  BY <2>1, <2>2, Induction
  <2>4. j - 1 \in S /\ j - 1 <= Len(sc)
    BY <1>1, <2>3
  <2> QED  BY <2>4
<1>6. Ids(x - 1) \o s = Ids((x - 1) + p.size)
  <2>1. \A i \in 1..p.size : s[i] = (x - 1) + i
    BY <1>2, <1>4
  <2>2. s = [i \in 1..p.size |-> s[i]] /\ x - 1 \in Nat
    BY <1>4, <1>5
  <2> HIDE DEF s
  <2> QED  BY <1>2, <2>1, <2>2, IdsGrow
<1>7. (x - 1) + p.size = T[j] - 1
  BY <1>2, <1>4
<1>8. before.at # 0 /\ before.at = a
  BY <1>1
<1>9. ScanStep(d2, before) = [at |-> d2[a].nextLeaf, seen |-> before.seen \o s]
  BY <1>3, <1>8 DEF ScanStep
<1>10. before.seen \o s = Ids(T[j] - 1)
  BY <1>6, <1>7
<1> HIDE DEF a, s, x
<1> QED  BY <1>3, <1>9, <1>10

LEMMA ScanGoesThrough ==
  ASSUME Data, NEW D, NEW n, NEW nd, NEW sc, NEW fl, NEW ll, NEW d2,
         AllStored(D, n, nd, sc), EndsAre(D, sc, fl, ll), ChainIs(D, n, nd, sc, d2)
  PROVE  /\ \E h : Scans(h, d2, n, fl)
         /\ \A h : Scans(h, d2, n, fl) => h[n].seen = Ids(Len(initDataset))
<1> DEFINE m == Len(sc)
           N == Len(initDataset)
           r == ScannedPairs(D, sc)
<1>1. m \in Nat /\ n \in Nat /\ m <= n /\ \A j \in 1..m : sc[j] \in 1..n
  BY DEF AllStored, TreeIs
<1>2. PICK T : RowBy(T, r, m, 1, 1 + N)
  BY DEF AllStored, Row
<1>3. N \in Nat /\ N > 0
  BY DEF Data, Ordered
<1>4. \A j \in 1..m : r[j].size = Size(D, sc, j)
  BY DEF ScannedPairs, Size
<1>5. ~ \A j \in 1..m : Size(D, sc, j) = 0
  <2> SUFFICES ASSUME \A j \in 1..m : Size(D, sc, j) = 0 PROVE FALSE
    OBVIOUS
  <2>1. 0 \in 0..m /\ m \in 0..m /\ Flat(r, 0, m)
    BY <1>1, <1>4 DEF Flat
  <2>2. T[m] = T[0]
    <3> HIDE DEF m, N, r
    <3> QED  BY <1>1, <1>2, <2>1, FlatRow
  <2> QED  BY <1>2, <1>3, <2>2 DEF RowBy
<1>6. PICK f \in 1..m : fl = sc[f] /\ \A j \in 1..f - 1 : Size(D, sc, j) = 0
  BY <1>5 DEF EndsAre
<1>7. T[f - 1] = 1
  <2>1. f - 1 \in 0..m /\ 0 \in 0..m /\ Flat(r, 0, f - 1)
    BY <1>1, <1>4, <1>6 DEF Flat
  <2>2. T[f - 1] = T[0]
    <3> HIDE DEF m, N, r
    <3> QED  BY <1>1, <1>2, <2>1, FlatRow
  <2> QED  BY <1>2, <2>2 DEF RowBy
<1> DEFINE A(q) == IF f + q <= m THEN sc[f + q] ELSE 0
           C(q) == T[IF f + q <= m THEN f + q - 1 ELSE m] - 1
           g(q) == [at |-> A(q), seen |-> Ids(C(q))]
<1>8. g(0) = [at |-> fl, seen |-> <<>>]
  <2>1. A(0) = fl
    BY <1>1, <1>6
  <2>2. C(0) = 0
    BY <1>1, <1>6, <1>7
  <2>3. Ids(0) = <<>>
    BY DEF Ids
  <2> HIDE DEF A, C
  <2> QED  BY <2>1, <2>2, <2>3
<1>9. ASSUME NEW q \in 1..n
      PROVE  ScanStep(d2, g(q - 1)) = g(q)
  <2>1. CASE f + (q - 1) <= m
    <3> DEFINE j == f + (q - 1)
    <3>1. j \in 1..m /\ f + q = j + 1 /\ f + q - 1 = j /\ f + (q - 1) - 1 = j - 1
      BY <1>1, <2>1
    <3>2. g(q - 1).at = sc[j] /\ g(q - 1).seen = Ids(T[j - 1] - 1)
      <4>1. A(q - 1) = sc[j] /\ C(q - 1) = T[j - 1] - 1
        BY <2>1, <3>1
      <4> HIDE DEF A, C, j
      <4> QED  BY <4>1
    <3>3. A(q) = IF j = m THEN 0 ELSE sc[j + 1]
      BY <1>1, <3>1
    <3>4. C(q) = T[j] - 1
      <4>1. (IF f + q <= m THEN f + q - 1 ELSE m) = j
        BY <1>1, <3>1
      <4> QED  BY <4>1
    <3>5. ScanStep(d2, g(q - 1)) = [at |-> IF j = m THEN 0 ELSE sc[j + 1], seen |-> Ids(T[j] - 1)]
      <4> HIDE DEF g, j
      <4> QED  BY <1>2, <3>1, <3>2, ScanStepIs
    <3> HIDE DEF j, A, C
    <3> QED  BY <3>3, <3>4, <3>5
  <2>2. CASE ~ (f + (q - 1) <= m)
    <3>1. A(q - 1) = 0 /\ A(q) = 0
      BY <1>1, <2>2
    <3>2. C(q - 1) = C(q)
      BY <1>1, <2>2
    <3> HIDE DEF A, C
    <3> QED  BY <3>1, <3>2 DEF ScanStep
  <2> QED  BY <2>1, <2>2
<1>10. C(n) = N
  <2>1. (IF f + n <= m THEN f + n - 1 ELSE m) = m
    BY <1>1
  <2> QED  BY <1>2, <1>3, <2>1 DEF RowBy
<1> HIDE DEF A, C
<1>11. \E h : Scans(h, d2, n, fl)
  <2> DEFINE h == [q \in 0..n |-> g(q)]
  <2>1. h = [q \in 0..n |-> IF q = 0 THEN [at |-> fl, seen |-> <<>>] ELSE ScanStep(d2, h[q - 1])]
    <3>1. ASSUME NEW q \in 0..n
          PROVE  g(q) = IF q = 0 THEN [at |-> fl, seen |-> <<>>] ELSE ScanStep(d2, h[q - 1])
      <4>1. CASE q = 0
        BY <1>8, <4>1
      <4>2. CASE q # 0
        <5>1. q \in 1..n /\ q - 1 \in 0..n
          BY <1>1, <4>2
        <5>2. h[q - 1] = g(q - 1)
          BY <5>1
        <5> QED  BY <1>9, <4>2, <5>1, <5>2
      <4> QED  BY <4>1, <4>2
    <3> QED  BY <3>1
  <2> QED  BY <2>1 DEF Scans
<1>12. ASSUME NEW h, Scans(h, d2, n, fl)
       PROVE  h[n].seen = Ids(N)
  <2> DEFINE S == {q \in Nat : q <= n => h[q] = g(q)}
  <2>0. \A q \in 0..n : h[q] = IF q = 0 THEN [at |-> fl, seen |-> <<>>] ELSE ScanStep(d2, h[q - 1])
    BY <1>12 DEF Scans
  <2>1. 0 \in S
    BY <1>1, <1>8, <2>0
  <2>2. ASSUME NEW q \in Nat, q \in S
        PROVE  q + 1 \in S
    <3> SUFFICES ASSUME q + 1 <= n PROVE h[q + 1] = g(q + 1)
      OBVIOUS
    <3>1. q + 1 \in 1..n /\ q + 1 \in 0..n /\ (q + 1) - 1 = q /\ q <= n /\ q + 1 # 0
      BY <1>1
    <3>2. h[q + 1] = ScanStep(d2, h[q])
      BY <2>0, <3>1
    <3>3. h[q] = g(q)
      BY <2>2, <3>1
    <3>4. ScanStep(d2, g(q)) = g(q + 1)
      <4> HIDE DEF g
      <4> QED  BY <1>9, <3>1
    <3> QED  BY <3>2, <3>3, <3>4
  <2>3. Nat \subseteq S
    <3> HIDE DEF S
    <3> QED  BY <2>1, <2>2, Induction
  <2>4. h[n] = g(n)
    BY <1>1, <2>3
  <2> QED  BY <1>10, <2>4
<1> QED  BY <1>11, <1>12

(* Of two leaves one is the next iff the other is the previous one.        *)
LEMMA LinksAgree ==
  ASSUME NEW D, NEW n, NEW nd, NEW sc, NEW d2, AllStored(D, n, nd, sc), ChainIs(D, n, nd, sc, d2),
         NEW i \in 1..n, NEW j \in 1..n, d2[i].type = "leaf", d2[j].type = "leaf"
  PROVE  d2[i].nextLeaf = j <=> d2[j].previousLeaf = i
<1> DEFINE m == Len(sc)
<1>1. ASSUME NEW a \in 1..n, d2[a].type = "leaf"
      PROVE  \E x \in 1..m : sc[x] = a
  <2>1. CASE Scanned(sc, a)
    BY <2>1 DEF Scanned
  <2>2. CASE ~ Scanned(sc, a)
    <3>1. Inner(nd, a) /\ d2[a] = nd[a]
      BY <2>2 DEF AllStored, ChainIs
    <3> QED  BY <1>1, <3>1 DEF Inner
  <2> QED  BY <2>1, <2>2
<1>2. PICK x \in 1..m : sc[x] = i
  BY <1>1
<1>3. PICK y \in 1..m : sc[y] = j
  BY <1>1
<1>4. /\ d2[i].nextLeaf = IF x = m THEN 0 ELSE sc[x + 1]
      /\ d2[j].previousLeaf = IF y = 1 THEN 0 ELSE sc[y - 1]
  BY <1>2, <1>3 DEF ChainIs, ChainedLeaf
<1>5. m \in Nat /\ n \in Nat /\ (\A a \in 1..m : sc[a] \in 1..n)
      /\ \A a, b \in 1..m : sc[a] = sc[b] => a = b
  BY DEF AllStored, TreeIs
<1>6. i # 0 /\ j # 0
  BY <1>5
<1> HIDE DEF m
<1>7. d2[i].nextLeaf = j <=> y = x + 1
  <2>1. CASE x = m
    BY <1>3, <1>4, <1>5, <1>6, <2>1
  <2>2. CASE x # m
    <3>1. x + 1 \in 1..m
      BY <1>5, <2>2
    <3> QED  BY <1>3, <1>4, <1>5, <2>2, <3>1
  <2> QED  BY <2>1, <2>2
<1>8. d2[j].previousLeaf = i <=> x = y - 1
  <2>1. CASE y = 1
    BY <1>2, <1>4, <1>5, <1>6, <2>1
  <2>2. CASE y # 1
    <3>1. y - 1 \in 1..m
      BY <1>5, <2>2
    <3> QED  BY <1>2, <1>4, <1>5, <2>2, <3>1
  <2> QED  BY <2>1, <2>2
<1>9. y = x + 1 <=> x = y - 1
  BY <1>5
<1> QED  BY <1>7, <1>8, <1>9

LEMMA LastIsLast ==
  ASSUME Data, NEW D, NEW n, NEW nd, NEW sc, NEW fl, NEW ll, NEW d2,
         AllStored(D, n, nd, sc), EndsAre(D, sc, fl, ll), ChainIs(D, n, nd, sc, d2)
  PROVE  Len(initDataset) \in Positions(d2[ll].range.init)
<1> DEFINE m == Len(sc)
           N == Len(initDataset)
           r == ScannedPairs(D, sc)
<1>1. m \in Nat /\ n \in Nat /\ \A j \in 1..m : sc[j] \in 1..n /\ D[sc[j]] \in Ranges
  BY DEF AllStored, TreeIs
<1>2. PICK T : RowBy(T, r, m, 1, 1 + N)
  BY DEF AllStored, Row
<1>3. N \in Nat /\ N > 0
  BY DEF Data, Ordered
<1>4. \A j \in 1..m : r[j].size = Size(D, sc, j) /\ r[j] = D[sc[j]].init
  BY DEF ScannedPairs, Size
<1>5. ~ \A j \in 1..m : Size(D, sc, j) = 0
  <2> SUFFICES ASSUME \A j \in 1..m : Size(D, sc, j) = 0 PROVE FALSE
    OBVIOUS
  <2>1. 0 \in 0..m /\ m \in 0..m /\ Flat(r, 0, m)
    BY <1>1, <1>4 DEF Flat
  <2>2. T[m] = T[0]
    <3> HIDE DEF m, N, r
    <3> QED  BY <1>1, <1>2, <2>1, FlatRow
  <2> QED  BY <1>2, <1>3, <2>2 DEF RowBy
<1>6. PICK l \in 1..m : /\ ll = sc[l] /\ Size(D, sc, l) > 0
                        /\ \A j \in l + 1..m : Size(D, sc, j) = 0
  BY <1>5 DEF EndsAre
<1>7. T[m] = T[l]
  <2>1. l \in 0..m /\ m \in l..m /\ Flat(r, l, m)
    BY <1>1, <1>4, <1>6 DEF Flat
  <2> HIDE DEF m, N, r
  <2> QED  BY <1>1, <1>2, <2>1, FlatRow
<1> DEFINE p == D[sc[l]].init
<1>8. p.size \in Nat /\ p.left \in Nat /\ d2[ll].range.init = p
  <2>1. Ordered(initDataset) /\ p \in Pairs(initDataset)
    BY <1>1, RangeIs DEF Data
  <2>2. p.size \in Nat /\ p.left \in Nat
    BY <2>1, PairIs
  <2>3. d2[sc[l]].range = D[sc[l]]
    BY DEF ChainIs, ChainedLeaf
  <2> QED  BY <1>6, <2>2, <2>3
<1>9. T[l] = p.left + p.size /\ p.size > 0
  <2>1. T[l] = T[l - 1] + r[l].size /\ (r[l].size > 0 => r[l].left = T[l - 1])
    BY <1>2 DEF RowBy
  <2>2. p.size > 0 /\ r[l] = p
    BY <1>4, <1>6 DEF Size
  <2> HIDE DEF p, r
  <2> QED  BY <2>1, <2>2
<1>10. p.left + p.size = 1 + N
  BY <1>2, <1>7, <1>9 DEF RowBy
<1> HIDE DEF p, N
<1>11. N \in p.left..p.left + p.size - 1
  BY <1>3, <1>8, <1>9, <1>10
<1> QED  BY <1>8, <1>11 DEF Positions, N

(* The nodes when the leaves are chained.                                  *)
LEMMA ChainedTree ==
  ASSUME NEW D, NEW n, NEW nd, NEW sc, NEW d2, AllStored(D, n, nd, sc), ChainIs(D, n, nd, sc, d2)
  PROVE  /\ TreeIs(d2, n, D) /\ Len(d2) = n
         /\ \A i \in 1..n : ~ Inner(d2, i) => d2[i].type = "leaf" /\ d2[i].range = D[i]
<1>1. ASSUME NEW i \in 1..n, ~ (d2[i].type = "leaf" /\ d2[i].range = D[i])
      PROVE  Inner(d2, i) /\ Inner(nd, i) /\ d2[i] = nd[i]
  <2>1. ~ Scanned(sc, i)
    BY <1>1 DEF Scanned, ChainIs, ChainedLeaf
  <2>2. Inner(nd, i) /\ d2[i] = nd[i]
    BY <2>1 DEF AllStored, ChainIs
  <2> QED  BY <2>2 DEF Inner
<1>2. TreeIs(nd, n, D) /\ d2 = [i \in 1..n |-> d2[i]]
  BY DEF AllStored, ChainIs
<1>3. \A i \in 1..n : Inner(d2, i) => Divides(d2, n, D, i)
  <2> SUFFICES ASSUME NEW i \in 1..n, Inner(d2, i) PROVE Divides(d2, n, D, i)
    OBVIOUS
  <2>1. d2[i].type # "leaf"
    BY DEF Inner
  <2>2. Inner(nd, i) /\ d2[i] = nd[i]
    BY <1>1, <2>1
  <2>3. Divides(nd, n, D, i)
    BY <1>2, <2>2 DEF TreeIs
  <2> QED  BY <2>2, <2>3 DEF Divides
<1>4. TreeIs(d2, n, D)
  BY <1>2, <1>3 DEF TreeIs
<1>5. Len(d2) = n
  <2>1. n \in Nat
    BY <1>2 DEF TreeIs
  <2> QED  BY <1>2, <2>1, LengthIs
<1> QED  BY <1>1, <1>4, <1>5

----------------------------------------------------------------------------
(* What is stored, as long as something is to be stored or filled.         *)
Waits(pf, rm) == {pf[j] : j \in 1..Len(pf)} \cup {rm[j] : j \in 1..Len(rm)}

Stores(ph, ch, nd, sc, ts, pf, rm, fl, ll) ==
  /\ pf \in Seq(Tasks) /\ rm \in Seq(Tasks)
  /\ Len(nd) \in Nat /\ {fl, ll} \subseteq 0..Len(nd)
  /\ ph \in {"children", "search", "store", "fill"} =>
       \E D : Stored(D, Len(nd), nd, sc, ts, Waits(pf, rm), fl, ll, Begun(ph, ch))
  /\ ph \in {"children", "search", "fill"} => ts = <<>>
  /\ ph = "fill" => ch = RootChildren

StoreOK == Stores(phase, child, node, scanLeaf, toStore, prefetched, remaining,
                  firstLeaf, lastLeaf)
StoredOn == Stores(phase', child', node', scanLeaf', toStore', prefetched', remaining',
                   firstLeaf', lastLeaf')

LEMMA SameStored ==
  ASSUME UNCHANGED dataset, StoredOn
  PROVE  StoreOK'
<1>1. initDataset' = initDataset /\ insertQuery' = insertQuery /\ root' = root
  BY DEF dataset
<1>2. Ranges' = Ranges /\ Tasks' = Tasks
  BY SameData DEF Tasks
<1>3. RootRanges' = RootRanges
  BY <1>1 DEF RootRanges, Divide
<1>4. ASSUME NEW D, NEW u, Stored(D, Len(node'), node', scanLeaf', toStore',
                                  Waits(prefetched', remaining'), firstLeaf', lastLeaf', u)
      PROVE  Stored(D, Len(node), node, scanLeaf, toStore,
                    Waits(prefetched, remaining), firstLeaf, lastLeaf, u)'
  <2>1. /\ TreeIs(node', Len(node'), D) /\ QueueIs(node', Len(node'), D, scanLeaf', toStore', u)
        /\ LeavesAre(node', Len(node'), D, scanLeaf', Waits(prefetched', remaining'))
        /\ EndsAre(D, scanLeaf', firstLeaf', lastLeaf') /\ OrderIs(D, scanLeaf', toStore', u)
        /\ u \in 0..RootChildren
    BY <1>4 DEF Stored
  <2>2. ASSUME NEW i \in 1..Len(node'), Divides(node', Len(node'), D, i)
        PROVE  Divides(node, Len(node), D, i)'
    <3>1. ASSUME NEW c \in 0..node'[i].model.children - 1
          PROVE  D[node'[i].childLeft + c]
                   = ChildrenOf(node[i].model, D[i], node[i].model.children)'[c]
      <4>1. D[node'[i].childLeft + c]
              = ChildrenOf(node'[i].model, D[i], node'[i].model.children)[c]
        BY <2>2 DEF Divides
      <4>2. ChildrenOf(node[i].model, D[i], node[i].model.children)'
              = ChildrenOf(node'[i].model, D[i], node'[i].model.children)
        BY <1>1 DEF ChildrenOf, Divide
      <4> QED  BY <4>1, <4>2
    <3> QED  BY <2>2, <3>1 DEF Divides
  <2>3. TreeIs(node, Len(node), D)'
    BY <1>2, <1>3, <2>1, <2>2 DEF TreeIs, Inner
  <2>4. QueueIs(node, Len(node), D, scanLeaf, toStore, u)'
    BY <1>2, <2>1 DEF QueueIs
  <2>5. OrderIs(D, scanLeaf, toStore, u)'
    BY <1>1, <2>1 DEF OrderIs, Start, Whole
  <2> QED  BY <2>1, <2>3, <2>4, <2>5 DEF Stored
<1> QED  BY <1>1, <1>2, <1>3, <1>4 DEF StoredOn, StoreOK, Stores

LEMMA EndsAreNodes ==
  ASSUME NEW D, NEW n, NEW nd, NEW sc, NEW ts, NEW W, NEW fl, NEW ll, NEW u,
         Stored(D, n, nd, sc, ts, W, fl, ll, u)
  PROVE  n \in Nat /\ {fl, ll} \subseteq 0..n
<1>1. n \in Nat /\ \A j \in 1..Len(sc) : sc[j] \in 1..n
  BY DEF Stored, TreeIs, LeavesAre
<1>2. EndsAre(D, sc, fl, ll)
  BY DEF Stored
<1> QED  BY <1>1, <1>2 DEF EndsAre

LEMMA StoredOnIs ==
  ASSUME phase' \in {"children", "search", "store", "fill"},
         prefetched' \in Seq(Tasks), remaining' \in Seq(Tasks), NEW D,
         Stored(D, Len(node'), node', scanLeaf', toStore', Waits(prefetched', remaining'),
                firstLeaf', lastLeaf', Begun(phase', child')),
         phase' = "store" \/ toStore' = <<>>, phase' = "fill" => child' = RootChildren
  PROVE  StoredOn
<1>1. Len(node') \in Nat /\ {firstLeaf', lastLeaf'} \subseteq 0..Len(node')
  BY EndsAreNodes
<1> QED  BY <1>1 DEF StoredOn, Stores

LEMMA StoredStays ==
  ASSUME StoreOK, UNCHANGED stored, UNCHANGED child,
         \/ phase' = phase
         \/ phase = "children" /\ phase' = "search"
         \/ phase' = "crashed"
  PROVE  StoredOn
<1>1. UNCHANGED <<toStore, node, scanLeaf, prefetched, remaining, firstLeaf, lastLeaf>>
  BY DEF stored
<1>2. phase = "children" /\ phase' = "search" => Begun(phase', child) = Begun(phase, child)
  BY DEF Begun
<1>3. CASE phase' = phase
  BY <1>1, <1>3 DEF StoreOK, StoredOn, Stores
<1>4. CASE phase = "children" /\ phase' = "search"
  BY <1>1, <1>2, <1>4 DEF StoreOK, StoredOn, Stores
<1>5. CASE phase' = "crashed"
  BY <1>1, <1>5 DEF StoreOK, StoredOn, Stores
<1> QED  BY <1>3, <1>4, <1>5

(* The tasks that wait, when one is added or taken.                        *)
LEMMA WaitsChange ==
  ASSUME NEW pf \in Seq(Tasks), NEW rm \in Seq(Tasks)
  PROVE  /\ \A t \in Tasks : /\ Waits(Append(pf, t), rm) = Waits(pf, rm) \cup {t}
                             /\ Waits(pf, Append(rm, t)) = Waits(pf, rm) \cup {t}
         /\ pf # <<>> => /\ Head(pf) \in Waits(pf, rm) /\ Waits(Tail(pf), rm) \subseteq Waits(pf, rm)
                         /\ Waits(pf, rm) \ {Head(pf)} \subseteq Waits(Tail(pf), rm)
                         /\ Waits(Tail(pf), Append(rm, Head(pf))) = Waits(pf, rm)
         /\ rm # <<>> => /\ Head(rm) \in Waits(pf, rm) /\ Waits(pf, Tail(rm)) \subseteq Waits(pf, rm)
                         /\ Waits(pf, rm) \ {Head(rm)} \subseteq Waits(pf, Tail(rm))
<1> DEFINE E(s) == {s[j] : j \in 1..Len(s)}
<1>1. ASSUME NEW s \in Seq(Tasks), NEW t \in Tasks
      PROVE  E(Append(s, t)) = E(s) \cup {t}
  <2>1. /\ Len(s) \in Nat /\ Len(Append(s, t)) = Len(s) + 1
        /\ \A j \in 1..Len(s) : Append(s, t)[j] = s[j]
        /\ Append(s, t)[Len(s) + 1] = t
    BY Appended
  <2>2. \A j \in 1..Len(s) + 1 : j \in 1..Len(s) \/ j = Len(s) + 1
    BY <2>1
  <2>3. (\A j \in 1..Len(s) : j \in 1..Len(s) + 1) /\ Len(s) + 1 \in 1..Len(s) + 1
    BY <2>1
  <2> QED  BY <2>1, <2>2, <2>3
<1>2. ASSUME NEW s \in Seq(Tasks), s # <<>>
      PROVE  /\ Head(s) \in Tasks /\ Tail(s) \in Seq(Tasks)
             /\ E(s) = E(Tail(s)) \cup {Head(s)}
  <2>1. /\ Tail(s) \in Seq(Tasks) /\ Len(s) \in Nat \ {0} /\ Len(Tail(s)) = Len(s) - 1
        /\ \A j \in 1..Len(s) - 1 : Tail(s)[j] = s[j + 1]
        /\ Head(s) = s[1] /\ Head(s) \in Tasks
    BY <1>2, HeadAndTail
  <2>2. \A j \in 1..Len(s) : j = 1 \/ (j - 1 \in 1..Len(s) - 1 /\ (j - 1) + 1 = j)
    BY <2>1
  <2>3. (\A j \in 1..Len(s) - 1 : j + 1 \in 1..Len(s)) /\ 1 \in 1..Len(s)
    BY <2>1
  <2>4. ASSUME NEW j \in 1..Len(s)
        PROVE  s[j] \in E(Tail(s)) \cup {Head(s)}
    <3>1. CASE j = 1
      BY <2>1, <3>1
    <3>2. CASE j # 1
      <4>1. j - 1 \in 1..Len(Tail(s)) /\ Tail(s)[j - 1] = s[j]
        BY <2>1, <2>2, <3>2
      <4> QED  BY <4>1
    <3> QED  BY <3>1, <3>2
  <2>5. \A j \in 1..Len(s) - 1 : Tail(s)[j] \in E(s)
    BY <2>1, <2>3
  <2> QED  BY <2>1, <2>3, <2>4, <2>5
<1>3. \A s, r : Waits(s, r) = E(s) \cup E(r)
  BY DEF Waits
<1> HIDE DEF E
<1>4. \A t \in Tasks : /\ Waits(Append(pf, t), rm) = Waits(pf, rm) \cup {t}
                       /\ Waits(pf, Append(rm, t)) = Waits(pf, rm) \cup {t}
  BY <1>1, <1>3
<1>5. ASSUME pf # <<>>
      PROVE  /\ Head(pf) \in Waits(pf, rm) /\ Waits(Tail(pf), rm) \subseteq Waits(pf, rm)
             /\ Waits(pf, rm) \ {Head(pf)} \subseteq Waits(Tail(pf), rm)
             /\ Waits(Tail(pf), Append(rm, Head(pf))) = Waits(pf, rm)
  <2>1. Head(pf) \in Tasks /\ E(pf) = E(Tail(pf)) \cup {Head(pf)}
    BY <1>2, <1>5
  <2>2. E(Append(rm, Head(pf))) = E(rm) \cup {Head(pf)}
    BY <1>1, <2>1
  <2> QED  BY <1>3, <2>1, <2>2
<1>6. ASSUME rm # <<>>
      PROVE  /\ Head(rm) \in Waits(pf, rm) /\ Waits(pf, Tail(rm)) \subseteq Waits(pf, rm)
             /\ Waits(pf, rm) \ {Head(rm)} \subseteq Waits(pf, Tail(rm))
  <2>1. E(rm) = E(Tail(rm)) \cup {Head(rm)}
    BY <1>2, <1>6
  <2> QED  BY <1>3, <2>1
<1> QED  BY <1>4, <1>5, <1>6

(* What is stored while nothing is searched.                               *)
LEMMA StoreKeepsSearch ==
  ASSUME SearchOK, UNCHANGED <<child, search>>, phase' \in {"store", "fill", "done", "crashed"},
         phase' = "store" => phase = "store"
  PROVE  Searched
<1>1. UNCHANGED <<call, returned, frames, COST, structMap>>
  BY DEF search
<1> QED  BY <1>1 DEF SearchOK, Searched, Searches

LEMMA ChildIsPlaced ==
  ASSUME Data, SearchOK, StoreOK, PlaceChild
  PROVE  Searched /\ StoredOn
<1> DEFINE range == RootRanges[child]
           task == [at |-> child + 1, range |-> range]
           ts == <<task>>
           W == Waits(prefetched, remaining)
           n == Len(node)
<1>1. /\ phase = "search" /\ returned' = NoCost /\ phase' = "store"
      /\ UNCHANGED <<child, call, frames, COST, structMap>>
  BY DEF PlaceChild
<1>2. Searched
  BY <1>1 DEF SearchOK, Searched, Searches
<1>3. child \in 0..RootChildren - 1 /\ RootChildren \in Nat /\ child \in Nat
  BY <1>1, SizesAssumption DEF SearchOK, Searches
<1>4. task \in Tasks
  <2>1. range \in Ranges
    BY <1>3, RootRangesAre
  <2> QED  BY <1>3, <2>1 DEF Tasks
<1>5. toStore = <<>> /\ prefetched \in Seq(Tasks) /\ remaining \in Seq(Tasks)
  BY <1>1 DEF StoreOK, Stores
<1>6. PICK D : Stored(D, n, node, scanLeaf, <<>>, W, firstLeaf, lastLeaf, child)
  BY <1>1, <1>5 DEF StoreOK, Stores, Begun
<1> HIDE DEF W, n
<1>7. Stored(D, n, node, scanLeaf, ts, W, firstLeaf, lastLeaf, child + 1)
  BY <1>3, <1>6, ChildIsQueued
<1>8. Begun(phase', child') = child + 1
  BY <1>1 DEF Begun
<1> HIDE DEF task
<1>9. Head(ts) = task /\ Tail(ts) = <<>> /\ ts # <<>>
  BY <1>4
<1>10. task.at = child + 1 /\ task.range = range
  BY DEF task
<1> HIDE DEF ts, range
<1>11. CASE /\ scanLeaf' = Append(scanLeaf, child + 1)
            /\ prefetched' = Append(prefetched, task)
            /\ Ends(range, child + 1)
            /\ UNCHANGED <<toStore, node, remaining>>
  <2>1. prefetched' \in Seq(Tasks) /\ remaining' \in Seq(Tasks)
    BY <1>4, <1>5, <1>11
  <2>2. Waits(prefetched', remaining') = W \cup {Head(ts)}
    BY <1>4, <1>5, <1>9, <1>11, WaitsChange DEF W
  <2>3. scanLeaf' = Append(scanLeaf, Head(ts).at) /\ toStore' = Tail(ts)
    BY <1>5, <1>9, <1>10, <1>11
  <2>4. EndsMove(Head(ts), firstLeaf, lastLeaf, firstLeaf', lastLeaf')
    BY <1>9, <1>10, <1>11 DEF Ends, EndsMove
  <2>5. Stored(D, n, node, scanLeaf', toStore', Waits(prefetched', remaining'),
               firstLeaf', lastLeaf', child + 1)
    BY <1>7, <1>9, <2>2, <2>3, <2>4, HeadIsScanned
  <2> QED  BY <1>1, <1>2, <1>8, <1>11, <2>1, <2>5, StoredOnIs DEF n
<1>12. CASE /\ toStore' = ts
            /\ UNCHANGED <<node, scanLeaf, prefetched, remaining, firstLeaf, lastLeaf>>
  BY <1>1, <1>2, <1>5, <1>7, <1>8, <1>12, StoredOnIs DEF n, W
<1>13. \/ /\ scanLeaf' = Append(scanLeaf, child + 1)
          /\ prefetched' = Append(prefetched, task)
          /\ Ends(range, child + 1)
          /\ UNCHANGED <<toStore, node, remaining>>
       \/ /\ toStore' = ts
          /\ UNCHANGED <<node, scanLeaf, prefetched, remaining, firstLeaf, lastLeaf>>
  BY DEF PlaceChild, task, ts, range
<1> QED  BY <1>11, <1>12, <1>13

LEMMA LeafIsQueued ==
  ASSUME Data, SearchOK, StoreOK, StoreLeaf
  PROVE  Searched /\ StoredOn
<1> DEFINE new == Head(toStore)
           W == Waits(prefetched, remaining)
           n == Len(node)
<1>1. /\ phase = "store" /\ toStore # <<>> /\ toStore' = Tail(toStore) /\ phase' = phase
      /\ UNCHANGED <<child, search, node, prefetched>>
      /\ scanLeaf' = Append(scanLeaf, new.at) /\ remaining' = Append(remaining, new)
      /\ Ends(new.range, new.at)
  BY DEF StoreLeaf
<1>2. Searched
  BY <1>1, StoreKeepsSearch
<1>3. prefetched \in Seq(Tasks) /\ remaining \in Seq(Tasks)
  BY DEF StoreOK, Stores
<1>4. PICK D : Stored(D, n, node, scanLeaf, toStore, W, firstLeaf, lastLeaf, Begun(phase, child))
  BY <1>1 DEF StoreOK, Stores
<1>5. new \in Tasks
  <2>1. toStore \in Seq(Tasks)
    BY <1>4 DEF Stored, QueueIs
  <2> QED  BY <1>1, <2>1, HeadAndTail
<1> HIDE DEF new, W, n
<1>6. Waits(prefetched', remaining') = W \cup {new}
  BY <1>1, <1>3, <1>5, WaitsChange DEF W
<1>7. EndsMove(new, firstLeaf, lastLeaf, firstLeaf', lastLeaf')
  BY <1>1 DEF Ends, EndsMove
<1>8. Stored(D, n, node, scanLeaf', toStore', Waits(prefetched', remaining'),
             firstLeaf', lastLeaf', Begun(phase, child))
  BY <1>1, <1>4, <1>6, <1>7, HeadIsScanned DEF new
<1>9. prefetched' \in Seq(Tasks) /\ remaining' \in Seq(Tasks)
  BY <1>1, <1>3, <1>5
<1>10. Begun(phase', child') = Begun(phase, child) /\ Len(node') = n /\ node' = node
  BY <1>1 DEF n
<1> QED  BY <1>1, <1>2, <1>8, <1>9, <1>10, StoredOnIs

LEMMA ChildrenAreQueued ==
  ASSUME Data, SearchOK, StoreOK, StoreInner
  PROVE  Searched /\ StoredOn
<1> DEFINE new == Head(toStore)
           model == structMap[new.range.init]
           c == model.children
           parts == ChildrenOf(model, new.range, c)
           W == Waits(prefetched, remaining)
           n == Len(node)
           block == [i \in 1..c |-> NoSetting]
           tasks == [i \in 1..c |-> [at |-> n + 1 + i - 1, range |-> parts[i - 1]]]
           over == [node EXCEPT ![new.at] = StoredNode(model)]
<1>1. /\ phase = "store" /\ toStore # <<>> /\ phase' = phase
      /\ UNCHANGED <<child, search, scanLeaf, prefetched, remaining, firstLeaf, lastLeaf>>
      /\ new.range.init \in DOMAIN structMap /\ model # LeafSetting
      /\ node' = over \o block
      /\ toStore' = tasks \o Tail(toStore)
  BY DEF StoreInner, StoredNode
<1>2. Searched
  BY <1>1, StoreKeepsSearch
<1>3. prefetched \in Seq(Tasks) /\ remaining \in Seq(Tasks)
  BY DEF StoreOK, Stores
<1>4. PICK D : Stored(D, n, node, scanLeaf, toStore, W, firstLeaf, lastLeaf, Begun(phase, child))
  BY <1>1 DEF StoreOK, Stores
<1>5. toStore \in Seq(Tasks) /\ n \in Nat /\ node = [i \in 1..n |-> node[i]]
      /\ \A j \in 1..Len(toStore) : toStore[j].at \in 1..n
  BY <1>4 DEF Stored, TreeIs, QueueIs
<1>6. /\ new \in Tasks /\ new = toStore[1] /\ Tail(toStore) \in Seq(Tasks)
      /\ Len(toStore) \in Nat \ {0} /\ Len(Tail(toStore)) = Len(toStore) - 1
      /\ \A j \in 1..Len(toStore) - 1 : Tail(toStore)[j] = toStore[j + 1]
  BY <1>1, <1>5, HeadAndTail
<1>7. new.at \in 1..n /\ new.range \in Ranges
  <2>1. 1 \in 1..Len(toStore)
    BY <1>6
  <2> QED  BY <1>5, <1>6, <2>1 DEF Tasks
<1>8. model \in Models
  <2>1. structMap[new.range.init] \in Models \cup {LeafSetting}
    BY <1>1 DEF SearchOK, Searches, IsStruct, MapsTo
  <2> QED  BY <1>1, <2>1
<1> HIDE DEF model
<1>9. c \in Nat \ {0}
  BY <1>8 DEF Models
<1> HIDE DEF c, W, new
<1>10. \A i \in 0..c - 1 : parts[i] \in Ranges
  <2>1. c \in Nat
    BY <1>9
  <2>2. parts \in [0..c - 1 -> Ranges]
    BY <1>7, <2>1, ChildrenAre
  <2> HIDE DEF parts
  <2> QED  BY <2>2
<1>11. /\ over = [i \in 1..n |-> over[i]] /\ over[new.at] = StoredNode(model)
       /\ \A i \in 1..n : i # new.at => over[i] = node[i]
  BY <1>5, <1>7
<1> HIDE DEF over
<1> DEFINE S == {over[i] : i \in 1..n} \cup {NoSetting}
<1>12. over \in Seq(S) /\ Len(over) = n /\ block \in Seq(S) /\ Len(block) = c
  <2>1. over \in Seq(S) /\ Len(over) = n
    <3>1. \A i \in 1..n : over[i] \in S
      OBVIOUS
    <3> HIDE DEF S, n
    <3> QED  BY <1>5, <1>11, <3>1, IsSequence
  <2>2. block \in Seq(S) /\ Len(block) = c
    <3>1. (\A i \in 1..c : block[i] \in S) /\ block = [i \in 1..c |-> block[i]] /\ c \in Nat
      BY <1>9
    <3> HIDE DEF S, block
    <3> QED  BY <3>1, IsSequence
  <2> QED  BY <2>1, <2>2
<1>13. \A i \in 1..c : block[i] = NoSetting
  OBVIOUS
<1> HIDE DEF S, block
<1>14. node' = [i \in 1..n + c |-> IF i <= n THEN over[i] ELSE block[i - n]]
  <2>1. over \o block = [i \in 1..Len(over) + Len(block) |->
                           IF i <= Len(over) THEN over[i] ELSE block[i - Len(over)]]
    BY <1>12, JoinedIs
  <2> QED  BY <1>1, <1>12, <2>1
<1>15. AddsChildren(node, n, new.at, model, node', n + c)
  <2>1. node' = [i \in 1..n + c |-> node'[i]]
    BY <1>14
  <2>2. node'[new.at] = [type |-> "inner", model |-> model, childLeft |-> n + 1]
    <3>1. new.at \in 1..n + c /\ new.at <= n
      BY <1>5, <1>7, <1>9
    <3> QED  BY <1>11, <1>14, <3>1 DEF StoredNode
  <2>3. ASSUME NEW i \in 1..n, i # new.at
        PROVE  node'[i] = node[i]
    <3>1. i \in 1..n + c /\ i <= n
      BY <1>5, <1>9
    <3> QED  BY <1>11, <1>14, <2>3, <3>1
  <2>4. ASSUME NEW i \in n + 1..n + c
        PROVE  node'[i] = NoSetting
    <3>1. i \in 1..n + c /\ ~ (i <= n) /\ i - n \in 1..c
      BY <1>5, <1>9
    <3> QED  BY <1>13, <1>14, <3>1
  <2> QED  BY <2>1, <2>2, <2>3, <2>4 DEF AddsChildren
<1>16. Len(node') = n + c
  <2>1. n + c \in Nat /\ node' = [i \in 1..n + c |-> node'[i]]
    BY <1>5, <1>9, <1>15 DEF AddsChildren
  <2> HIDE DEF n
  <2> QED  BY <2>1, LengthIs
<1>17. QueuesChildren(toStore, n, c, parts, toStore')
  <2> DEFINE rest == Tail(toStore)
  <2>1. /\ \A i \in 1..c : tasks[i].at = n + i /\ tasks[i].range = parts[i - 1]
        /\ \A i \in 1..c : tasks[i] \in Tasks
        /\ tasks = [i \in 1..c |-> tasks[i]]
    <3>1. ASSUME NEW i \in 1..c
          PROVE  tasks[i].at = n + i /\ tasks[i].range = parts[i - 1] /\ tasks[i] \in Tasks
      <4>1. n + 1 + i - 1 = n + i /\ n + i \in Nat /\ i - 1 \in 0..c - 1
        <5>1. n \in Nat /\ c \in Nat /\ i \in 1..c
          BY <1>5, <1>9
        <5> HIDE DEF n
        <5> QED  BY <5>1
      <4>2. tasks[i] = [at |-> n + i, range |-> parts[i - 1]]
        BY <4>1
      <4>3. parts[i - 1] \in Ranges
        BY <1>10, <4>1
      <4> HIDE DEF parts, tasks
      <4> QED  BY <4>1, <4>2, <4>3 DEF Tasks
    <3> QED  BY <3>1
  <2> HIDE DEF tasks, parts
  <2>2. tasks \in Seq(Tasks) /\ Len(tasks) = c
    <3>1. c \in Nat
      BY <1>9
    <3> QED  BY <2>1, <3>1, IsSequence
  <2>3. rest \in Seq(Tasks) /\ Len(rest) = Len(toStore) - 1
        /\ \A j \in 1..Len(toStore) - 1 : rest[j] = toStore[j + 1]
    BY <1>6
  <2> HIDE DEF rest
  <2>4. /\ toStore' \in Seq(Tasks) /\ Len(toStore') = c + (Len(toStore) - 1)
        /\ \A j \in 1..c + (Len(toStore) - 1) :
             toStore'[j] = IF j <= c THEN tasks[j] ELSE rest[j - c]
    <3>1. toStore' = tasks \o rest
      BY <1>1 DEF rest
    <3>2. /\ tasks \o rest \in Seq(Tasks) /\ Len(tasks \o rest) = Len(tasks) + Len(rest)
          /\ \A j \in 1..Len(tasks) + Len(rest) :
               (tasks \o rest)[j] = IF j <= Len(tasks) THEN tasks[j] ELSE rest[j - Len(tasks)]
      BY <2>2, <2>3, ConcatProperties
    <3> QED  BY <2>2, <2>3, <3>1, <3>2
  <2>5. ASSUME NEW j \in 1..c
        PROVE  toStore'[j].at = n + j /\ toStore'[j].range = parts[j - 1]
    <3>1. j \in 1..c + (Len(toStore) - 1) /\ j <= c
      BY <1>6, <1>9
    <3>2. toStore'[j] = tasks[j]
      BY <2>4, <3>1
    <3> QED  BY <2>1, <3>2
  <2>6. ASSUME NEW j \in 1..Len(toStore) - 1
        PROVE  toStore'[c + j] = toStore[j + 1]
    <3>1. c + j \in 1..c + (Len(toStore) - 1) /\ ~ (c + j <= c) /\ (c + j) - c = j
      BY <1>6, <1>9
    <3>2. toStore'[c + j] = rest[(c + j) - c]
      BY <2>4, <3>1
    <3> QED  BY <2>3, <3>1, <3>2
  <2> QED  BY <2>4, <2>5, <2>6 DEF QueuesChildren
<1> HIDE DEF n
<1>18. IsStored(n + c, node', scanLeaf, toStore', W, firstLeaf, lastLeaf, Begun(phase, child))
  <2> HIDE DEF parts
  <2>1. parts = ChildrenOf(model, Head(toStore).range, c) /\ c = model.children
    BY DEF parts, c, new
  <2>2. toStore # <<>> /\ AddsChildren(node, n, Head(toStore).at, model, node', n + c)
    BY <1>1, <1>15 DEF new
  <2> QED  BY <1>4, <1>8, <1>17, <2>1, <2>2, HeadIsDivided
<1>19. PICK D2 : Stored(D2, n + c, node', scanLeaf, toStore', W, firstLeaf, lastLeaf, Begun(phase, child))
  BY <1>18 DEF IsStored
<1>20. Begun(phase', child') = Begun(phase, child) /\ Waits(prefetched', remaining') = W
       /\ scanLeaf' = scanLeaf /\ firstLeaf' = firstLeaf /\ lastLeaf' = lastLeaf
  BY <1>1 DEF W
<1>21. prefetched' \in Seq(Tasks) /\ remaining' \in Seq(Tasks)
  BY <1>1, <1>3
<1> QED  BY <1>1, <1>2, <1>16, <1>19, <1>20, <1>21, StoredOnIs

LEMMA ChildEnds ==
  ASSUME Data, SearchOK, StoreOK, EndChild
  PROVE  Searched /\ StoredOn
<1> DEFINE W == Waits(prefetched, remaining)
           n == Len(node)
<1>1. /\ phase = "store" /\ toStore = <<>> /\ COST' = <<>> /\ structMap' = <<>>
      /\ child' = child + 1 /\ phase' = "children"
      /\ UNCHANGED <<call, returned, frames, stored>>
  BY DEF EndChild
<1>2. UNCHANGED <<toStore, node, scanLeaf, prefetched, remaining, firstLeaf, lastLeaf>>
  BY <1>1 DEF stored
<1>3. child \in Nat /\ child < RootChildren /\ RootChildren \in Nat
  BY <1>1, SizesAssumption DEF SearchOK, Searches
<1>4. Searched
  <2>1. child' \in 0..RootChildren
    BY <1>1, <1>3
  <2>2. IsCost(COST') /\ IsStruct(structMap')
    BY <1>1, NoMap DEF IsCost, IsStruct
  <2>3. phase' \in {"children"} /\ phase' # "search" /\ phase' # "store"
    BY <1>1
  <2> QED  BY <1>1, <2>1, <2>2, <2>3 DEF SearchOK, Searched, Searches
<1>5. PICK D : Stored(D, n, node, scanLeaf, toStore, W, firstLeaf, lastLeaf, child + 1)
  BY <1>1 DEF StoreOK, Stores, Begun
<1>6. prefetched \in Seq(Tasks) /\ remaining \in Seq(Tasks)
  BY DEF StoreOK, Stores
<1>7. Begun(phase', child') = child + 1
  BY <1>1 DEF Begun
<1> QED  BY <1>1, <1>2, <1>4, <1>5, <1>6, <1>7, StoredOnIs

LEMMA FetchIsTrained ==
  ASSUME Data, SearchOK, StoreOK, TrainFetch
  PROVE  Searched /\ StoredOn
<1> DEFINE W == Waits(prefetched, remaining)
           n == Len(node)
<1>1. /\ phase = "children" /\ child = RootChildren /\ phase' \in {"crashed", "fill"}
      /\ UNCHANGED <<child, search, stored>>
  BY DEF TrainFetch
<1>2. UNCHANGED <<toStore, node, scanLeaf, prefetched, remaining, firstLeaf, lastLeaf>>
  BY <1>1 DEF stored
<1>3. Searched
  BY <1>1, StoreKeepsSearch
<1>4. CASE phase' = "crashed"
  BY <1>1, <1>3, <1>4, StoredStays
<1>5. CASE phase' = "fill"
  <2>1. PICK D : Stored(D, n, node, scanLeaf, toStore, W, firstLeaf, lastLeaf, child)
    BY <1>1 DEF StoreOK, Stores, Begun
  <2>2. prefetched \in Seq(Tasks) /\ remaining \in Seq(Tasks) /\ toStore = <<>>
    BY <1>1 DEF StoreOK, Stores
  <2>3. Begun(phase', child') = child
    BY <1>1, <1>5 DEF Begun
  <2> QED  BY <1>1, <1>2, <1>3, <1>5, <2>1, <2>2, <2>3, StoredOnIs
<1> QED  BY <1>1, <1>4, <1>5

(* A leaf is filled: one of those that wait.                               *)
LEMMA NodeIsFilled ==
  ASSUME StoreOK, phase = "fill", UNCHANGED <<phase, child, toStore, scanLeaf, firstLeaf, lastLeaf>>,
         prefetched' \in Seq(Tasks), remaining' \in Seq(Tasks),
         NEW new \in Waits(prefetched, remaining),
         Waits(prefetched', remaining') \subseteq Waits(prefetched, remaining),
         Waits(prefetched, remaining) \ {new} \subseteq Waits(prefetched', remaining'),
         NEW blocks, node' = [node EXCEPT ![new.at] = FilledLeaf(new, blocks)]
  PROVE  StoredOn
<1> DEFINE W == Waits(prefetched, remaining)
           V == Waits(prefetched', remaining')
           n == Len(node)
           kept == [b \in DOMAIN blocks |-> WithoutExpected(blocks[b])]
           leaf == Leaf(new.range, kept)
<1>1. PICK D : Stored(D, n, node, scanLeaf, toStore, W, firstLeaf, lastLeaf, Begun(phase, child))
  BY DEF StoreOK, Stores
<1>2. node' = [node EXCEPT ![new.at] = leaf]
  BY DEF FilledLeaf
<1>3. node = [i \in 1..n |-> node[i]] /\ n \in Nat
  BY <1>1 DEF Stored, TreeIs
<1> HIDE DEF leaf, kept, n
<1>4. Len(node') = n
  <2>1. node' = [i \in 1..n |-> node'[i]]
    <3>1. DOMAIN node = 1..n
      BY <1>3
    <3> QED  BY <1>2, <1>3, <3>1
  <2> QED  BY <1>3, <2>1, LengthIs
<1>5. Fills(node, new, kept, node')
  BY <1>2 DEF Fills, leaf
<1>6. IsDone(W, V, new)
  BY DEF IsDone
<1> HIDE DEF W, V
<1>7. Stored(D, n, node', scanLeaf, toStore, V, firstLeaf, lastLeaf, Begun(phase, child))
  BY <1>1, <1>5, <1>6, LeafIsFilled
<1>8. toStore = <<>> /\ child = RootChildren
  BY DEF StoreOK, Stores
<1> QED  BY <1>4, <1>7, <1>8, StoredOnIs DEF V

LEMMA LeavesAreFilled ==
  ASSUME Data, SearchOK, StoreOK, FillPrefetched \/ FillRemaining \/ PutOff
  PROVE  Searched /\ StoredOn
<1>1. phase = "fill" /\ UNCHANGED <<phase, child, search, toStore, scanLeaf, firstLeaf, lastLeaf>>
  BY DEF FillPrefetched, FillRemaining, PutOff
<1>2. Searched
  BY <1>1, StoreKeepsSearch
<1>3. prefetched \in Seq(Tasks) /\ remaining \in Seq(Tasks)
  BY DEF StoreOK, Stores
<1>4. CASE FillPrefetched
  <2> DEFINE new == Head(prefetched)
             F(sizes) == Parts(Merged(new.range), sizes)
  <2>1. prefetched # <<>> /\ prefetched' = Tail(prefetched) /\ remaining' = remaining
        /\ \E sizes : node' = [node EXCEPT ![new.at] = FilledLeaf(new, F(sizes))]
    BY <1>4 DEF FillPrefetched
  <2>2. PICK sizes : node' = [node EXCEPT ![new.at] = FilledLeaf(new, F(sizes))]
    BY <2>1
  <2> HIDE DEF F
  <2>3. prefetched' \in Seq(Tasks) /\ remaining' \in Seq(Tasks)
    BY <1>3, <2>1, HeadAndTail
  <2>4. /\ new \in Waits(prefetched, remaining)
        /\ Waits(prefetched', remaining') \subseteq Waits(prefetched, remaining)
        /\ Waits(prefetched, remaining) \ {new} \subseteq Waits(prefetched', remaining')
    BY <1>3, <2>1, WaitsChange
  <2> HIDE DEF new
  <2> QED  BY <1>1, <1>2, <2>2, <2>3, <2>4, NodeIsFilled
<1>5. CASE FillRemaining
  <2> DEFINE new == Head(remaining)
             blocks == Chunks(Merged(new.range), AvgSlotNum(Len(Merged(new.range))))
  <2>1. remaining # <<>> /\ remaining' = Tail(remaining) /\ prefetched' = prefetched
        /\ node' = [node EXCEPT ![new.at] = FilledLeaf(new, blocks)]
    BY <1>5 DEF FillRemaining
  <2> HIDE DEF blocks
  <2>2. prefetched' \in Seq(Tasks) /\ remaining' \in Seq(Tasks)
    BY <1>3, <2>1, HeadAndTail
  <2>3. /\ new \in Waits(prefetched, remaining)
        /\ Waits(prefetched', remaining') \subseteq Waits(prefetched, remaining)
        /\ Waits(prefetched, remaining) \ {new} \subseteq Waits(prefetched', remaining')
    BY <1>3, <2>1, WaitsChange
  <2> HIDE DEF new
  <2> QED  BY <1>1, <1>2, <2>1, <2>2, <2>3, NodeIsFilled
<1>6. CASE PutOff
  <2>1. prefetched # <<>> /\ prefetched' = Tail(prefetched) /\ node' = node
        /\ remaining' = Append(remaining, Head(prefetched))
    BY <1>6 DEF PutOff
  <2>2. Head(prefetched) \in Tasks /\ Tail(prefetched) \in Seq(Tasks)
    BY <1>3, <2>1, HeadAndTail
  <2>3. prefetched' \in Seq(Tasks) /\ remaining' \in Seq(Tasks)
    BY <1>3, <2>1, <2>2
  <2>4. Waits(prefetched', remaining') = Waits(prefetched, remaining)
    BY <1>3, <2>1, WaitsChange
  <2>5. PICK D : Stored(D, Len(node), node, scanLeaf, toStore, Waits(prefetched, remaining),
                        firstLeaf, lastLeaf, Begun(phase, child))
    BY <1>1 DEF StoreOK, Stores
  <2>6. toStore = <<>> /\ child = RootChildren
    BY <1>1 DEF StoreOK, Stores
  <2> QED  BY <1>1, <1>2, <2>1, <2>3, <2>4, <2>5, <2>6, StoredOnIs
<1> QED  BY <1>4, <1>5, <1>6

----------------------------------------------------------------------------
(* Where Find comes to, and what the chain leads through, in the nodes nd. *)
LeafIn(nd, rt, k) ==
  LET below[i \in DOMAIN nd] ==
        IF nd[i].type = "inner"
        THEN below[nd[i].childLeft + ChildFor(nd[i].model, k)] ELSE i
  IN below[rt[k] + 1]

ScanIn(nd, first) ==
  LET PositionsIn(l) ==
        [p \in 1..nd[l].range.init.size |-> nd[l].range.init.left + p - 1]
      scan[n \in 0..Len(nd)] ==
        IF n = 0 THEN [at |-> first, seen |-> <<>>]
        ELSE LET before == scan[n - 1]
             IN IF before.at = 0 THEN before
                ELSE [at   |-> nd[before.at].nextLeaf,
                      seen |-> before.seen \o PositionsIn(before.at)]
  IN scan[Len(nd)].seen

LEMMA LeafInIs ==
  ASSUME Data, NEW D, NEW nd, TreeIs(nd, Len(nd), D),
         \A i \in 1..Len(nd) : ~ Inner(nd, i) => nd[i].type = "leaf" /\ nd[i].range = D[i],
         NEW k \in Key
  PROVE  LET l == LeafIn(nd, root, k)
         IN /\ nd[l].type = "leaf"
            /\ \A i \in DOMAIN initDataset :
                 initDataset[i] = k => i \in Positions(nd[l].range.init)
            /\ \A i \in DOMAIN insertQuery :
                 insertQuery[i] = k => i \in Positions(nd[l].range.insert)
<1> DEFINE n == Len(nd)
           Is(w) == w = [i \in DOMAIN nd |-> IF nd[i].type = "inner"
                                             THEN w[nd[i].childLeft + ChildFor(nd[i].model, k)]
                                             ELSE i]
           b == CHOOSE w : Is(w)
<1>1. DOMAIN nd = 1..n
  <2>1. nd = [i \in 1..n |-> nd[i]]
    BY DEF TreeIs
  <2> QED  BY <2>1
<1>2. \A w : Is(w) <=> Reaches(w, nd, k, n)
  BY <1>1 DEF Reaches
<1>3. \E w : Reaches(w, nd, k, n)
  BY WaysDown
<1>4. Is(b)
  <2> HIDE DEF Is
  <2> QED  BY <1>2, <1>3
<1>5. LeafIn(nd, root, k) = b[root[k] + 1]
  BY DEF LeafIn
<1> HIDE DEF Is
<1>6. Reaches(b, nd, k, Len(nd))
  BY <1>2, <1>4
<1> HIDE DEF b
<1> QED  BY <1>5, <1>6, PointsAreFound

LEMMA ScanInIs ==
  ASSUME NEW nd, NEW first, \E h : Scans(h, nd, Len(nd), first)
  PROVE  \E h : Scans(h, nd, Len(nd), first) /\ ScanIn(nd, first) = h[Len(nd)].seen
<1> DEFINE n == Len(nd)
           Is(h) == h = [q \in 0..n |->
                           IF q = 0 THEN [at |-> first, seen |-> <<>>]
                           ELSE IF h[q - 1].at = 0 THEN h[q - 1]
                                ELSE [at   |-> nd[h[q - 1].at].nextLeaf,
                                      seen |-> h[q - 1].seen
                                                 \o [p \in 1..nd[h[q - 1].at].range.init.size |->
                                                       nd[h[q - 1].at].range.init.left + p - 1]]]
           s == CHOOSE h : Is(h)
<1>1. \A h : Is(h) <=> Scans(h, nd, n, first)
  BY DEF Scans, ScanStep
<1>2. Is(s)
  <2> HIDE DEF Is
  <2> QED  BY <1>1
<1>3. ScanIn(nd, first) = s[n].seen
  BY DEF ScanIn
<1> HIDE DEF Is
<1>4. Scans(s, nd, n, first)
  BY <1>1, <1>2
<1> HIDE DEF s
<1> QED  BY <1>3, <1>4

LEMMA LeavesAreLinked ==
  ASSUME Data, SearchOK, StoreOK, UpdateLeaf
  PROVE  Searched /\ StoredOn /\ PointsAreBelow' /\ LeavesInOrder'
<1> DEFINE n == Len(node)
           d2 == node'
<1>1. /\ phase = "fill" /\ phase' = "done" /\ prefetched = <<>> /\ remaining = <<>>
      /\ UNCHANGED <<dataset, child, search, toStore, prefetched, remaining, firstLeaf, lastLeaf>>
  BY DEF UpdateLeaf
<1>2. initDataset' = initDataset /\ insertQuery' = insertQuery /\ root' = root
  BY <1>1 DEF dataset
<1>3. Searched
  BY <1>1, StoreKeepsSearch
<1>4. PICK D : Stored(D, n, node, scanLeaf, <<>>, {}, firstLeaf, lastLeaf, RootChildren)
  <2>1. Waits(prefetched, remaining) = {}
    <3>1. \A j : j \notin 1..Len(<<>>)
      OBVIOUS
    <3> QED  BY <1>1, <3>1 DEF Waits
  <2>2. toStore = <<>> /\ Begun(phase, child) = RootChildren
    BY <1>1 DEF StoreOK, Stores, Begun
  <2> QED  BY <1>1, <2>1, <2>2 DEF StoreOK, Stores
<1>5. AllStored(D, n, node, scanLeaf) /\ EndsAre(D, scanLeaf, firstLeaf, lastLeaf)
  BY <1>4, AllAreStored
<1>6. ChainIs(D, n, node, scanLeaf, d2)
  BY <1>5, LeavesAreChained
<1>7. /\ TreeIs(d2, n, D) /\ Len(d2) = n
      /\ \A i \in 1..n : ~ Inner(d2, i) => d2[i].type = "leaf" /\ d2[i].range = D[i]
  BY <1>5, <1>6, ChainedTree
<1> HIDE DEF n, d2
<1>8. StoredOn
  <2>1. n \in Nat /\ {firstLeaf, lastLeaf} \subseteq 0..n
    BY <1>4, EndsAreNodes
  <2>2. prefetched \in Seq(Tasks) /\ remaining \in Seq(Tasks)
    BY DEF StoreOK, Stores
  <2> QED  BY <1>1, <1>7, <2>1, <2>2 DEF StoredOn, Stores, d2
<1>9. PointsAreBelow'
  <2>1. ASSUME NEW k \in Key
        PROVE  LET l == LeafIn(d2, root, k)
               IN /\ d2[l].type = "leaf"
                  /\ \A i \in DOMAIN initDataset :
                       initDataset[i] = k => i \in Positions(d2[l].range.init)
                  /\ \A i \in DOMAIN insertQuery :
                       insertQuery[i] = k => i \in Positions(d2[l].range.insert)
    <3>1. TreeIs(d2, Len(d2), D)
      BY <1>7
    <3>2. \A i \in 1..Len(d2) : ~ Inner(d2, i) => d2[i].type = "leaf" /\ d2[i].range = D[i]
      BY <1>7
    <3> QED  BY <3>1, <3>2, LeafInIs
  <2>2. \A i \in DOMAIN initDataset : initDataset[i] \in Key
    BY DEF Data, Ordered
  <2>3. \A i \in DOMAIN insertQuery : insertQuery[i] \in Key
    BY DEF Data, Ordered
  <2>4. \A i \in DOMAIN initDataset :
          LET l == LeafIn(node', root', initDataset'[i])
          IN node'[l].type = "leaf" /\ i \in Positions(node'[l].range.init)
    BY <1>2, <2>1, <2>2 DEF d2
  <2>5. \A i \in DOMAIN insertQuery :
          LET l == LeafIn(node', root', insertQuery'[i])
          IN node'[l].type = "leaf" /\ i \in Positions(node'[l].range.insert)
    BY <1>2, <2>1, <2>3 DEF d2
  <2>6. (\A i \in DOMAIN initDataset :
           LET l == LeafFor(initDataset[i])
           IN IsLeaf(l) /\ i \in Positions(node[l].range.init))'
    BY <1>2, <2>4 DEF LeafFor, LeafIn, IsLeaf
  <2>7. (\A i \in DOMAIN insertQuery :
           LET l == LeafFor(insertQuery[i])
           IN IsLeaf(l) /\ i \in Positions(node[l].range.insert))'
    BY <1>2, <2>5 DEF LeafFor, LeafIn, IsLeaf
  <2> QED  BY <2>6, <2>7 DEF PointsAreBelow
<1>10. LeavesInOrder'
  <2>1. ScanIn(node', firstLeaf') = Ids(Len(initDataset))
    <3>1. /\ \E h : Scans(h, d2, n, firstLeaf)
          /\ \A h : Scans(h, d2, n, firstLeaf) => h[n].seen = Ids(Len(initDataset))
      BY <1>5, <1>6, ScanGoesThrough
    <3>2. \E h : Scans(h, d2, n, firstLeaf) /\ ScanIn(d2, firstLeaf) = h[n].seen
      BY <1>7, <3>1, ScanInIs
    <3> QED  BY <1>1, <3>1, <3>2 DEF d2
  <2>2. ScanFrom(firstLeaf)' = ScanIn(node', firstLeaf')
    BY DEF ScanFrom, ScanIn
  <2>3. Ids(Len(initDataset)) = [i \in DOMAIN initDataset' |-> i]
    <3>1. DOMAIN initDataset = 1..Len(initDataset)
      BY DEF Data, Ordered
    <3> QED  BY <1>2, <3>1 DEF Ids
  <2>4. \A i, j \in DOMAIN node' :
          node'[i].type = "leaf" /\ node'[j].type = "leaf"
            => (node'[i].nextLeaf = j <=> node'[j].previousLeaf = i)
    <3>1. DOMAIN node' = 1..n
      BY <1>6 DEF ChainIs, d2
    <3>2. ASSUME NEW i \in 1..n, NEW j \in 1..n, d2[i].type = "leaf", d2[j].type = "leaf"
          PROVE  d2[i].nextLeaf = j <=> d2[j].previousLeaf = i
      BY <1>5, <1>6, <3>2, LinksAgree
    <3> QED  BY <3>1, <3>2 DEF d2
  <2>5. Len(initDataset) \in Positions(node'[lastLeaf'].range.init)
    BY <1>1, <1>5, <1>6, LastIsLast DEF d2
  <2> QED  BY <1>2, <2>1, <2>2, <2>3, <2>4, <2>5 DEF LeavesInOrder, IsLeaf
<1> QED  BY <1>3, <1>8, <1>9, <1>10

----------------------------------------------------------------------------
(* What each step keeps.                                                   *)
PointsIn(nd, rt, init, insert) ==
  /\ \A i \in DOMAIN init : LET l == LeafIn(nd, rt, init[i])
                            IN nd[l].type = "leaf" /\ i \in Positions(nd[l].range.init)
  /\ \A i \in DOMAIN insert : LET l == LeafIn(nd, rt, insert[i])
                              IN nd[l].type = "leaf" /\ i \in Positions(nd[l].range.insert)

OrderIn(nd, first, last, init) ==
  /\ ScanIn(nd, first) = [i \in DOMAIN init |-> i]
  /\ \A i, j \in DOMAIN nd :
       nd[i].type = "leaf" /\ nd[j].type = "leaf"
         => (nd[i].nextLeaf = j <=> nd[j].previousLeaf = i)
  /\ Len(init) \in Positions(nd[last].range.init)

LEMMA ResultsAre ==
  /\ PointsAreBelow <=> (phase = "done" => PointsIn(node, root, initDataset, insertQuery))
  /\ LeavesInOrder <=> (phase = "done" => OrderIn(node, firstLeaf, lastLeaf, initDataset))
<1>1. PointsAreBelow <=> (phase = "done" => PointsIn(node, root, initDataset, insertQuery))
  BY DEF PointsAreBelow, PointsIn, LeafFor, LeafIn, IsLeaf
<1>2. ScanFrom(firstLeaf) = ScanIn(node, firstLeaf)
  BY DEF ScanFrom, ScanIn
<1>3. LeavesInOrder <=> (phase = "done" => OrderIn(node, firstLeaf, lastLeaf, initDataset))
  BY <1>2 DEF LeavesInOrder, OrderIn, IsLeaf
<1> QED  BY <1>1, <1>3

LEMMA ResultsStay ==
  ASSUME PointsAreBelow, LeavesInOrder, UNCHANGED <<dataset, stored>>, phase' = phase
  PROVE  PointsAreBelow' /\ LeavesInOrder'
<1>1. /\ initDataset' = initDataset /\ insertQuery' = insertQuery /\ root' = root
      /\ node' = node /\ firstLeaf' = firstLeaf /\ lastLeaf' = lastLeaf
  BY DEF dataset, stored
<1>2. phase' = "done" => /\ PointsIn(node', root', initDataset', insertQuery')
                         /\ OrderIn(node', firstLeaf', lastLeaf', initDataset')
  BY <1>1, ResultsAre
<1>3. PointsAreBelow'
  BY <1>2 DEF PointsAreBelow, PointsIn, LeafFor, LeafIn, IsLeaf
<1>4. ScanFrom(firstLeaf)' = ScanIn(node', firstLeaf')
  BY DEF ScanFrom, ScanIn
<1>5. LeavesInOrder'
  BY <1>2, <1>4 DEF LeavesInOrder, OrderIn, IsLeaf
<1> QED  BY <1>3, <1>5

Inv == Data /\ SearchOK /\ StoreOK /\ PointsAreBelow /\ LeavesInOrder

LEMMA StartsStored ==
  ASSUME Data, NEW nd, nd = [i \in 1..RootChildren |-> NoSetting]
  PROVE  \E D : Stored(D, RootChildren, nd, <<>>, <<>>, {}, 0, 0, 0)
<1> DEFINE n == RootChildren
           D == [i \in 1..n |-> RootRanges[i - 1]]
<1>1. n \in Nat \ {0}
  BY SizesAssumption
<1>2. D \in [1..n -> Ranges] /\ \A c \in 0..n - 1 : D[c + 1] = RootRanges[c]
  <2>1. \A i \in 1..n : i - 1 \in 0..n - 1
    BY <1>1
  <2>2. \A i \in 1..n : RootRanges[i - 1] \in Ranges
    BY <2>1, RootRangesAre
  <2>3. \A c \in 0..n - 1 : c + 1 \in 1..n /\ (c + 1) - 1 = c
    BY <1>1
  <2> QED  BY <2>2, <2>3
<1>3. \A i \in 1..n : ~ Inner(nd, i) /\ nd[i].type = "none"
  BY DEF Inner, NoSetting
<1> HIDE DEF D
<1>4. TreeIs(nd, n, D)
  <2>1. n >= RootChildren /\ nd = [i \in 1..n |-> nd[i]]
    BY <1>1
  <2> QED  BY <1>1, <1>2, <1>3, <2>1 DEF TreeIs
<1>5. <<>> \in Seq(Nat) /\ <<>> \in Seq(Tasks) /\ Len(<<>>) = 0 /\ \A j : j \notin 1..Len(<<>>)
  OBVIOUS
<1>6. \A i : ~ Scanned(<<>>, i) /\ ~ InQueue(<<>>, i)
  BY <1>5 DEF Scanned, InQueue
<1>7. LeavesAre(nd, n, D, <<>>, {})
  BY <1>3, <1>5, <1>6 DEF LeavesAre
<1>8. QueueIs(nd, n, D, <<>>, <<>>, 0)
  <2>1. /\ \A i \in 0 + 1..n : i \in 1..n
        /\ \A i \in 1..n : i \in 0 + 1..n
        /\ 0 + 0 + (n - 0) <= n
    BY <1>1
  <2> QED  BY <1>3, <1>5, <1>6, <2>1 DEF QueueIs
<1>9. OrderIs(D, <<>>, <<>>, 0)
  <2>1. Start(0) = 1 /\ 1 \in Nat
    BY StartIs
  <2>2. Row(ScannedPairs(D, <<>>), 0, 1, 1) /\ Row(QueuedPairs(<<>>), 0, 1, 1)
    BY <2>1, RowOfNone
  <2> QED  BY <1>5, <2>1, <2>2 DEF OrderIs
<1>10. EndsAre(D, <<>>, 0, 0)
  BY <1>5 DEF EndsAre
<1>11. 0 \in 0..RootChildren
  BY <1>1
<1> QED  BY <1>4, <1>7, <1>8, <1>9, <1>10, <1>11 DEF Stored

LEMMA StartsRight ==
  ASSUME Init PROVE Inv
<1>1. Data
  <2>1. PICK points \in InitSets, expected \in InsertSets :
          NewTree(PreprocessInput(points), PreprocessInput(expected))
    BY DEF Init
  <2>2. points \in Seq(Key) /\ expected \in Seq(Key) /\ points # <<>>
    BY DataAssumption
  <2>3. /\ Ordered(initDataset) /\ Ordered(insertQuery)
        /\ Len(initDataset) = Len(points)
    BY <2>1, <2>2, PreprocessIsOrdered DEF NewTree
  <2>4. Len(points) # 0
    BY <2>2
  <2>5. initDataset # <<>>
    <3>1. Len(<<>>) = 0
      OBVIOUS
    <3> QED  BY <2>3, <2>4, <3>1
  <2>6. IsMap(root, RootChildren)
    <3>1. root \in [Key -> 0..RootChildren - 1] /\ \A j, k \in Key : j < k => root[j] <= root[k]
      BY DEF Init
    <3>2. ASSUME NEW j \in Key, NEW k \in Key, j <= k
          PROVE  root[j] <= root[k]
      <4>1. j \in Int /\ k \in Int /\ root[j] \in 0..RootChildren - 1
        BY <3>1, KeysAreInts
      <4>2. RootChildren \in Nat /\ root[j] \in Int
        BY <4>1, SizesAssumption
      <4>3. CASE j < k
        BY <3>1, <4>3
      <4>4. CASE j = k
        BY <4>2, <4>4
      <4> QED  BY <3>2, <4>1, <4>3, <4>4
    <3> QED  BY <3>1, <3>2 DEF IsMap
  <2> QED  BY <2>3, <2>5, <2>6 DEF Data
<1>2. /\ phase = "children" /\ child = 0 /\ call = NoCall /\ returned = NoCost /\ frames = <<>>
      /\ COST = <<>> /\ structMap = <<>> /\ toStore = <<>>
      /\ node = [i \in 1..RootChildren |-> NoSetting]
      /\ scanLeaf = <<>> /\ prefetched = <<>> /\ remaining = <<>>
      /\ firstLeaf = 0 /\ lastLeaf = 0
  BY DEF Init
<1>3. SearchOK
  <2>1. 0 \in 0..RootChildren /\ StackSize \in Nat
    BY SizesAssumption
  <2>2. IsCost(COST) /\ IsStruct(structMap)
    BY <1>2, NoMap DEF IsCost, IsStruct
  <2>3. frames \in Seq(Frames) /\ Len(frames) = 0
    BY <1>2
  <2> QED  BY <1>2, <2>1, <2>2, <2>3 DEF SearchOK, Searches, Calls
<1>4. StoreOK
  <2>1. PICK D : Stored(D, RootChildren, node, <<>>, <<>>, {}, 0, 0, 0)
    BY <1>1, <1>2, StartsStored
  <2>2. RootChildren \in Nat /\ Len(node) = RootChildren
    <3>1. RootChildren \in Nat
      BY SizesAssumption
    <3>2. node = [i \in 1..RootChildren |-> node[i]]
      BY <1>2
    <3> QED  BY <3>1, <3>2, LengthIs
  <2>3. Waits(prefetched, remaining) = {}
    <3>1. \A j : j \notin 1..Len(<<>>)
      OBVIOUS
    <3> QED  BY <1>2, <3>1 DEF Waits
  <2>4. Begun(phase, child) = 0
    BY <1>2 DEF Begun
  <2>5. prefetched \in Seq(Tasks) /\ remaining \in Seq(Tasks) /\ {firstLeaf, lastLeaf} \subseteq 0..Len(node)
    BY <1>2, <2>2
  <2> QED  BY <1>2, <2>1, <2>2, <2>3, <2>4, <2>5 DEF StoreOK, Stores
<1>5. PointsAreBelow /\ LeavesInOrder
  BY <1>2 DEF PointsAreBelow, LeavesInOrder
<1> QED  BY <1>1, <1>3, <1>4, <1>5 DEF Inv

(* A step of the search.                                                   *)
LEMMA SearchKeeps ==
  ASSUME Inv, Searched, UNCHANGED <<dataset, child, stored>>,
         \/ phase' = phase
         \/ phase = "children" /\ phase' = "search"
         \/ phase' = "crashed"
  PROVE  Inv'
<1>1. Data' /\ SearchOK'
  <2>1. UNCHANGED dataset
    OBVIOUS
  <2> QED  BY <2>1, SameData DEF Inv, Searched
<1>2. StoreOK'
  <2>1. UNCHANGED dataset /\ UNCHANGED stored /\ UNCHANGED child
    OBVIOUS
  <2>2. StoredOn
    BY <2>1, StoredStays DEF Inv
  <2> QED  BY <2>1, <2>2, SameStored
<1>3. PointsAreBelow' /\ LeavesInOrder'
  <2>1. CASE phase' = phase
    BY <2>1, ResultsStay DEF Inv
  <2>2. CASE phase' # "done"
    BY <2>2 DEF PointsAreBelow, LeavesInOrder
  <2>3. phase' = phase \/ phase' # "done"
    OBVIOUS
  <2> QED  BY <2>1, <2>2, <2>3
<1> QED  BY <1>1, <1>2, <1>3 DEF Inv

(* A step that stores something.                                           *)
LEMMA StoreKeeps ==
  ASSUME Inv, Searched, StoredOn, UNCHANGED dataset, phase' # "done"
  PROVE  Inv'
<1>1. Data' /\ SearchOK'
  BY SameData DEF Inv, Searched
<1>2. StoreOK'
  BY SameStored
<1>3. PointsAreBelow' /\ LeavesInOrder'
  BY DEF PointsAreBelow, LeavesInOrder
<1> QED  BY <1>1, <1>2, <1>3 DEF Inv

LEMMA StepKeeps ==
  ASSUME Inv, [Next]_vars
  PROVE  Inv'
<1>0. Data /\ SearchOK /\ StoreOK
  BY DEF Inv
<1>1. Over => UNCHANGED vars
  BY DEF Over
<1>2. CASE StartChild
  <2>1. Searched
    BY <1>0, <1>2, CallsBegin
  <2> QED  BY <1>2, <2>1, SearchKeeps DEF StartChild
<1>3. CASE DPEmpty \/ DPSolved \/ DPSmall
  <2>1. Searched
    BY <1>0, <1>3, CallsReturn
  <2> QED  BY <1>3, <2>1, SearchKeeps DEF DPEmpty, DPSolved, DPSmall
<1>4. CASE BeginInner
  <2>1. Searched
    BY <1>0, <1>4, CallsBegin
  <2> QED  BY <1>4, <2>1, SearchKeeps DEF BeginInner
<1>5. CASE StackOverflow \/ GreedyFails
  <2>1. Searched
    BY <1>0, <1>5, CallsBegin
  <2> QED  BY <1>5, <2>1, SearchKeeps DEF StackOverflow, GreedyFails
<1>6. CASE TryCandidate
  <2>1. Searched
    BY <1>0, <1>6, CandidateIsTried
  <2> QED  BY <1>6, <2>1, SearchKeeps DEF TryCandidate
<1>7. CASE TryChild \/ GreedyChild
  <2>1. Searched
    BY <1>0, <1>7, ChildIsTried
  <2> QED  BY <1>7, <2>1, SearchKeeps DEF TryChild, GreedyChild
<1>8. CASE AddChild \/ Compare
  <2>1. Searched
    BY <1>0, <1>8, ChildIsAdded
  <2> QED  BY <1>8, <2>1, SearchKeeps DEF AddChild, Compare
<1>9. CASE EndInner \/ EndGreedy
  <2>1. Searched
    BY <1>0, <1>9, CallsEnd
  <2> QED  BY <1>9, <2>1, SearchKeeps DEF EndInner, EndGreedy
<1>10. CASE Greedy
  <2>1. Searched
    BY <1>0, <1>10, GreedyIsSearched
  <2> QED  BY <1>10, <2>1, SearchKeeps DEF Greedy
<1>11. CASE PlaceChild
  <2>1. Searched /\ StoredOn
    BY <1>0, <1>11, ChildIsPlaced
  <2> QED  BY <1>11, <2>1, StoreKeeps DEF PlaceChild
<1>12. CASE NothingToStore
  <2>1. UNCHANGED <<dataset, child, search, stored>> /\ phase' = "crashed"
    BY <1>12 DEF NothingToStore
  <2>2. Searched
    BY <1>0, <2>1, StoreKeepsSearch
  <2> QED  BY <2>1, <2>2, SearchKeeps
<1>13. CASE StoreLeaf
  <2>1. Searched /\ StoredOn
    BY <1>0, <1>13, LeafIsQueued
  <2> QED  BY <1>13, <2>1, StoreKeeps DEF StoreLeaf
<1>14. CASE StoreInner
  <2>1. Searched /\ StoredOn
    BY <1>0, <1>14, ChildrenAreQueued
  <2> QED  BY <1>14, <2>1, StoreKeeps DEF StoreInner
<1>15. CASE EndChild
  <2>1. Searched /\ StoredOn
    BY <1>0, <1>15, ChildEnds
  <2> QED  BY <1>15, <2>1, StoreKeeps DEF EndChild
<1>16. CASE TrainFetch
  <2>1. Searched /\ StoredOn
    BY <1>0, <1>16, FetchIsTrained
  <2>2. UNCHANGED dataset /\ phase' # "done"
    BY <1>16 DEF TrainFetch
  <2> QED  BY <2>1, <2>2, StoreKeeps
<1>17. CASE FillPrefetched \/ FillRemaining \/ PutOff
  <2>1. Searched /\ StoredOn
    BY <1>0, <1>17, LeavesAreFilled
  <2>2. UNCHANGED dataset /\ phase' # "done"
    BY <1>17 DEF FillPrefetched, FillRemaining, PutOff
  <2> QED  BY <2>1, <2>2, StoreKeeps
<1>18. CASE UpdateLeaf
  <2>1. Searched /\ StoredOn /\ PointsAreBelow' /\ LeavesInOrder'
    BY <1>0, <1>18, LeavesAreLinked
  <2>2. UNCHANGED dataset
    BY <1>18 DEF UpdateLeaf
  <2>3. Data' /\ SearchOK' /\ StoreOK'
    BY <1>0, <2>1, <2>2, SameData, SameStored DEF Searched
  <2> QED  BY <2>1, <2>3 DEF Inv
<1>19. CASE UNCHANGED vars
  <2>1. UNCHANGED <<dataset, child, stored>> /\ phase' = phase
        /\ UNCHANGED <<call, returned, frames, COST, structMap>>
    BY <1>19 DEF vars, search
  <2>2. Searched
    BY <1>0, <2>1 DEF SearchOK, Searched
  <2> QED  BY <2>1, <2>2, SearchKeeps
<1> QED  BY <1>1, <1>2, <1>3, <1>4, <1>5, <1>6, <1>7, <1>8, <1>9, <1>10, <1>11, <1>12, <1>13,
            <1>14, <1>15, <1>16, <1>17, <1>18, <1>19 DEF Next

LEMMA InvIs ==
  ASSUME Inv PROVE TypeOK
<1>1. SearchOK /\ StoreOK /\ Data
  BY DEF Inv
<1>2. \A r \in Ranges : IsRange(r)
  BY DEF Ranges, Pairs, IsRange
<1>3. /\ phase \in {"children", "search", "store", "fill", "done", "crashed"}
      /\ child \in 0..RootChildren /\ returned \in Nat \cup {NoCost}
      /\ Len(frames) <= StackSize
  BY <1>1 DEF SearchOK, Searches
<1>4. call # NoCall => call.alg \in {"dp", "leaf", "greedy"} /\ IsRange(call.range)
  <2>1. call \in Calls
    BY <1>1 DEF SearchOK, Searches
  <2> QED  BY <1>2, <2>1 DEF Calls, FullRanges
<1>5. \A i \in DOMAIN frames : IsRange(frames[i].range)
  <2>1. frames \in Seq(Frames)
    BY <1>1 DEF SearchOK, Searches
  <2>2. \A i \in DOMAIN frames : frames[i] \in Frames
    BY <2>1
  <2> QED  BY <1>2, <2>2 DEF Frames, FullRanges
<1>6. \A pair \in DOMAIN COST : IsPair(pair, initDataset) /\ COST[pair] \in Nat
  BY <1>1 DEF SearchOK, Searches, IsCost, MapsTo, Pairs
<1>7. \A pair \in DOMAIN structMap : IsPair(pair, initDataset)
  BY <1>1 DEF SearchOK, Searches, IsStruct, MapsTo, Pairs
<1>8. {firstLeaf, lastLeaf} \subseteq 0..Len(node)
  BY <1>1 DEF StoreOK, Stores
<1> QED  BY <1>3, <1>4, <1>5, <1>6, <1>7, <1>8 DEF TypeOK

(* What the constructor keeps from its first call to its last, between any *)
(* two steps: the points are there (Data); every call that is open, every  *)
(* solution found and every node of structMap is about a range of them     *)
(* (SearchOK); and what is stored is a tree over those ranges, each scanned*)
(* leaf filled or waiting, the leaves chained so far in a row (StoreOK).   *)
THEOREM Invariant == Spec => []Inv
<1>1. Init => Inv
  BY StartsRight
<1>2. Inv /\ [Next]_vars => Inv'
  BY StepKeeps
<1> QED  BY <1>1, <1>2, PTL DEF Spec

(* Every range that is asked for, open or solved is one of the points that *)
(* there are, and no call gets outside of them; the ends of the chain are  *)
(* nodes.                                                                  *)
THEOREM TypeCorrect == Spec => []TypeOK
<1>1. Inv => TypeOK
  BY InvIs
<1> QED  BY <1>1, Invariant, PTL

(* However the points are divided, the way down from the root leads each   *)
(* of them, and each key that is expected, to the leaf that was made for   *)
(* it: NodePartition counts with the same model that Find goes by.         *)
THEOREM PointsFound == Spec => []PointsAreBelow
<1>1. Inv => PointsAreBelow
  BY DEF Inv
<1> QED  BY <1>1, Invariant, PTL

(* Whatever is stored at once and whatever later, and in whatever order    *)
(* the leaves are filled, the chain that UpdateLeaf makes leads through all*)
(* the points in order, and back the same way.                             *)
THEOREM LeavesChained == Spec => []LeavesInOrder
<1>1. Inv => LeavesInOrder
  BY DEF Inv
<1> QED  BY <1>1, Invariant, PTL
=============================================================================
