------------------------- MODULE ExternalMapProofs -------------------------
(***************************************************************************)
(* The leaves of the external map share out the records of the caller's    *)
(* array, a full leaf is split once at the most for an insertion, and find,*)
(* the bounds and the iterators are those of a sorted sequence: whatever   *)
(* the keys, the size of a leaf, the model of the root and the lines that  *)
(* the leaves and the splits have been trained with.                       *)
(***************************************************************************)
EXTENDS ExternalMap, NumberProofs

----------------------------------------------------------------------------
(* Keys and records.                                                       *)
LEMMA KeysAreNumbers ==
  /\ Key \subseteq Int /\ 0 \notin Key /\ Junk \in Int
  /\ \A keys \in Seq(Key) : keys \in Seq(Int)
<1>1. Key \subseteq Int /\ 0 \notin Key /\ Junk \in Int
  BY KeyAssumption
<1>2. ASSUME NEW keys \in Seq(Key)
      PROVE  keys \in Seq(Int)
  <2> DEFINE n == Len(keys)
  <2>1. n \in Nat /\ keys \in [1..n -> Key]
    OBVIOUS
  <2> HIDE DEF n
  <2>2. keys \in [1..n -> Int]
    BY <1>1, <2>1
  <2> QED  BY <2>1, <2>2
<1> QED  BY <1>1, <1>2

Records(keys) == keys \in Seq(Key) /\ Ascending(keys)

LEMMA RecordsAre ==
  ASSUME NEW keys, Records(keys)
  PROVE  /\ Len(keys) \in Nat /\ DOMAIN keys = 1..Len(keys)
         /\ \A p \in 1..Len(keys) : keys[p] \in Key /\ keys[p] \in Int
         /\ \A p, q \in 1..Len(keys) : p < q => keys[p] < keys[q]
         /\ \A p, q \in 1..Len(keys) : p <= q => keys[p] <= keys[q]
         /\ keys \in Seq(Int) /\ Rising(keys)
<1>1. /\ Len(keys) \in Nat /\ DOMAIN keys = 1..Len(keys) /\ keys \in Seq(Int)
      /\ \A p \in 1..Len(keys) : keys[p] \in Key /\ keys[p] \in Int
  BY KeysAreNumbers DEF Records
<1>2. \A p, q \in 1..Len(keys) : p < q => keys[p] < keys[q]
  BY <1>1 DEF Records, Ascending
<1>3. \A p, q \in 1..Len(keys) : p <= q => keys[p] <= keys[q]
  BY <1>1, <1>2
<1> QED  BY <1>1, <1>2, <1>3 DEF Rising

LEMMA KeyAtIs ==
  ASSUME NEW keys, Records(keys), NEW p \in Int
  PROVE  /\ KeyAt(keys, p) \in Int
         /\ p \in 0..Len(keys) - 1 => KeyAt(keys, p) = keys[p + 1]
         /\ p \notin 0..Len(keys) - 1 => KeyAt(keys, p) = Junk
<1>1. Len(keys) \in Nat /\ \A q \in 1..Len(keys) : keys[q] \in Int
  BY RecordsAre
<1>2. p \in 0..Len(keys) - 1 => p + 1 \in 1..Len(keys)
  BY <1>1
<1> QED  BY <1>1, <1>2, KeysAreNumbers DEF KeyAt

----------------------------------------------------------------------------
(* The leaf over the caller's array.                                       *)
LeafRecord ==
  [kind : {"leaf"}, m_left : Nat, size : 0..MaxLeafSize, error : 0..MaxLeafSize, lr : Lines]

LEMMA LeafIs ==
  ASSUME NEW leaf \in LeafRecord
  PROVE  /\ leaf.kind = "leaf" /\ leaf.m_left \in Nat /\ leaf.size \in Nat
         /\ leaf.size <= MaxLeafSize /\ leaf.error \in Nat /\ leaf.error <= MaxLeafSize
         /\ leaf.lr \in Lines /\ MaxLeafSize \in Nat /\ MaxLeafSize >= 2
BY MaxLeafSizeAssumption DEF LeafRecord

(* The guess is in the leaf, or at its place if it has no records.         *)
LEMMA GuessIs ==
  ASSUME NEW leaf \in LeafRecord, NEW k \in Int
  PROVE  /\ Guess(leaf, k) \in Nat
         /\ leaf.size > 0 => Guess(leaf, k) < leaf.size
         /\ leaf.size = 0 => Guess(leaf, k) = 0
<1> DEFINE n == leaf.size
           v == Value(leaf.lr, k)
           p == (v * n) \div leaf.lr.den
           m == Min({p, n - 1})
<1>1. n \in Nat
  BY LeafIs
<1>2. p \in Int
  <2>1. v \in Int /\ leaf.lr.den \in Nat \ {0}
    BY LeafIs, ValueIsNumber DEF Lines
  <2> HIDE DEF v, n
  <2>2. v * n \in Int
    BY <1>1, <2>1
  <2> QED  BY <2>1, <2>2, Quotient
<1>3. Guess(leaf, k) = Max({0, m})
  BY DEF Guess, Value
<1> HIDE DEF p, n
<1>4. m = IF p <= n - 1 THEN p ELSE n - 1
  BY <1>1, <1>2, MinOfTwo
<1>5. m \in Int
  BY <1>1, <1>2, <1>4
<1> HIDE DEF m
<1>6. Max({0, m}) = IF 0 >= m THEN 0 ELSE m
  BY <1>5, MaxOfTwo
<1>7. /\ Guess(leaf, k) \in Nat /\ (n > 0 => Guess(leaf, k) < n)
      /\ n = 0 => Guess(leaf, k) = 0
  BY <1>1, <1>2, <1>3, <1>4, <1>5, <1>6
<1> QED  BY <1>7 DEF n

(* FindOptError gives a difference that there may be, or 0.                *)
LEMMA OptErrorIs ==
  ASSUME NEW leaf \in LeafRecord, leaf.size > 0,
         NEW dataset \in Seq(Int), leaf.size <= Len(dataset)
  PROVE  OptError(leaf, dataset) \in 0..MaxLeafSize
<1> DEFINE n       == leaf.size
           off(i)  == Abs(i - 1 - Guess(leaf, dataset[i]))
           Near(e) == Cardinality({i \in 1..n : off(i) <= e})
           cost(e) == ((IF e = 0 THEN 0 ELSE Near(e) * Log2[e])
                         + (n - Near(e)) * Log2[n]) \div 1000
           Better  == {off(i) : i \in {j \in 1..n : cost(off(j)) < (n * Log2[n]) \div 1000}}
           Best    == {e \in Better : \A f \in Better : cost(e) <= cost(f)}
<1>1. OptError(leaf, dataset) = IF Better = {} THEN 0 ELSE Min(Best)
  BY DEF OptError
<1>2. n \in Nat /\ n > 0 /\ n <= MaxLeafSize /\ MaxLeafSize \in Nat
  BY LeafIs
<1>3. ASSUME NEW i \in 1..n
      PROVE  off(i) \in 0..n - 1
  <2> DEFINE g == Guess(leaf, dataset[i])
  <2>1. g \in Nat /\ g < n
    <3>1. dataset[i] \in Int
      BY <1>2
    <3> QED  BY <1>2, <3>1, GuessIs
  <2> HIDE DEF g, n
  <2>2. i \in 1..n /\ n \in Nat
    BY <1>2
  <2>3. Abs(i - 1 - g) \in 0..n - 1
    BY <2>1, <2>2 DEF Abs
  <2> QED  BY <2>3 DEF g
<1> HIDE DEF off
<1>4. ASSUME NEW e \in 0..n - 1
      PROVE  cost(e) \in Nat
  <2> DEFINE S == {i \in 1..n : off(i) <= e}
             c == Cardinality(S)
             x == IF e = 0 THEN 0 ELSE c * Log2[e]
             y == (n - c) * Log2[n]
  <2>1. c \in Nat /\ c <= n
    <3>1. S \subseteq 1..n
      OBVIOUS
    <3> HIDE DEF S, n
    <3>2. IsFiniteSet(1..n) /\ Cardinality(1..n) = n
      BY <1>2, FS_Interval
    <3>3. IsFiniteSet(S) /\ Cardinality(S) <= Cardinality(1..n)
      BY <3>1, <3>2, FS_Subset
    <3> QED  BY <3>2, <3>3, FS_CardinalityType
  <2> HIDE DEF c
  <2>2. Log2[n] \in Nat /\ (e # 0 => Log2[e] \in Nat)
    BY <1>2, Log2Assumption
  <2>3. x \in Nat /\ y \in Nat
    <3>1. n - c \in Nat
      BY <1>2, <2>1
    <3>2. \A a, b \in Nat : a * b \in Nat
      OBVIOUS
    <3> QED  BY <2>1, <2>2, <3>1, <3>2
  <2> HIDE DEF x, y
  <2>4. (x + y) \div 1000 \in Nat
    BY <2>3
  <2>5. cost(e) = (x + y) \div 1000
    BY DEF x, y, c
  <2> QED  BY <2>4, <2>5
<1> HIDE DEF cost
<1>5. Better \subseteq 0..n - 1
  BY <1>3
<1> HIDE DEF Better
<1>6. ASSUME Better # {}
      PROVE  Min(Best) \in 0..n - 1
  <2> DEFINE C == {cost(e) : e \in Better}
  <2>1. C \subseteq Nat /\ C # {}
    BY <1>4, <1>5, <1>6
  <2> HIDE DEF C
  <2>2. PICK x \in C : \A y \in C : x <= y
    BY <2>1, LeastNumber
  <2>3. PICK e \in Better : cost(e) = x
    BY DEF C
  <2>4. e \in Best
    BY <2>2, <2>3 DEF C
  <2>5. Best # {} /\ Best \subseteq 0..n - 1
    BY <1>5, <2>4
  <2> HIDE DEF Best, n
  <2>6. Best \subseteq Nat
    BY <2>5
  <2> QED  BY <2>5, <2>6, MinOfNumbers
<1> HIDE DEF Best, n
<1>7. OptError(leaf, dataset) \in 0..n
  BY <1>1, <1>2, <1>6
<1> QED  BY <1>2, <1>7

LEMMA TrainLeafIs ==
  ASSUME NEW left \in Nat, NEW dataset \in Seq(Int), NEW s \in Nat, NEW size \in Nat,
         s + size <= Len(dataset), size <= MaxLeafSize
  PROVE  /\ TrainLeaf(left, dataset, s, size) \in LeafRecord
         /\ TrainLeaf(left, dataset, s, size).m_left = left
         /\ TrainLeaf(left, dataset, s, size).size = size
<1> DEFINE keys == SubSeq(dataset, s + 1, s + size)
           lr   == Train(keys, 1)
           leaf == [EmptyLeaf(left) EXCEPT !.size = size, !.lr = lr]
           err  == OptError(leaf, dataset)
<1>1. EmptyLeaf(left) \in LeafRecord /\ EmptyLeaf(left).m_left = left /\ EmptyLeaf(left).size = 0
  BY MaxLeafSizeAssumption DEF EmptyLeaf, LeafRecord, Lines
<1>2. CASE size = 0
  BY <1>1, <1>2 DEF TrainLeaf
<1>3. CASE size # 0
  <2>1. keys \in Seq(Int) /\ Len(keys) = size
    OBVIOUS
  <2>2. lr \in Lines
    <3> HIDE DEF keys
    <3> QED  BY <1>3, <2>1, TrainFits
  <2> HIDE DEF lr
  <2>3. leaf \in LeafRecord /\ leaf.size = size /\ leaf.m_left = left
    <3>1. size \in 0..MaxLeafSize
      BY MaxLeafSizeAssumption
    <3> QED  BY <1>1, <2>2, <3>1 DEF LeafRecord
  <2>4. TrainLeaf(left, dataset, s, size) = [leaf EXCEPT !.error = err]
    BY <1>3 DEF TrainLeaf, lr
  <2> HIDE DEF leaf
  <2>5. err \in 0..MaxLeafSize
    <3>1. leaf.size > 0 /\ leaf.size <= Len(dataset)
      BY <1>3, <2>3
    <3> QED  BY <2>3, <3>1, OptErrorIs
  <2> HIDE DEF err
  <2> QED  BY <2>3, <2>4, <2>5 DEF LeafRecord
<1> QED  BY <1>2, <1>3

----------------------------------------------------------------------------
(* Binary search.                                                          *)
(*                                                                         *)
(* The loop goes on with the range r of start..end, in t turns at most.    *)
Narrowed(keys, k, start, end, r, t) ==
  /\ r \in Int \X Int
  /\ start <= r[1] /\ r[1] <= r[2] /\ r[2] <= end /\ r[2] - r[1] <= t
  /\ \A p \in start..r[1] - 1 : KeyAt(keys, p) < k
  /\ \A p \in r[2]..end - 1 : k <= KeyAt(keys, p)

LEMMA HalveNarrows ==
  ASSUME NEW keys, Records(keys), NEW k \in Int, NEW start \in Int, NEW end \in Int,
         \A p, q \in start..end - 1 : p <= q => KeyAt(keys, p) <= KeyAt(keys, q),
         NEW r, NEW t \in Int, Narrowed(keys, k, start, end, r, t + 1), t >= 0
  PROVE  Narrowed(keys, k, start, end, Halve(keys, k, r), t)
<1> DEFINE a == r[1]
           b == r[2]
           mid == (a + b) \div 2
           h == Halve(keys, k, r)
<1>1. /\ a \in Int /\ b \in Int /\ r = <<a, b>>
      /\ start <= a /\ a <= b /\ b <= end /\ b - a <= t + 1
      /\ \A p \in start..a - 1 : KeyAt(keys, p) < k
      /\ \A p \in b..end - 1 : k <= KeyAt(keys, p)
  BY DEF Narrowed
<1>2. h = IF a >= b THEN r ELSE IF KeyAt(keys, mid) < k THEN <<mid + 1, b>> ELSE <<a, mid>>
  BY DEF Halve
<1>3. /\ \A p \in Int : KeyAt(keys, p) \in Int
      /\ \A p \in Int : p \in start..end - 1 <=> start <= p /\ p <= end - 1
  BY KeyAtIs
<1> HIDE DEF a, b, h
<1>4. CASE a >= b
  <2>1. h = <<a, b>> /\ b - a <= t
    BY <1>1, <1>2, <1>4
  <2> QED  BY <1>1, <2>1 DEF Narrowed, h
<1>5. CASE a < b
  <2>1. mid \in Int /\ a <= mid /\ mid < b
    BY <1>1, <1>5
  <2> HIDE DEF mid
  <2>2. mid \in start..end - 1
    BY <1>1, <2>1
  <2>3. CASE KeyAt(keys, mid) < k
    <3>1. h = <<mid + 1, b>>
      BY <1>1, <1>2, <1>5, <2>3
    <3>2. ASSUME NEW p \in start..mid
          PROVE  KeyAt(keys, p) < k
      <4>1. p \in start..end - 1 /\ p <= mid /\ p \in Int
        BY <1>1, <2>1
      <4>2. KeyAt(keys, p) <= KeyAt(keys, mid)
        BY <2>2, <4>1
      <4>3. KeyAt(keys, p) \in Int /\ KeyAt(keys, mid) \in Int
        BY <1>3, <2>1, <4>1
      <4> QED  BY <2>3, <4>2, <4>3
    <3>3. /\ (mid + 1) - 1 = mid /\ start <= mid + 1 /\ mid + 1 <= b /\ b - (mid + 1) <= t
          /\ mid + 1 \in Int
      BY <1>1, <2>1
    <3> QED  BY <1>1, <3>1, <3>2, <3>3 DEF Narrowed, h
  <2>4. CASE ~ (KeyAt(keys, mid) < k)
    <3>1. h = <<a, mid>>
      BY <1>1, <1>2, <1>5, <2>4
    <3>2. ASSUME NEW p \in mid..end - 1
          PROVE  k <= KeyAt(keys, p)
      <4>1. p \in start..end - 1 /\ mid <= p /\ p \in Int
        BY <1>1, <2>1
      <4>2. KeyAt(keys, mid) <= KeyAt(keys, p)
        BY <2>2, <4>1
      <4>3. KeyAt(keys, p) \in Int /\ KeyAt(keys, mid) \in Int
        BY <1>3, <2>1, <4>1
      <4> QED  BY <2>4, <4>2, <4>3
    <3>3. start <= a /\ a <= mid /\ mid <= end /\ mid - a <= t
      BY <1>1, <2>1
    <3> QED  BY <1>1, <2>1, <3>1, <3>2, <3>3 DEF Narrowed, h
  <2> QED  BY <2>3, <2>4
<1> QED  BY <1>1, <1>4, <1>5

(* The ranges of the turns exist, and the last one is a place.             *)
Ranges(f, keys, k, start, end, n) ==
  f = [t \in 0..n |-> IF t = 0 THEN <<start, end>> ELSE Halve(keys, k, f[t - 1])]

LEMMA RangesExist ==
  ASSUME NEW keys, Records(keys), NEW k \in Int, NEW start \in Int, NEW end \in Int,
         NEW n \in Nat
  PROVE  \E f : Ranges(f, keys, k, start, end, n)
<1> DEFINE V == Int \X Int
           g == [x \in Nat \X V |-> Halve(keys, k, x[2])]
<1>1. ASSUME NEW r \in V
      PROVE  Halve(keys, k, r) \in V
  <2> DEFINE mid == (r[1] + r[2]) \div 2
  <2>1. mid \in Int /\ mid + 1 \in Int /\ r[1] \in Int /\ r[2] \in Int
    OBVIOUS
  <2> HIDE DEF mid
  <2>2. <<mid + 1, r[2]>> \in V /\ <<r[1], mid>> \in V
    BY <2>1
  <2> QED  BY <2>2 DEF Halve, mid
<1>2. g \in [Nat \X V -> V]
  BY <1>1
<1>3. \A t \in Nat, r \in V : g[<<t, r>>] = Halve(keys, k, r)
  OBVIOUS
<1>4. <<start, end>> \in V
  OBVIOUS
<1> HIDE DEF g, V
<1>5. PICK h : Chain(h, n, V, <<start, end>>, g)
  BY <1>2, <1>4, ChainsExist
<1>6. h \in [0..n -> V] /\ h[0] = <<start, end>>
  BY <1>5 DEF Chain
<1>7. ASSUME NEW t \in 0..n, t # 0
      PROVE  h[t] = Halve(keys, k, h[t - 1])
  <2>1. t - 1 \in 0..n - 1 /\ t - 1 \in 0..n /\ (t - 1) + 1 = t /\ t \in Nat
    BY <1>7
  <2>2. h[(t - 1) + 1] = g[<<(t - 1) + 1, h[t - 1]>>] /\ h[t - 1] \in V
    BY <1>5, <1>6, <2>1 DEF Chain
  <2>3. h[t] = g[<<t, h[t - 1]>>]
    BY <2>1, <2>2
  <2> QED  BY <1>3, <2>1, <2>2, <2>3
<1>8. h = [t \in 0..n |-> h[t]]
  BY <1>6
<1>9. h = [t \in 0..n |-> IF t = 0 THEN <<start, end>> ELSE Halve(keys, k, h[t - 1])]
  BY <1>6, <1>7, <1>8
<1> QED  BY <1>9 DEF Ranges

(* The first place whose key is not less than k, or the end.               *)
FirstNotLess(keys, k, start, end, s) ==
  /\ s \in start..end
  /\ \A p \in start..s - 1 : KeyAt(keys, p) < k
  /\ s # end => k <= KeyAt(keys, s)

LEMMA BinarySearchIs ==
  ASSUME NEW keys, Records(keys), NEW k \in Int, NEW start \in Int, NEW end \in Int,
         start <= end => \A p, q \in start..end - 1 : p <= q => KeyAt(keys, p) <= KeyAt(keys, q)
  PROVE  /\ start <= end => FirstNotLess(keys, k, start, end, BinarySearch(keys, k, start, end))
         /\ start > end => BinarySearch(keys, k, start, end) = start
<1> DEFINE n == Max({0, end - start})
           f == CHOOSE g : Ranges(g, keys, k, start, end, n)
<1>1. n \in Nat /\ (start <= end => n = end - start) /\ (start > end => n = 0)
  <2>1. n = IF 0 >= end - start THEN 0 ELSE end - start
    BY MaxOfTwo
  <2> QED  BY <2>1
<1>2. BinarySearch(keys, k, start, end) = f[n][1]
  BY DEF BinarySearch, Ranges
<1> HIDE DEF n
<1>3. Ranges(f, keys, k, start, end, n)
  BY <1>1, RangesExist
<1> HIDE DEF f
<1>4. \A t \in 0..n : f[t] = IF t = 0 THEN <<start, end>> ELSE Halve(keys, k, f[t - 1])
  BY <1>3 DEF Ranges
<1>5. f[0] = <<start, end>>
  BY <1>1, <1>4
<1>6. ASSUME start > end
      PROVE  BinarySearch(keys, k, start, end) = start
  BY <1>1, <1>2, <1>5, <1>6
<1>7. ASSUME start <= end
      PROVE  FirstNotLess(keys, k, start, end, BinarySearch(keys, k, start, end))
  <2> DEFINE S == {t \in Nat : t <= n => Narrowed(keys, k, start, end, f[t], n - t)}
  <2>1. 0 \in S
    <3>1. n - 0 = end - start
      BY <1>1, <1>7
    <3> QED  BY <1>5, <1>7, <3>1 DEF Narrowed
  <2>2. ASSUME NEW t \in Nat, t \in S
        PROVE  t + 1 \in S
    <3> SUFFICES ASSUME t + 1 <= n
                 PROVE  Narrowed(keys, k, start, end, f[t + 1], n - (t + 1))
      OBVIOUS
    <3>1. t + 1 \in 0..n /\ (t + 1) - 1 = t /\ t + 1 # 0
      BY <1>1
    <3>2. f[t + 1] = Halve(keys, k, f[t])
      BY <1>4, <3>1
    <3>3. n - t = (n - (t + 1)) + 1 /\ n - (t + 1) \in Int /\ n - (t + 1) >= 0
      BY <1>1
    <3>4. Narrowed(keys, k, start, end, f[t], (n - (t + 1)) + 1)
      BY <1>1, <2>2, <3>3
    <3> QED  BY <1>7, <3>2, <3>3, <3>4, HalveNarrows
  <2> HIDE DEF S
  <2>3. Nat \subseteq S
    BY <2>1, <2>2, Induction
  <2>4. n \in S /\ n - n = 0
    BY <1>1, <2>3
  <2>5. Narrowed(keys, k, start, end, f[n], 0)
    BY <1>1, <2>4 DEF S
  <2> DEFINE s == f[n][1]
  <2>6. /\ s \in Int /\ start <= s /\ s <= end /\ f[n][2] = s
        /\ \A p \in start..s - 1 : KeyAt(keys, p) < k
        /\ \A p \in f[n][2]..end - 1 : k <= KeyAt(keys, p)
    BY <2>5 DEF Narrowed
  <2> HIDE DEF s
  <2>7. s # end => s \in s..end - 1
    BY <2>6
  <2> QED  BY <1>2, <2>6, <2>7 DEF FirstNotLess, s
<1> QED  BY <1>6, <1>7

----------------------------------------------------------------------------
(* Search in a leaf.                                                       *)
InArray(keys, leaf) == leaf \in LeafRecord /\ leaf.m_left + leaf.size <= Len(keys)

LEMMA LeafIsSorted ==
  ASSUME NEW keys, Records(keys), NEW leaf, InArray(keys, leaf)
  PROVE  \A p, q \in leaf.m_left..leaf.m_left + leaf.size - 1 :
           p <= q => KeyAt(keys, p) <= KeyAt(keys, q)
<1> DEFINE m == leaf.m_left
           n == leaf.size
<1>1. m \in Nat /\ n \in Nat /\ m + n <= Len(keys)
  BY LeafIs DEF InArray
<1> HIDE DEF m, n
<1> SUFFICES ASSUME NEW p \in m..m + n - 1, NEW q \in m..m + n - 1, p <= q
             PROVE  KeyAt(keys, p) <= KeyAt(keys, q)
  BY DEF m, n
<1>2. Len(keys) \in Nat /\ \A i, j \in 1..Len(keys) : i <= j => keys[i] <= keys[j]
  BY RecordsAre
<1>3. /\ p \in 0..Len(keys) - 1 /\ q \in 0..Len(keys) - 1 /\ p \in Int /\ q \in Int
      /\ p + 1 \in 1..Len(keys) /\ q + 1 \in 1..Len(keys) /\ p + 1 <= q + 1
  BY <1>1, <1>2
<1>4. KeyAt(keys, p) = keys[p + 1] /\ KeyAt(keys, q) = keys[q + 1]
  BY <1>3, KeyAtIs
<1> QED  BY <1>2, <1>3, <1>4

LEMMA SearchIs ==
  ASSUME NEW keys, Records(keys), NEW leaf, InArray(keys, leaf), leaf.size > 0, NEW k \in Int
  PROVE  FirstNotLess(keys, k, leaf.m_left, leaf.m_left + leaf.size - 1, Search(keys, leaf, k))
<1> DEFINE m == leaf.m_left
           n == leaf.size
           e == leaf.error
           g == Guess(leaf, k)
           x == Max({0, n - 1})
           y == Max({0, g - e})
           end == m + Min({x, g + e})
           start == Min({m + y, end})
           s == Search(keys, leaf, k)
<1>1. m \in Nat /\ n \in Nat /\ n > 0 /\ e \in Nat /\ g \in Nat /\ g < n
  BY LeafIs, GuessIs DEF InArray
<1>2. \A p, q \in m..m + n - 1 : p <= q => KeyAt(keys, p) <= KeyAt(keys, q)
  BY LeafIsSorted
<1>3. \A p \in Int : KeyAt(keys, p) \in Int
  BY KeyAtIs
<1>4. s = IF k <= KeyAt(keys, start) THEN BinarySearch(keys, k, m, start)
          ELSE IF k <= KeyAt(keys, end) THEN BinarySearch(keys, k, start, end)
          ELSE BinarySearch(keys, k, end, m + n - 1)
  BY DEF Search
<1> HIDE DEF m, n, e, g, s
<1>5. x = n - 1 /\ y \in Nat /\ y <= g
  <2>1. x = (IF 0 >= n - 1 THEN 0 ELSE n - 1) /\ y = IF 0 >= g - e THEN 0 ELSE g - e
    BY <1>1, MaxOfTwo
  <2> HIDE DEF x, y
  <2> QED  BY <1>1, <2>1
<1> HIDE DEF x, y
<1>6. end \in m..m + n - 1
  <2>1. Min({x, g + e}) = IF x <= g + e THEN x ELSE g + e
    BY <1>1, <1>5, MinOfTwo
  <2> DEFINE z == Min({x, g + e})
  <2>2. z \in 0..n - 1
    BY <1>1, <1>5, <2>1
  <2> HIDE DEF z
  <2>3. m + z \in m..m + n - 1
    BY <1>1, <2>2
  <2> QED  BY <2>3 DEF z
<1> HIDE DEF end
<1>7. start \in m..end
  <2>1. start = IF m + y <= end THEN m + y ELSE end
    BY <1>1, <1>5, <1>6, MinOfTwo
  <2> HIDE DEF start
  <2> QED  BY <1>1, <1>5, <1>6, <2>1
<1> HIDE DEF start
<1> DEFINE last == m + n - 1
<1>8. /\ m \in Int /\ start \in Int /\ end \in Int /\ last \in Int
      /\ m <= start /\ start <= end /\ end <= last
  BY <1>1, <1>6, <1>7
<1>9. \A a, b \in Int : m <= a /\ b <= last =>
        \A p, q \in a..b - 1 : p <= q => KeyAt(keys, p) <= KeyAt(keys, q)
  <2> SUFFICES ASSUME NEW a \in Int, NEW b \in Int, m <= a, b <= last,
                      NEW p \in a..b - 1, NEW q \in a..b - 1, p <= q
               PROVE  KeyAt(keys, p) <= KeyAt(keys, q)
    OBVIOUS
  <2>1. p \in m..last /\ q \in m..last
    BY <1>8
  <2> QED  BY <1>2, <2>1
<1>10. \A p, q \in m..last : p <= q => KeyAt(keys, p) <= KeyAt(keys, q)
  BY <1>2
<1> HIDE DEF last
<1>11. ASSUME NEW p \in Int, NEW q \in Int, m <= p, p <= q, q <= last,
              KeyAt(keys, q) < k
       PROVE  KeyAt(keys, p) < k
  <2>1. p \in m..last /\ q \in m..last
    BY <1>8, <1>11
  <2>2. KeyAt(keys, p) <= KeyAt(keys, q)
    BY <1>10, <1>11, <2>1
  <2>3. KeyAt(keys, p) \in Int /\ KeyAt(keys, q) \in Int
    BY <1>3
  <2> QED  BY <1>11, <2>2, <2>3
<1>12. CASE k <= KeyAt(keys, start)
  <2>1. FirstNotLess(keys, k, m, start, s)
    <3>1. m <= start /\ start <= last /\ m <= m
      BY <1>8
    <3>2. \A p, q \in m..start - 1 : p <= q => KeyAt(keys, p) <= KeyAt(keys, q)
      BY <1>8, <1>9, <3>1
    <3>3. s = BinarySearch(keys, k, m, start)
      BY <1>4, <1>12
    <3> QED  BY <1>8, <3>1, <3>2, <3>3, BinarySearchIs
  <2>2. s \in m..last
    BY <1>8, <2>1 DEF FirstNotLess
  <2>3. k <= KeyAt(keys, s)
    BY <1>12, <2>1 DEF FirstNotLess
  <2> QED  BY <2>1, <2>2, <2>3 DEF FirstNotLess, last, m, n, s
<1>13. CASE ~ (k <= KeyAt(keys, start)) /\ k <= KeyAt(keys, end)
  <2>1. FirstNotLess(keys, k, start, end, s)
    <3>1. \A p, q \in start..end - 1 : p <= q => KeyAt(keys, p) <= KeyAt(keys, q)
      BY <1>8, <1>9
    <3>2. s = BinarySearch(keys, k, start, end)
      BY <1>4, <1>13
    <3> QED  BY <1>8, <3>1, <3>2, BinarySearchIs
  <2>2. s \in m..last /\ s \in start..end
    BY <1>8, <2>1 DEF FirstNotLess
  <2>3. k <= KeyAt(keys, s)
    BY <1>13, <2>1 DEF FirstNotLess
  <2>4. ASSUME NEW p \in m..s - 1
        PROVE  KeyAt(keys, p) < k
    <3>1. CASE p < start
      <4>1. KeyAt(keys, start) < k
        BY <1>3, <1>8, <1>13
      <4> QED  BY <1>8, <1>11, <3>1, <4>1
    <3>2. CASE p >= start
      <4>1. p \in start..s - 1
        BY <2>2, <3>2
      <4> QED  BY <2>1, <4>1 DEF FirstNotLess
    <3> QED  BY <1>8, <3>1, <3>2
  <2> QED  BY <2>2, <2>3, <2>4 DEF FirstNotLess, last, m, n, s
<1>14. CASE ~ (k <= KeyAt(keys, start)) /\ ~ (k <= KeyAt(keys, end))
  <2>1. FirstNotLess(keys, k, end, last, s)
    <3>1. \A p, q \in end..last - 1 : p <= q => KeyAt(keys, p) <= KeyAt(keys, q)
      BY <1>8, <1>9
    <3>2. s = BinarySearch(keys, k, end, last)
      BY <1>4, <1>14 DEF last
    <3> QED  BY <1>8, <3>1, <3>2, BinarySearchIs
  <2>2. s \in m..last /\ s \in end..last
    BY <1>8, <2>1 DEF FirstNotLess
  <2>3. s # last => k <= KeyAt(keys, s)
    BY <2>1 DEF FirstNotLess
  <2>4. ASSUME NEW p \in m..s - 1
        PROVE  KeyAt(keys, p) < k
    <3>1. CASE p < end
      <4>1. KeyAt(keys, end) < k
        BY <1>3, <1>8, <1>14
      <4> QED  BY <1>8, <1>11, <3>1, <4>1
    <3>2. CASE p >= end
      <4>1. p \in end..s - 1
        BY <2>2, <3>2
      <4> QED  BY <2>1, <4>1 DEF FirstNotLess
    <3> QED  BY <1>8, <3>1, <3>2
  <2> QED  BY <2>2, <2>3, <2>4 DEF FirstNotLess, last, m, n, s
<1> QED  BY <1>12, <1>13, <1>14

(* Find in a leaf that has records.                                        *)
LEMMA FindInIs ==
  ASSUME NEW keys, Records(keys), NEW leaf, InArray(keys, leaf), leaf.size > 0, NEW k \in Int
  PROVE  FirstNotLess(keys, k, leaf.m_left, leaf.m_left + leaf.size - 1, FindIn(keys, leaf, k))
<1> DEFINE m == leaf.m_left
           n == leaf.size
           g == m + Guess(leaf, k)
           s == Search(keys, leaf, k)
           f == FindIn(keys, leaf, k)
           last == m + n - 1
<1>1. /\ m \in Nat /\ n \in Nat /\ n > 0 /\ g \in m..last
      /\ m + n <= Len(keys) /\ Len(keys) \in Nat
  <2>1. m \in Nat /\ n \in Nat /\ n > 0 /\ Guess(leaf, k) \in Nat /\ Guess(leaf, k) < n
    BY LeafIs, GuessIs DEF InArray
  <2>2. m + n <= Len(keys) /\ Len(keys) \in Nat
    BY RecordsAre DEF InArray
  <2> QED  BY <2>1, <2>2
<1>2. FirstNotLess(keys, k, m, last, s)
  BY SearchIs
<1>3. f = IF KeyAt(keys, g) = k THEN g ELSE IF s >= m + n THEN -1 ELSE s
  BY DEF FindIn
<1> HIDE DEF g, s, f, m, n
<1>4. CASE KeyAt(keys, g) = k
  <2>1. f = g
    BY <1>3, <1>4
  <2>2. ASSUME NEW p \in m..g - 1
        PROVE  KeyAt(keys, p) < k
    <3>1. /\ p \in Int /\ g \in Int /\ p \in 0..Len(keys) - 1 /\ g \in 0..Len(keys) - 1
          /\ p + 1 \in 1..Len(keys) /\ g + 1 \in 1..Len(keys) /\ p + 1 < g + 1
      BY <1>1
    <3>2. KeyAt(keys, p) = keys[p + 1] /\ KeyAt(keys, g) = keys[g + 1]
      BY <3>1, KeyAtIs
    <3>3. keys[p + 1] < keys[g + 1]
      BY <3>1, RecordsAre
    <3> QED  BY <1>4, <3>2, <3>3
  <2>3. k <= KeyAt(keys, g)
    BY <1>4
  <2> QED  BY <1>1, <2>1, <2>2, <2>3 DEF FirstNotLess, m, n, f
<1>5. CASE KeyAt(keys, g) # k
  <2>1. s \in m..last
    BY <1>2 DEF FirstNotLess
  <2>2. ~ (s >= m + n)
    BY <1>1, <2>1
  <2>3. f = s
    BY <1>3, <1>5, <2>2
  <2> QED  BY <1>2, <2>3 DEF m, n, f
<1> QED  BY <1>4, <1>5

(* Find in a leaf without records.                                         *)
LEMMA FindInNone ==
  ASSUME NEW keys, Records(keys), NEW leaf, InArray(keys, leaf), leaf.size = 0, NEW k \in Int
  PROVE  \/ FindIn(keys, leaf, k) = -1
         \/ FindIn(keys, leaf, k) = leaf.m_left /\ KeyAt(keys, leaf.m_left) = k
<1> DEFINE m == leaf.m_left
           e == leaf.error
           x == Max({0, leaf.size - 1})
           y == Max({0, Guess(leaf, k) - e})
           end == m + Min({x, Guess(leaf, k) + e})
           start == Min({m + y, end})
           s == Search(keys, leaf, k)
<1>1. m \in Nat /\ e \in Nat /\ leaf.size = 0 /\ Guess(leaf, k) = 0
  BY LeafIs, GuessIs DEF InArray
<1>2. s = IF k <= KeyAt(keys, start) THEN BinarySearch(keys, k, m, start)
          ELSE IF k <= KeyAt(keys, end) THEN BinarySearch(keys, k, start, end)
          ELSE BinarySearch(keys, k, end, m + leaf.size - 1)
  BY DEF Search
<1>3. FindIn(keys, leaf, k)
        = IF KeyAt(keys, m + Guess(leaf, k)) = k THEN m + Guess(leaf, k)
          ELSE IF s >= m + leaf.size THEN -1 ELSE s
  BY DEF FindIn
<1> HIDE DEF m, e, s
<1>4. x = 0 /\ y = 0
  <2>1. x = (IF 0 >= 0 - 1 THEN 0 ELSE 0 - 1) /\ y = IF 0 >= 0 - e THEN 0 ELSE 0 - e
    BY <1>1, MaxOfTwo
  <2> HIDE DEF x, y
  <2> QED  BY <1>1, <2>1
<1> HIDE DEF x, y
<1>5. end = m
  <2>1. Min({x, 0 + e}) = IF 0 <= 0 + e THEN 0 ELSE 0 + e
    BY <1>1, <1>4, MinOfTwo
  <2> QED  BY <1>1, <1>4, <2>1
<1> HIDE DEF end
<1>6. start = m
  BY <1>1, <1>4, <1>5, MinOfTwo
<1> HIDE DEF start
<1>7. s = BinarySearch(keys, k, m, m) \/ s = BinarySearch(keys, k, m, m - 1)
  BY <1>1, <1>2, <1>5, <1>6
<1>8. BinarySearch(keys, k, m, m) = m
  <2>1. m \in Int /\ \A p, q \in m..m - 1 : p <= q => KeyAt(keys, p) <= KeyAt(keys, q)
    BY <1>1
  <2>2. FirstNotLess(keys, k, m, m, BinarySearch(keys, k, m, m))
    BY <2>1, BinarySearchIs
  <2> QED  BY <1>1, <2>2 DEF FirstNotLess
<1>9. BinarySearch(keys, k, m, m - 1) = m
  <2>1. m \in Int /\ m - 1 \in Int /\ m > m - 1
        /\ \A p, q \in m..(m - 1) - 1 : p <= q => KeyAt(keys, p) <= KeyAt(keys, q)
    BY <1>1
  <2> QED  BY <2>1, BinarySearchIs
<1>10. s >= m + leaf.size
  BY <1>1, <1>7, <1>8, <1>9
<1>11. m + Guess(leaf, k) = m
  BY <1>1
<1> QED  BY <1>3, <1>10, <1>11 DEF m

----------------------------------------------------------------------------
(* The way down.                                                           *)
(*                                                                         *)
(* The nodes: leaves, and inner nodes whose children come behind them.     *)
InnerOK(v, i, n) ==
  /\ v \in [kind : {"inner"}, lr : Lines, childLeft : Nat]
  /\ i < v.childLeft /\ v.childLeft + Children - 1 <= n

Tree(nd) ==
  /\ Len(nd) \in Nat /\ DOMAIN nd = 1..Len(nd)
  /\ \A i \in 1..Len(nd) : nd[i] \in LeafRecord \/ InnerOK(nd[i], i, Len(nd))

LEMMA KindsAre ==
  /\ \A v \in LeafRecord : v.kind = "leaf" /\ v.kind # "inner"
  /\ \A v, i, n : InnerOK(v, i, n) => v.kind = "inner" /\ v.kind # "leaf"
BY DEF LeafRecord, InnerOK

LEMMA ChildrenBehind ==
  ASSUME NEW v, NEW i \in Nat, NEW n \in Nat, InnerOK(v, i, n), NEW k \in Key
  PROVE  /\ ChildOf(v, k) \in i + 1..n
         /\ ChildOf(v, k) = v.childLeft + Predict(v.lr, Children, k)
         /\ Predict(v.lr, Children, k) \in 0..Children - 1
<1>1. v.lr \in Lines /\ v.childLeft \in Nat /\ i < v.childLeft /\ v.childLeft + Children - 1 <= n
  BY DEF InnerOK
<1>2. k \in Int /\ Children \in Nat \ {0}
  BY KeysAreNumbers, TreeAssumption
<1>3. Predict(v.lr, Children, k) \in 0..Children - 1
  BY <1>1, <1>2, PredictInRange
<1> DEFINE x == Predict(v.lr, Children, k)
<1>4. x \in 0..Children - 1 /\ ChildOf(v, k) = v.childLeft + x
  BY <1>3 DEF ChildOf
<1> HIDE DEF x
<1> QED  BY <1>1, <1>2, <1>3, <1>4 DEF x

(* Where each node leads for the key k, and where the loop ends.           *)
Step(nd, k) ==
  [i \in 1..Len(nd) |-> IF nd[i].kind = "inner" THEN ChildOf(nd[i], k) ELSE i]

IsWay(g, nd, k) ==
  g = [i \in DOMAIN nd |-> IF nd[i].kind = "inner" THEN g[ChildOf(nd[i], k)] ELSE i]

Way(nd, k) == CHOOSE g : IsWay(g, nd, k)

LEMMA LeafForIs ==
  ASSUME NEW k
  PROVE  LeafFor(k) = Way(node, k)[root[k]]
BY DEF LeafFor, Way, IsWay

LEMMA StepsLeadOn ==
  ASSUME NEW nd, Tree(nd), NEW k \in Key
  PROVE  /\ LeadsOn(Step(nd, k), Len(nd))
         /\ \A i \in 1..Len(nd) :
              /\ nd[i].kind = "inner" => /\ InnerOK(nd[i], i, Len(nd))
                                         /\ Step(nd, k)[i] = ChildOf(nd[i], k)
                                         /\ Step(nd, k)[i] \in i + 1..Len(nd)
                                         /\ Step(nd, k)[i] # i
              /\ nd[i].kind # "inner" => Step(nd, k)[i] = i
<1>1. ASSUME NEW i \in 1..Len(nd)
      PROVE  /\ nd[i].kind = "inner" => /\ InnerOK(nd[i], i, Len(nd))
                                        /\ Step(nd, k)[i] = ChildOf(nd[i], k)
                                        /\ Step(nd, k)[i] \in i + 1..Len(nd)
             /\ nd[i].kind # "inner" => Step(nd, k)[i] = i
  <2>1. Step(nd, k)[i] = IF nd[i].kind = "inner" THEN ChildOf(nd[i], k) ELSE i
    BY DEF Step
  <2>2. nd[i].kind = "inner" => InnerOK(nd[i], i, Len(nd))
    BY KindsAre DEF Tree
  <2>3. i \in Nat /\ Len(nd) \in Nat
    BY DEF Tree
  <2>4. nd[i].kind = "inner" => ChildOf(nd[i], k) \in i + 1..Len(nd)
    BY <2>2, <2>3, ChildrenBehind
  <2> QED  BY <2>1, <2>2, <2>4
<1>2. \A i \in 1..Len(nd) : \A c \in i + 1..Len(nd) : c # i
  BY DEF Tree
<1> QED  BY <1>1, <1>2 DEF LeadsOn

LEMMA WaysEnd ==
  ASSUME NEW nd, Tree(nd), NEW k \in Key
  PROVE  Arrives(Way(nd, k), Step(nd, k), Len(nd))
<1> DEFINE n == Len(nd)
           J == Step(nd, k)
           w == Way(nd, k)
<1>1. n \in Nat /\ DOMAIN nd = 1..n
  BY DEF Tree
<1>2. /\ LeadsOn(J, n)
      /\ \A i \in 1..n : /\ nd[i].kind = "inner" => J[i] = ChildOf(nd[i], k) /\ J[i] # i
                                                    /\ J[i] \in i + 1..n
                         /\ nd[i].kind # "inner" => J[i] = i
  BY StepsLeadOn
<1>3. PICK g : Arrives(g, J, n)
  <2> HIDE DEF n, J
  <2> QED  BY <1>1, <1>2, EndsExist
<1>4. IsWay(w, nd, k)
  <2>1. IsWay(g, nd, k)
    <3> HIDE DEF J, n
    <3>1. g = [i \in 1..n |-> g[i]]
      BY <1>3 DEF Arrives
    <3>2. \A i \in 1..n : g[i] = IF nd[i].kind = "inner" THEN g[ChildOf(nd[i], k)] ELSE i
      BY <1>2, <1>3 DEF Arrives
    <3> QED  BY <1>1, <3>1, <3>2 DEF IsWay
  <2> QED  BY <2>1 DEF Way
<1> HIDE DEF w, J, n
<1>5. /\ w = [i \in 1..n |-> w[i]]
      /\ \A i \in 1..n : w[i] = IF J[i] = i THEN i ELSE w[J[i]]
  <2>1. w = [i \in 1..n |-> IF nd[i].kind = "inner" THEN w[ChildOf(nd[i], k)] ELSE i]
    BY <1>1, <1>4 DEF IsWay
  <2>2. \A i \in 1..n : w[i] = IF nd[i].kind = "inner" THEN w[ChildOf(nd[i], k)] ELSE i
    BY <2>1
  <2>3. w = [i \in 1..n |-> w[i]]
    BY <2>1
  <2> QED  BY <1>2, <2>2, <2>3
<1>6. w = g
  BY <1>1, <1>2, <1>3, <1>5, ArrivesAlike
<1> QED  BY <1>3, <1>6 DEF w, J, n

(* The ways of a tree that another was made from, without touching a way   *)
(* except behind the node a, at which it ended.                            *)
SameWays(nd, md, a) ==
  /\ Tree(nd) /\ Tree(md) /\ Len(nd) <= Len(md)
  /\ \A i \in 1..Len(nd) : i # a =>
       /\ nd[i].kind = "inner" => md[i] = nd[i]
       /\ nd[i].kind # "inner" => md[i].kind # "inner"
  /\ a \in 1..Len(nd) => nd[a].kind # "inner"

LEMMA WaysGoOn ==
  ASSUME NEW nd, NEW md, NEW a, SameWays(nd, md, a), NEW k \in Key, NEW i \in 1..Len(nd)
  PROVE  /\ Way(md, k)[i] = IF Way(nd, k)[i] = a THEN Way(md, k)[a] ELSE Way(nd, k)[i]
         /\ Way(nd, k)[i] \in 1..Len(nd)
         /\ nd[Way(nd, k)[i]].kind # "inner"
<1> DEFINE g == Way(nd, k)
           h == Way(md, k)
           J == Step(nd, k)
           K == Step(md, k)
           n == Len(nd)
           m == Len(md)
<1>1. Tree(nd) /\ Tree(md) /\ n \in Nat /\ m \in Nat /\ n <= m
  BY DEF SameWays, Tree
<1>2. /\ Arrives(g, J, n) /\ LeadsOn(J, n) /\ Arrives(h, K, m)
      /\ \A j \in 1..n : nd[j].kind = "inner" => J[j] # j
  BY <1>1, WaysEnd, StepsLeadOn
<1>3. ASSUME NEW j \in 1..n, j # a
      PROVE  K[j] = J[j]
  <2>1. j \in 1..m
    BY <1>1
  <2>2. /\ J[j] = IF nd[j].kind = "inner" THEN ChildOf(nd[j], k) ELSE j
        /\ K[j] = IF md[j].kind = "inner" THEN ChildOf(md[j], k) ELSE j
    BY <2>1 DEF Step
  <2> QED  BY <1>3, <2>2 DEF SameWays
<1>4. a \in 1..n => J[a] = a
  BY DEF SameWays, Step
<1> HIDE DEF g, h, J, K, n, m
<1>5. GoesOn(J, n, K, m, a)
  BY <1>1, <1>3, <1>4 DEF GoesOn
<1>6. i \in 1..n
  BY DEF n
<1>7. h[i] = (IF g[i] = a THEN h[a] ELSE g[i]) /\ J[g[i]] = g[i]
  <2>1. EndsBehind(g, h, J, n, a)
    BY <1>1, <1>2, <1>5, EndsGoOn
  <2> QED  BY <1>6, <2>1 DEF EndsBehind
<1>8. g[i] \in 1..n
  BY <1>2, <1>6 DEF Arrives
<1>9. nd[g[i]].kind # "inner"
  BY <1>2, <1>7, <1>8
<1> QED  BY <1>7, <1>8, <1>9 DEF g, h, n

(* A node that is no inner node is where the way from it ends.             *)
LEMMA WayEndsAt ==
  ASSUME NEW nd, Tree(nd), NEW k \in Key, NEW i \in 1..Len(nd)
  PROVE  Way(nd, k)[i] = IF nd[i].kind = "inner" THEN Way(nd, k)[ChildOf(nd[i], k)] ELSE i
<1>1. Arrives(Way(nd, k), Step(nd, k), Len(nd))
  BY WaysEnd
<1>2. /\ nd[i].kind = "inner" => Step(nd, k)[i] = ChildOf(nd[i], k) /\ Step(nd, k)[i] # i
      /\ nd[i].kind # "inner" => Step(nd, k)[i] = i
  BY StepsLeadOn
<1> QED  BY <1>1, <1>2 DEF Arrives
----------------------------------------------------------------------------
(* The inductive invariant.                                                *)
(*                                                                         *)
(* The leaf of each key; the keys of a leaf have no other key between them.*)
Home(nd, rt) == [k \in Key |-> Way(nd, k)[rt[k]]]

Convex(home) ==
  \A j, k, l \in Key : j <= k /\ k <= l /\ home[j] = home[l] => home[k] = home[j]

(* The range of each leaf is that of the records whose keys lead to it.    *)
SharedOut(nd, home, keys) ==
  \A i \in 1..Len(nd) : nd[i].kind # "inner" =>
    /\ nd[i].m_left + nd[i].size <= Len(keys)
    /\ \A p \in 1..Len(keys) :
         home[keys[p]] = i <=> nd[i].m_left < p /\ p <= nd[i].m_left + nd[i].size

Rooted(nd, rt) == Tree(nd) /\ RootLeaves <= Len(nd) /\ rt \in [Key -> 1..RootLeaves]

MapInv ==
  /\ Rooted(node, root)
  /\ Records(data) /\ Len(data) > 0 /\ currsize = Len(data)
  /\ Convex(Home(node, root))
  /\ SharedOut(node, Home(node, root), data)

(* The records of a leaf, split by the line that is trained on them: those *)
(* of child c.                                                             *)
SplitLine(keys, leaf) == Train(Extract(keys, leaf), Children)

PartOf(keys, leaf, c) ==
  {p \in 1..leaf.size : Predict(SplitLine(keys, leaf), Children, Extract(keys, leaf)[p]) = c}

(* k finds records in the leaf, also when it has been split.               *)
FindsRecords(keys, leaf, k) ==
  /\ leaf.size # 0
  /\ Full(leaf) => PartOf(keys, leaf, Predict(SplitLine(keys, leaf), Children, k)) # {}

(* Insert is on its way with k, and has come to the node a.                *)
OnItsWay(nd, rt, keys, a, k) ==
  /\ a \in 1..Len(nd) /\ Way(nd, k)[a] = Home(nd, rt)[k]
  /\ k > keys[Len(keys)]
  /\ FindsRecords(keys, nd[Home(nd, rt)[k]], k)

InsertInv ==
  /\ inserting \in Key \cup {0}
  /\ inserting = 0 => at = 0
  /\ inserting # 0 => OnItsWay(node, root, data, at, inserting)

Classes == Forward \cup Backward \cup {"none"}

ItInv ==
  /\ it = [class |-> it.class, slot |-> it.slot]
  /\ it.class \in Classes /\ it.slot \in 0..currsize
  /\ it.class = "none" => it.slot = 0

ExternalInv == MapInv /\ InsertInv /\ ItInv

(* Where the loop ends is a leaf.                                          *)
LEMMA HomeIs ==
  ASSUME NEW nd, NEW rt, Rooted(nd, rt), NEW k \in Key
  PROVE  /\ Home(nd, rt)[k] = Way(nd, k)[rt[k]] /\ rt[k] \in 1..Len(nd)
         /\ Home(nd, rt)[k] \in 1..Len(nd)
         /\ nd[Home(nd, rt)[k]].kind # "inner"
         /\ nd[Home(nd, rt)[k]] \in LeafRecord
<1>1. Tree(nd) /\ Len(nd) \in Nat /\ RootLeaves \in Nat /\ RootLeaves <= Len(nd)
      /\ rt[k] \in 1..RootLeaves
  BY TreeAssumption DEF Rooted, Tree
<1>2. rt[k] \in 1..Len(nd) /\ Home(nd, rt)[k] = Way(nd, k)[rt[k]]
  BY <1>1 DEF Home
<1>3. SameWays(nd, nd, 0)
  BY <1>1 DEF SameWays
<1>4. Way(nd, k)[rt[k]] \in 1..Len(nd) /\ nd[Way(nd, k)[rt[k]]].kind # "inner"
  BY <1>2, <1>3, WaysGoOn
<1> DEFINE h == Home(nd, rt)[k]
<1>5. h \in 1..Len(nd) /\ nd[h].kind # "inner" /\ h = Way(nd, k)[rt[k]]
  BY <1>2, <1>4
<1> HIDE DEF h
<1>6. nd[h] \in LeafRecord
  BY <1>1, <1>5, KindsAre DEF Tree
<1> QED  BY <1>2, <1>5, <1>6 DEF h

LEMMA LeafForHome ==
  ASSUME NEW k \in Key
  PROVE  /\ LeafFor(k) = Home(node, root)[k]
         /\ LeafFor(k)' = Home(node', root')[k]
<1>1. LeafFor(k)' = Way(node', k)[root'[k]]
  BY DEF LeafFor, Way, IsWay
<1> QED  BY <1>1, LeafForIs DEF Home

LEMMA MeetsIs ==
  ASSUME NEW k \in Key
  PROVE  ~ MeetsEmptyLeaf(k) <=> FindsRecords(data, node[Home(node, root)[k]], k)
<1>1. LeafFor(k) = Home(node, root)[k]
  BY LeafForHome
<1> QED  BY <1>1 DEF MeetsEmptyLeaf, FindsRecords, Part, PartOf, Inner, SplitLine

(* The leaf of a key is in the array.                                      *)
LEMMA LeafInArray ==
  ASSUME NEW nd, NEW rt, Rooted(nd, rt), NEW keys, SharedOut(nd, Home(nd, rt), keys),
         NEW k \in Key
  PROVE  /\ InArray(keys, nd[Home(nd, rt)[k]])
         /\ \A p \in 1..Len(keys) :
              Home(nd, rt)[keys[p]] = Home(nd, rt)[k]
                <=> /\ nd[Home(nd, rt)[k]].m_left < p
                    /\ p <= nd[Home(nd, rt)[k]].m_left + nd[Home(nd, rt)[k]].size
BY HomeIs DEF SharedOut, InArray

----------------------------------------------------------------------------
(* Construction.                                                           *)
LEMMA BoundedIsSeq ==
  ASSUME NEW n \in Nat, NEW keys \in BoundedSeq(Key, n)
  PROVE  keys \in Seq(Key)
<1>1. PICK m \in 0..n : keys \in [1..m -> Key]
  BY DEF BoundedSeq, SeqOf
<1> QED  BY <1>1

(* Without inner nodes, root gives the leaf.                               *)
LEMMA HomeOfLeaves ==
  ASSUME NEW nd, NEW rt, Rooted(nd, rt), \A i \in 1..Len(nd) : nd[i] \in LeafRecord
  PROVE  /\ \A k \in Key : Home(nd, rt)[k] = rt[k]
         /\ \A i \in 1..Len(nd) : nd[i].kind = "leaf"
<1>1. \A i \in 1..Len(nd) : nd[i].kind = "leaf" /\ nd[i].kind # "inner"
  BY KindsAre
<1>2. ASSUME NEW k \in Key
      PROVE  Home(nd, rt)[k] = rt[k]
  <2>1. Home(nd, rt)[k] = Way(nd, k)[rt[k]] /\ rt[k] \in 1..Len(nd)
    BY HomeIs
  <2>2. Way(nd, k)[rt[k]] = rt[k]
    BY <1>1, <2>1, WayEndsAt DEF Rooted
  <2> QED  BY <2>1, <2>2
<1> QED  BY <1>1, <1>2

LEMMA ConstructIs ==
  ASSUME NEW keys, Records(keys), Construct(keys), root \in [Key -> 1..RootLeaves],
         \A j, k \in Key : j < k => root[j] <= root[k]
  PROVE  /\ data = keys /\ Rooted(node, root)
         /\ Convex(Home(node, root)) /\ SharedOut(node, Home(node, root), keys)
<1> DEFINE f == [p \in 1..Len(keys) |-> root[keys[p]]]
           n == Len(keys)
           left(i) == HowManyLess(f, n, i)
           size(i) == HowMany(f, n, i)
<1>1. /\ n \in Nat /\ DOMAIN keys = 1..n /\ keys \in Seq(Int)
      /\ \A p \in 1..n : keys[p] \in Key /\ keys[p] \in Int
      /\ \A p, q \in 1..n : p < q => keys[p] < keys[q]
  BY RecordsAre
<1>2. \A i : /\ {p \in DOMAIN keys : root[keys[p]] < i} = {p \in 1..n : f[p] < i}
             /\ {p \in DOMAIN keys : root[keys[p]] = i} = {p \in 1..n : f[p] = i}
  BY <1>1
<1>3. /\ data = keys /\ \A i \in 1..RootLeaves : size(i) <= MaxLeafSize
      /\ node = [i \in 1..RootLeaves |-> TrainLeaf(left(i), keys, left(i), size(i))]
  BY <1>2 DEF Construct, HowMany, HowManyLess
<1>4. RootLeaves \in Nat /\ RootLeaves > 0 /\ Key \subseteq Int
  BY TreeAssumption, KeysAreNumbers
<1>5. /\ \A p \in 1..n : f[p] \in Int /\ f[p] = root[keys[p]]
      /\ \A p, q \in 1..n : p <= q => f[p] <= f[q]
  <2>1. \A p \in 1..n : f[p] \in Int /\ f[p] = root[keys[p]]
    BY <1>1, <1>4
  <2>2. ASSUME NEW p \in 1..n, NEW q \in 1..n, p <= q
        PROVE  f[p] <= f[q]
    <3>1. p = q \/ p < q
      BY <1>1, <2>2
    <3>2. CASE p < q
      <4>1. keys[p] < keys[q] /\ keys[p] \in Key /\ keys[q] \in Key
        BY <1>1, <3>2
      <4> QED  BY <2>1, <4>1
    <3>3. CASE p = q
      BY <2>1, <3>3
    <3> QED  BY <3>1, <3>2, <3>3
  <2> QED  BY <2>1, <2>2
<1> HIDE DEF f, n
<1>6. ASSUME NEW i \in 1..RootLeaves
      PROVE  /\ left(i) \in Nat /\ size(i) \in Nat /\ left(i) + size(i) <= n
             /\ \A p \in 1..n : f[p] = i <=> left(i) < p /\ p <= left(i) + size(i)
  <2>1. i \in Int
    BY <1>4
  <2> QED  BY <1>1, <1>5, <2>1, LessThenEqual
<1> HIDE DEF left, size
<1>7. ASSUME NEW i \in 1..RootLeaves
      PROVE  node[i] \in LeafRecord /\ node[i].m_left = left(i) /\ node[i].size = size(i)
  <2>1. node[i] = TrainLeaf(left(i), keys, left(i), size(i))
    BY <1>3
  <2>2. size(i) <= MaxLeafSize /\ left(i) + size(i) <= Len(keys)
    BY <1>3, <1>6 DEF n
  <2> QED  BY <1>1, <1>6, <2>1, <2>2, TrainLeafIs
<1>8. Len(node) = RootLeaves /\ DOMAIN node = 1..RootLeaves
  <2>1. node = [i \in 1..RootLeaves |-> node[i]]
    BY <1>3
  <2> QED  BY <1>4, <2>1, LengthIs
<1>9. Rooted(node, root)
  BY <1>4, <1>7, <1>8 DEF Rooted, Tree
<1>10. \A k \in Key : Home(node, root)[k] = root[k]
  BY <1>7, <1>8, <1>9, HomeOfLeaves
<1>11. Convex(Home(node, root))
  <2> SUFFICES ASSUME NEW j \in Key, NEW k \in Key, NEW l \in Key, j <= k, k <= l,
                      root[j] = root[l]
               PROVE  root[k] = root[j]
    BY <1>10 DEF Convex
  <2>1. root[j] \in Int /\ root[k] \in Int /\ root[l] \in Int
        /\ j \in Int /\ k \in Int /\ l \in Int
    BY <1>4
  <2>2. j = k \/ j < k
    BY <2>1
  <2>3. k = l \/ k < l
    BY <2>1
  <2>4. root[j] <= root[k]
    BY <2>1, <2>2
  <2>5. root[k] <= root[l]
    BY <2>1, <2>3
  <2> QED  BY <2>1, <2>4, <2>5
<1>12. SharedOut(node, Home(node, root), keys)
  <2> SUFFICES ASSUME NEW i \in 1..RootLeaves
               PROVE  /\ node[i].m_left + node[i].size <= n
                      /\ \A p \in 1..n :
                           Home(node, root)[keys[p]] = i
                             <=> node[i].m_left < p /\ p <= node[i].m_left + node[i].size
    BY <1>8 DEF SharedOut, n
  <2>1. \A p \in 1..n : Home(node, root)[keys[p]] = f[p]
    BY <1>1, <1>5, <1>10
  <2> QED  BY <1>6, <1>7, <2>1
<1> QED  BY <1>3, <1>9, <1>11, <1>12

LEMMA InitMakesInv ==
  ASSUME Init
  PROVE  ExternalInv
<1>1. PICK keys \in BoundedSeq(Key, Cardinality(Key)) :
        keys # <<>> /\ Ascending(keys) /\ Construct(keys)
  BY DEF Init
<1>2. keys \in Seq(Key)
  BY <1>1, KeyAssumption, FS_CardinalityType, BoundedIsSeq
<1>3. Records(keys) /\ Len(keys) \in Nat /\ Len(keys) > 0
  BY <1>1, <1>2 DEF Records
<1>4. root \in [Key -> 1..RootLeaves] /\ \A j, k \in Key : j < k => root[j] <= root[k]
  BY DEF Init
<1>5. MapInv
  <2>1. /\ data = keys /\ Rooted(node, root)
        /\ Convex(Home(node, root)) /\ SharedOut(node, Home(node, root), keys)
    BY <1>1, <1>3, <1>4, ConstructIs
  <2>2. currsize = Len(data)
    BY DEF Init
  <2> QED  BY <1>3, <2>1, <2>2 DEF MapInv
<1>6. InsertInv
  BY DEF Init, InsertInv
<1>7. ItInv
  <2>1. currsize \in Nat /\ it = [class |-> "none", slot |-> 0]
    BY <1>3, <1>5 DEF Init, MapInv
  <2> QED  BY <2>1 DEF ItInv, Classes
<1> QED  BY <1>5, <1>6, <1>7 DEF ExternalInv

----------------------------------------------------------------------------
(* An insertion.                                                           *)
LEMMA BeginKeepsInv ==
  ASSUME ExternalInv, NEW k \in Key, BeginInsert(k), ~ MeetsEmptyLeaf(k)
  PROVE  ExternalInv'
<1>1. /\ inserting' = k /\ at' = root[k] /\ UNCHANGED <<root, node, data, currsize, it>>
      /\ k > Last(data)
  BY DEF BeginInsert, tree
<1>2. MapInv' /\ ItInv'
  BY <1>1 DEF ExternalInv, MapInv, ItInv
<1>3. Rooted(node, root)
  BY DEF ExternalInv, MapInv
<1>4. /\ Home(node, root)[k] = Way(node, k)[root[k]] /\ root[k] \in 1..Len(node)
      /\ FindsRecords(data, node[Home(node, root)[k]], k)
  <2>1. FindsRecords(data, node[Home(node, root)[k]], k)
    BY MeetsIs
  <2>2. Home(node, root)[k] = Way(node, k)[root[k]] /\ root[k] \in 1..Len(node)
    BY <1>3, HomeIs
  <2> QED  BY <2>1, <2>2
<1>5. OnItsWay(node, root, data, root[k], k)
  BY <1>1, <1>4 DEF OnItsWay, Last
<1>6. InsertInv'
  BY <1>1, <1>5, KeysAreNumbers DEF InsertInv
<1> QED  BY <1>2, <1>6 DEF ExternalInv

LEMMA DescendKeepsInv ==
  ASSUME ExternalInv, Descend
  PROVE  ExternalInv'
<1>1. /\ inserting # 0 /\ node[at].kind # "leaf" /\ at' = ChildOf(node[at], inserting)
      /\ UNCHANGED <<root, node, data, currsize, inserting, it>>
  BY DEF Descend, tree, IsLeaf
<1>2. MapInv' /\ ItInv'
  BY <1>1 DEF ExternalInv, MapInv, ItInv
<1>3. /\ Tree(node) /\ Len(node) \in Nat /\ inserting \in Key
      /\ OnItsWay(node, root, data, at, inserting) /\ at \in 1..Len(node)
  BY <1>1 DEF ExternalInv, MapInv, InsertInv, Rooted, Tree, OnItsWay
<1>4. node[at].kind = "inner" /\ InnerOK(node[at], at, Len(node))
  BY <1>1, <1>3, KindsAre DEF Tree
<1>5. ChildOf(node[at], inserting) \in 1..Len(node)
  <2>1. at \in Nat
    BY <1>3
  <2>2. ChildOf(node[at], inserting) \in at + 1..Len(node)
    BY <1>3, <1>4, <2>1, ChildrenBehind
  <2> QED  BY <1>3, <2>1, <2>2
<1>6. Way(node, inserting)[at] = Way(node, inserting)[ChildOf(node[at], inserting)]
  BY <1>3, <1>4, WayEndsAt
<1>7. OnItsWay(node, root, data, at', inserting)
  BY <1>1, <1>3, <1>5, <1>6 DEF OnItsWay
<1>8. InsertInv'
  BY <1>1, <1>3, <1>7 DEF InsertInv
<1> QED  BY <1>2, <1>8 DEF ExternalInv

(* The leaf to which a key behind all records leads has the last of them.  *)
LEMMA LastLeafEnds ==
  ASSUME NEW keys, Records(keys), Len(keys) > 0, NEW nd, NEW rt, Rooted(nd, rt),
         Convex(Home(nd, rt)), SharedOut(nd, Home(nd, rt), keys),
         NEW k \in Key, k > keys[Len(keys)], nd[Home(nd, rt)[k]].size # 0
  PROVE  nd[Home(nd, rt)[k]].m_left + nd[Home(nd, rt)[k]].size = Len(keys)
<1> DEFINE home == Home(nd, rt)
           m == nd[home[k]].m_left
           s == nd[home[k]].size
           n == Len(keys)
<1>1. /\ m \in Nat /\ s \in Nat /\ s > 0 /\ m + s <= n
      /\ \A p \in 1..n : home[keys[p]] = home[k] <=> m < p /\ p <= m + s
  BY LeafInArray, LeafIs DEF InArray
<1>2. /\ n \in Nat /\ n > 0 /\ \A p \in 1..n : keys[p] \in Key /\ keys[p] \in Int
      /\ \A p, q \in 1..n : p <= q => keys[p] <= keys[q]
      /\ k \in Int /\ k > keys[n]
  BY RecordsAre, KeysAreNumbers
<1>3. \A j, l, x \in Key : j <= l /\ l <= x /\ home[j] = home[x] => home[l] = home[j]
  BY DEF Convex
<1> HIDE DEF m, s, n, home
<1>4. m + s \in 1..n /\ m < m + s
  BY <1>1, <1>2
<1>5. home[keys[m + s]] = home[k]
  BY <1>1, <1>4
<1>6. keys[m + s] <= keys[n] /\ keys[n] <= k /\ n \in 1..n
  BY <1>2, <1>4
<1>7. home[keys[n]] = home[keys[m + s]]
  BY <1>2, <1>3, <1>4, <1>5, <1>6
<1>8. n <= m + s
  BY <1>1, <1>5, <1>6, <1>7
<1>9. m + s = n
  BY <1>1, <1>2, <1>8
<1> QED  BY <1>9 DEF m, s, n, home

(* One record more behind the others, greater than they are.               *)
LEMMA RecordAppended ==
  ASSUME NEW keys, Records(keys), Len(keys) > 0, NEW k \in Key, k > keys[Len(keys)]
  PROVE  /\ Records(Append(keys, k)) /\ Len(Append(keys, k)) = Len(keys) + 1
         /\ \A p \in 1..Len(keys) : Append(keys, k)[p] = keys[p]
         /\ Append(keys, k)[Len(keys) + 1] = k
<1> DEFINE n == Len(keys)
           u == Append(keys, k)
<1>1. /\ n \in Nat /\ n > 0 /\ \A p \in 1..n : keys[p] \in Int
      /\ \A p, q \in 1..n : p < q => keys[p] < keys[q]
      /\ \A p, q \in 1..n : p <= q => keys[p] <= keys[q]
      /\ k \in Int /\ k > keys[n]
  BY RecordsAre, KeysAreNumbers
<1>2. /\ u \in Seq(Key) /\ Len(u) = n + 1 /\ DOMAIN u = 1..n + 1
      /\ \A p \in 1..n : u[p] = keys[p]
      /\ u[n + 1] = k
  BY DEF Records
<1> HIDE DEF u, n
<1>3. ASSUME NEW p \in 1..n + 1, NEW q \in 1..n + 1, p < q
      PROVE  u[p] < u[q]
  <2>1. p \in 1..n /\ (q \in 1..n \/ q = n + 1)
    BY <1>1, <1>3
  <2>2. CASE q \in 1..n
    BY <1>1, <1>2, <1>3, <2>1, <2>2
  <2>3. CASE q = n + 1
    <3>1. keys[p] <= keys[n] /\ u[p] = keys[p] /\ u[q] = k
      BY <1>1, <1>2, <2>1, <2>3
    <3>2. keys[p] \in Int /\ keys[n] \in Int
      BY <1>1, <2>1
    <3> QED  BY <1>1, <3>1, <3>2
  <2> QED  BY <2>1, <2>2, <2>3
<1>4. Records(u)
  BY <1>2, <1>3 DEF Records, Ascending
<1> QED  BY <1>2, <1>4 DEF u, n

(* The leaf of k takes a record more.                                      *)
OneMore(leaf) == [leaf EXCEPT !.size = @ + 1]

OneMoreAt(nd, i) == [nd EXCEPT ![i] = OneMore(nd[i])]

LEMMA OneMoreIs ==
  ASSUME NEW nd, NEW rt, Rooted(nd, rt), NEW i \in 1..Len(nd), nd[i] \in LeafRecord,
         ~ Full(nd[i])
  PROVE  /\ Rooted(OneMoreAt(nd, i), rt) /\ Home(OneMoreAt(nd, i), rt) = Home(nd, rt)
         /\ Len(OneMoreAt(nd, i)) = Len(nd)
         /\ \A j \in 1..Len(nd) : j # i => OneMoreAt(nd, i)[j] = nd[j]
         /\ OneMoreAt(nd, i)[i].m_left = nd[i].m_left
         /\ OneMoreAt(nd, i)[i].size = nd[i].size + 1
         /\ OneMoreAt(nd, i)[i].kind = nd[i].kind
<1> DEFINE md == OneMoreAt(nd, i)
           n == Len(nd)
<1>1. /\ Tree(nd) /\ n \in Nat /\ DOMAIN nd = 1..n
      /\ RootLeaves <= n /\ rt \in [Key -> 1..RootLeaves]
      /\ \A j \in 1..n : nd[j] \in LeafRecord \/ InnerOK(nd[j], j, n)
  BY DEF Rooted, Tree
<1>2. /\ nd[i].size + 1 \in 0..MaxLeafSize
      /\ nd[i].kind = "leaf"
  BY LeafIs DEF Full
<1>3. md = [j \in 1..n |-> IF j = i THEN OneMore(nd[i]) ELSE nd[j]]
  BY <1>1 DEF OneMoreAt
<1>4. /\ md[i] \in LeafRecord /\ md[i].m_left = nd[i].m_left
      /\ md[i].size = nd[i].size + 1 /\ md[i].kind = nd[i].kind
  <2> DEFINE leaf == nd[i]
  <2>1. md[i] = [leaf EXCEPT !.size = @ + 1]
    BY <1>3 DEF OneMore
  <2>2. leaf \in LeafRecord /\ leaf.size + 1 \in 0..MaxLeafSize
    BY <1>2
  <2> HIDE DEF leaf, md
  <2>3. md[i] \in LeafRecord /\ md[i].m_left = leaf.m_left
        /\ md[i].size = leaf.size + 1 /\ md[i].kind = leaf.kind
    BY <2>1, <2>2 DEF LeafRecord
  <2> QED  BY <2>3 DEF leaf
<1>5. /\ \A j \in 1..n : j # i => md[j] = nd[j]
      /\ md = [j \in 1..n |-> md[j]]
  BY <1>3
<1> HIDE DEF md, n
<1>6. Len(md) = n /\ DOMAIN md = 1..n
  BY <1>1, <1>5, LengthIs
<1>7. Tree(md)
  <2>1. \A j \in 1..n : md[j] \in LeafRecord \/ InnerOK(md[j], j, n)
    BY <1>1, <1>4, <1>5
  <2> QED  BY <1>1, <1>6, <2>1 DEF Tree
<1>8. Rooted(md, rt)
  BY <1>1, <1>6, <1>7 DEF Rooted
<1>9. SameWays(nd, md, i)
  <2>1. nd[i].kind # "inner" /\ md[i].kind # "inner"
    BY <1>2, <1>4
  <2> QED  BY <1>1, <1>5, <1>6, <1>7, <2>1 DEF SameWays, n
<1>10. ASSUME NEW k \in Key
       PROVE  Home(md, rt)[k] = Home(nd, rt)[k]
  <2>1. /\ Home(md, rt)[k] = Way(md, k)[rt[k]] /\ Home(nd, rt)[k] = Way(nd, k)[rt[k]]
        /\ rt[k] \in 1..Len(nd)
    BY <1>8, HomeIs
  <2>2. Way(md, k)[rt[k]] = IF Way(nd, k)[rt[k]] = i THEN Way(md, k)[i] ELSE Way(nd, k)[rt[k]]
    BY <1>9, <2>1, WaysGoOn
  <2>3. Way(md, k)[i] = i
    <3>1. i \in 1..Len(md) /\ md[i].kind # "inner"
      BY <1>2, <1>4, <1>6 DEF n
    <3> QED  BY <1>7, <3>1, WayEndsAt
  <2> QED  BY <2>1, <2>2, <2>3
<1>11. Home(md, rt) = Home(nd, rt)
  BY <1>10 DEF Home
<1> QED  BY <1>4, <1>5, <1>6, <1>8, <1>11 DEF md, n

LEMMA InsertMakes ==
  ASSUME NEW keys, Records(keys), Len(keys) > 0, NEW nd, NEW rt, Rooted(nd, rt),
         Convex(Home(nd, rt)), SharedOut(nd, Home(nd, rt), keys),
         NEW k \in Key, k > keys[Len(keys)],
         nd[Home(nd, rt)[k]].size # 0, ~ Full(nd[Home(nd, rt)[k]])
  PROVE  LET md == OneMoreAt(nd, Home(nd, rt)[k])
         IN /\ Rooted(md, rt) /\ Convex(Home(md, rt))
            /\ SharedOut(md, Home(md, rt), Append(keys, k))
<1> DEFINE home == Home(nd, rt)
           i == home[k]
           md == OneMoreAt(nd, i)
           n == Len(nd)
           z == Len(keys)
           u == Append(keys, k)
<1>1. i \in 1..n /\ nd[i].kind # "inner" /\ nd[i] \in LeafRecord /\ n \in Nat
  BY HomeIs DEF Rooted, Tree
<1>2. nd[i].m_left + nd[i].size = z
  BY LastLeafEnds
<1>3. /\ Rooted(md, rt) /\ Home(md, rt) = home /\ Len(md) = n
      /\ \A j \in 1..n : j # i => md[j] = nd[j]
      /\ md[i].m_left = nd[i].m_left
      /\ md[i].size = nd[i].size + 1
      /\ md[i].kind = nd[i].kind
  BY <1>1, OneMoreIs
<1>4. z \in Nat /\ \A p \in 1..z : keys[p] \in Key
  BY RecordsAre
<1>5. Len(u) = z + 1 /\ u[z + 1] = k /\ \A p \in 1..z : u[p] = keys[p]
  BY RecordAppended
<1>6. \A j \in 1..n : nd[j].kind # "inner" =>
        /\ nd[j].m_left \in Nat /\ nd[j].size \in Nat
        /\ nd[j].m_left + nd[j].size <= z
        /\ \A p \in 1..z : home[keys[p]] = j <=> nd[j].m_left < p /\ p <= nd[j].m_left + nd[j].size
  <2>1. \A j \in 1..n : nd[j].kind # "inner" => nd[j] \in LeafRecord
    BY KindsAre DEF Rooted, Tree
  <2>2. \A j \in 1..n : nd[j].kind # "inner" => nd[j].m_left \in Nat /\ nd[j].size \in Nat
    BY <2>1, LeafIs
  <2> QED  BY <2>2 DEF SharedOut
<1> HIDE DEF u, z, n, md
<1>7. ASSUME NEW j \in 1..n, md[j].kind # "inner"
      PROVE  /\ md[j].m_left + md[j].size <= z + 1
             /\ \A p \in 1..z + 1 :
                  home[u[p]] = j <=> md[j].m_left < p /\ p <= md[j].m_left + md[j].size
  <2> DEFINE m == nd[j].m_left
             s == nd[j].size
  <2>1. nd[j].kind # "inner"
    BY <1>3, <1>7
  <2>2. /\ m \in Nat /\ s \in Nat /\ m + s <= z
        /\ \A p \in 1..z : home[keys[p]] = j <=> m < p /\ p <= m + s
    BY <1>6, <2>1
  <2>3. j = i => m + s = z
    BY <1>2
  <2>4. md[j].m_left = m /\ md[j].size = IF j = i THEN s + 1 ELSE s
    BY <1>3
  <2>5. j = i <=> home[u[z + 1]] = j
    BY <1>5
  <2> HIDE DEF m, s, i, home
  <2>6. \A p \in 1..z : home[u[p]] = j <=> m < p /\ p <= m + s
    BY <1>5, <2>2
  <2>7. CASE j = i
    <3>1. md[j].m_left = m /\ md[j].size = s + 1
      BY <2>4, <2>7
    <3>2. ASSUME NEW p \in 1..z + 1
          PROVE  home[u[p]] = j <=> m < p /\ p <= m + (s + 1)
      <4>1. CASE p = z + 1
        <5>1. m < p /\ p <= m + (s + 1)
          BY <2>2, <2>3, <2>7, <4>1
        <5> QED  BY <2>5, <2>7, <4>1, <5>1
      <4>2. CASE p # z + 1
        <5>1. p \in 1..z /\ p <= m + s
          BY <1>4, <2>2, <2>3, <2>7, <4>2
        <5> QED  BY <2>2, <2>6, <5>1
      <4> QED  BY <4>1, <4>2
    <3>3. m + (s + 1) <= z + 1
      BY <1>4, <2>2
    <3> QED  BY <3>1, <3>2, <3>3
  <2>8. CASE j # i
    <3>1. md[j].m_left = m /\ md[j].size = s
      BY <2>4, <2>8
    <3>2. ASSUME NEW p \in 1..z + 1
          PROVE  home[u[p]] = j <=> m < p /\ p <= m + s
      <4>1. CASE p = z + 1
        <5>1. ~ (p <= m + s)
          BY <1>4, <2>2, <4>1
        <5> QED  BY <2>5, <2>8, <4>1, <5>1
      <4>2. CASE p # z + 1
        <5>1. p \in 1..z
          BY <1>4, <4>2
        <5> QED  BY <2>6, <5>1
      <4> QED  BY <4>1, <4>2
    <3>3. m + s <= z + 1
      BY <1>4, <2>2
    <3> QED  BY <3>1, <3>2, <3>3
  <2> QED  BY <2>7, <2>8
<1>8. SharedOut(md, home, u)
  BY <1>3, <1>5, <1>7 DEF SharedOut
<1> QED  BY <1>3, <1>8 DEF md, u

LEMMA InsertIs ==
  ASSUME ExternalInv, InsertIntoLeaf
  PROVE  /\ inserting \in Key /\ inserting > data[Len(data)]
         /\ at = Home(node, root)[inserting] /\ node[at].size # 0 /\ ~ Full(node[at])
         /\ node' = OneMoreAt(node, at)
         /\ data' = Append(data, inserting) /\ currsize' = currsize + 1 /\ root' = root
         /\ inserting' = 0 /\ at' = 0
         /\ it' = it \/ it' = [class |-> "iterator", slot |-> currsize]
         /\ call' = <<"insert", inserting>>
<1>1. /\ inserting # 0 /\ node[at].kind = "leaf" /\ ~ Full(node[at])
      /\ data' = Append(data, inserting) /\ currsize' = currsize + 1 /\ root' = root
      /\ inserting' = 0 /\ at' = 0 /\ call' = <<"insert", inserting>>
      /\ it' \in {it, [class |-> "iterator", slot |-> currsize' - 1]}
      /\ node' = [node EXCEPT ![at] = AddTo(node[at], inserting, currsize)]
  BY DEF InsertIntoLeaf, IsLeaf
<1>2. inserting \in Key /\ OnItsWay(node, root, data, at, inserting) /\ Rooted(node, root)
  BY <1>1 DEF ExternalInv, InsertInv, MapInv
<1>3. /\ at \in 1..Len(node) /\ Way(node, inserting)[at] = Home(node, root)[inserting]
      /\ inserting > data[Len(data)]
      /\ node[Home(node, root)[inserting]].size # 0
  BY <1>2 DEF OnItsWay, FindsRecords
<1>4. Way(node, inserting)[at] = at
  <2>1. node[at].kind # "inner"
    BY <1>1
  <2> QED  BY <1>2, <1>3, <2>1, WayEndsAt DEF Rooted
<1>5. at = Home(node, root)[inserting] /\ node[at].size # 0
  BY <1>3, <1>4
<1>6. AddTo(node[at], inserting, currsize) = OneMore(node[at])
  BY <1>5 DEF AddTo, OneMore
<1>7. node' = OneMoreAt(node, at)
  BY <1>1, <1>6 DEF OneMoreAt
<1>8. currsize' - 1 = currsize
  BY <1>1, RecordsAre DEF ExternalInv, MapInv
<1> QED  BY <1>1, <1>2, <1>3, <1>5, <1>7, <1>8

LEMMA InsertKeepsInv ==
  ASSUME ExternalInv, InsertIntoLeaf
  PROVE  ExternalInv'
<1>1. /\ inserting \in Key /\ inserting > data[Len(data)]
      /\ at = Home(node, root)[inserting] /\ node[at].size # 0 /\ ~ Full(node[at])
      /\ node' = OneMoreAt(node, at)
      /\ data' = Append(data, inserting) /\ currsize' = currsize + 1 /\ root' = root
      /\ inserting' = 0 /\ at' = 0
      /\ it' = it \/ it' = [class |-> "iterator", slot |-> currsize]
  BY InsertIs
<1>2. /\ Rooted(node, root) /\ Records(data) /\ Len(data) > 0 /\ currsize = Len(data)
      /\ Convex(Home(node, root)) /\ SharedOut(node, Home(node, root), data)
      /\ it = [class |-> it.class, slot |-> it.slot]
      /\ it.class \in Classes /\ it.slot \in 0..currsize
      /\ it.class = "none" => it.slot = 0
  BY DEF ExternalInv, MapInv, ItInv
<1>3. Len(data) \in Nat
  BY <1>2, RecordsAre
<1>4. MapInv'
  <2>1. /\ Rooted(node', root) /\ Convex(Home(node', root))
        /\ SharedOut(node', Home(node', root), data')
    BY <1>1, <1>2, InsertMakes
  <2>2. Records(data') /\ Len(data') = Len(data) + 1
    BY <1>1, <1>2, RecordAppended
  <2>3. Len(data') > 0 /\ currsize' = Len(data')
    BY <1>1, <1>2, <1>3, <2>2
  <2> QED  BY <1>1, <2>1, <2>2, <2>3 DEF MapInv
<1>5. InsertInv'
  BY <1>1 DEF InsertInv
<1>6. ItInv'
  <2>1. currsize \in Nat /\ currsize' = currsize + 1
    BY <1>1, <1>2, <1>3
  <2>2. CASE it' = it
    <3>1. it.slot \in 0..currsize + 1
      BY <1>2, <2>1
    <3> QED  BY <1>2, <2>1, <2>2, <3>1 DEF ItInv
  <2>3. CASE it' = [class |-> "iterator", slot |-> currsize]
    <3>1. currsize \in 0..currsize + 1
      BY <2>1
    <3> QED  BY <2>1, <2>3, <3>1 DEF ItInv, Classes, Forward
  <2> QED  BY <1>1, <2>2, <2>3
<1> QED  BY <1>4, <1>5, <1>6 DEF ExternalInv

----------------------------------------------------------------------------
(* A split.                                                                *)
(*                                                                         *)
(* The records of a leaf, and the line over them.                          *)
LEMMA ExtractIs ==
  ASSUME NEW keys, Records(keys), NEW leaf, InArray(keys, leaf)
  PROVE  /\ Records(Extract(keys, leaf)) /\ Len(Extract(keys, leaf)) = leaf.size
         /\ \A p \in 1..leaf.size : Extract(keys, leaf)[p] = keys[leaf.m_left + p]
<1> DEFINE m == leaf.m_left
           n == leaf.size
           r == Extract(keys, leaf)
<1>1. m \in Nat /\ n \in Nat /\ m + n <= Len(keys) /\ Len(keys) \in Nat
  BY LeafIs, RecordsAre DEF InArray
<1>2. r = [p \in 1..n |-> KeyAt(keys, m + p - 1)]
  BY DEF Extract
<1> HIDE DEF m, n, r
<1>3. ASSUME NEW p \in 1..n
      PROVE  r[p] = keys[m + p] /\ m + p \in 1..Len(keys)
  <2>1. m + p - 1 \in Int /\ m + p - 1 \in 0..Len(keys) - 1 /\ (m + p - 1) + 1 = m + p
        /\ m + p \in 1..Len(keys)
    BY <1>1
  <2>2. KeyAt(keys, m + p - 1) = keys[m + p]
    BY <2>1, KeyAtIs
  <2> QED  BY <1>2, <2>1, <2>2
<1>4. r = [p \in 1..n |-> r[p]]
  BY <1>2
<1>5. \A p \in 1..n : r[p] \in Key
  BY <1>3, RecordsAre
<1>6. r \in Seq(Key) /\ Len(r) = n /\ DOMAIN r = 1..n
  <2>1. r \in [1..n -> Key]
    BY <1>4, <1>5
  <2> QED  BY <1>1, <2>1
<1>7. ASSUME NEW p \in 1..n, NEW q \in 1..n, p < q
      PROVE  r[p] < r[q]
  <2>1. r[p] = keys[m + p] /\ m + p \in 1..Len(keys) /\ r[q] = keys[m + q] /\ m + q \in 1..Len(keys)
        /\ m + p < m + q
    BY <1>1, <1>3, <1>7
  <2> QED  BY <2>1, RecordsAre
<1>8. Records(r)
  BY <1>6, <1>7 DEF Records, Ascending
<1> QED  BY <1>3, <1>6, <1>8 DEF m, n, r

(* The children of the records r, in parts: the line does not fall.        *)
Cut(keys, leaf) ==
  [p \in 1..leaf.size |-> Predict(SplitLine(keys, leaf), Children, Extract(keys, leaf)[p])]

LEMMA LineIs ==
  ASSUME NEW keys, Records(keys), NEW leaf, InArray(keys, leaf), leaf.size > 0
  PROVE  /\ SplitLine(keys, leaf) \in Lines /\ SplitLine(keys, leaf).slope >= 0
         /\ \A k \in Key : Predict(SplitLine(keys, leaf), Children, k) \in 0..Children - 1
         /\ \A j, k \in Key : j <= k => Predict(SplitLine(keys, leaf), Children, j)
                                          <= Predict(SplitLine(keys, leaf), Children, k)
<1> DEFINE r == Extract(keys, leaf)
           lr == SplitLine(keys, leaf)
<1>1. Records(r) /\ Len(r) > 0 /\ r \in Seq(Int) /\ Rising(r)
  BY ExtractIs, RecordsAre
<1>2. Children \in Nat /\ Children \in Int /\ Children \in Nat \ {0} /\ Key \subseteq Int
  BY TreeAssumption, KeysAreNumbers
<1>3. lr = Train(r, Children)
  BY DEF SplitLine
<1> HIDE DEF r, lr
<1>4. lr \in Lines /\ lr.slope >= 0
  BY <1>1, <1>2, <1>3, TrainFits, TrainRises
<1>5. ASSUME NEW k \in Key
      PROVE  Predict(lr, Children, k) \in 0..Children - 1
  BY <1>2, <1>4, PredictInRange
<1>6. ASSUME NEW j \in Key, NEW k \in Key, j <= k
      PROVE  Predict(lr, Children, j) <= Predict(lr, Children, k)
  <2>1. j \in Int /\ k \in Int
    BY <1>2
  <2> QED  BY <1>2, <1>4, <1>6, <2>1, PredictKeepsOrder
<1> QED  BY <1>4, <1>5, <1>6 DEF lr

LEMMA CutIs ==
  ASSUME NEW keys, Records(keys), NEW leaf, InArray(keys, leaf), leaf.size > 0
  PROVE  /\ \A p \in 1..leaf.size :
              /\ Cut(keys, leaf)[p] \in Int /\ Cut(keys, leaf)[p] \in 0..Children - 1
              /\ Extract(keys, leaf)[p] \in Key
              /\ Cut(keys, leaf)[p] = Predict(SplitLine(keys, leaf), Children,
                                              Extract(keys, leaf)[p])
         /\ \A p, q \in 1..leaf.size : p <= q => Cut(keys, leaf)[p] <= Cut(keys, leaf)[q]
<1> DEFINE r == Extract(keys, leaf)
           n == leaf.size
           f == Cut(keys, leaf)
           lr == SplitLine(keys, leaf)
<1>1. /\ \A k \in Key : Predict(lr, Children, k) \in 0..Children - 1
      /\ \A j, k \in Key : j <= k => Predict(lr, Children, j) <= Predict(lr, Children, k)
  BY LineIs
<1>2. \A p \in 1..n : f[p] = Predict(lr, Children, r[p])
  BY DEF Cut
<1>3. Records(r) /\ Len(r) = n
  BY ExtractIs
<1>4. /\ \A p \in 1..n : r[p] \in Key
      /\ \A p, q \in 1..n : p <= q => r[p] <= r[q]
  BY <1>3, RecordsAre
<1>5. \A c \in 0..Children - 1 : c \in Int
  OBVIOUS
<1> HIDE DEF r, n, f, lr
<1>6. \A p, q \in 1..n : p <= q => f[p] <= f[q]
  BY <1>1, <1>2, <1>4
<1>7. \A p \in 1..n : f[p] \in 0..Children - 1 /\ f[p] \in Int
  BY <1>1, <1>2, <1>4, <1>5
<1> QED  BY <1>2, <1>4, <1>6, <1>7 DEF r, n, f, lr

(* The records before the child c, and those of it.                        *)
CutBefore(keys, leaf, c) == HowManyLess(Cut(keys, leaf), leaf.size, c)
CutAt(keys, leaf, c)     == HowMany(Cut(keys, leaf), leaf.size, c)

LEMMA PartsAre ==
  ASSUME NEW keys, Records(keys), NEW leaf, InArray(keys, leaf), leaf.size > 0,
         NEW c \in 0..Children - 1
  PROVE  /\ CutBefore(keys, leaf, c) \in Nat /\ CutAt(keys, leaf, c) \in Nat
         /\ CutBefore(keys, leaf, c) + CutAt(keys, leaf, c) <= leaf.size
         /\ \A p \in 1..leaf.size :
              Cut(keys, leaf)[p] = c
                <=> /\ CutBefore(keys, leaf, c) < p
                    /\ p <= CutBefore(keys, leaf, c) + CutAt(keys, leaf, c)
         /\ Cardinality(PartOf(keys, leaf, c)) = CutAt(keys, leaf, c)
         /\ Cardinality(UNION {PartOf(keys, leaf, b) : b \in 0..c - 1})
              = CutBefore(keys, leaf, c)
<1> DEFINE n == leaf.size
           f == Cut(keys, leaf)
           P(b) == PartOf(keys, leaf, b)
<1>1. n \in Nat
  BY LeafIs DEF InArray
<1>2. /\ \A p \in 1..n : f[p] \in Int /\ f[p] \in 0..Children - 1
      /\ \A p, q \in 1..n : p <= q => f[p] <= f[q]
  BY CutIs
<1>3. \A b : P(b) = {p \in 1..n : f[p] = b}
  BY DEF Cut, PartOf
<1>4. c \in Int /\ c \in Nat
  BY TreeAssumption
<1> HIDE DEF n, f, P
<1>5. /\ HowManyLess(f, n, c) \in Nat /\ HowMany(f, n, c) \in Nat
      /\ HowManyLess(f, n, c) + HowMany(f, n, c) <= n
      /\ \A p \in 1..n :
           /\ f[p] = c <=> /\ HowManyLess(f, n, c) < p
                           /\ p <= HowManyLess(f, n, c) + HowMany(f, n, c)
  BY <1>1, <1>2, <1>4, LessThenEqual
<1>6. Cardinality(P(c)) = HowMany(f, n, c)
  BY <1>3 DEF HowMany
<1>7. UNION {P(b) : b \in 0..c - 1} = {p \in 1..n : f[p] < c}
  <2>1. ASSUME NEW p \in UNION {P(b) : b \in 0..c - 1}
        PROVE  p \in 1..n /\ f[p] < c
    <3>1. PICK b \in 0..c - 1 : p \in P(b)
      OBVIOUS
    <3> QED  BY <1>3, <1>4, <3>1
  <2>2. ASSUME NEW p \in 1..n, f[p] < c
        PROVE  p \in UNION {P(b) : b \in 0..c - 1}
    <3>1. f[p] \in 0..c - 1
      BY <1>2, <1>4, <2>2
    <3>2. p \in P(f[p])
      BY <1>3
    <3> QED  BY <3>1, <3>2
  <2> QED  BY <2>1, <2>2
<1>8. Cardinality(UNION {P(b) : b \in 0..c - 1}) = HowManyLess(f, n, c)
  BY <1>7 DEF HowManyLess
<1> QED  BY <1>5, <1>6, <1>8 DEF n, f, P, CutBefore, CutAt

(* The leaf of child c.                                                    *)
ChildLeaf(keys, leaf, c) ==
  TrainLeaf(leaf.m_left + CutBefore(keys, leaf, c), Extract(keys, leaf),
            CutBefore(keys, leaf, c), CutAt(keys, leaf, c))

LEMMA ChildLeafIs ==
  ASSUME NEW keys, Records(keys), NEW leaf, InArray(keys, leaf), leaf.size > 0,
         NEW c \in 0..Children - 1
  PROVE  /\ ChildLeaf(keys, leaf, c) \in LeafRecord
         /\ ChildLeaf(keys, leaf, c).m_left = leaf.m_left + CutBefore(keys, leaf, c)
         /\ ChildLeaf(keys, leaf, c).size = CutAt(keys, leaf, c)
<1> DEFINE n == leaf.size
           r == Extract(keys, leaf)
           b == CutBefore(keys, leaf, c)
           a == CutAt(keys, leaf, c)
<1>1. n \in Nat /\ n <= MaxLeafSize /\ leaf.m_left \in Nat /\ MaxLeafSize \in Nat
  BY LeafIs DEF InArray
<1>2. b \in Nat /\ a \in Nat /\ b + a <= n
  BY PartsAre
<1>3. r \in Seq(Int) /\ Len(r) = n
  BY ExtractIs, RecordsAre
<1>4. ChildLeaf(keys, leaf, c) = TrainLeaf(leaf.m_left + b, r, b, a)
  BY DEF ChildLeaf
<1> HIDE DEF n, r, b, a
<1>5. b + a <= Len(r) /\ a <= MaxLeafSize /\ leaf.m_left + b \in Nat
  BY <1>1, <1>2, <1>3
<1> QED  BY <1>2, <1>3, <1>4, <1>5, TrainLeafIs DEF b, a

(* A split leaf does not leave all records to one child.                   *)
LEMMA NoChildHasAll ==
  ASSUME NEW keys, Records(keys), NEW leaf, InArray(keys, leaf), leaf.size >= 2,
         NEW c \in 0..Children - 1
  PROVE  CutAt(keys, leaf, c) < leaf.size
<1> DEFINE n == leaf.size
           r == Extract(keys, leaf)
           f == Cut(keys, leaf)
           b == CutBefore(keys, leaf, c)
           a == CutAt(keys, leaf, c)
           lr == SplitLine(keys, leaf)
<1>1. n \in Nat /\ n >= 2 /\ leaf.size > 0
  BY LeafIs DEF InArray
<1>2. /\ b \in Nat /\ a \in Nat /\ b + a <= n
      /\ \A p \in 1..n : f[p] = c <=> b < p /\ p <= b + a
  BY <1>1, PartsAre
<1>3. Records(r) /\ Len(r) = n
  BY ExtractIs
<1>4. r \in Seq(Int) /\ Rising(r) /\ r[1] # r[n]
  <2>1. 1 \in 1..Len(r) /\ Len(r) \in 1..Len(r) /\ 1 < Len(r)
    BY <1>1, <1>3
  <2>2. /\ r \in Seq(Int) /\ Rising(r) /\ \A p \in 1..Len(r) : r[p] \in Int
        /\ \A p, q \in 1..Len(r) : p < q => r[p] < r[q]
    BY <1>3, RecordsAre
  <2>3. r[1] < r[Len(r)] /\ r[1] \in Int /\ r[Len(r)] \in Int
    BY <2>1, <2>2
  <2>4. r[1] # r[Len(r)]
    BY <2>3
  <2> QED  BY <1>3, <2>2, <2>4
<1>5. \A p \in 1..n : f[p] = Predict(lr, Children, r[p]) /\ f[p] \in Int
  BY <1>1, CutIs
<1>6. lr = Train(r, Children)
  BY DEF SplitLine
<1> HIDE DEF n, r, f, b, a, lr
<1>7. Predict(lr, Children, r[1]) < Predict(lr, Children, r[n])
  <2>1. Children \in Nat /\ Children >= 2 /\ Len(r) > 0 /\ r[1] # r[Len(r)]
    BY TreeAssumption, <1>1, <1>3, <1>4
  <2> QED  BY <1>3, <1>4, <1>6, <2>1, TrainDivides
<1>8. 1 \in 1..n /\ n \in 1..n
  BY <1>1
<1>9. f[1] # f[n]
  BY <1>5, <1>7, <1>8
<1>10. a # n
  <2> SUFFICES ASSUME a = n PROVE FALSE
    OBVIOUS
  <2>1. b = 0
    BY <1>1, <1>2
  <2>2. f[1] = c /\ f[n] = c
    BY <1>1, <1>2, <1>8, <2>1
  <2> QED  BY <1>9, <2>2
<1>11. a < n
  BY <1>1, <1>2, <1>10
<1> QED  BY <1>11 DEF a, n

(* The nodes when the leaf a has been split.                               *)
InnerOf(nd, keys, a) ==
  [kind |-> "inner", lr |-> SplitLine(keys, nd[a]), childLeft |-> Len(nd) + 1]

SplitAt(nd, keys, a) ==
  [i \in 1..Len(nd) + Children |->
     IF i = a THEN InnerOf(nd, keys, a)
     ELSE IF i >= Len(nd) + 1 THEN ChildLeaf(keys, nd[a], i - (Len(nd) + 1))
     ELSE nd[i]]

Splits(nd, rt, keys, a) ==
  /\ Rooted(nd, rt) /\ Records(keys) /\ a \in 1..Len(nd)
  /\ InArray(keys, nd[a]) /\ nd[a].size > 0

PartFor(nd, keys, a, k) == Len(nd) + 1 + Predict(SplitLine(keys, nd[a]), Children, k)

LEMMA SplitNodes ==
  ASSUME NEW nd, NEW rt, NEW keys, NEW a, Splits(nd, rt, keys, a)
  PROVE  /\ Len(SplitAt(nd, keys, a)) = Len(nd) + Children
         /\ SplitAt(nd, keys, a)[a] = InnerOf(nd, keys, a)
         /\ \A i \in 1..Len(nd) : i # a => SplitAt(nd, keys, a)[i] = nd[i]
         /\ \A c \in 0..Children - 1 :
              SplitAt(nd, keys, a)[Len(nd) + 1 + c] = ChildLeaf(keys, nd[a], c)
         /\ Rooted(SplitAt(nd, keys, a), rt)
         /\ SameWays(nd, SplitAt(nd, keys, a), a)
<1> DEFINE n == Len(nd)
           leaf == nd[a]
           md == SplitAt(nd, keys, a)
           m == n + Children
<1>1. /\ Tree(nd) /\ n \in Nat /\ DOMAIN nd = 1..n /\ a \in 1..n
      /\ RootLeaves <= n /\ rt \in [Key -> 1..RootLeaves] /\ RootLeaves \in Nat
      /\ \A j \in 1..n : nd[j] \in LeafRecord \/ InnerOK(nd[j], j, n)
  BY TreeAssumption DEF Splits, Rooted, Tree
<1>2. Children \in Nat /\ Children >= 2 /\ m \in Nat
  BY <1>1, TreeAssumption
<1>3. leaf.kind # "inner" /\ InArray(keys, leaf) /\ leaf.size > 0 /\ Records(keys)
      /\ leaf \in LeafRecord
  BY KindsAre DEF Splits, InArray
<1>4. md = [i \in 1..m |-> IF i = a THEN InnerOf(nd, keys, a)
                           ELSE IF i >= n + 1 THEN ChildLeaf(keys, leaf, i - (n + 1))
                           ELSE nd[i]]
  BY DEF SplitAt
<1> HIDE DEF md, m
<1>5. Len(md) = m /\ DOMAIN md = 1..m
  <2>1. md = [i \in 1..m |-> md[i]]
    BY <1>4
  <2> QED  BY <1>2, <2>1, LengthIs
<1> HIDE DEF n
<1>6. m = n + Children /\ \A i \in 1..n : i \in 1..m /\ ~ (i >= n + 1)
  BY <1>1, <1>2 DEF m
<1>7. md[a] = InnerOf(nd, keys, a)
  BY <1>1, <1>4, <1>6
<1>8. \A i \in 1..n : i # a => md[i] = nd[i]
  BY <1>4, <1>6
<1>9. ASSUME NEW c \in 0..Children - 1
      PROVE  md[n + 1 + c] = ChildLeaf(keys, leaf, c)
  <2>1. /\ n + 1 + c \in 1..m /\ n + 1 + c # a /\ n + 1 + c >= n + 1
        /\ (n + 1 + c) - (n + 1) = c
    BY <1>1, <1>2, <1>6
  <2> QED  BY <1>4, <2>1
<1>10. ASSUME NEW i \in 1..m
       PROVE  md[i] \in LeafRecord \/ InnerOK(md[i], i, m)
  <2>1. CASE i = a
    <3>1. SplitLine(keys, leaf) \in Lines
      BY <1>3, LineIs
    <3>2. /\ n + 1 \in Nat /\ a < n + 1 /\ (n + 1) + Children - 1 <= m
      BY <1>1, <1>2, <1>6
    <3>3. InnerOf(nd, keys, a) = [kind |-> "inner", lr |-> SplitLine(keys, leaf), childLeft |-> n + 1]
      BY DEF InnerOf, n
    <3> HIDE DEF leaf
    <3> QED  BY <1>7, <2>1, <3>1, <3>2, <3>3 DEF InnerOK
  <2>2. CASE i \in 1..n /\ i # a
    <3>1. md[i] = nd[i]
      BY <1>8, <2>2
    <3>2. CASE InnerOK(nd[i], i, n)
      <4>1. nd[i].childLeft \in Nat /\ nd[i].childLeft + Children - 1 <= n
        BY <3>2 DEF InnerOK
      <4>2. nd[i].childLeft + Children - 1 <= m
        BY <1>1, <1>2, <1>6, <4>1
      <4> QED  BY <3>1, <3>2, <4>2 DEF InnerOK
    <3> QED  BY <1>1, <2>2, <3>1, <3>2
  <2>3. CASE i \notin 1..n
    <3>1. i - (n + 1) \in 0..Children - 1 /\ n + 1 + (i - (n + 1)) = i
      BY <1>1, <1>2, <1>6, <2>3
    <3>2. md[i] = ChildLeaf(keys, leaf, i - (n + 1))
      BY <1>9, <3>1
    <3>3. ChildLeaf(keys, leaf, i - (n + 1)) \in LeafRecord
      BY <1>3, <3>1, ChildLeafIs
    <3> QED  BY <3>2, <3>3
  <2> QED  BY <2>1, <2>2, <2>3
<1>11. Tree(md)
  BY <1>2, <1>5, <1>10 DEF Tree
<1>12. n <= m /\ RootLeaves <= m
  BY <1>1, <1>2, <1>6
<1>13. Rooted(md, rt)
  BY <1>1, <1>5, <1>11, <1>12 DEF Rooted
<1>14. SameWays(nd, md, a)
  BY <1>1, <1>3, <1>5, <1>8, <1>11, <1>12 DEF SameWays, n
<1>15. Len(md) = n + Children
  BY <1>5, <1>6
<1> QED  BY <1>7, <1>8, <1>9, <1>13, <1>14, <1>15 DEF n, md

(* The keys of the leaf now go to its children, the others where they did. *)
LEMMA SplitHome ==
  ASSUME NEW nd, NEW rt, NEW keys, NEW a, Splits(nd, rt, keys, a), NEW k \in Key
  PROVE  /\ Way(SplitAt(nd, keys, a), k)[PartFor(nd, keys, a, k)] = PartFor(nd, keys, a, k)
         /\ Home(SplitAt(nd, keys, a), rt)[k]
              = IF Home(nd, rt)[k] = a THEN PartFor(nd, keys, a, k) ELSE Home(nd, rt)[k]
         /\ PartFor(nd, keys, a, k) \in Len(nd) + 1..Len(nd) + Children
<1> DEFINE n == Len(nd)
           leaf == nd[a]
           md == SplitAt(nd, keys, a)
           x == Predict(SplitLine(keys, leaf), Children, k)
           c == PartFor(nd, keys, a, k)
<1>1. /\ Len(md) = n + Children /\ md[a] = InnerOf(nd, keys, a)
      /\ \A y \in 0..Children - 1 : md[n + 1 + y] = ChildLeaf(keys, leaf, y)
      /\ Rooted(md, rt) /\ SameWays(nd, md, a) /\ Rooted(nd, rt)
  <2>1. Rooted(nd, rt)
    BY DEF Splits
  <2> QED  BY <2>1, SplitNodes
<1>2. n \in Nat /\ a \in 1..n /\ Children \in Nat /\ Children >= 2
  BY TreeAssumption DEF Splits, Rooted, Tree
<1>3. x \in 0..Children - 1
  BY LineIs DEF Splits
<1>4. c = n + 1 + x
  BY DEF PartFor
<1>5. md[a].kind = "inner" /\ ChildOf(md[a], k) = c
  BY <1>1, <1>4 DEF InnerOf, ChildOf
<1>6. ChildLeaf(keys, leaf, x) \in LeafRecord
  BY <1>3, ChildLeafIs DEF Splits
<1> HIDE DEF n, md, x, c, leaf
<1>7. c \in n + 1..n + Children /\ c \in 1..Len(md) /\ a \in 1..Len(md)
  BY <1>1, <1>2, <1>3, <1>4
<1>8. md[c].kind # "inner"
  BY <1>1, <1>3, <1>4, <1>6, KindsAre
<1>9. Tree(md)
  BY <1>1 DEF Rooted
<1>10. Way(md, k)[c] = c
  BY <1>7, <1>8, <1>9, WayEndsAt
<1>11. Way(md, k)[a] = c
  <2>1. Way(md, k)[a] = Way(md, k)[ChildOf(md[a], k)]
    BY <1>5, <1>7, <1>9, WayEndsAt
  <2> QED  BY <1>5, <1>10, <2>1
<1>12. /\ Home(md, rt)[k] = Way(md, k)[rt[k]] /\ Home(nd, rt)[k] = Way(nd, k)[rt[k]]
       /\ rt[k] \in 1..Len(nd)
  BY <1>1, HomeIs
<1>13. Way(md, k)[rt[k]] = IF Way(nd, k)[rt[k]] = a THEN Way(md, k)[a] ELSE Way(nd, k)[rt[k]]
  BY <1>1, <1>12, WaysGoOn
<1>14. Home(md, rt)[k] = IF Home(nd, rt)[k] = a THEN c ELSE Home(nd, rt)[k]
  BY <1>11, <1>12, <1>13
<1> QED  BY <1>7, <1>10, <1>14 DEF md, c, n

(* Two places are the same only if the old ones were.                      *)
LEMMA SamePlace ==
  ASSUME NEW n \in Nat, NEW a \in 1..n, NEW h \in 1..n, NEW i \in 1..n,
         NEW x \in Nat, NEW y \in Nat,
         (IF h = a THEN n + 1 + x ELSE h) = (IF i = a THEN n + 1 + y ELSE i)
  PROVE  h = i /\ (h = a => x = y)
<1>1. n + 1 + x > n /\ n + 1 + y > n /\ h <= n /\ i <= n
  OBVIOUS
<1>2. CASE h = a /\ i = a
  BY <1>2
<1>3. CASE h = a /\ i # a
  <2>1. n + 1 + x = i
    BY <1>3
  <2> QED  BY <1>1, <2>1
<1>4. CASE h # a /\ i = a
  <2>1. h = n + 1 + y
    BY <1>4
  <2> QED  BY <1>1, <2>1
<1>5. CASE h # a /\ i # a
  BY <1>5
<1> QED  BY <1>2, <1>3, <1>4, <1>5

LEMMA SplitConvex ==
  ASSUME NEW nd, NEW rt, NEW keys, NEW a, Splits(nd, rt, keys, a), Convex(Home(nd, rt))
  PROVE  Convex(Home(SplitAt(nd, keys, a), rt))
<1> DEFINE home == Home(nd, rt)
           new == Home(SplitAt(nd, keys, a), rt)
           n == Len(nd)
           x == [k \in Key |-> Predict(SplitLine(keys, nd[a]), Children, k)]
<1>1. ASSUME NEW k \in Key
      PROVE  /\ new[k] = IF home[k] = a THEN n + 1 + x[k] ELSE home[k]
             /\ x[k] \in Nat /\ home[k] \in 1..n
  <2>1. /\ new[k] = IF home[k] = a THEN PartFor(nd, keys, a, k) ELSE home[k]
    BY SplitHome
  <2>2. x[k] = Predict(SplitLine(keys, nd[a]), Children, k)
    OBVIOUS
  <2>3. Predict(SplitLine(keys, nd[a]), Children, k) \in 0..Children - 1
    BY LineIs DEF Splits
  <2>4. home[k] \in 1..n
    BY HomeIs DEF Splits
  <2> HIDE DEF x, new, home, n
  <2>5. x[k] \in Nat
    BY <2>2, <2>3
  <2> QED  BY <2>1, <2>2, <2>4, <2>5 DEF PartFor, n
<1>2. \A j, k \in Key : j <= k => x[j] <= x[k]
  BY LineIs DEF Splits
<1>3. \A j, k, l \in Key : j <= k /\ k <= l /\ home[j] = home[l] => home[k] = home[j]
  BY DEF Convex
<1>4. n \in Nat /\ a \in 1..n
  BY DEF Splits, Rooted, Tree
<1> HIDE DEF home, new, n, x
<1>5. ASSUME NEW j \in Key, NEW k \in Key, NEW l \in Key, j <= k, k <= l, new[j] = new[l]
      PROVE  new[k] = new[j]
  <2>1. /\ x[j] \in Nat /\ x[k] \in Nat /\ x[l] \in Nat
        /\ x[j] <= x[k] /\ x[k] <= x[l]
        /\ home[j] \in 1..n /\ home[l] \in 1..n
        /\ new[j] = (IF home[j] = a THEN n + 1 + x[j] ELSE home[j])
        /\ new[k] = (IF home[k] = a THEN n + 1 + x[k] ELSE home[k])
        /\ new[l] = (IF home[l] = a THEN n + 1 + x[l] ELSE home[l])
    BY <1>1, <1>2, <1>5
  <2>2. home[j] = home[l] /\ (home[j] = a => x[j] = x[l])
    <3>1. (IF home[j] = a THEN n + 1 + x[j] ELSE home[j])
            = (IF home[l] = a THEN n + 1 + x[l] ELSE home[l])
      BY <1>5, <2>1
    <3> QED  BY <1>4, <2>1, <3>1, SamePlace
  <2>3. home[k] = home[j]
    BY <1>3, <1>5, <2>2
  <2>4. CASE home[j] = a
    <3>1. x[j] = x[l]
      BY <2>2, <2>4
    <3>2. x[k] = x[j]
      BY <2>1, <3>1
    <3> QED  BY <2>1, <2>3, <2>4, <3>2
  <2>5. CASE home[j] # a
    BY <2>1, <2>3, <2>5
  <2> QED  BY <2>4, <2>5
<1> QED  BY <1>5 DEF Convex, new

LEMMA SplitShared ==
  ASSUME NEW nd, NEW rt, NEW keys, NEW a, Splits(nd, rt, keys, a),
         SharedOut(nd, Home(nd, rt), keys), nd[a].kind # "inner"
  PROVE  SharedOut(SplitAt(nd, keys, a), Home(SplitAt(nd, keys, a), rt), keys)
<1> DEFINE home == Home(nd, rt)
           md == SplitAt(nd, keys, a)
           new == Home(md, rt)
           n == Len(nd)
           z == Len(keys)
           leaf == nd[a]
           f == Cut(keys, leaf)
           m == leaf.m_left
           s == leaf.size
           b == [c \in 0..Children - 1 |-> CutBefore(keys, leaf, c)]
           e == [c \in 0..Children - 1 |-> CutAt(keys, leaf, c)]
<1>1. /\ Records(keys) /\ InArray(keys, leaf) /\ leaf.size > 0 /\ a \in 1..n /\ Rooted(nd, rt)
      /\ n \in Nat /\ Children \in Nat
  BY TreeAssumption DEF Splits, Rooted, Tree
<1>2. /\ Len(md) = n + Children /\ md[a].kind = "inner"
      /\ \A i \in 1..n : i # a => md[i] = nd[i]
      /\ \A c \in 0..Children - 1 : md[n + 1 + c] = ChildLeaf(keys, leaf, c)
  <2>1. InnerOf(nd, keys, a).kind = "inner"
    BY DEF InnerOf
  <2> QED  BY <2>1, SplitNodes
<1>3. z \in Nat /\ \A p \in 1..z : keys[p] \in Key
  BY <1>1, RecordsAre
<1>4. \A i \in 1..n : nd[i].kind # "inner" =>
        /\ nd[i].m_left + nd[i].size <= z
        /\ \A p \in 1..z : home[keys[p]] = i <=> nd[i].m_left < p /\ p <= nd[i].m_left + nd[i].size
  BY DEF SharedOut
<1>5. /\ m \in Nat /\ s \in Nat /\ m + s <= z
      /\ \A p \in 1..z : home[keys[p]] = a <=> m < p /\ p <= m + s
  BY <1>1, <1>4, LeafIs DEF InArray
<1>6. ASSUME NEW p \in 1..s
      PROVE  f[p] = Predict(SplitLine(keys, leaf), Children, keys[m + p])
  <2>1. f[p] = Predict(SplitLine(keys, leaf), Children, Extract(keys, leaf)[p])
    BY <1>1, CutIs
  <2>2. Extract(keys, leaf)[p] = keys[m + p]
    BY <1>1, ExtractIs
  <2> QED  BY <2>1, <2>2
<1>7. ASSUME NEW k \in Key
      PROVE  /\ new[k] = IF home[k] = a
                         THEN n + 1 + Predict(SplitLine(keys, leaf), Children, k) ELSE home[k]
             /\ home[k] \in 1..n
             /\ Predict(SplitLine(keys, leaf), Children, k) \in 0..Children - 1
  <2>1. new[k] = IF home[k] = a THEN PartFor(nd, keys, a, k) ELSE home[k]
    BY SplitHome
  <2>2. home[k] \in 1..n
    BY <1>1, HomeIs
  <2>3. Predict(SplitLine(keys, leaf), Children, k) \in 0..Children - 1
    BY <1>1, LineIs
  <2> QED  BY <2>1, <2>2, <2>3 DEF PartFor
<1>8. ASSUME NEW c \in 0..Children - 1
      PROVE  /\ b[c] \in Nat /\ e[c] \in Nat /\ b[c] + e[c] <= s
             /\ \A p \in 1..s : f[p] = c <=> b[c] < p /\ p <= b[c] + e[c]
             /\ ChildLeaf(keys, leaf, c).m_left = m + b[c]
             /\ ChildLeaf(keys, leaf, c).size = e[c]
  <2>1. b[c] = CutBefore(keys, leaf, c) /\ e[c] = CutAt(keys, leaf, c)
    OBVIOUS
  <2>2. /\ CutBefore(keys, leaf, c) \in Nat /\ CutAt(keys, leaf, c) \in Nat
        /\ CutBefore(keys, leaf, c) + CutAt(keys, leaf, c) <= leaf.size
        /\ \A p \in 1..leaf.size :
             Cut(keys, leaf)[p] = c
               <=> /\ CutBefore(keys, leaf, c) < p
                   /\ p <= CutBefore(keys, leaf, c) + CutAt(keys, leaf, c)
    <3> HIDE DEF leaf
    <3> QED  BY <1>1, PartsAre
  <2>3. /\ ChildLeaf(keys, leaf, c).m_left = leaf.m_left + CutBefore(keys, leaf, c)
        /\ ChildLeaf(keys, leaf, c).size = CutAt(keys, leaf, c)
    <3> HIDE DEF leaf
    <3> QED  BY <1>1, ChildLeafIs
  <2> HIDE DEF b, e, leaf
  <2> QED  BY <2>1, <2>2, <2>3
<1> HIDE DEF home, md, new, n, z, f, m, s, b, e, leaf
<1> DEFINE x(k) == Predict(SplitLine(keys, leaf), Children, k)
<1>9. \A k \in Key : /\ new[k] = IF home[k] = a THEN n + 1 + x(k) ELSE home[k]
                     /\ home[k] \in 1..n /\ x(k) \in 0..Children - 1
  BY <1>7
<1>10. \A p \in 1..s : f[p] = x(keys[m + p])
  BY <1>6
<1> HIDE DEF x
<1>11. ASSUME NEW i \in 1..n, md[i].kind # "inner"
       PROVE  /\ md[i].m_left + md[i].size <= z
              /\ \A p \in 1..z : new[keys[p]] = i
                   <=> md[i].m_left < p /\ p <= md[i].m_left + md[i].size
  <2>1. i # a /\ md[i] = nd[i]
    BY <1>2, <1>11
  <2>2. ASSUME NEW p \in 1..z
        PROVE  new[keys[p]] = i <=> home[keys[p]] = i
    <3>1. /\ new[keys[p]] = IF home[keys[p]] = a THEN n + 1 + x(keys[p]) ELSE home[keys[p]]
          /\ x(keys[p]) \in 0..Children - 1
      BY <1>3, <1>9
    <3>2. n + 1 + x(keys[p]) # i
      BY <1>1, <3>1
    <3> QED  BY <2>1, <3>1, <3>2
  <2> QED  BY <1>4, <1>11, <2>1, <2>2
<1>12. ASSUME NEW c \in 0..Children - 1
       PROVE  /\ md[n + 1 + c].m_left + md[n + 1 + c].size <= z
              /\ \A p \in 1..z : new[keys[p]] = n + 1 + c
                   <=> /\ md[n + 1 + c].m_left < p
                       /\ p <= md[n + 1 + c].m_left + md[n + 1 + c].size
  <2>1. md[n + 1 + c].m_left = m + b[c] /\ md[n + 1 + c].size = e[c]
    BY <1>2, <1>8
  <2>2. b[c] \in Nat /\ e[c] \in Nat /\ b[c] + e[c] <= s
    BY <1>8
  <2>3. ASSUME NEW p \in 1..z
        PROVE  new[keys[p]] = n + 1 + c <=> m + b[c] < p /\ p <= (m + b[c]) + e[c]
    <3>1. /\ new[keys[p]] = IF home[keys[p]] = a THEN n + 1 + x(keys[p]) ELSE home[keys[p]]
          /\ x(keys[p]) \in 0..Children - 1 /\ home[keys[p]] \in 1..n
      BY <1>3, <1>9
    <3>2. CASE home[keys[p]] = a
      <4>1. m < p /\ p <= m + s
        BY <1>5, <3>2
      <4>2. p - m \in 1..s /\ m + (p - m) = p
        BY <1>5, <4>1
      <4>3. f[p - m] = x(keys[p])
        BY <1>10, <4>2
      <4>4. x(keys[p]) = c <=> b[c] < p - m /\ p - m <= b[c] + e[c]
        BY <1>8, <4>2, <4>3
      <4>5. b[c] < p - m /\ p - m <= b[c] + e[c] <=> m + b[c] < p /\ p <= (m + b[c]) + e[c]
        BY <1>5, <2>2
      <4>6. new[keys[p]] = n + 1 + c <=> x(keys[p]) = c
        BY <1>1, <3>1, <3>2
      <4> QED  BY <4>4, <4>5, <4>6
    <3>3. CASE home[keys[p]] # a
      <4>1. ~ (m < p /\ p <= m + s)
        BY <1>5, <3>3
      <4>2. ~ (m + b[c] < p /\ p <= (m + b[c]) + e[c])
        BY <1>5, <2>2, <4>1
      <4>3. new[keys[p]] # n + 1 + c
        BY <1>1, <3>1, <3>3
      <4> QED  BY <4>2, <4>3
    <3> QED  BY <3>2, <3>3
  <2>4. (m + b[c]) + e[c] <= z
    BY <1>3, <1>5, <2>2
  <2> QED  BY <2>1, <2>3, <2>4
<1>13. ASSUME NEW i \in 1..n + Children, md[i].kind # "inner"
       PROVE  /\ md[i].m_left + md[i].size <= z
              /\ \A p \in 1..z : new[keys[p]] = i
                   <=> md[i].m_left < p /\ p <= md[i].m_left + md[i].size
  <2>1. CASE i \in 1..n
    BY <1>11, <1>13, <2>1
  <2>2. CASE i \notin 1..n
    <3>1. i - (n + 1) \in 0..Children - 1 /\ n + 1 + (i - (n + 1)) = i
      BY <1>1, <2>2
    <3> DEFINE c == i - (n + 1)
    <3>2. c \in 0..Children - 1 /\ n + 1 + c = i
      BY <3>1
    <3> HIDE DEF c
    <3> QED  BY <1>12, <3>2
  <2> QED  BY <2>1, <2>2
<1> QED  BY <1>2, <1>13 DEF SharedOut, md, new, z

(* The child that k goes to has records, and room for one more.            *)
LEMMA SplitLeavesRoom ==
  ASSUME NEW nd, NEW rt, NEW keys, NEW a, Splits(nd, rt, keys, a), Full(nd[a]),
         NEW k \in Key, Home(nd, rt)[k] = a, k > keys[Len(keys)], FindsRecords(keys, nd[a], k)
  PROVE  /\ OnItsWay(SplitAt(nd, keys, a), rt, keys, PartFor(nd, keys, a, k), k)
         /\ ~ Full(SplitAt(nd, keys, a)[PartFor(nd, keys, a, k)])
<1> DEFINE n == Len(nd)
           leaf == nd[a]
           md == SplitAt(nd, keys, a)
           c == Predict(SplitLine(keys, leaf), Children, k)
           x == PartFor(nd, keys, a, k)
<1>1. /\ Len(md) = n + Children
      /\ \A y \in 0..Children - 1 : md[n + 1 + y] = ChildLeaf(keys, leaf, y)
  BY SplitNodes
<1>2. /\ Records(keys) /\ InArray(keys, leaf) /\ leaf.size > 0
      /\ n \in Nat /\ Children \in Nat
  BY TreeAssumption DEF Splits, Rooted, Tree
<1>3. leaf.size \in Nat /\ leaf.size = MaxLeafSize /\ MaxLeafSize \in Nat /\ MaxLeafSize >= 2
  BY <1>2, LeafIs DEF Full, InArray
<1>4. c \in 0..Children - 1
  BY <1>2, LineIs
<1>5. Way(md, k)[x] = x /\ Home(md, rt)[k] = x /\ x \in n + 1..n + Children
  BY SplitHome
<1>6. x = n + 1 + c
  BY DEF PartFor
<1>7. PartOf(keys, leaf, c) # {} /\ Full(leaf)
  BY DEF FindsRecords
<1>8. Cardinality(PartOf(keys, leaf, c)) = CutAt(keys, leaf, c) /\ CutAt(keys, leaf, c) \in Nat
  <2> HIDE DEF leaf, c
  <2> QED  BY <1>2, <1>4, PartsAre
<1>9. CutAt(keys, leaf, c) # 0
  <2> DEFINE S == PartOf(keys, leaf, c)
  <2>1. S \subseteq 1..leaf.size
    BY DEF PartOf
  <2>2. S # {} /\ Cardinality(S) = CutAt(keys, leaf, c)
    BY <1>7, <1>8
  <2> HIDE DEF S
  <2>3. IsFiniteSet(S)
    <3>1. IsFiniteSet(1..leaf.size)
      BY <1>3, FS_Interval
    <3> QED  BY <2>1, <3>1, FS_Subset
  <2> QED  BY <2>2, <2>3, FS_EmptySet
<1>10. CutAt(keys, leaf, c) < leaf.size
  BY <1>2, <1>3, <1>4, NoChildHasAll
<1>11. md[x] = ChildLeaf(keys, leaf, c) /\ md[x].size = CutAt(keys, leaf, c)
  BY <1>1, <1>2, <1>4, <1>6, ChildLeafIs
<1>12. md[x].size # 0 /\ ~ Full(md[x])
  BY <1>3, <1>8, <1>9, <1>10, <1>11 DEF Full
<1>13. FindsRecords(keys, md[x], k)
  BY <1>12 DEF FindsRecords
<1>14. x \in 1..Len(md)
  BY <1>1, <1>2, <1>5
<1> HIDE DEF md, x
<1>15. OnItsWay(md, rt, keys, x, k)
  BY <1>5, <1>13, <1>14 DEF OnItsWay
<1> QED  BY <1>12, <1>15 DEF md, x

LEMMA SplitIs ==
  ASSUME ExternalInv, Split
  PROVE  /\ inserting \in Key /\ at = Home(node, root)[inserting]
         /\ Splits(node, root, data, at) /\ Full(node[at]) /\ node[at].kind # "inner"
         /\ OnItsWay(node, root, data, at, inserting)
         /\ node' = SplitAt(node, data, at) /\ at' = PartFor(node, data, at, inserting)
         /\ UNCHANGED <<root, data, currsize, inserting, it, call>>
<1> DEFINE n == Len(node)
           leaf == node[at]
           Child(c) == TrainLeaf(ChildStart(at, c), Extract(data, node[at]),
                                 ChildStart(at, c) - node[at].m_left,
                                 Cardinality(Part(at, c)))
<1>1. /\ inserting # 0 /\ leaf.kind = "leaf" /\ leaf.kind # "inner" /\ Full(leaf)
      /\ UNCHANGED <<root, data, currsize, inserting, it, call>>
      /\ at' = ChildOf(Inner(at), inserting)
      /\ node' = [i \in 1..n + Children |->
                    IF i = at THEN Inner(at)
                    ELSE IF i >= n + 1 THEN Child(i - (n + 1)) ELSE node[i]]
  BY DEF Split, IsLeaf, Inner
<1>2. inserting \in Key /\ OnItsWay(node, root, data, at, inserting) /\ Rooted(node, root)
      /\ Records(data) /\ SharedOut(node, Home(node, root), data)
  BY <1>1 DEF ExternalInv, InsertInv, MapInv
<1>3. /\ at \in 1..n /\ Way(node, inserting)[at] = Home(node, root)[inserting]
  BY <1>2 DEF OnItsWay
<1>4. Way(node, inserting)[at] = at
  BY <1>1, <1>2, <1>3, WayEndsAt DEF Rooted
<1>5. at = Home(node, root)[inserting]
  BY <1>3, <1>4
<1>6. InArray(data, leaf)
  <2>1. InArray(data, node[Home(node, root)[inserting]])
    BY <1>2, LeafInArray
  <2> QED  BY <1>5, <2>1
<1>7. leaf.size > 0
  <2>1. leaf.size # 0 /\ leaf \in LeafRecord
    BY <1>2, <1>5, <1>6 DEF OnItsWay, FindsRecords, InArray
  <2> HIDE DEF leaf
  <2>2. leaf.size \in Nat /\ leaf.size # 0
    BY <2>1, LeafIs
  <2> QED  BY <2>2
<1>8. Splits(node, root, data, at)
  BY <1>2, <1>3, <1>6, <1>7 DEF Splits
<1>9. Inner(at) = InnerOf(node, data, at)
  BY DEF Inner, InnerOf, SplitLine
<1>10. \A b : Part(at, b) = PartOf(data, leaf, b)
  BY DEF Part, PartOf, Inner, SplitLine
<1>11. ASSUME NEW c \in 0..Children - 1
       PROVE  Child(c) = ChildLeaf(data, leaf, c)
  <2>1. /\ Cardinality(Part(at, c)) = CutAt(data, leaf, c)
        /\ CutBefore(data, leaf, c) \in Nat
        /\ ChildStart(at, c) = leaf.m_left + CutBefore(data, leaf, c)
    <3>1. /\ CutBefore(data, leaf, c) \in Nat
          /\ Cardinality(PartOf(data, leaf, c)) = CutAt(data, leaf, c)
          /\ Cardinality(UNION {PartOf(data, leaf, b) : b \in 0..c - 1})
               = CutBefore(data, leaf, c)
      <4> HIDE DEF leaf
      <4> QED  BY <1>2, <1>6, <1>7, PartsAre
    <3>2. {Part(at, b) : b \in 0..c - 1} = {PartOf(data, leaf, b) : b \in 0..c - 1}
      BY <1>10
    <3>3. ChildStart(at, c) = leaf.m_left + Cardinality(UNION {Part(at, b) : b \in 0..c - 1})
      BY DEF ChildStart
    <3> HIDE DEF leaf
    <3> QED  BY <1>10, <3>1, <3>2, <3>3
  <2>2. leaf.m_left \in Nat
    BY <1>6, LeafIs DEF InArray
  <2>3. (leaf.m_left + CutBefore(data, leaf, c)) - leaf.m_left = CutBefore(data, leaf, c)
    BY <2>1, <2>2
  <2>4. Child(c) = TrainLeaf(ChildStart(at, c), Extract(data, leaf),
                             ChildStart(at, c) - leaf.m_left, Cardinality(Part(at, c)))
    OBVIOUS
  <2> HIDE DEF Child, leaf
  <2> QED  BY <2>1, <2>3, <2>4 DEF ChildLeaf
<1>12. n \in Nat /\ Children \in Nat
  BY <1>2, TreeAssumption DEF Rooted, Tree
<1> HIDE DEF Child
<1>13. node' = SplitAt(node, data, at)
  <2>1. ASSUME NEW i \in 1..n + Children
        PROVE  (IF i = at THEN Inner(at)
                ELSE IF i >= n + 1 THEN Child(i - (n + 1)) ELSE node[i])
               = (IF i = at THEN InnerOf(node, data, at)
                  ELSE IF i >= n + 1 THEN ChildLeaf(data, leaf, i - (n + 1)) ELSE node[i])
    <3>1. i >= n + 1 => i - (n + 1) \in 0..Children - 1
      <4> HIDE DEF n
      <4> QED  BY <1>12
    <3>2. i >= n + 1 => Child(i - (n + 1)) = ChildLeaf(data, leaf, i - (n + 1))
      BY <1>11, <3>1
    <3> QED  BY <1>9, <3>2
  <2>2. SplitAt(node, data, at)
          = [i \in 1..n + Children |->
               IF i = at THEN InnerOf(node, data, at)
               ELSE IF i >= n + 1 THEN ChildLeaf(data, leaf, i - (n + 1)) ELSE node[i]]
    BY DEF SplitAt
  <2> HIDE DEF leaf, n
  <2> QED  BY <1>1, <2>1, <2>2
<1>14. at' = PartFor(node, data, at, inserting)
  BY <1>1, <1>9 DEF ChildOf, InnerOf, PartFor
<1> QED  BY <1>1, <1>2, <1>5, <1>8, <1>13, <1>14

LEMMA SplitKeepsInv ==
  ASSUME ExternalInv, Split
  PROVE  ExternalInv' /\ ~ Full(node'[at'])
<1>1. /\ inserting \in Key /\ at = Home(node, root)[inserting]
      /\ Splits(node, root, data, at) /\ Full(node[at]) /\ node[at].kind # "inner"
      /\ OnItsWay(node, root, data, at, inserting)
      /\ node' = SplitAt(node, data, at) /\ at' = PartFor(node, data, at, inserting)
      /\ root' = root /\ data' = data /\ currsize' = currsize /\ inserting' = inserting
      /\ it' = it
  BY SplitIs
<1>2. /\ Rooted(node, root) /\ Records(data) /\ Len(data) > 0 /\ currsize = Len(data)
      /\ Convex(Home(node, root)) /\ SharedOut(node, Home(node, root), data)
  BY DEF ExternalInv, MapInv
<1>3. MapInv'
  <2>1. Rooted(node', root)
    BY <1>1, SplitNodes
  <2>2. Convex(Home(node', root))
    BY <1>1, <1>2, SplitConvex
  <2>3. SharedOut(node', Home(node', root), data)
    BY <1>1, <1>2, SplitShared
  <2> QED  BY <1>1, <1>2, <2>1, <2>2, <2>3 DEF MapInv
<1>4. /\ OnItsWay(node', root, data, at', inserting)
      /\ ~ Full(node'[at'])
  <2>1. inserting > data[Len(data)] /\ FindsRecords(data, node[at], inserting)
    BY <1>1 DEF OnItsWay
  <2> QED  BY <1>1, <2>1, SplitLeavesRoom
<1>5. InsertInv'
  <2>1. inserting # 0
    BY <1>1, KeysAreNumbers
  <2> QED  BY <1>1, <1>4, <2>1 DEF InsertInv
<1>6. ItInv'
  BY <1>1 DEF ExternalInv, ItInv
<1> QED  BY <1>3, <1>4, <1>5, <1>6 DEF ExternalInv

----------------------------------------------------------------------------
(* What Find comes to.                                                     *)
(*                                                                         *)
(* The records before the slot are less than k, those behind it greater.   *)
PartsAt(keys, k, s) ==
  /\ s \in 0..Len(keys) - 1
  /\ \A q \in 1..Len(keys) : /\ q <= s => keys[q] < k
                             /\ s + 1 < q => k < keys[q]

(* In a leaf with records.                                                 *)
LEMMA FoundInLeaf ==
  ASSUME NEW keys, Records(keys), NEW nd, NEW rt, Rooted(nd, rt),
         Convex(Home(nd, rt)), SharedOut(nd, Home(nd, rt), keys),
         NEW k \in Key, nd[Home(nd, rt)[k]].size # 0
  PROVE  PartsAt(keys, k, FindIn(keys, nd[Home(nd, rt)[k]], k))
<1> DEFINE home == Home(nd, rt)
           leaf == nd[home[k]]
           m == leaf.m_left
           n == leaf.size
           z == Len(keys)
           s == FindIn(keys, leaf, k)
<1>1. /\ InArray(keys, leaf)
      /\ \A p \in 1..z : home[keys[p]] = home[k] <=> m < p /\ p <= m + n
  BY LeafInArray
<1>2. m \in Nat /\ n \in Nat /\ n > 0 /\ m + n <= z
  <2>1. leaf.m_left \in Nat /\ leaf.size \in Nat /\ leaf.m_left + leaf.size <= z
    <3> HIDE DEF leaf
    <3> QED  BY <1>1, LeafIs DEF InArray
  <2> QED  BY <2>1
<1>3. /\ z \in Nat /\ \A p \in 1..z : keys[p] \in Key /\ keys[p] \in Int
      /\ \A p, q \in 1..z : p < q => keys[p] < keys[q]
      /\ \A p, q \in 1..z : p <= q => keys[p] <= keys[q]
      /\ k \in Int
  BY RecordsAre, KeysAreNumbers
<1>4. \A j, l, x \in Key : j <= l /\ l <= x /\ home[j] = home[x] => home[l] = home[j]
  BY DEF Convex
<1>5. FirstNotLess(keys, k, m, m + n - 1, s)
  <2>1. leaf.size > 0
    BY <1>2
  <2> HIDE DEF leaf
  <2> QED  BY <1>1, <1>3, <2>1, FindInIs
<1> HIDE DEF home, leaf, m, n, z, s
<1>6. s \in m..m + n - 1 /\ s \in 0..z - 1 /\ s + 1 \in 1..z
  <2>1. s \in m..m + n - 1
    BY <1>5 DEF FirstNotLess
  <2> QED  BY <1>2, <1>3, <2>1
<1>7. ASSUME NEW p \in 0..z - 1
      PROVE  KeyAt(keys, p) = keys[p + 1]
  <2>1. p \in Int
    BY <1>3
  <2> QED  BY <2>1, KeyAtIs DEF z
<1>8. home[keys[s + 1]] = home[k]
  <2>1. m < s + 1 /\ s + 1 <= m + n
    BY <1>2, <1>6
  <2> QED  BY <1>1, <1>6, <2>1
<1>9. ASSUME NEW q \in 1..z, q <= s
      PROVE  keys[q] < k
  <2>1. CASE m < q
    <3>1. q - 1 \in m..s - 1 /\ q - 1 \in 0..z - 1 /\ (q - 1) + 1 = q
      BY <1>2, <1>3, <1>6, <1>9, <2>1
    <3>2. KeyAt(keys, q - 1) < k
      BY <1>5, <3>1 DEF FirstNotLess
    <3> QED  BY <1>7, <3>1, <3>2
  <2>2. CASE q <= m
    <3> SUFFICES ASSUME k <= keys[q] PROVE FALSE
      BY <1>3
    <3>1. home[keys[q]] # home[k]
      BY <1>1, <1>2, <2>2
    <3>2. keys[q] <= keys[s + 1]
      BY <1>3, <1>6, <1>9
    <3>3. home[keys[q]] = home[k]
      BY <1>3, <1>4, <1>6, <1>8, <3>2
    <3> QED  BY <3>1, <3>3
  <2> QED  BY <1>2, <2>1, <2>2
<1>10. ASSUME NEW q \in 1..z, s + 1 < q
       PROVE  k < keys[q]
  <2>1. keys[s + 1] < keys[q] /\ keys[s + 1] \in Int /\ keys[q] \in Int /\ keys[q] \in Key
        /\ keys[s + 1] \in Key
    BY <1>3, <1>6, <1>10
  <2>2. CASE k <= keys[s + 1]
    BY <1>3, <2>1, <2>2
  <2>3. CASE keys[s + 1] < k
    <3> SUFFICES ASSUME keys[q] <= k PROVE FALSE
      BY <1>3, <2>1
    <3>1. s = m + n - 1
      <4>1. KeyAt(keys, s) = keys[s + 1]
        BY <1>6, <1>7
      <4>2. ~ (k <= KeyAt(keys, s))
        BY <1>3, <2>1, <2>3, <4>1
      <4> QED  BY <1>5, <4>2 DEF FirstNotLess
    <3>2. keys[s + 1] <= keys[q] /\ keys[q] <= k
      BY <2>1
    <3>3. home[keys[q]] = home[keys[s + 1]]
      BY <1>4, <1>8, <2>1, <3>2
    <3>4. home[keys[q]] = home[k]
      BY <1>8, <3>3
    <3>5. q <= m + n
      BY <1>1, <3>4
    <3> QED  BY <1>2, <1>6, <1>10, <3>1, <3>5
  <2> QED  BY <1>3, <2>1, <2>2, <2>3
<1>11. PartsAt(keys, k, s)
  BY <1>6, <1>9, <1>10 DEF PartsAt, z
<1> QED  BY <1>11 DEF s, leaf, home

(* In a leaf without: there is no record with the key, and the slot is that*)
(* of no record less than k.                                               *)
NoneFound(keys, k, s) ==
  /\ \A q \in 1..Len(keys) : keys[q] # k
  /\ s \in {-1, Len(keys)}

LEMMA FoundInNoLeaf ==
  ASSUME NEW keys, Records(keys), NEW nd, NEW rt, Rooted(nd, rt),
         SharedOut(nd, Home(nd, rt), keys),
         NEW k \in Key, nd[Home(nd, rt)[k]].size = 0
  PROVE  NoneFound(keys, k, FindIn(keys, nd[Home(nd, rt)[k]], k))
<1> DEFINE home == Home(nd, rt)
           leaf == nd[home[k]]
           m == leaf.m_left
           z == Len(keys)
           s == FindIn(keys, leaf, k)
<1>1. /\ InArray(keys, leaf)
      /\ \A p \in 1..z : home[keys[p]] = home[k] <=> m < p /\ p <= m + leaf.size
  BY LeafInArray
<1>2. m \in Nat /\ leaf.size = 0 /\ m <= z
  <2>1. leaf.m_left \in Nat /\ leaf.m_left + leaf.size <= z
    <3> HIDE DEF leaf
    <3> QED  BY <1>1, LeafIs DEF InArray
  <2> QED  BY <2>1
<1>3. z \in Nat /\ k \in Int
  BY RecordsAre, KeysAreNumbers
<1>4. s = -1 \/ (s = m /\ KeyAt(keys, m) = k)
  <2> HIDE DEF leaf
  <2> QED  BY <1>1, <1>2, <1>3, FindInNone
<1>5. ASSUME NEW q \in 1..z, keys[q] = k
      PROVE  FALSE
  <2>1. m < q /\ q <= m + 0
    BY <1>1, <1>2, <1>5
  <2> QED  BY <1>2, <2>1
<1> HIDE DEF m, s, leaf, z
<1>6. ASSUME s = m, KeyAt(keys, m) = k
      PROVE  m = z
  <2> SUFFICES ASSUME m < z PROVE FALSE
    BY <1>2, <1>3
  <2>1. m \in 0..z - 1 /\ m + 1 \in 1..z /\ m \in Int
    BY <1>2, <1>3
  <2>2. KeyAt(keys, m) = keys[m + 1]
    BY <2>1, KeyAtIs DEF z
  <2> QED  BY <1>5, <1>6, <2>1, <2>2
<1>7. s \in {-1, z}
  BY <1>4, <1>6
<1>8. NoneFound(keys, k, s)
  BY <1>5, <1>7 DEF NoneFound, z
<1> QED  BY <1>8 DEF s, leaf, home

LEMMA SlotIs ==
  ASSUME MapInv, NEW k \in Key
  PROVE  \/ ~ IsEmptyLeafFor(k) /\ PartsAt(data, k, Slot(k))
         \/ IsEmptyLeafFor(k) /\ NoneFound(data, k, Slot(k))
<1>1. /\ Rooted(node, root) /\ Records(data)
      /\ Convex(Home(node, root)) /\ SharedOut(node, Home(node, root), data)
  BY DEF MapInv
<1>2. /\ Slot(k) = FindIn(data, node[Home(node, root)[k]], k)
      /\ IsEmptyLeafFor(k) <=> node[Home(node, root)[k]].size = 0
  BY LeafForHome DEF Slot, IsEmptyLeafFor
<1>3. CASE node[Home(node, root)[k]].size = 0
  <2>1. NoneFound(data, k, FindIn(data, node[Home(node, root)[k]], k))
    BY <1>1, <1>3, FoundInNoLeaf
  <2> QED  BY <1>2, <1>3, <2>1
<1>4. CASE node[Home(node, root)[k]].size # 0
  <2>1. PartsAt(data, k, FindIn(data, node[Home(node, root)[k]], k))
    BY <1>1, <1>4, FoundInLeaf
  <2> QED  BY <1>2, <1>4, <2>1
<1> QED  BY <1>3, <1>4

----------------------------------------------------------------------------
(* The bounds.                                                             *)
Before(keys, k) == Cardinality({i \in 1..Len(keys) : keys[i] < k})
NotBehind(keys, k) == Cardinality({i \in 1..Len(keys) : keys[i] <= k})

LEMMA CountsAre ==
  ASSUME NEW keys, Records(keys), NEW k \in Key, NEW s, PartsAt(keys, k, s)
  PROVE  /\ Before(keys, k) = IF keys[s + 1] < k THEN s + 1 ELSE s
         /\ NotBehind(keys, k) = IF keys[s + 1] <= k THEN s + 1 ELSE s
<1> DEFINE z == Len(keys)
           L == {i \in 1..z : keys[i] < k}
           U == {i \in 1..z : keys[i] <= k}
<1>1. /\ z \in Nat /\ \A p \in 1..z : keys[p] \in Int
      /\ k \in Int
  BY RecordsAre, KeysAreNumbers
<1>2. /\ s \in 0..z - 1
      /\ \A q \in 1..z : (q <= s => keys[q] < k) /\ (s + 1 < q => k < keys[q])
  BY DEF PartsAt
<1> HIDE DEF z
<1>3. s \in Nat /\ s + 1 \in 1..z /\ s + 1 \in Nat
  BY <1>1, <1>2
<1>4. \A i \in 1..z : i <= s \/ i = s + 1 \/ s + 1 < i
  BY <1>3
<1>5. L = IF keys[s + 1] < k THEN 1..s + 1 ELSE 1..s
  <2>1. \A i \in 1..z : /\ i <= s => keys[i] < k
                        /\ s + 1 < i => ~ (keys[i] < k)
    BY <1>1, <1>2
  <2>2. 1..s \subseteq 1..z /\ 1..s + 1 \subseteq 1..z
    BY <1>1, <1>3
  <2>3. CASE keys[s + 1] < k
    <3>1. \A i \in 1..z : keys[i] < k <=> i <= s + 1
      BY <1>3, <1>4, <2>1, <2>3
    <3>2. \A i \in 1..z : i \in 1..s + 1 <=> i <= s + 1
      BY <1>3
    <3> QED  BY <2>2, <2>3, <3>1, <3>2
  <2>4. CASE ~ (keys[s + 1] < k)
    <3>1. \A i \in 1..z : keys[i] < k <=> i <= s
      BY <1>3, <1>4, <2>1, <2>4
    <3>2. \A i \in 1..z : i \in 1..s <=> i <= s
      BY <1>3
    <3> QED  BY <2>2, <2>4, <3>1, <3>2
  <2> QED  BY <2>3, <2>4
<1>6. U = IF keys[s + 1] <= k THEN 1..s + 1 ELSE 1..s
  <2>1. \A i \in 1..z : /\ i <= s => keys[i] <= k
                        /\ s + 1 < i => ~ (keys[i] <= k)
    BY <1>1, <1>2
  <2>2. 1..s \subseteq 1..z /\ 1..s + 1 \subseteq 1..z
    BY <1>1, <1>3
  <2>3. CASE keys[s + 1] <= k
    <3>1. \A i \in 1..z : keys[i] <= k <=> i <= s + 1
      BY <1>3, <1>4, <2>1, <2>3
    <3>2. \A i \in 1..z : i \in 1..s + 1 <=> i <= s + 1
      BY <1>3
    <3> QED  BY <2>2, <2>3, <3>1, <3>2
  <2>4. CASE ~ (keys[s + 1] <= k)
    <3>1. \A i \in 1..z : keys[i] <= k <=> i <= s
      BY <1>3, <1>4, <2>1, <2>4
    <3>2. \A i \in 1..z : i \in 1..s <=> i <= s
      BY <1>3
    <3> QED  BY <2>2, <2>4, <3>1, <3>2
  <2> QED  BY <2>3, <2>4
<1>7. Cardinality(1..s) = s /\ Cardinality(1..s + 1) = s + 1
  BY <1>3, FS_Interval
<1>8. Before(keys, k) = Cardinality(L) /\ NotBehind(keys, k) = Cardinality(U)
  BY DEF Before, NotBehind, z
<1> HIDE DEF L, U
<1> QED  BY <1>5, <1>6, <1>7, <1>8

LEMMA CountsWithout ==
  ASSUME NEW keys, Records(keys), NEW k \in Key, NEW s, NoneFound(keys, k, s)
  PROVE  /\ Before(keys, k) = NotBehind(keys, k)
         /\ Len(keys) > 0 /\ k > keys[Len(keys)] => Before(keys, k) = Len(keys)
<1> DEFINE z == Len(keys)
<1>1. /\ z \in Nat /\ \A p \in 1..z : keys[p] \in Int
      /\ \A p, q \in 1..z : p <= q => keys[p] <= keys[q]
      /\ k \in Int
  BY RecordsAre, KeysAreNumbers
<1>2. \A i \in 1..z : keys[i] <= k <=> keys[i] < k
  BY <1>1 DEF NoneFound
<1>3. {i \in 1..z : keys[i] < k} = {i \in 1..z : keys[i] <= k}
  BY <1>2
<1>4. ASSUME z > 0, k > keys[z]
      PROVE  Before(keys, k) = z
  <2>1. \A i \in 1..z : keys[i] < k
    <3> HIDE DEF z
    <3> TAKE i \in 1..z
    <3>1. keys[i] <= keys[z] /\ keys[i] \in Int /\ keys[z] \in Int
      BY <1>1, <1>4
    <3> QED  BY <1>1, <1>4, <3>1
  <2>2. {i \in 1..z : keys[i] < k} = 1..z
    BY <2>1
  <2>3. Cardinality(1..z) = z
    <3> HIDE DEF z
    <3> QED  BY <1>1, FS_Interval
  <2> QED  BY <2>2, <2>3 DEF Before
<1> QED  BY <1>3, <1>4 DEF Before, NotBehind

(* The last record is where the comparison begins.                         *)
LEMMA BoundsInLeaf ==
  ASSUME MapInv, NEW k \in Key, PartsAt(data, k, Slot(k))
  PROVE  /\ LowerBound(k) = Before(data, k)
         /\ UpperBound(k) = NotBehind(data, k)
         /\ Found(k) = IF Before(data, k) < NotBehind(data, k) THEN Before(data, k)
                       ELSE Len(data)
<1> DEFINE s == Slot(k)
           z == Len(data)
           x == data[s + 1]
           B == {p \in 0..s : RecordAt(p) < k}
           A == {p \in s..z - 1 : RecordAt(p) > k}
<1>1. /\ z \in Nat /\ currsize = z /\ k \in Int /\ Records(data)
      /\ \A p \in 1..z : data[p] \in Int
  BY RecordsAre, KeysAreNumbers DEF MapInv
<1>2. /\ s \in 0..z - 1
      /\ \A q \in 1..z : (q <= s => data[q] < k) /\ (s + 1 < q => k < data[q])
  BY DEF PartsAt
<1>3. /\ Before(data, k) = IF x < k THEN s + 1 ELSE s
      /\ NotBehind(data, k) = IF x <= k THEN s + 1 ELSE s
  <2> HIDE DEF s
  <2> QED  BY <1>1, CountsAre DEF s
<1>4. /\ LowerBound(k) = IF s < 0 \/ s >= z THEN z
                         ELSE IF RecordAt(s) < k THEN NextSlot(s)
                         ELSE IF B = {} THEN 0 ELSE Max(B) + 1
      /\ UpperBound(k) = IF s < 0 \/ s >= z THEN z ELSE Min({z} \cup A)
      /\ Found(k) = IF s < 0 \/ RecordAt(s) # k THEN z ELSE s
  BY <1>1 DEF LowerBound, UpperBound, Found
<1> HIDE DEF z
<1>5. ASSUME NEW p \in 0..z - 1
      PROVE  RecordAt(p) = data[p + 1] /\ p + 1 \in 1..z
  <2>1. p \in Int /\ p + 1 \in 1..z
    BY <1>1
  <2> QED  BY <1>1, <2>1, KeyAtIs DEF RecordAt, z
<1> HIDE DEF s, x
<1>6. /\ s \in Nat /\ s < z /\ s + 1 \in 1..z /\ RecordAt(s) = x /\ x \in Int
      /\ ~ (s < 0 \/ s >= z)
  <2>1. s \in Nat /\ s < z /\ s + 1 \in 1..z /\ ~ (s < 0 \/ s >= z)
    BY <1>1, <1>2
  <2> QED  BY <1>1, <1>2, <1>5, <2>1 DEF x
<1>7. LowerBound(k) = IF x < k THEN s + 1 ELSE s
  <2>1. CASE x < k
    <3>1. LowerBound(k) = NextSlot(s)
      BY <1>4, <1>6, <2>1
    <3>2. NextSlot(s) = s + 1
      BY <1>1, <1>6 DEF NextSlot
    <3> QED  BY <2>1, <3>1, <3>2
  <2>2. CASE ~ (x < k)
    <3>1. B = 0..s - 1
      <4>1. ASSUME NEW p \in 0..s
            PROVE  RecordAt(p) < k <=> p <= s - 1
        <5>1. p \in 0..z - 1
          BY <1>1, <1>6
        <5>2. CASE p = s
          BY <1>6, <2>2, <5>2
        <5>3. CASE p # s
          <6>1. p + 1 <= s /\ p <= s - 1
            BY <1>6, <5>3
          <6> QED  BY <1>2, <1>5, <5>1, <6>1
        <5> QED  BY <5>2, <5>3
      <4> QED  BY <1>6, <4>1
    <3>2. LowerBound(k) = IF B = {} THEN 0 ELSE Max(B) + 1
      BY <1>4, <1>6, <2>2
    <3> HIDE DEF B
    <3>3. CASE s = 0
      <4>1. B = {}
        BY <3>1, <3>3
      <4> QED  BY <2>2, <3>2, <3>3, <4>1
    <3>4. CASE s # 0
      <4>0. s - 1 \in Nat /\ s - 1 \in 0..s - 1
        BY <1>6, <3>4
      <4>1. s - 1 \in B /\ B \subseteq 0..s - 1 /\ B # {} /\ s - 1 \in Nat
        BY <3>1, <4>0
      <4>2. Max(B) \in B /\ \A p \in B : p <= Max(B)
        BY <4>1, MaxOfNumbers
      <4>3. Max(B) \in 0..s - 1 /\ s - 1 <= Max(B)
        BY <4>1, <4>2
      <4>4. Max(B) + 1 = s
        BY <1>6, <4>3
      <4> QED  BY <2>2, <3>2, <4>1, <4>4
    <3> QED  BY <3>3, <3>4
  <2> QED  BY <2>1, <2>2
<1>8. UpperBound(k) = IF x <= k THEN s + 1 ELSE s
  <2> DEFINE T == {z} \cup A
             u == IF x <= k THEN s + 1 ELSE s
  <2>1. ASSUME NEW p \in s..z - 1
        PROVE  RecordAt(p) > k <=> p >= u
    <3>1. p \in 0..z - 1 /\ p + 1 \in 1..z
      BY <1>1, <1>6
    <3>2. CASE p = s
      <4>1. RecordAt(p) = x
        BY <1>6, <3>2
      <4>2. x > k <=> ~ (x <= k)
        BY <1>1, <1>6
      <4>3. s >= u <=> ~ (x <= k)
        BY <1>6
      <4> QED  BY <3>2, <4>1, <4>2, <4>3
    <3>3. CASE p # s
      <4>1. s + 1 < p + 1 /\ p >= s + 1 /\ p >= s
        BY <1>1, <1>6, <3>3
      <4>2. k < data[p + 1] /\ RecordAt(p) = data[p + 1] /\ data[p + 1] \in Int
        BY <1>1, <1>2, <1>5, <3>1, <4>1
      <4> QED  BY <1>1, <4>1, <4>2
    <3> QED  BY <3>2, <3>3
  <2>2. u \in s..z
    BY <1>1, <1>6
  <2>3. A = {p \in s..z - 1 : p >= u}
    BY <2>1
  <2> HIDE DEF u
  <2>4. u \in T /\ \A p \in T : u <= p
    <3>1. \A p \in A : u <= p
      BY <1>6, <1>1, <2>2, <2>3
    <3>2. u = z \/ u \in A
      <4>1. u = z \/ u \in s..z - 1
        BY <1>1, <1>6, <2>2
      <4>2. u >= u
        BY <1>6, <1>1, <2>2
      <4> QED  BY <2>3, <4>1, <4>2
    <3> QED  BY <1>1, <1>6, <2>2, <3>1, <3>2
  <2>5. T \subseteq Nat
    BY <1>1, <1>6
  <2> HIDE DEF T
  <2>6. Min(T) \in T /\ \A p \in T : Min(T) <= p
    BY <2>4, <2>5, MinOfNumbers
  <2>7. Min(T) <= u /\ u <= Min(T) /\ u \in Nat /\ Min(T) \in Nat
    BY <2>4, <2>5, <2>6
  <2>8. Min(T) = u
    BY <2>7
  <2> QED  BY <1>4, <1>6, <2>8 DEF T, u
<1>9. Found(k) = IF x = k THEN s ELSE z
  BY <1>4, <1>6
<1>10. x < k => x <= k /\ x # k
  BY <1>1, <1>6
<1>11. CASE x < k
  <2>1. Before(data, k) = s + 1 /\ NotBehind(data, k) = s + 1 /\ ~ (s + 1 < s + 1)
        /\ x <= k /\ x # k
    BY <1>3, <1>6, <1>10, <1>11
  <2> QED  BY <1>7, <1>8, <1>9, <1>11, <2>1 DEF z
<1>12. CASE x = k
  <2>1. Before(data, k) = s /\ NotBehind(data, k) = s + 1 /\ s < s + 1 /\ ~ (x < k) /\ x <= k
    BY <1>1, <1>3, <1>6, <1>12
  <2> QED  BY <1>7, <1>8, <1>9, <1>12, <2>1 DEF z
<1>13. CASE x > k
  <2>1. ~ (x < k) /\ ~ (x <= k) /\ x # k /\ ~ (s < s)
    BY <1>1, <1>6, <1>13
  <2>2. Before(data, k) = s /\ NotBehind(data, k) = s
    BY <1>3, <2>1
  <2> QED  BY <1>7, <1>8, <1>9, <2>1, <2>2 DEF z
<1>14. x < k \/ x = k \/ x > k
  BY <1>1, <1>6
<1> QED  BY <1>11, <1>12, <1>13, <1>14

(* Without records in the leaf, each of them is end().                     *)
LEMMA BoundsInNoLeaf ==
  ASSUME MapInv, NEW k \in Key, NoneFound(data, k, Slot(k))
  PROVE  LowerBound(k) = Len(data) /\ UpperBound(k) = Len(data) /\ Found(k) = Len(data)
<1>1. currsize = Len(data) /\ Len(data) \in Nat
  BY RecordsAre DEF MapInv
<1>2. Slot(k) = -1 \/ Slot(k) = currsize
  BY <1>1 DEF NoneFound
<1>3. Slot(k) < 0 \/ Slot(k) >= currsize
  BY <1>1, <1>2
<1>4. LowerBound(k) = currsize /\ UpperBound(k) = currsize
  BY <1>3 DEF LowerBound, UpperBound
<1>5. Found(k) = IF Slot(k) < 0 \/ RecordAt(Slot(k)) # k THEN currsize ELSE Slot(k)
  BY DEF Found
<1>6. Found(k) = currsize
  BY <1>2, <1>5
<1> QED  BY <1>1, <1>4, <1>6

LEMMA BoundsAreSlots ==
  ASSUME MapInv, NEW k \in Key
  PROVE  LowerBound(k) \in 0..currsize /\ UpperBound(k) \in 0..currsize /\ Found(k) \in 0..currsize
<1>1. currsize = Len(data) /\ Len(data) \in Nat /\ Records(data)
  BY RecordsAre DEF MapInv
<1>2. CASE PartsAt(data, k, Slot(k))
  <2> DEFINE s == Slot(k)
             b == Before(data, k)
             e == NotBehind(data, k)
  <2>1. (b = s \/ b = s + 1) /\ (e = s \/ e = s + 1)
    <3> HIDE DEF s
    <3> QED  BY <1>1, <1>2, CountsAre DEF s
  <2>2. s \in 0..Len(data) - 1
    BY <1>2 DEF PartsAt
  <2>3. LowerBound(k) = b /\ UpperBound(k) = e /\ Found(k) = IF b < e THEN b ELSE Len(data)
    BY <1>2, BoundsInLeaf
  <2> HIDE DEF s, b, e
  <2>4. b \in 0..currsize /\ e \in 0..currsize /\ Len(data) \in 0..currsize
    BY <1>1, <2>1, <2>2
  <2> QED  BY <2>3, <2>4
<1>3. CASE NoneFound(data, k, Slot(k))
  <2>1. Len(data) \in 0..currsize
    BY <1>1
  <2> QED  BY <1>3, <2>1, BoundsInNoLeaf
<1> QED  BY <1>2, <1>3, SlotIs

----------------------------------------------------------------------------
(* The iterators.                                                          *)
IsPlace(x) ==
  /\ x = [class |-> x.class, slot |-> x.slot]
  /\ x.class \in Forward \cup Backward /\ x.slot \in 0..currsize

LEMMA TakeKeepsInv ==
  ASSUME ExternalInv, NEW op, NEW k, NEW x, Take(op, k, x), IsPlace(x)
  PROVE  ExternalInv'
<1>1. /\ inserting = 0 /\ inserting' = 0 /\ at' = at /\ it' = x
      /\ UNCHANGED <<root, node, data, currsize>>
  BY DEF Take, tree
<1>2. MapInv'
  BY <1>1 DEF ExternalInv, MapInv
<1>3. InsertInv'
  BY <1>1 DEF ExternalInv, InsertInv
<1>4. x.class # "none"
  BY DEF IsPlace, Forward, Backward
<1>5. ItInv'
  BY <1>1, <1>4 DEF ItInv, Classes, IsPlace
<1> QED  BY <1>2, <1>3, <1>5 DEF ExternalInv

LEMMA SizeIsNumber ==
  ASSUME ExternalInv
  PROVE  currsize \in Nat /\ currsize = Len(data) /\ currsize > 0
<1>1. Records(data) /\ Len(data) > 0 /\ currsize = Len(data)
  BY DEF ExternalInv, MapInv
<1> QED  BY <1>1, RecordsAre

LEMMA AtIsPlace ==
  ASSUME NEW class \in Forward \cup Backward, NEW slot \in 0..currsize
  PROVE  IsPlace(At(class, slot))
BY DEF IsPlace, At

LEMMA EdgeKeepsInv ==
  ASSUME ExternalInv, Edge
  PROVE  ExternalInv'
<1>1. 0 \in 0..currsize /\ currsize \in 0..currsize
  BY SizeIsNumber
<1>2. PICK op \in {"begin", "end", "rbegin", "rend"}, class \in Forward \cup Backward,
           slot \in {0, currsize} : Take(op, 0, At(class, slot))
  BY DEF Edge, Forward, Backward
<1>3. IsPlace(At(class, slot))
  BY <1>1, AtIsPlace
<1> QED  BY <1>2, <1>3, TakeKeepsInv

LEMMA StepsStay ==
  ASSUME ExternalInv
  PROVE  /\ NextSlot(it.slot) \in 0..currsize /\ PreviousSlot(it.slot) \in 0..currsize
         /\ ReverseNextSlot(it.slot) \in 0..currsize
         /\ ReversePreviousSlot(it.slot) \in 0..currsize
<1> DEFINE s == it.slot
<1>1. currsize \in Nat /\ s \in 0..currsize
  BY SizeIsNumber DEF ExternalInv, ItInv
<1> HIDE DEF s
<1>2. /\ NextSlot(s) \in 0..currsize /\ PreviousSlot(s) \in 0..currsize
      /\ ReverseNextSlot(s) \in 0..currsize /\ ReversePreviousSlot(s) \in 0..currsize
  BY <1>1 DEF NextSlot, PreviousSlot, ReverseNextSlot, ReversePreviousSlot
<1> QED  BY <1>2 DEF s

(* A held iterator at another slot, and one of another class.              *)
LEMMA MovedIs ==
  ASSUME ItInv, NEW s
  PROVE  [it EXCEPT !.slot = s] = At(it.class, s)
BY DEF ItInv, At

LEMMA StepKeepsInv ==
  ASSUME ExternalInv, StepForward \/ StepReverse
  PROVE  ExternalInv'
<1>1. PICK op \in {"++", "--"},
           s \in {NextSlot(it.slot), PreviousSlot(it.slot),
                  ReverseNextSlot(it.slot), ReversePreviousSlot(it.slot)} :
        it.class \in Forward \cup Backward /\ Take(op, 0, [it EXCEPT !.slot = s])
  BY DEF StepForward, StepReverse
<1>2. s \in 0..currsize
  BY StepsStay
<1>3. [it EXCEPT !.slot = s] = At(it.class, s)
  BY MovedIs DEF ExternalInv
<1>4. IsPlace(At(it.class, s))
  BY <1>1, <1>2, AtIsPlace
<1> QED  BY <1>1, <1>3, <1>4, TakeKeepsInv

LEMMA ConvertIs ==
  ASSUME ExternalInv, Convert
  PROVE  /\ it.class \in Forward \cup Backward
         /\ \E w \in Forward \cup Backward : Take("convert", 0, At(w, it.slot))
<1>1. PICK c \in Conversions : it.class = c[1] /\ Take("convert", 0, [it EXCEPT !.class = c[2]])
  BY DEF Convert
<1>2. c[1] \in Forward \cup Backward /\ c[2] \in Forward \cup Backward
  BY DEF Conversions, Forward, Backward
<1>3. [it EXCEPT !.class = c[2]] = At(c[2], it.slot)
  BY DEF ExternalInv, ItInv, At
<1> QED  BY <1>1, <1>2, <1>3

LEMMA ConvertKeepsInv ==
  ASSUME ExternalInv, Convert
  PROVE  ExternalInv'
<1>1. PICK w \in Forward \cup Backward : Take("convert", 0, At(w, it.slot))
  BY ConvertIs
<1>2. IsPlace(At(w, it.slot))
  BY AtIsPlace DEF ExternalInv, ItInv
<1> QED  BY <1>1, <1>2, TakeKeepsInv

LEMMA LookupKeepsInv ==
  ASSUME ExternalInv, NEW k \in Key, Bound(k) \/ Find(k)
  PROVE  ExternalInv'
<1>1. PICK op \in {"lower_bound", "upper_bound", "find"},
           s \in {LowerBound(k), UpperBound(k), Found(k)} : Take(op, k, At("iterator", s))
  BY DEF Bound, Find
<1>2. s \in 0..currsize
  BY BoundsAreSlots DEF ExternalInv
<1>3. IsPlace(At("iterator", s))
  BY <1>2, AtIsPlace DEF Forward
<1> QED  BY <1>1, <1>3, TakeKeepsInv

----------------------------------------------------------------------------
(* What holds of every state: no leaf without records takes one.           *)
NoOddInsert == "insert into an empty leaf" \notin Odd

LEMMA BeginMeetsRecords ==
  ASSUME NoOddInsert, NEW k, BeginInsert(k)
  PROVE  ~ MeetsEmptyLeaf(k)
BY DEF NoOddInsert, BeginInsert

LEMMA NextKeepsInv ==
  ASSUME NoOddInsert, ExternalInv, [Next]_vars
  PROVE  ExternalInv'
<1>1. CASE Next
  <2>1. CASE Edge
    BY <2>1, EdgeKeepsInv
  <2>2. CASE StepForward \/ StepReverse
    BY <2>2, StepKeepsInv
  <2>3. CASE Convert
    BY <2>3, ConvertKeepsInv
  <2>4. ASSUME NEW k \in Key, Bound(k) \/ Find(k)
        PROVE  ExternalInv'
    BY <2>4, LookupKeepsInv
  <2>5. ASSUME NEW k \in Key, BeginInsert(k)
        PROVE  ExternalInv'
    <3>1. ~ MeetsEmptyLeaf(k)
      BY <2>5, BeginMeetsRecords
    <3> QED  BY <2>5, <3>1, BeginKeepsInv
  <2>6. CASE Descend
    BY <2>6, DescendKeepsInv
  <2>7. CASE InsertIntoLeaf
    BY <2>7, InsertKeepsInv
  <2>8. CASE Split
    BY <2>8, SplitKeepsInv
  <2> QED  BY <1>1, <2>1, <2>2, <2>3, <2>4, <2>5, <2>6, <2>7, <2>8 DEF Next
<1>2. CASE UNCHANGED vars
  BY <1>2 DEF vars, ExternalInv, MapInv, InsertInv, ItInv
<1> QED  BY <1>1, <1>2

(* The invariant gives what the runs check.                                *)
LEMMA InvIsTyped ==
  ASSUME ExternalInv
  PROVE  TypeOK
<1>1. /\ Rooted(node, root) /\ Records(data) /\ currsize = Len(data)
      /\ InsertInv /\ ItInv
  BY DEF ExternalInv, MapInv
<1>2. /\ DOMAIN node = 1..Len(node) /\ Len(node) \in Nat
      /\ \A i \in 1..Len(node) : node[i] \in LeafRecord \/ InnerOK(node[i], i, Len(node))
      /\ root \in [Key -> 1..RootLeaves]
  BY <1>1 DEF Rooted, Tree
<1>3. ASSUME NEW i \in 1..Len(node)
      PROVE  \/ node[i].kind = "inner" /\ node[i].childLeft + Children - 1 \in 1..Len(node)
             \/ /\ IsLeaf(i) /\ node[i].size \in 0..MaxLeafSize + 1
                /\ node[i].error \in 0..MaxLeafSize
  <2>1. CASE node[i] \in LeafRecord
    <3> DEFINE leaf == node[i]
    <3>1. leaf \in LeafRecord
      BY <2>1
    <3> HIDE DEF leaf
    <3>2. leaf.kind = "leaf" /\ leaf.size \in 0..MaxLeafSize + 1 /\ leaf.error \in 0..MaxLeafSize
      BY <3>1, LeafIs
    <3> QED  BY <3>2 DEF leaf, IsLeaf
  <2>2. CASE InnerOK(node[i], i, Len(node))
    <3>1. /\ node[i].kind = "inner" /\ node[i].childLeft \in Nat /\ i < node[i].childLeft
          /\ node[i].childLeft + Children - 1 <= Len(node)
      BY <2>2 DEF InnerOK
    <3> DEFINE c == node[i].childLeft
    <3>2. c \in Nat /\ i < c /\ c + Children - 1 <= Len(node)
      BY <3>1
    <3> HIDE DEF c
    <3>3. c + Children - 1 \in 1..Len(node)
      BY <1>2, <3>2, TreeAssumption
    <3> QED  BY <3>1, <3>3 DEF c
  <2> QED  BY <1>2, <2>1, <2>2
<1>4. ToSet(data) \subseteq Key
  BY <1>1, RecordsAre DEF ToSet
<1>5. inserting \in Key \cup {0} /\ at \in 0..Len(node)
  <2>1. inserting \in Key \cup {0}
    BY <1>1 DEF InsertInv
  <2>2. inserting = 0 => at = 0
    BY <1>1 DEF InsertInv
  <2>3. inserting # 0 => at \in 1..Len(node)
    BY <1>1 DEF InsertInv, OnItsWay
  <2> QED  BY <1>2, <2>1, <2>2, <2>3
<1> QED  BY <1>1, <1>2, <1>3, <1>4, <1>5 DEF TypeOK, ItInv, Classes

LEMMA InvShares ==
  ASSUME ExternalInv
  PROVE  LeavesShareRecords
<1>1. /\ Rooted(node, root) /\ Records(data) /\ currsize = Len(data)
      /\ SharedOut(node, Home(node, root), data)
  BY DEF ExternalInv, MapInv
<1>2. DOMAIN node = 1..Len(node) /\ Len(data) \in Nat /\ \A p \in 1..Len(data) : data[p] \in Key
  BY <1>1, RecordsAre DEF Rooted, Tree
<1>3. ASSUME NEW i \in 1..Len(node), IsLeaf(i)
      PROVE  {p \in 0..currsize - 1 : LeafFor(data[p + 1]) = i}
               = node[i].m_left..node[i].m_left + node[i].size - 1
  <2> DEFINE m == node[i].m_left
             s == node[i].size
  <2>1. node[i].kind # "inner" /\ node[i] \in LeafRecord
    BY <1>1, <1>3, KindsAre DEF IsLeaf, Rooted, Tree
  <2>2. /\ m \in Nat /\ s \in Nat /\ m + s <= Len(data)
        /\ \A p \in 1..Len(data) :
             Home(node, root)[data[p]] = i <=> m < p /\ p <= m + s
    BY <1>1, <2>1, LeafIs DEF SharedOut
  <2>3. \A p \in 1..Len(data) : LeafFor(data[p]) = Home(node, root)[data[p]]
    BY <1>2, LeafForHome
  <2> HIDE DEF m, s
  <2>4. ASSUME NEW p \in 0..currsize - 1
        PROVE  LeafFor(data[p + 1]) = i <=> p \in m..m + s - 1
    <3>1. p + 1 \in 1..Len(data)
      BY <1>1, <1>2
    <3>2. LeafFor(data[p + 1]) = i <=> m < p + 1 /\ p + 1 <= m + s
      BY <2>2, <2>3, <3>1
    <3>3. m < p + 1 /\ p + 1 <= m + s <=> p \in m..m + s - 1
      BY <1>1, <1>2, <2>2
    <3> QED  BY <3>2, <3>3
  <2>5. m..m + s - 1 \subseteq 0..currsize - 1
    BY <1>1, <1>2, <2>2
  <2> QED  BY <2>4, <2>5 DEF m, s
<1> QED  BY <1>2, <1>3 DEF LeavesShareRecords

(* The nodes, the leaves' sizes and errors, the records and the iterator   *)
(* that is held stay in their ranges, if no leaf without records takes one *)
(* (which its Insert counts twice, external_array_type.h:355).             *)
THEOREM ExternalTypeCorrect ==
  ASSUME NoOddInsert
  PROVE  Spec => []TypeOK
<1>1. Init => ExternalInv
  BY InitMakesInv
<1>2. ExternalInv /\ [Next]_vars => ExternalInv'
  BY NextKeepsInv
<1>3. ExternalInv => TypeOK
  BY InvIsTyped
<1> QED  BY <1>1, <1>2, <1>3, PTL DEF Spec

(* The leaves share out the array: through all insertions and splits, the  *)
(* records whose keys lead to a leaf are those of its range, no more and no*)
(* fewer.  Insert only counts a record more in the leaf it comes to, and   *)
(* this must be the one that ends where the array does.                    *)
THEOREM ExternalLeavesShare ==
  ASSUME NoOddInsert
  PROVE  Spec => []LeavesShareRecords
<1>1. Init => ExternalInv
  BY InitMakesInv
<1>2. ExternalInv /\ [Next]_vars => ExternalInv'
  BY NextKeepsInv
<1>3. ExternalInv => LeavesShareRecords
  BY InvShares
<1> QED  BY <1>1, <1>2, <1>3, PTL DEF Spec

(* Insert splits no more than one leaf: a line that is trained on records  *)
(* with different keys gives the first of them another child than the last,*)
(* so that no child is full.                                               *)
THEOREM ExternalSplitMakesRoom ==
  ASSUME NoOddInsert
  PROVE  Spec => SplitMakesRoom
<1>1. Init => ExternalInv
  BY InitMakesInv
<1>2. ExternalInv /\ [Next]_vars => ExternalInv'
  BY NextKeepsInv
<1>3. ExternalInv /\ [Next]_vars
        => [at # 0 /\ IsLeaf(at) /\ at' # 0 => ~ Full(node'[at'])]_vars
  <2> SUFFICES ASSUME ExternalInv, Next, at # 0, IsLeaf(at), at' # 0
               PROVE  ~ Full(node'[at'])
    OBVIOUS
  <2>1. inserting # 0
    BY DEF ExternalInv, InsertInv
  <2>2. ASSUME NEW op, NEW k, NEW x
        PROVE  ~ Take(op, k, x)
    BY <2>1 DEF Take
  <2>3. ~ Edge /\ ~ StepForward /\ ~ StepReverse /\ ~ Convert
    BY <2>2 DEF Edge, StepForward, StepReverse, Convert
  <2>4. \A k \in Key : ~ Bound(k) /\ ~ Find(k)
    BY <2>2 DEF Bound, Find
  <2>5. \A k \in Key : ~ BeginInsert(k)
    BY <2>1 DEF BeginInsert
  <2>6. ~ Descend /\ ~ InsertIntoLeaf
    BY DEF Descend, InsertIntoLeaf
  <2>7. Split
    BY <2>3, <2>4, <2>5, <2>6 DEF Next
  <2> QED  BY <2>7, SplitKeepsInv
<1> QED  BY <1>1, <1>2, <1>3, PTL DEF Spec, SplitMakesRoom

----------------------------------------------------------------------------
(* The refinement: no bound is asked for in a leaf without records either. *)
NothingOdd == Odd = {}

WayOf(x) == IF x.class \in Forward THEN "forward"
            ELSE IF x.class \in Backward THEN "reverse" ELSE "none"

KeyIn(keys, n, x) ==
  CASE x.class \in Forward /\ x.slot # n  -> KeyAt(keys, x.slot)
    [] x.class \in Backward /\ x.slot # 0 -> KeyAt(keys, x.slot - 1)
    [] OTHER                              -> 0

LEMMA KeyOfIs ==
  KeyOf(it) = KeyIn(data, currsize, it) /\ KeyOf(it)' = KeyIn(data', currsize', it')
BY DEF KeyOf, KeyIn, RecordAt, RecordBefore

LEMMA KeyReferred ==
  ASSUME NEW keys, Records(keys), NEW x, x.class \in Classes, x.slot \in 0..Len(keys)
  PROVE  KeyIn(keys, Len(keys), x) = Cursor!Refers(keys, WayOf(x), x.slot)
<1> DEFINE n == Len(keys)
           s == x.slot
           w == WayOf(x)
<1>1. n \in Nat /\ s \in 0..n
  BY RecordsAre
<1> HIDE DEF s, n
<1>2. s \in Int /\ s - 1 \in Int
  BY <1>1
<1>3. s # n => s \in 0..n - 1 /\ s < n /\ KeyAt(keys, s) = keys[s + 1]
  <2>1. s # n => s \in 0..n - 1 /\ s < n
    BY <1>1
  <2> QED  BY <1>2, <2>1, KeyAtIs DEF n
<1>4. s # 0 => s - 1 \in 0..n - 1 /\ s > 0 /\ KeyAt(keys, s - 1) = keys[s]
  <2>1. s # 0 => s - 1 \in 0..n - 1 /\ s > 0 /\ (s - 1) + 1 = s
    BY <1>1
  <2>2. s # 0 => KeyAt(keys, s - 1) = keys[(s - 1) + 1]
    BY <1>2, <2>1, KeyAtIs DEF n
  <2> QED  BY <2>1, <2>2
<1>5. /\ KeyIn(keys, n, x)
           = CASE x.class \in Forward /\ s # n  -> KeyAt(keys, s)
               [] x.class \in Backward /\ s # 0 -> KeyAt(keys, s - 1)
               [] OTHER                         -> 0
      /\ Cursor!Refers(keys, w, s)
           = CASE w = "forward" /\ s < n -> keys[s + 1]
               [] w = "reverse" /\ s > 0 -> keys[s]
               [] OTHER                  -> 0
  BY DEF KeyIn, Cursor!Refers, s, n
<1> HIDE DEF w
<1>6. CASE x.class \in Forward
  <2>1. w = "forward" /\ x.class \notin Backward
    BY <1>6 DEF w, WayOf, Forward, Backward
  <2>2. CASE s = n
    <3>1. ~ (s < n)
      BY <1>1, <2>2
    <3> QED  BY <1>5, <2>1, <2>2, <3>1 DEF n, s, w
  <2>3. CASE s # n
    BY <1>3, <1>5, <1>6, <2>1, <2>3 DEF n, s, w
  <2> QED  BY <2>2, <2>3
<1>7. CASE x.class \in Backward
  <2>1. w = "reverse" /\ x.class \notin Forward
    BY <1>7 DEF w, WayOf, Forward, Backward
  <2>2. CASE s = 0
    <3>1. ~ (s > 0)
      BY <2>2
    <3> QED  BY <1>5, <2>1, <2>2, <3>1 DEF n, s, w
  <2>3. CASE s # 0
    BY <1>4, <1>5, <1>7, <2>1, <2>3 DEF n, s, w
  <2> QED  BY <2>2, <2>3
<1>8. CASE x.class = "none"
  <2>1. w = "none" /\ x.class \notin Forward /\ x.class \notin Backward
    BY <1>8 DEF w, WayOf, Forward, Backward
  <2> QED  BY <1>5, <2>1 DEF n, s, w
<1> QED  BY <1>6, <1>7, <1>8 DEF Classes

LEMMA KeyIsReferred ==
  ASSUME ExternalInv
  PROVE  KeyOf(it) = Cursor!Refers(data, WayOf(it), it.slot)
<1>1. /\ Records(data) /\ currsize = Len(data)
      /\ it.class \in Classes /\ it.slot \in 0..Len(data)
  BY DEF ExternalInv, MapInv, ItInv
<1> QED  BY <1>1, KeyOfIs, KeyReferred

LEMMA KeyIsReferredNext ==
  ASSUME ExternalInv'
  PROVE  KeyOf(it)' = Cursor!Refers(data', WayOf(it'), it'.slot)
<1>1. /\ Records(data') /\ currsize' = Len(data')
      /\ it'.class \in Classes /\ it'.slot \in 0..Len(data')
  BY DEF ExternalInv, MapInv, ItInv
<1> QED  BY <1>1, KeyOfIs, KeyReferred

(* A call that gives an iterator.                                          *)
LEMMA TakeMaps ==
  ASSUME ExternalInv, NEW op, NEW k, NEW x, Take(op, k, x), IsPlace(x)
  PROVE  Cursor!Take(op, k, WayOf(x), x.slot)
<1>1. ExternalInv'
  BY TakeKeepsInv
<1>2. it' = x /\ data' = data /\ call' = <<op, k>>
  BY DEF Take, tree
<1>3. KeyOf(it)' = Cursor!Refers(data', WayOf(it'), it'.slot)
  BY <1>1, KeyIsReferredNext
<1> QED  BY <1>2, <1>3 DEF Cursor!Take, WayOf

LEMMA WaysAre ==
  ASSUME NEW s
  PROVE  /\ \A class \in Forward : WayOf(At(class, s)) = "forward"
         /\ \A class \in Backward : WayOf(At(class, s)) = "reverse"
         /\ \A class : At(class, s).slot = s
BY DEF WayOf, At, Forward, Backward

LEMMA EdgeMaps ==
  ASSUME ExternalInv, Edge
  PROVE  Cursor!Edge
<1>1. 0 \in 0..currsize /\ currsize \in 0..currsize /\ currsize = Cursor!End
  BY SizeIsNumber DEF Cursor!End
<1>2. ASSUME NEW op, NEW class \in Forward, NEW s \in 0..currsize, Take(op, 0, At(class, s))
      PROVE  Cursor!Take(op, 0, "forward", s)
  BY <1>2, AtIsPlace, TakeMaps, WaysAre
<1>3. ASSUME NEW op, NEW class \in Backward, NEW s \in 0..currsize, Take(op, 0, At(class, s))
      PROVE  Cursor!Take(op, 0, "reverse", s)
  BY <1>3, AtIsPlace, TakeMaps, WaysAre
<1>4. \/ \E class \in Forward : Take("begin", 0, At(class, 0))
      \/ \E class \in Forward : Take("end", 0, At(class, currsize))
      \/ \E class \in Backward : Take("rbegin", 0, At(class, currsize))
      \/ \E class \in Backward : Take("rend", 0, At(class, 0))
  BY DEF Edge, Forward, Backward
<1> QED  BY <1>1, <1>2, <1>3, <1>4 DEF Cursor!Edge

LEMMA StepMaps ==
  ASSUME ExternalInv, StepForward \/ StepReverse
  PROVE  Cursor!Step
<1> DEFINE s == it.slot
           n == currsize
<1>1. n \in Nat /\ n = Cursor!End /\ s \in 0..n /\ s \in Int
  BY SizeIsNumber DEF Cursor!End, ExternalInv, ItInv
<1>2. /\ NextSlot(s) \in 0..n /\ PreviousSlot(s) \in 0..n
      /\ ReverseNextSlot(s) \in 0..n /\ ReversePreviousSlot(s) \in 0..n
  BY StepsStay
<1>3. \A x : [it EXCEPT !.slot = x] = At(it.class, x)
  BY MovedIs DEF ExternalInv
<1>4. ASSUME NEW op, NEW x \in 0..n, it.class \in Forward, Take(op, 0, At(it.class, x))
      PROVE  Cursor!Take(op, 0, "forward", x)
  BY <1>4, AtIsPlace, TakeMaps, WaysAre
<1>5. ASSUME NEW op, NEW x \in 0..n, it.class \in Backward, Take(op, 0, At(it.class, x))
      PROVE  Cursor!Take(op, 0, "reverse", x)
  BY <1>5, AtIsPlace, TakeMaps, WaysAre
<1>6. CASE StepForward
  <2>1. /\ it.class \in Forward
        /\ \/ Take("++", 0, At(it.class, NextSlot(s)))
           \/ Take("--", 0, At(it.class, PreviousSlot(s)))
    BY <1>3, <1>6 DEF StepForward
  <2>2. \/ Cursor!Take("++", 0, "forward", NextSlot(s))
        \/ Cursor!Take("--", 0, "forward", PreviousSlot(s))
    BY <1>2, <1>4, <2>1
  <2>3. WayOf(it) = "forward"
    BY <2>1 DEF WayOf
  <2>4. /\ NextSlot(s) = IF s < n THEN s + 1 ELSE n
        /\ PreviousSlot(s) = IF s > 0 THEN s - 1 ELSE n
    <3> HIDE DEF s
    <3> QED  BY <1>1 DEF NextSlot, PreviousSlot
  <2>5. NextSlot(s) = Cursor!Up /\ PreviousSlot(s) = Cursor!Down
    BY <1>1, <2>3, <2>4 DEF Cursor!Up, Cursor!Down, WayOf
  <2> QED  BY <2>2, <2>3, <2>5 DEF Cursor!Step, WayOf
<1>7. CASE StepReverse
  <2>1. /\ it.class \in Backward
        /\ \/ Take("++", 0, At(it.class, ReverseNextSlot(s)))
           \/ Take("--", 0, At(it.class, ReversePreviousSlot(s)))
    BY <1>3, <1>7 DEF StepReverse
  <2>2. \/ Cursor!Take("++", 0, "reverse", ReverseNextSlot(s))
        \/ Cursor!Take("--", 0, "reverse", ReversePreviousSlot(s))
    BY <1>2, <1>5, <2>1
  <2>3. WayOf(it) = "reverse"
    BY <2>1 DEF WayOf, Forward, Backward
  <2>4. /\ ReverseNextSlot(s) = IF s > 0 THEN s - 1 ELSE 0
        /\ ReversePreviousSlot(s) = IF s < n THEN s + 1 ELSE 0
    <3> HIDE DEF s
    <3> QED  BY <1>1 DEF ReverseNextSlot, ReversePreviousSlot
  <2>5. ReverseNextSlot(s) = Cursor!Down /\ ReversePreviousSlot(s) = Cursor!Up
    BY <1>1, <2>3, <2>4 DEF Cursor!Up, Cursor!Down, WayOf
  <2> QED  BY <2>2, <2>3, <2>5 DEF Cursor!Step, WayOf
<1> QED  BY <1>6, <1>7

LEMMA ConvertMaps ==
  ASSUME ExternalInv, Convert
  PROVE  Cursor!Convert
<1>1. PICK c \in Forward \cup Backward : Take("convert", 0, At(c, it.slot))
  BY ConvertIs
<1>2. it.class \in Forward \cup Backward /\ it.slot \in 0..currsize
  BY ConvertIs DEF ExternalInv, ItInv
<1>3. IsPlace(At(c, it.slot))
  BY <1>2, AtIsPlace
<1>4. Cursor!Take("convert", 0, WayOf(At(c, it.slot)), At(c, it.slot).slot)
  BY <1>1, <1>3, TakeMaps
<1>5. /\ WayOf(At(c, it.slot)) \in {"forward", "reverse"}
      /\ At(c, it.slot).slot = it.slot
  BY WaysAre
<1>6. \E w \in {"forward", "reverse"} : Cursor!Take("convert", 0, w, it.slot)
  BY <1>4, <1>5
<1>7. WayOf(it) # "none"
  BY <1>2 DEF WayOf
<1> QED  BY <1>6, <1>7 DEF Cursor!Convert, WayOf

(* The sizes of sets that the cursor speaks of are those of this module.   *)
LEMMA CursorCardinality ==
  ASSUME NEW S
  PROVE  Cursor!Cardinality(S) = Cardinality(S)
BY DEF Cursor!Cardinality, Cardinality

LEMMA CursorCounts ==
  ASSUME NEW k
  PROVE  Cursor!Below(k) = Before(data, k) /\ Cursor!UpTo(k) = NotBehind(data, k)
<1>1. /\ Cursor!Below(k) = Cursor!Cardinality({i \in 1..Len(data) : data[i] < k})
      /\ Cursor!UpTo(k) = Cursor!Cardinality({i \in 1..Len(data) : data[i] <= k})
  BY DEF Cursor!Below, Cursor!UpTo, Cursor!End
<1> QED  BY <1>1, CursorCardinality DEF Before, NotBehind

LEMMA LookupMaps ==
  ASSUME NothingOdd, ExternalInv, NEW k \in Key, Bound(k) \/ Find(k)
  PROVE  Cursor!LowerBound(k) \/ Cursor!UpperBound(k) \/ Cursor!Find(k)
<1>1. /\ MapInv /\ Records(data) /\ Len(data) > 0
      /\ Cursor!End = Len(data)
      /\ Cursor!Below(k) = Before(data, k) /\ Cursor!UpTo(k) = NotBehind(data, k)
  BY CursorCounts DEF ExternalInv, MapInv, Cursor!End
<1>2. LowerBound(k) \in 0..currsize /\ UpperBound(k) \in 0..currsize /\ Found(k) \in 0..currsize
  BY <1>1, BoundsAreSlots
<1>3. ASSUME NEW op, NEW x \in 0..currsize, Take(op, k, At("iterator", x))
      PROVE  Cursor!Take(op, k, "forward", x)
  <2>1. "iterator" \in Forward
    BY DEF Forward
  <2> QED  BY <1>3, <2>1, AtIsPlace, TakeMaps, WaysAre
<1>4. Found(k) = IF Before(data, k) < NotBehind(data, k) THEN Before(data, k) ELSE Len(data)
  <2>1. CASE PartsAt(data, k, Slot(k))
    BY <1>1, <2>1, BoundsInLeaf
  <2>2. CASE NoneFound(data, k, Slot(k))
    <3> DEFINE b == Before(data, k)
    <3>1. b = NotBehind(data, k) /\ Found(k) = Len(data)
      BY <1>1, <2>2, BoundsInNoLeaf, CountsWithout
    <3>2. b \in Nat
      <4> DEFINE S == {i \in 1..Len(data) : data[i] < k}
      <4>1. IsFiniteSet(1..Len(data)) /\ S \subseteq 1..Len(data)
        BY <1>1, RecordsAre, FS_Interval
      <4> HIDE DEF S
      <4>2. Cardinality(S) \in Nat
        BY <4>1, FS_Subset, FS_CardinalityType
      <4> QED  BY <4>2 DEF S, Before
    <3> HIDE DEF b
    <3>3. ~ (b < NotBehind(data, k))
      BY <3>1, <3>2
    <3> QED  BY <3>1, <3>3 DEF b
  <2> QED  BY <1>1, <2>1, <2>2, SlotIs
<1>5. CASE Find(k)
  <2>1. Take("find", k, At("iterator", Found(k)))
    BY <1>5 DEF Find
  <2>2. Cursor!Take("find", k, "forward", Found(k))
    BY <1>2, <1>3, <2>1
  <2> QED  BY <1>1, <1>4, <2>2 DEF Cursor!Find
<1>6. CASE Bound(k)
  <2>1. IsEmptyLeafFor(k) => k > Last(data)
    BY <1>6 DEF Bound, NothingOdd
  <2>2. LowerBound(k) = Before(data, k) /\ UpperBound(k) = NotBehind(data, k)
    <3>1. CASE PartsAt(data, k, Slot(k))
      BY <1>1, <3>1, BoundsInLeaf
    <3>2. CASE IsEmptyLeafFor(k) /\ NoneFound(data, k, Slot(k))
      <4>1. k > data[Len(data)]
        BY <2>1, <3>2 DEF Last
      <4>2. Before(data, k) = NotBehind(data, k) /\ Before(data, k) = Len(data)
        BY <1>1, <3>2, <4>1, CountsWithout
      <4> QED  BY <1>1, <3>2, <4>2, BoundsInNoLeaf
    <3> QED  BY <1>1, <3>1, <3>2, SlotIs
  <2>3. \/ Take("lower_bound", k, At("iterator", LowerBound(k)))
        \/ Take("upper_bound", k, At("iterator", UpperBound(k)))
    BY <1>6 DEF Bound
  <2>4. \/ Cursor!Take("lower_bound", k, "forward", LowerBound(k))
        \/ Cursor!Take("upper_bound", k, "forward", UpperBound(k))
    BY <1>2, <1>3, <2>3
  <2> QED  BY <1>1, <2>2, <2>4 DEF Cursor!LowerBound, Cursor!UpperBound
<1> QED  BY <1>5, <1>6

(* The record that insert brings goes behind all others, which is where the*)
(* cursor puts it.                                                         *)
LEMMA AppendIsInsert ==
  ASSUME NEW keys, Records(keys), Len(keys) > 0, NEW k \in Key, k > keys[Len(keys)]
  PROVE  /\ NotBehind(keys, k) = Len(keys)
         /\ Cursor!InsertAt(keys, Len(keys) + 1, k) = Append(keys, k)
<1> DEFINE n == Len(keys)
           u == Append(keys, k)
           v == Cursor!InsertAt(keys, n + 1, k)
<1>1. /\ n \in Nat /\ n > 0 /\ \A p \in 1..n : keys[p] \in Int
      /\ \A p, q \in 1..n : p <= q => keys[p] <= keys[q]
      /\ k \in Int /\ k > keys[n] /\ keys \in Seq(Key)
  BY RecordsAre, KeysAreNumbers DEF Records
<1>2. NotBehind(keys, k) = n
  <2>1. ASSUME NEW p \in 1..n
        PROVE  keys[p] <= k
    <3>1. p <= n /\ n \in 1..n
      BY <1>1
    <3>2. keys[p] <= keys[n] /\ keys[p] \in Int /\ keys[n] \in Int
      BY <1>1, <3>1
    <3> QED  BY <1>1, <3>2
  <2>2. {i \in 1..n : keys[i] <= k} = 1..n
    BY <2>1
  <2>3. Cardinality(1..n) = n
    BY <1>1, FS_Interval
  <2> QED  BY <2>2, <2>3 DEF NotBehind, n
<1>3. v = (SubSeq(keys, 1, (n + 1) - 1) \o <<k>>) \o SubSeq(keys, n + 1, n)
  BY DEF Cursor!InsertAt, n
<1>4. SubSeq(keys, 1, (n + 1) - 1) = keys /\ SubSeq(keys, n + 1, n) = <<>>
  BY <1>1, SubSeqProperties DEF n
<1>5. keys \o <<k>> = u /\ u \in Seq(Key)
  BY <1>1, AppendProperties
<1>6. u \o <<>> = u
  BY <1>5, ConcatEmptySeq
<1> QED  BY <1>2, <1>3, <1>4, <1>5, <1>6 DEF n, u, v

LEMMA InsertMaps ==
  ASSUME ExternalInv, InsertIntoLeaf
  PROVE  \E k \in Key : Cursor!Insert(k)
<1> DEFINE k == inserting
<1>1. /\ k \in Key /\ k > data[Len(data)]
      /\ data' = Append(data, k) /\ call' = <<"insert", k>>
      /\ it' = it \/ it' = [class |-> "iterator", slot |-> currsize]
  BY InsertIs
<1>2. Records(data) /\ Len(data) > 0 /\ currsize = Len(data)
  BY DEF ExternalInv, MapInv
<1>3. Cursor!UpTo(k) = currsize /\ data' = Cursor!InsertAt(data, Cursor!UpTo(k) + 1, k)
  BY <1>1, <1>2, CursorCounts, AppendIsInsert
<1>4. KeyOf(it)' = Cursor!Refers(data', WayOf(it'), it'.slot)
  BY InsertKeepsInv, KeyIsReferredNext
<1>5. \/ WayOf(it') = "forward" /\ it'.slot = Cursor!UpTo(k)
      \/ WayOf(it') = WayOf(it) /\ it'.slot = it.slot
  BY <1>1, <1>3 DEF WayOf, Forward
<1> HIDE DEF k
<1>6. Cursor!Insert(k)
  BY <1>1, <1>3, <1>4, <1>5 DEF Cursor!Insert, WayOf, k
<1> QED  BY <1>1, <1>6

(* The steps that the caller does not see.                                 *)
WalkUnchanged ==
  data' = data /\ call' = call /\ it' = it /\ KeyOf(it)' = KeyOf(it)

LEMMA UnseenSteps ==
  ASSUME \/ \E k \in Key : BeginInsert(k)
         \/ Descend
         \/ Split
         \/ UNCHANGED vars
  PROVE  WalkUnchanged
<1>1. data' = data /\ call' = call /\ it' = it /\ currsize' = currsize
  BY DEF BeginInsert, Descend, Split, vars, tree
<1> QED  BY <1>1, KeyOfIs DEF WalkUnchanged

LEMMA InitMaps ==
  ASSUME Init
  PROVE  Cursor!Init
<1>1. Records(data) /\ Len(data) > 0
  BY InitMakesInv DEF ExternalInv, MapInv
<1>2. data \in Seq(Key) /\ \A i \in 1..Len(data) - 1 : data[i] <= data[i + 1]
  <2>1. /\ Len(data) \in Nat
        /\ \A p, q \in 1..Len(data) : p <= q => data[p] <= data[q]
    BY <1>1, RecordsAre
  <2>2. \A i \in 1..Len(data) - 1 : i \in 1..Len(data) /\ i + 1 \in 1..Len(data) /\ i <= i + 1
    BY <2>1
  <2> QED  BY <1>1, <2>1, <2>2 DEF Records
<1>3. /\ it.class = "none" /\ it.slot = 0 /\ call = <<"none", 0>>
      /\ it.class \notin Forward /\ it.class \notin Backward
  BY DEF Init, Forward, Backward
<1>4. KeyOf(it) = 0
  BY <1>3 DEF KeyOf
<1> QED  BY <1>2, <1>3, <1>4 DEF Cursor!Init, Cursor!End

LEMMA NextMaps ==
  ASSUME NothingOdd, ExternalInv, [Next]_vars
  PROVE  Cursor!Next \/ WalkUnchanged
<1>1. CASE Edge
  BY <1>1, EdgeMaps DEF Cursor!Next
<1>2. CASE StepForward \/ StepReverse
  BY <1>2, StepMaps DEF Cursor!Next
<1>3. CASE Convert
  BY <1>3, ConvertMaps DEF Cursor!Next
<1>4. ASSUME NEW k \in Key, Bound(k) \/ Find(k)
      PROVE  Cursor!Next
  BY <1>4, LookupMaps DEF Cursor!Next
<1>5. CASE InsertIntoLeaf
  BY <1>5, InsertMaps DEF Cursor!Next
<1>6. CASE (\E k \in Key : BeginInsert(k)) \/ Descend \/ Split \/ UNCHANGED vars
  BY <1>6, UnseenSteps
<1> QED  BY <1>1, <1>2, <1>3, <1>4, <1>5, <1>6 DEF Next

(* The map over the caller's array is a sorted sequence under a cursor: the*)
(* bounds, find and insert come to the right record, through any number of *)
(* insertions and splits, and the iterators of the four classes walk the   *)
(* records in order and know where they end, if neither of the odd cases   *)
(* of a leaf without records comes up.                                     *)
THEOREM ExternalWalks ==
  ASSUME NothingOdd
  PROVE  Spec => Walks
<1>1. Init => ExternalInv
  BY InitMakesInv
<1>2. NoOddInsert
  BY DEF NothingOdd, NoOddInsert
<1>3. ExternalInv /\ [Next]_vars => ExternalInv'
  BY <1>2, NextKeepsInv
<1>4. Init => Cursor!Init
  BY InitMaps
<1>5. ExternalInv /\ [Next]_vars
        => [Cursor!Next]_<<data, call,
                           IF it.class \in Forward THEN "forward"
                           ELSE IF it.class \in Backward THEN "reverse" ELSE "none",
                           it.slot, KeyOf(it)>>
  BY NextMaps DEF WalkUnchanged
<1> QED  BY <1>1, <1>3, <1>4, <1>5, PTL DEF Spec, Walks, Cursor!Spec
============================================================================
