-------------------------- MODULE CarmiTreeProofs --------------------------
(***************************************************************************)
(* The tree finds by its key every point that was inserted and not erased, *)
(* and iterators from either end come by every one of them in order,       *)
(* whatever the keys, the root model, the number of leaves and of children *)
(* and the leaves that have been split since.                              *)
(***************************************************************************)
EXTENDS CarmiTree, NumberProofs

----------------------------------------------------------------------------
(* The points of a leaf.                                                   *)
LEMMA KeysAreNumbers == Key \subseteq Int /\ Seq(Key) \subseteq Seq(Int)
<1>1. Key \subseteq Int
  BY KeyAssumption
<1>2. ASSUME NEW p \in Seq(Key)
      PROVE  p \in Seq(Int)
  <2> DEFINE n == Len(p)
  <2>1. n \in Nat /\ p \in [1..n -> Key]
    OBVIOUS
  <2> HIDE DEF n
  <2>2. p \in [1..n -> Int]
    BY <1>1, <2>1
  <2> QED  BY <2>1, <2>2
<1> QED  BY <1>1, <1>2

LEMMA CountIs ==
  ASSUME NEW p, NEW n \in Nat, DOMAIN p = 1..n, NEW k
  PROVE  Count(p, k) = Occurs(p, n, k)
BY DEF Count, Occurs, PlacesOf

(* The points less than k come first, those of k next.                     *)
LEMMA BelowThenCount ==
  ASSUME NEW p \in Seq(Int), Rising(p), NEW k \in Int
  PROVE  /\ Below(p, k) \in Nat /\ Count(p, k) \in Nat
         /\ Below(p, k) + Count(p, k) <= Len(p)
         /\ \A i \in 1..Len(p) :
              /\ p[i] < k <=> i <= Below(p, k)
              /\ p[i] = k <=> Below(p, k) < i /\ i <= Below(p, k) + Count(p, k)
<1> DEFINE n == Len(p)
<1>1. /\ n \in Nat /\ DOMAIN p = 1..n /\ \A i \in 1..n : p[i] \in Int
      /\ \A i, j \in 1..n : i <= j => p[i] <= p[j]
  BY DEF Rising
<1>2. Below(p, k) = HowManyLess(p, n, k) /\ Count(p, k) = HowMany(p, n, k)
  BY <1>1 DEF Below, Count, HowMany, HowManyLess
<1> HIDE DEF n
<1>3. /\ HowManyLess(p, n, k) \in Nat /\ HowMany(p, n, k) \in Nat
      /\ HowManyLess(p, n, k) + HowMany(p, n, k) <= n
      /\ \A i \in 1..n :
           /\ p[i] < k <=> i <= HowManyLess(p, n, k)
           /\ p[i] = k <=> /\ HowManyLess(p, n, k) < i
                           /\ i <= HowManyLess(p, n, k) + HowMany(p, n, k)
  BY <1>1, LessThenEqual
<1> QED  BY <1>2, <1>3 DEF n

(* A sorted leaf of keys.                                                  *)
SortedKeys(p) == p \in Seq(Key) /\ Rising(p)

LEMMA SortedKeysAre ==
  ASSUME NEW p, SortedKeys(p), NEW k \in Key
  PROVE  /\ p \in Seq(Int) /\ Rising(p) /\ k \in Int /\ k # 0
         /\ Len(p) \in Nat /\ DOMAIN p = 1..Len(p)
         /\ \A i \in 1..Len(p) : p[i] \in Key /\ p[i] \in Int
         /\ \A i, j \in 1..Len(p) : i <= j => p[i] <= p[j]
<1>1. p \in Seq(Key) /\ p \in Seq(Int) /\ k \in Int /\ k # 0
  BY KeysAreNumbers, KeyAssumption DEF SortedKeys
<1>2. /\ Len(p) \in Nat /\ DOMAIN p = 1..Len(p)
      /\ \A i \in 1..Len(p) : p[i] \in Key /\ p[i] \in Int
  BY <1>1
<1> QED  BY <1>1, <1>2 DEF SortedKeys, Rising

(* Two parts of a sequence joined, the second from f on.                   *)
LEMMA PartsJoined ==
  ASSUME NEW p \in Seq(Key), NEW b \in 0..Len(p), NEW f \in 1..Len(p) + 1
  PROVE  /\ SubSeq(p, 1, b) \in Seq(Key) /\ SubSeq(p, f, Len(p)) \in Seq(Key)
         /\ SubSeq(p, 1, b) \o SubSeq(p, f, Len(p))
              = [i \in 1..b + (Len(p) - f + 1) |-> IF i <= b THEN p[i] ELSE p[i - b + f - 1]]
<1> DEFINE n == Len(p)
           s == SubSeq(p, 1, b)
           t == SubSeq(p, f, n)
<1>1. n \in Nat /\ b \in 0..n /\ f \in 1..n + 1
  OBVIOUS
<1>2. /\ s \in Seq(Key) /\ Len(s) = b /\ \A i \in 1..b : s[i] = p[i]
  OBVIOUS
<1>3. /\ t \in Seq(Key) /\ Len(t) = n - f + 1 /\ \A i \in 1..n - f + 1 : t[i] = p[f + i - 1]
  OBVIOUS
<1>4. s \o t = [i \in 1..Len(s) + Len(t) |-> IF i <= Len(s) THEN s[i] ELSE t[i - Len(s)]]
  <2>1. s \in Seq(Key) /\ t \in Seq(Key)
    BY <1>2, <1>3
  <2> HIDE DEF s, t
  <2> QED  BY <2>1, JoinedIs
<1> HIDE DEF n, s, t
<1>5. ASSUME NEW i \in 1..b + (n - f + 1)
      PROVE  (IF i <= b THEN s[i] ELSE t[i - b]) = (IF i <= b THEN p[i] ELSE p[i - b + f - 1])
  <2>1. CASE i <= b
    <3>1. i \in 1..b
      BY <1>1, <2>1
    <3> QED  BY <1>2, <2>1, <3>1
  <2>2. CASE ~ (i <= b)
    <3>1. i - b \in 1..n - f + 1 /\ f + (i - b) - 1 = i - b + f - 1
      BY <1>1, <2>2
    <3> QED  BY <1>3, <2>2, <3>1
  <2> QED  BY <2>1, <2>2
<1>6. s \o t = [i \in 1..b + (n - f + 1) |-> IF i <= b THEN s[i] ELSE t[i - b]]
  BY <1>2, <1>3, <1>4
<1>7. s \o t = [i \in 1..b + (n - f + 1) |-> IF i <= b THEN p[i] ELSE p[i - b + f - 1]]
  BY <1>5, <1>6
<1> QED  BY <1>2, <1>3, <1>7 DEF n, s, t

LEMMA PutBehind ==
  ASSUME NEW p \in Seq(Key), NEW b \in 0..Len(p), NEW k
  PROVE  InsertAt(p, b + 1, k)
           = [i \in 1..Len(p) + 1 |->
                IF i <= b THEN p[i] ELSE IF i = b + 1 THEN k ELSE p[i - 1]]
<1> DEFINE n == Len(p)
           s == SubSeq(p, 1, b)
           t == SubSeq(p, b + 1, n)
           u == s \o <<k>>
<1>1. n \in Nat /\ b \in 0..n /\ (b + 1) - 1 = b
  OBVIOUS
<1>2. DOMAIN s = 1..b /\ Len(s) = b /\ \A i \in 1..b : s[i] = p[i]
  OBVIOUS
<1>3. DOMAIN t = 1..n - b /\ Len(t) = n - b /\ \A i \in 1..n - b : t[i] = p[b + i]
  OBVIOUS
<1>4. u = [i \in 1..b + 1 |-> IF i <= b THEN s[i] ELSE k] /\ Len(u) = b + 1
  <2>1. /\ s \in Seq(Key \cup {k}) /\ <<k>> \in Seq(Key \cup {k})
        /\ Len(<<k>>) = 1 /\ <<k>>[1] = k
    OBVIOUS
  <2>2. u = [i \in 1..Len(s) + 1 |-> IF i <= Len(s) THEN s[i] ELSE <<k>>[i - Len(s)]]
        /\ Len(u) = Len(s) + 1
    BY <2>1
  <2> HIDE DEF s, u
  <2>3. \A i \in 1..b + 1 : ~ (i <= b) => <<k>>[i - b] = k
    <3> SUFFICES ASSUME NEW i \in 1..b + 1, ~ (i <= b) PROVE <<k>>[i - b] = k
      OBVIOUS
    <3>1. i - b = 1
      BY <1>1
    <3> QED  BY <2>1, <3>1
  <2> QED  BY <1>2, <2>2, <2>3
<1>5. u \o t = [i \in 1..Len(u) + Len(t) |-> IF i <= Len(u) THEN u[i] ELSE t[i - Len(u)]]
  <2>1. u \in Seq(Key \cup {k}) /\ t \in Seq(Key \cup {k})
    OBVIOUS
  <2> HIDE DEF u, t
  <2> QED  BY <2>1, JoinedIs
<1>6. InsertAt(p, b + 1, k) = u \o t
  <2>1. InsertAt(p, b + 1, k) = SubSeq(p, 1, (b + 1) - 1) \o <<k>> \o SubSeq(p, b + 1, Len(p))
    BY DEF InsertAt
  <2> QED  BY <1>1, <2>1
<1> HIDE DEF n, s, t, u
<1> DEFINE v(i) == IF i <= b THEN p[i] ELSE IF i = b + 1 THEN k ELSE p[i - 1]
<1>7. ASSUME NEW i \in 1..n + 1
      PROVE  (IF i <= b + 1 THEN u[i] ELSE t[i - (b + 1)]) = v(i)
  <2>1. CASE i <= b
    <3>1. i \in 1..b /\ i \in 1..b + 1 /\ i <= b + 1
      BY <1>1, <2>1
    <3> QED  BY <1>2, <1>4, <2>1, <3>1
  <2>2. CASE i = b + 1
    <3>1. i \in 1..b + 1 /\ ~ (i <= b) /\ i <= b + 1
      BY <1>1, <2>2
    <3> QED  BY <1>4, <2>2, <3>1
  <2>3. CASE i > b + 1
    <3>1. i - (b + 1) \in 1..n - b /\ b + (i - (b + 1)) = i - 1
          /\ ~ (i <= b) /\ ~ (i <= b + 1) /\ i # b + 1
      BY <1>1, <2>3
    <3> QED  BY <1>3, <3>1
  <2> QED  BY <1>1, <2>1, <2>2, <2>3
<1>8. 1..Len(u) + Len(t) = 1..n + 1
  BY <1>1, <1>3, <1>4
<1>9. u \o t = [i \in 1..n + 1 |-> IF i <= b + 1 THEN u[i] ELSE t[i - (b + 1)]]
  BY <1>4, <1>5, <1>8
<1>10. u \o t = [i \in 1..n + 1 |-> v(i)]
  BY <1>7, <1>9
<1> QED  BY <1>6, <1>10 DEF n

(* InsertIntoLeaf: the point comes behind those that are less.             *)
Added(p, k) == InsertAt(p, Below(p, k) + 1, k)

LEMMA AddedIs ==
  ASSUME NEW p, SortedKeys(p), NEW k \in Key
  PROVE  /\ SortedKeys(Added(p, k))
         /\ \A j : Count(Added(p, k), j) = Count(p, j) + (IF j = k THEN 1 ELSE 0)
<1> DEFINE n == Len(p)
           b == Below(p, k)
           q == Added(p, k)
<1>1. /\ n \in Nat /\ b \in 0..n /\ DOMAIN p = 1..n /\ k \in Int
      /\ \A i \in 1..n : p[i] \in Key /\ p[i] \in Int
      /\ \A i, j \in 1..n : i <= j => p[i] <= p[j]
      /\ \A i \in 1..n : p[i] < k <=> i <= b
  <2>1. p \in Seq(Int) /\ Rising(p) /\ k \in Int
    BY SortedKeysAre
  <2>2. /\ Below(p, k) \in Nat /\ Count(p, k) \in Nat
        /\ Below(p, k) + Count(p, k) <= Len(p)
        /\ \A i \in 1..Len(p) : p[i] < k <=> i <= Below(p, k)
    BY <2>1, BelowThenCount
  <2>3. Len(p) \in Nat
    BY <2>1
  <2>4. b \in 0..n
    BY <2>2, <2>3
  <2> QED  BY <2>1, <2>2, <2>4, SortedKeysAre
<1>2. q = [i \in 1..n + 1 |-> IF i <= b THEN p[i] ELSE IF i = b + 1 THEN k ELSE p[i - 1]]
  <2>1. p \in Seq(Key) /\ q = InsertAt(p, b + 1, k)
    BY DEF SortedKeys, Added
  <2>2. b \in 0..Len(p)
    BY <1>1
  <2> HIDE DEF q, b
  <2> QED  BY <2>1, <2>2, PutBehind
<1> HIDE DEF q, n, b
<1>3. /\ DOMAIN q = 1..n + 1
      /\ \A i \in 1..n + 1 : q[i] = IF i <= b THEN p[i] ELSE IF i = b + 1 THEN k ELSE p[i - 1]
  BY <1>2
<1>4. \A i \in 1..n + 1 : q[i] \in Key
  BY <1>1, <1>3
<1>5. q \in Seq(Key) /\ Len(q) = n + 1
  <2>1. q \in [1..n + 1 -> Key]
    BY <1>2, <1>4
  <2> QED  BY <1>1, <2>1
<1>6. ASSUME NEW i \in 1..n + 1, NEW j \in 1..n + 1, i <= j
      PROVE  q[i] <= q[j]
  <2>1. /\ q[i] = IF i <= b THEN p[i] ELSE IF i = b + 1 THEN k ELSE p[i - 1]
        /\ q[j] = IF j <= b THEN p[j] ELSE IF j = b + 1 THEN k ELSE p[j - 1]
    BY <1>3
  <2>2. /\ i <= b => i \in 1..n /\ p[i] < k /\ p[i] \in Int
        /\ i > b + 1 => i - 1 \in 1..n /\ i - 1 > b /\ ~ (p[i - 1] < k) /\ p[i - 1] \in Int
    BY <1>1
  <2>3. /\ j <= b => j \in 1..n /\ p[j] < k /\ p[j] \in Int
        /\ j > b + 1 => j - 1 \in 1..n /\ j - 1 > b /\ ~ (p[j - 1] < k) /\ p[j - 1] \in Int
    BY <1>1
  <2>4. CASE j <= b
    BY <1>1, <1>6, <2>1, <2>2, <2>3, <2>4
  <2>5. CASE j = b + 1
    BY <1>1, <1>6, <2>1, <2>2, <2>5
  <2>6. CASE j > b + 1
    <3>1. CASE i <= b
      BY <1>1, <2>1, <2>2, <2>3, <2>6, <3>1
    <3>2. CASE i = b + 1
      BY <1>1, <2>1, <2>3, <2>6, <3>2
    <3>3. CASE i > b + 1
      <4>1. i - 1 <= j - 1 /\ i - 1 \in 1..n /\ j - 1 \in 1..n
        BY <1>6, <2>2, <2>3, <2>6, <3>3
      <4>2. p[i - 1] <= p[j - 1]
        BY <1>1, <4>1
      <4> QED  BY <1>1, <2>1, <2>6, <3>3, <4>2
    <3> QED  BY <1>1, <3>1, <3>2, <3>3
  <2> QED  BY <1>1, <2>4, <2>5, <2>6
<1>7. SortedKeys(q)
  BY <1>5, <1>6 DEF SortedKeys, Rising
<1>8. ASSUME NEW j
      PROVE  Count(q, j) = Count(p, j) + (IF j = k THEN 1 ELSE 0)
  <2>1. PutIn(p, q, n, b + 1) /\ b + 1 \in 1..n + 1 /\ q[b + 1] = k
    BY <1>1, <1>3 DEF PutIn
  <2>2. Occurs(q, n + 1, j) = Occurs(p, n, j) + OneIf(q, b + 1, j)
    BY <1>1, <2>1, OccursPutIn
  <2>3. Count(q, j) = Occurs(q, n + 1, j) /\ Count(p, j) = Occurs(p, n, j)
    BY <1>1, <1>3, CountIs
  <2> QED  BY <2>1, <2>2, <2>3 DEF OneIf
<1> QED  BY <1>7, <1>8 DEF q

(* Delete: the points of k are taken out.                                  *)
Without(p, k) ==
  SubSeq(p, 1, Below(p, k)) \o SubSeq(p, Below(p, k) + Count(p, k) + 1, Len(p))

LEMMA WithoutIs ==
  ASSUME NEW p, SortedKeys(p), NEW k \in Key
  PROVE  /\ SortedKeys(Without(p, k))
         /\ \A j : Count(Without(p, k), j) = IF j = k THEN 0 ELSE Count(p, j)
<1> DEFINE n == Len(p)
           b == Below(p, k)
           e == Count(p, k)
           m == n - e
           q == Without(p, k)
<1>1. /\ n \in Nat /\ b \in 0..n /\ e \in 0..n /\ b + e <= n
      /\ DOMAIN p = 1..n /\ k \in Int
      /\ \A i \in 1..n : p[i] \in Key /\ p[i] \in Int
      /\ \A i, j \in 1..n : i <= j => p[i] <= p[j]
      /\ \A i \in 1..n : p[i] = k <=> b < i /\ i <= b + e
  <2>1. p \in Seq(Int) /\ Rising(p) /\ k \in Int
    BY SortedKeysAre
  <2>2. /\ Below(p, k) \in Nat /\ Count(p, k) \in Nat
        /\ Below(p, k) + Count(p, k) <= Len(p)
        /\ \A i \in 1..Len(p) :
             p[i] = k <=> Below(p, k) < i /\ i <= Below(p, k) + Count(p, k)
    BY <2>1, BelowThenCount
  <2>3. Len(p) \in Nat
    BY <2>1
  <2>4. b \in 0..n /\ e \in 0..n
    BY <2>2, <2>3
  <2> QED  BY <2>1, <2>2, <2>4, SortedKeysAre
<1>2. q = [i \in 1..m |-> IF i <= b THEN p[i] ELSE p[i + e]]
  <2>1. p \in Seq(Key) /\ q = SubSeq(p, 1, b) \o SubSeq(p, b + e + 1, n)
    BY DEF SortedKeys, Without
  <2> HIDE DEF q, b, e
  <2>2. b \in 0..Len(p) /\ b + e + 1 \in 1..Len(p) + 1
    BY <1>1
  <2> DEFINE f == b + e + 1
  <2>3. SubSeq(p, 1, b) \o SubSeq(p, f, Len(p))
          = [i \in 1..b + (Len(p) - f + 1) |-> IF i <= b THEN p[i] ELSE p[i - b + f - 1]]
    <3>1. f \in 1..Len(p) + 1
      BY <2>2
    <3> HIDE DEF f
    <3> QED  BY <2>1, <2>2, <3>1, PartsJoined
  <2> HIDE DEF n
  <2>4. b + (n - f + 1) = m /\ \A i \in 1..m : i - b + f - 1 = i + e
    BY <1>1
  <2>5. q = [i \in 1..b + (n - f + 1) |-> IF i <= b THEN p[i] ELSE p[i - b + f - 1]]
    BY <2>1, <2>3 DEF n
  <2> HIDE DEF f, m
  <2> QED  BY <2>4, <2>5
<1> HIDE DEF q, n, b, e
<1>3. /\ m \in Nat /\ DOMAIN q = 1..m
      /\ \A i \in 1..m : /\ q[i] = IF i <= b THEN p[i] ELSE p[i + e]
                         /\ i \in 1..n /\ i + e \in 1..n
  BY <1>1, <1>2
<1>4. q \in Seq(Key) /\ Len(q) = m
  <2>1. q \in [1..m -> Key]
    BY <1>1, <1>2, <1>3
  <2> HIDE DEF m
  <2> QED  BY <1>3, <2>1
<1>5. SortedKeys(q)
  <2> SUFFICES ASSUME NEW i \in 1..m, NEW j \in 1..m, i <= j
               PROVE  q[i] <= q[j]
    BY <1>4 DEF SortedKeys, Rising
  <2>1. /\ q[i] = IF i <= b THEN p[i] ELSE p[i + e]
        /\ q[j] = IF j <= b THEN p[j] ELSE p[j + e]
        /\ i \in 1..n /\ j \in 1..n /\ i + e \in 1..n /\ j + e \in 1..n
    BY <1>3
  <2>2. i <= j /\ i <= j + e /\ i + e <= j + e /\ (j <= b => i <= b)
    BY <1>1
  <2> QED  BY <1>1, <2>1, <2>2
<1>6. ASSUME NEW j
      PROVE  Count(q, j) = IF j = k THEN 0 ELSE Count(p, j)
  <2>1. Count(q, j) = Occurs(q, m, j) /\ Count(p, j) = Occurs(p, n, j)
    BY <1>1, <1>3, CountIs
  <2>2. CASE j = k
    <3>1. PlacesOf(q, m, j) = {}
      <4> SUFFICES ASSUME NEW i \in 1..m PROVE q[i] # k
        BY <2>2 DEF PlacesOf
      <4>1. q[i] = (IF i <= b THEN p[i] ELSE p[i + e]) /\ i \in 1..n /\ i + e \in 1..n
        BY <1>3
      <4>2. (i <= b => ~ (b < i)) /\ (~ (i <= b) => ~ (i + e <= b + e))
        BY <1>1
      <4> QED  BY <1>1, <4>1, <4>2
    <3> QED  BY <2>1, <2>2, <3>1, FS_EmptySet DEF Occurs
  <2>3. CASE j # k
    <3> DEFINE r == m - b
               t == [i \in 1..r |-> p[b + e + i]]
    <3>1. r \in Nat /\ b \in Nat /\ b + e \in Nat /\ b + r = m /\ (b + e) + r = n
      BY <1>1
    <3>2. \A i \in 1..r : t[i] = p[(b + e) + i] /\ q[b + i] = p[(b + e) + i]
      <4> SUFFICES ASSUME NEW i \in 1..r
                   PROVE  q[b + i] = p[(b + e) + i] /\ b + e + i = (b + e) + i
        OBVIOUS
      <4>1. b + i \in 1..m /\ ~ (b + i <= b) /\ (b + i) + e = (b + e) + i
        BY <1>1, <3>1
      <4> QED  BY <1>3, <4>1
    <3>3. Together(p, b, t, r, q)
      <4>1. \A i \in 1..b : q[i] = p[i]
        BY <1>1, <1>3
      <4> QED  BY <3>2, <4>1 DEF Together
    <3>4. Together(p, b + e, t, r, p)
      BY <3>2 DEF Together
    <3> HIDE DEF t, r, m
    <3>5. Occurs(q, b + r, j) = Occurs(p, b, j) + Occurs(t, r, j)
      BY <3>1, <3>3, OccursAppended
    <3>6. Occurs(p, (b + e) + r, j) = Occurs(p, b + e, j) + Occurs(t, r, j)
      BY <3>1, <3>4, OccursAppended
    <3>7. Occurs(p, b + e, j) = Occurs(p, b, j)
      <4>1. PlacesOf(p, b + e, j) = PlacesOf(p, b, j)
        <5>1. 1..b \subseteq 1..b + e /\ 1..b + e \subseteq 1..n
          BY <1>1
        <5>2. \A i \in 1..b + e : ~ (i \in 1..b) => p[i] = k
          BY <1>1, <5>1
        <5> QED  BY <2>3, <5>1, <5>2 DEF PlacesOf
      <4> QED  BY <4>1 DEF Occurs
    <3> QED  BY <2>1, <2>3, <3>1, <3>5, <3>6, <3>7
  <2> QED  BY <2>2, <2>3
<1> QED  BY <1>5, <1>6 DEF q

(* NodePartition: the points of a child follow one another, since the line *)
(* does not fall and the points are sorted; so the part of the leaf that   *)
(* the child gets has all of them.                                         *)
OwnOf(p, c) == {i \in 1..Len(p) : Predict(Train(p, Children), Children, p[i]) = c}

PartOf(p, c) ==
  IF OwnOf(p, c) = {} THEN <<>>
  ELSE SubSeq(p, Min(OwnOf(p, c)), Min(OwnOf(p, c)) + Cardinality(OwnOf(p, c)) - 1)

LEMMA NoPoints ==
  /\ SortedKeys(<<>>)
  /\ \A k : Count(<<>>, k) = 0
<1>1. SortedKeys(<<>>)
  BY DEF SortedKeys, Rising
<1>2. ASSUME NEW k
      PROVE  Count(<<>>, k) = 0
  <2>1. {i \in DOMAIN <<>> : <<>>[i] = k} = {}
    OBVIOUS
  <2> QED  BY <2>1, FS_EmptySet DEF Count
<1> QED  BY <1>1, <1>2

LEMMA PartIs ==
  ASSUME NEW p, SortedKeys(p), Len(p) > 0, NEW c
  PROVE  /\ SortedKeys(PartOf(p, c))
         /\ \A k \in Key : Count(PartOf(p, c), k)
                             = IF Predict(Train(p, Children), Children, k) = c
                               THEN Count(p, k) ELSE 0
<1> DEFINE n == Len(p)
           T == OwnOf(p, c)
           q == PartOf(p, c)
           To(x) == Predict(Train(p, Children), Children, x)
<1>1. /\ n \in Nat /\ p \in Seq(Key) /\ DOMAIN p = 1..n
      /\ \A i \in 1..n : p[i] \in Key /\ p[i] \in Int
      /\ \A i, j \in 1..n : i <= j => p[i] <= p[j]
  <2>1. Key # {}
    BY KeyAssumption
  <2> QED  BY <2>1, SortedKeysAre DEF SortedKeys
<1>2. ASSUME NEW x \in Int, NEW z \in Int, x <= z
      PROVE  To(x) \in Int /\ To(z) \in Int /\ To(x) <= To(z)
  <2> DEFINE lr == Train(p, Children)
  <2>1. p \in Seq(Int) /\ Rising(p) /\ Len(p) > 0 /\ Children \in Nat /\ Children \in Nat \ {0}
        /\ Children \in Int
    BY KeysAreNumbers, SizesAssumption DEF SortedKeys
  <2>2. lr \in Lines /\ lr.slope >= 0
    BY <2>1, TrainFits, TrainRises
  <2> HIDE DEF lr
  <2>3. Predict(lr, Children, x) \in 0..Children - 1 /\ Predict(lr, Children, z) \in 0..Children - 1
    BY <2>1, <2>2, PredictInRange
  <2>4. Predict(lr, Children, x) <= Predict(lr, Children, z)
    BY <1>2, <2>1, <2>2, PredictKeepsOrder
  <2>5. \A m \in 0..Children - 1 : m \in Int
    OBVIOUS
  <2> QED  BY <2>3, <2>4, <2>5 DEF lr
<1>3. T = {i \in 1..n : To(p[i]) = c} /\ T \subseteq 1..n
  BY DEF OwnOf
<1> HIDE DEF To
<1>4. CASE T = {}
  <2>1. q = <<>>
    BY <1>4 DEF PartOf
  <2>2. SortedKeys(q) /\ \A k : Count(q, k) = 0
    BY <2>1, NoPoints
  <2> HIDE DEF q, T
  <2>3. ASSUME NEW k \in Key, To(k) = c
        PROVE  Count(q, k) = Count(p, k)
    <3>1. {i \in DOMAIN p : p[i] = k} = {}
      BY <1>1, <1>3, <1>4, <2>3
    <3>2. Count(p, k) = 0
      BY <3>1, FS_EmptySet DEF Count
    <3> QED  BY <2>2, <3>2
  <2>4. \A k \in Key : Count(q, k) = IF To(k) = c THEN Count(p, k) ELSE 0
    BY <2>2, <2>3
  <2> QED  BY <2>2, <2>4 DEF q, To
<1>5. CASE T # {}
  <2> DEFINE a == Min(T)
             b == Max(T)
             m == b - a + 1
  <2>1. a \in T /\ \A x \in T : a <= x
    <3>1. T \subseteq Nat
      BY <1>3
    <3> HIDE DEF T
    <3> QED  BY <1>5, <3>1, MinOfNumbers
  <2>2. b \in T /\ \A x \in T : x <= b
    <3>1. T \subseteq 0..n
      BY <1>3
    <3> HIDE DEF T, n
    <3> QED  BY <1>1, <1>5, <3>1, MaxOfNumbers
  <2>3. q = SubSeq(p, a, a + Cardinality(T) - 1)
    BY <1>5 DEF PartOf
  <2> HIDE DEF T, q, a, b
  <2>4. /\ a \in 1..n /\ b \in 1..n /\ a <= b /\ m \in Nat /\ m = b - a + 1
        /\ a + m - 1 = b /\ To(p[a]) = c /\ To(p[b]) = c
        /\ (a - 1) + m = b /\ a - 1 \in Nat
    BY <1>1, <1>3, <2>1, <2>2
  <2>5. T = a..b
    <3>1. ASSUME NEW i \in a..b
          PROVE  i \in T
      <4>1. i \in 1..n /\ a <= i /\ i <= b
        BY <1>1, <2>4
      <4>2. p[a] <= p[i] /\ p[i] <= p[b] /\ p[a] \in Int /\ p[i] \in Int /\ p[b] \in Int
        BY <1>1, <2>4, <4>1
      <4>3. To(p[a]) <= To(p[i]) /\ To(p[i]) <= To(p[b])
            /\ To(p[a]) \in Int /\ To(p[i]) \in Int
        BY <1>2, <4>2
      <4>4. To(p[i]) = c
        <5>1. To(p[i]) <= To(p[a]) /\ To(p[a]) <= To(p[i])
          BY <2>4, <4>3
        <5>2. To(p[i]) = To(p[a])
          BY <4>3, <5>1
        <5> QED  BY <2>4, <5>2
      <4> QED  BY <1>3, <4>1, <4>4
    <3>2. T \subseteq a..b
      BY <1>1, <1>3, <2>1, <2>2, <2>4
    <3> QED  BY <3>1, <3>2
  <2>6. Cardinality(T) = m
    <3>1. Cardinality(a..b) = b - a + 1
      BY <2>4, FS_Interval
    <3> QED  BY <2>4, <2>5, <3>1
  <2> HIDE DEF m
  <2>7. q = SubSeq(p, a, b)
    BY <2>3, <2>4, <2>6
  <2>8. /\ q \in Seq(Key) /\ Len(q) = m /\ DOMAIN q = 1..m
        /\ \A i \in 1..m : q[i] = p[a + i - 1] /\ a + i - 1 \in 1..n
    BY <1>1, <2>4, <2>7
  <2>9. SortedKeys(q)
    <3> SUFFICES ASSUME NEW i \in 1..m, NEW j \in 1..m, i <= j
                 PROVE  q[i] <= q[j]
      BY <2>8 DEF SortedKeys, Rising
    <3>1. a + i - 1 \in 1..n /\ a + j - 1 \in 1..n /\ a + i - 1 <= a + j - 1
      BY <2>4, <2>8
    <3> QED  BY <1>1, <2>8, <3>1
  <2>10. ASSUME NEW k \in Key, To(k) = c
         PROVE  Count(q, k) = Count(p, k)
    <3>1. Count(q, k) = Occurs(q, m, k) /\ Count(p, k) = Occurs(p, n, k)
      BY <1>1, <2>4, <2>8, CountIs
    <3>2. \A i \in 1..n : p[i] = k => i \in a..b
      BY <1>3, <2>5, <2>10
    <3>3. Occurs(p, n, k) = Occurs(p, b, k) /\ Occurs(p, a - 1, k) = 0
      <4>1. PlacesOf(p, n, k) = PlacesOf(p, b, k)
        <5>1. 1..b \subseteq 1..n
          BY <1>1, <2>4
        <5>2. \A i \in a..b : i \in 1..b
          BY <2>4
        <5> QED  BY <3>2, <5>1, <5>2 DEF PlacesOf
      <4>2. PlacesOf(p, a - 1, k) = {}
        <5>1. \A i \in 1..a - 1 : i \in 1..n /\ ~ (i \in a..b)
          BY <1>1, <2>4
        <5> QED  BY <3>2, <5>1 DEF PlacesOf
      <4> QED  BY <4>1, <4>2, FS_EmptySet DEF Occurs
    <3>4. Together(p, a - 1, q, m, p)
      <4>1. \A i \in 1..m : (a - 1) + i = a + i - 1
        BY <2>4
      <4> QED  BY <2>8, <4>1 DEF Together
    <3>5. Occurs(p, (a - 1) + m, k) = Occurs(p, a - 1, k) + Occurs(q, m, k)
      BY <2>4, <3>4, OccursAppended
    <3>6. Occurs(q, m, k) \in Nat
      BY <2>4, OccursIsNumber
    <3> QED  BY <2>4, <3>1, <3>3, <3>5, <3>6
  <2>11. ASSUME NEW k \in Key, To(k) # c
         PROVE  Count(q, k) = 0
    <3>1. \A i \in 1..m : a + i - 1 \in a..b
      BY <2>4
    <3>2. \A i \in 1..m : To(q[i]) = c
      BY <1>3, <2>5, <2>8, <3>1
    <3>3. {i \in DOMAIN q : q[i] = k} = {}
      BY <2>8, <2>11, <3>2
    <3> QED  BY <3>3, FS_EmptySet DEF Count
  <2>12. \A k \in Key : Count(q, k) = IF To(k) = c THEN Count(p, k) ELSE 0
    BY <2>10, <2>11
  <2> QED  BY <2>9, <2>12 DEF q, To
<1> QED  BY <1>4, <1>5

----------------------------------------------------------------------------
(* The nodes: sorted leaves that name nodes as their neighbours, inner     *)
(* nodes whose children come behind them, and nodes not yet written.       *)
LeafOK(v, n) ==
  /\ v \in [kind : {"leaf"}, points : Seq(Key), previousLeaf : 0..n, nextLeaf : 0..n]
  /\ Rising(v.points)

InnerOK(v, i, n) ==
  /\ v \in [kind : {"inner"}, lr : Lines, childLeft : Nat]
  /\ i < v.childLeft /\ v.childLeft + Children - 1 <= n

Tree(nd) ==
  /\ Len(nd) \in Nat /\ DOMAIN nd = 1..Len(nd)
  /\ \A i \in 1..Len(nd) :
       LeafOK(nd[i], Len(nd)) \/ InnerOK(nd[i], i, Len(nd)) \/ nd[i] = Raw

LEMMA Kinds ==
  /\ \A v, n : LeafOK(v, n) => v.kind = "leaf" /\ v.kind # "inner" /\ SortedKeys(v.points)
  /\ \A v, i, n : InnerOK(v, i, n) => v.kind = "inner" /\ v.kind # "leaf"
  /\ Raw.kind # "leaf" /\ Raw.kind # "inner"
BY DEF LeafOK, InnerOK, Raw, SortedKeys

LEMMA ChildrenBehind ==
  ASSUME NEW v, NEW i \in Nat, NEW n \in Nat, InnerOK(v, i, n), NEW k \in Key
  PROVE  /\ ChildOf(v, k) \in i + 1..n
         /\ ChildOf(v, k) = v.childLeft + Predict(v.lr, Children, k)
         /\ Predict(v.lr, Children, k) \in 0..Children - 1
<1>1. v.lr \in Lines /\ v.childLeft \in Nat /\ i < v.childLeft /\ v.childLeft + Children - 1 <= n
  BY DEF InnerOK
<1>2. k \in Int /\ Children \in Nat \ {0}
  BY KeysAreNumbers, SizesAssumption
<1>3. Predict(v.lr, Children, k) \in 0..Children - 1
  BY <1>1, <1>2, PredictInRange
<1> DEFINE x == Predict(v.lr, Children, k)
<1>4. x \in 0..Children - 1 /\ ChildOf(v, k) = v.childLeft + x
  BY <1>3 DEF ChildOf
<1> HIDE DEF x
<1> QED  BY <1>1, <1>2, <1>3, <1>4 DEF x

(* Where each node leads for the key k, and where the loop ends.           *)
Step(nd, k) ==
  [i \in 1..Len(nd) |-> IF nd[i].kind = "inner" THEN ChildOf(nd[i], k) ELSE i]

IsWay(g, nd, k) ==
  g = [i \in DOMAIN nd |-> IF nd[i].kind = "inner" THEN g[ChildOf(nd[i], k)] ELSE i]

Way(nd, k) == CHOOSE g : IsWay(g, nd, k)

LEMMA LeafForIs ==
  ASSUME NEW k
  PROVE  LeafFor(k) = Way(node, k)[root[k]]
BY DEF LeafFor, Way, IsWay

LEMMA StepsLeadOn ==
  ASSUME NEW nd, Tree(nd), NEW k \in Key
  PROVE  /\ LeadsOn(Step(nd, k), Len(nd))
         /\ \A i \in 1..Len(nd) :
              /\ nd[i].kind = "inner" => /\ InnerOK(nd[i], i, Len(nd))
                                         /\ Step(nd, k)[i] = ChildOf(nd[i], k)
                                         /\ Step(nd, k)[i] \in i + 1..Len(nd)
                                         /\ Step(nd, k)[i] # i
              /\ nd[i].kind # "inner" => Step(nd, k)[i] = i
<1>1. ASSUME NEW i \in 1..Len(nd)
      PROVE  /\ nd[i].kind = "inner" => /\ InnerOK(nd[i], i, Len(nd))
                                        /\ Step(nd, k)[i] = ChildOf(nd[i], k)
                                        /\ Step(nd, k)[i] \in i + 1..Len(nd)
             /\ nd[i].kind # "inner" => Step(nd, k)[i] = i
  <2>1. Step(nd, k)[i] = IF nd[i].kind = "inner" THEN ChildOf(nd[i], k) ELSE i
    BY DEF Step
  <2>2. nd[i].kind = "inner" => InnerOK(nd[i], i, Len(nd))
    BY Kinds DEF Tree
  <2>3. i \in Nat /\ Len(nd) \in Nat
    BY DEF Tree
  <2>4. nd[i].kind = "inner" => ChildOf(nd[i], k) \in i + 1..Len(nd)
    BY <2>2, <2>3, ChildrenBehind
  <2> QED  BY <2>1, <2>2, <2>4
<1>2. \A i \in 1..Len(nd) : \A c \in i + 1..Len(nd) : c # i
  BY DEF Tree
<1> QED  BY <1>1, <1>2 DEF LeadsOn

LEMMA WaysEnd ==
  ASSUME NEW nd, Tree(nd), NEW k \in Key
  PROVE  Arrives(Way(nd, k), Step(nd, k), Len(nd))
<1> DEFINE n == Len(nd)
           J == Step(nd, k)
           w == Way(nd, k)
<1>1. n \in Nat /\ DOMAIN nd = 1..n
  BY DEF Tree
<1>2. /\ LeadsOn(J, n)
      /\ \A i \in 1..n : /\ nd[i].kind = "inner" => J[i] = ChildOf(nd[i], k) /\ J[i] # i
                                                    /\ J[i] \in i + 1..n
                         /\ nd[i].kind # "inner" => J[i] = i
  BY StepsLeadOn
<1>3. PICK g : Arrives(g, J, n)
  <2> HIDE DEF n, J
  <2> QED  BY <1>1, <1>2, EndsExist
<1>4. IsWay(w, nd, k)
  <2>1. IsWay(g, nd, k)
    <3> HIDE DEF J, n
    <3>1. g = [i \in 1..n |-> g[i]]
      BY <1>3 DEF Arrives
    <3>2. \A i \in 1..n : g[i] = IF nd[i].kind = "inner" THEN g[ChildOf(nd[i], k)] ELSE i
      BY <1>2, <1>3 DEF Arrives
    <3> QED  BY <1>1, <3>1, <3>2 DEF IsWay
  <2> QED  BY <2>1 DEF Way
<1> HIDE DEF w, J, n
<1>5. /\ w = [i \in 1..n |-> w[i]]
      /\ \A i \in 1..n : w[i] = IF J[i] = i THEN i ELSE w[J[i]]
  <2>1. w = [i \in 1..n |-> IF nd[i].kind = "inner" THEN w[ChildOf(nd[i], k)] ELSE i]
    BY <1>1, <1>4 DEF IsWay
  <2>2. \A i \in 1..n : w[i] = IF nd[i].kind = "inner" THEN w[ChildOf(nd[i], k)] ELSE i
    BY <2>1
  <2>3. w = [i \in 1..n |-> w[i]]
    BY <2>1
  <2> QED  BY <1>2, <2>2, <2>3
<1>6. w = g
  BY <1>1, <1>2, <1>3, <1>5, ArrivesAlike
<1> QED  BY <1>3, <1>6 DEF w, J, n

(* The ways of a tree that another was made from, without touching a way   *)
(* except behind the node a, at which it ended.                            *)
SameWays(nd, md, a) ==
  /\ Tree(nd) /\ Tree(md) /\ Len(nd) <= Len(md)
  /\ \A i \in 1..Len(nd) : i # a =>
       /\ nd[i].kind = "inner" => md[i] = nd[i]
       /\ nd[i].kind # "inner" => md[i].kind # "inner"
  /\ a \in 1..Len(nd) => nd[a].kind # "inner"

LEMMA WaysGoOn ==
  ASSUME NEW nd, NEW md, NEW a, SameWays(nd, md, a), NEW k \in Key, NEW i \in 1..Len(nd)
  PROVE  /\ Way(md, k)[i] = IF Way(nd, k)[i] = a THEN Way(md, k)[a] ELSE Way(nd, k)[i]
         /\ Way(nd, k)[i] \in 1..Len(nd)
         /\ nd[Way(nd, k)[i]].kind # "inner"
<1> DEFINE g == Way(nd, k)
           h == Way(md, k)
           J == Step(nd, k)
           K == Step(md, k)
           n == Len(nd)
           m == Len(md)
<1>1. Tree(nd) /\ Tree(md) /\ n \in Nat /\ m \in Nat /\ n <= m
  BY DEF SameWays, Tree
<1>2. /\ Arrives(g, J, n) /\ LeadsOn(J, n) /\ Arrives(h, K, m)
      /\ \A j \in 1..n : nd[j].kind = "inner" => J[j] # j
  BY <1>1, WaysEnd, StepsLeadOn
<1>3. ASSUME NEW j \in 1..n, j # a
      PROVE  K[j] = J[j]
  <2>1. j \in 1..m
    BY <1>1
  <2>2. /\ J[j] = IF nd[j].kind = "inner" THEN ChildOf(nd[j], k) ELSE j
        /\ K[j] = IF md[j].kind = "inner" THEN ChildOf(md[j], k) ELSE j
    BY <2>1 DEF Step
  <2> QED  BY <1>3, <2>2 DEF SameWays
<1>4. a \in 1..n => J[a] = a
  BY DEF SameWays, Step
<1> HIDE DEF g, h, J, K, n, m
<1>5. GoesOn(J, n, K, m, a)
  BY <1>1, <1>3, <1>4 DEF GoesOn
<1>6. i \in 1..n
  BY DEF n
<1>7. h[i] = (IF g[i] = a THEN h[a] ELSE g[i]) /\ J[g[i]] = g[i]
  <2>1. EndsBehind(g, h, J, n, a)
    BY <1>1, <1>2, <1>5, EndsGoOn
  <2> QED  BY <1>6, <2>1 DEF EndsBehind
<1>8. g[i] \in 1..n
  BY <1>2, <1>6 DEF Arrives
<1>9. nd[g[i]].kind # "inner"
  BY <1>2, <1>7, <1>8
<1> QED  BY <1>7, <1>8, <1>9 DEF g, h, n

(* A node that is no inner node is where the way from it ends.             *)
LEMMA WayEndsAt ==
  ASSUME NEW nd, Tree(nd), NEW k \in Key, NEW i \in 1..Len(nd)
  PROVE  Way(nd, k)[i] = IF nd[i].kind = "inner" THEN Way(nd, k)[ChildOf(nd[i], k)] ELSE i
<1>1. Arrives(Way(nd, k), Step(nd, k), Len(nd))
  BY WaysEnd
<1>2. /\ nd[i].kind = "inner" => Step(nd, k)[i] = ChildOf(nd[i], k) /\ Step(nd, k)[i] # i
      /\ nd[i].kind # "inner" => Step(nd, k)[i] = i
  BY StepsLeadOn
<1> QED  BY <1>1, <1>2 DEF Arrives

----------------------------------------------------------------------------
(* The inductive invariant: the insertion is at a node on the way that a   *)
(* lookup of its key goes.                                                 *)
OnItsWay ==
  inserting # 0 => at \in 1..Len(node) /\ Way(node, inserting)[at] = LeafFor(inserting)

TreeInv ==
  /\ Tree(node) /\ RootLeaves <= Len(node)
  /\ root \in [Key -> 1..RootLeaves]
  /\ firstLeaf \in 1..Len(node) /\ lastLeaf \in 1..Len(node)
  /\ firstKey \in 0..MAX /\ lastKey \in 0..MAX
  /\ inserting \in Key \cup {0} /\ at \in 0..Len(node)
  /\ failed \in BOOLEAN
  /\ OnItsWay

LEMMA TreeInvIsTypeOK ==
  ASSUME TreeInv PROVE TypeOK
<1>1. ASSUME NEW i \in DOMAIN node
      PROVE  \/ /\ node[i].kind = "leaf"
                /\ {node[i].previousLeaf, node[i].nextLeaf} \subseteq 0..Len(node)
             \/ node[i].kind = "inner" /\ node[i].childLeft \in 1..Len(node)
             \/ node[i] = Raw
  <2>1. Len(node) \in Nat /\ i \in 1..Len(node) /\ i \in Nat
    BY DEF TreeInv, Tree
  <2>2. CASE LeafOK(node[i], Len(node))
    BY <2>2 DEF LeafOK
  <2>3. CASE InnerOK(node[i], i, Len(node))
    <3> DEFINE x == node[i].childLeft
    <3>1. node[i].kind = "inner" /\ x \in Nat /\ i < x /\ x + Children - 1 <= Len(node)
          /\ Children \in Nat \ {0}
      BY <2>3, SizesAssumption DEF InnerOK
    <3> HIDE DEF x
    <3>2. x \in 1..Len(node)
      BY <2>1, <3>1
    <3> QED  BY <3>1, <3>2 DEF x
  <2> QED  BY <2>1, <2>2, <2>3 DEF TreeInv, Tree
<1>2. inserting \in Key \cup {0} /\ at \in 0..Len(node) /\ failed \in BOOLEAN
  BY DEF TreeInv
<1> QED  BY <1>1, <1>2 DEF TreeInv, TypeOK

LEMMA RootInTree ==
  ASSUME TreeInv, NEW k \in Key
  PROVE  root[k] \in 1..Len(node)
<1>1. root[k] \in 1..RootLeaves /\ RootLeaves <= Len(node) /\ Len(node) \in Nat /\ RootLeaves \in Nat
  BY SizesAssumption DEF TreeInv, Tree
<1> QED  BY <1>1

(* A lookup ends at a node that is no inner node.                          *)
LEMMA LookupEnds ==
  ASSUME TreeInv, NEW k \in Key
  PROVE  LeafFor(k) \in 1..Len(node) /\ node[LeafFor(k)].kind # "inner"
<1>1. SameWays(node, node, 0)
  BY DEF SameWays, TreeInv, Tree
<1>2. root[k] \in 1..Len(node)
  BY RootInTree
<1> QED  BY <1>1, <1>2, WaysGoOn, LeafForIs

LEMMA InitIsInv ==
  ASSUME Init PROVE TreeInv
<1>1. PICK under \in [1..RootLeaves -> BoundedSeq(Key, LeafCap)] :
        LET used   == {i \in 1..RootLeaves : under[i] # <<>>}
            points == {k \in Key : \E i \in used : \E q \in DOMAIN under[i] : under[i][q] = k}
        IN /\ \A i \in 1..RootLeaves :
                Sorted(under[i]) /\ \A q \in DOMAIN under[i] : root[under[i][q]] = i
           /\ node = [i \in 1..RootLeaves |->
                        Leaf(under[i], i - 1, (i + 1) % (RootLeaves + 1))]
           /\ firstLeaf = IF used = {} THEN 1 ELSE Min(used)
           /\ lastLeaf = IF used = {} THEN RootLeaves ELSE Max(used)
           /\ firstKey = IF used = {} THEN MAX ELSE Min(points)
           /\ lastKey = IF used = {} THEN 0 ELSE Max(points)
  BY DEF Init
<1> DEFINE n == RootLeaves
           used == {i \in 1..n : under[i] # <<>>}
           points == {k \in Key : \E i \in used : \E q \in DOMAIN under[i] : under[i][q] = k}
<1>2. n \in Nat /\ n > 1 /\ MAX \in Nat /\ Key \subseteq 0..MAX /\ LeafCap \in Nat
  <2>1. MAX \in Nat /\ \A k \in Key : k \in 1..MAX - 1
    BY KeyAssumption
  <2>2. \A k \in Key : k \in 0..MAX
    BY <2>1
  <2> QED  BY <2>1, <2>2, SizesAssumption
<1>3. /\ \A i \in 1..n : Sorted(under[i])
      /\ node = [i \in 1..n |-> Leaf(under[i], i - 1, (i + 1) % (n + 1))]
      /\ firstLeaf = IF used = {} THEN 1 ELSE Min(used)
      /\ lastLeaf = IF used = {} THEN n ELSE Max(used)
      /\ firstKey = IF used = {} THEN MAX ELSE Min(points)
      /\ lastKey = IF used = {} THEN 0 ELSE Max(points)
  BY <1>1
<1>4. ASSUME NEW i \in 1..n
      PROVE  under[i] \in Seq(Key)
  <2>1. under[i] \in BoundedSeq(Key, LeafCap)
    OBVIOUS
  <2> DEFINE s == under[i]
  <2>2. PICK m \in 0..LeafCap : s \in [1..m -> Key]
    BY <2>1 DEF BoundedSeq, SeqOf
  <2>3. m \in Nat
    BY <1>2
  <2> HIDE DEF s
  <2>4. s \in Seq(Key)
    BY <2>2, <2>3
  <2> QED  BY <2>4 DEF s
<1>5. used # {} => points # {}
  <2> SUFFICES ASSUME NEW i \in 1..n, under[i] # <<>>
               PROVE  points # {}
    OBVIOUS
  <2> DEFINE s == under[i]
  <2>1. s \in Seq(Key) /\ s # <<>>
    BY <1>4
  <2>2. 1 \in DOMAIN s /\ s[1] \in Key
    <3> HIDE DEF s
    <3> QED  BY <2>1
  <2>3. s[1] \in points
    BY <2>2
  <2> QED  BY <2>3
<1>6. points \subseteq Key /\ used \subseteq 1..n
  OBVIOUS
<1>7. used # {} => firstLeaf \in used /\ lastLeaf \in used
  <2>1. used \subseteq Nat /\ used \subseteq 0..n
    BY <1>2, <1>6
  <2> HIDE DEF used, n
  <2> QED  BY <1>2, <1>3, <2>1, MinOfNumbers, MaxOfNumbers
<1>8. used # {} => firstKey \in points /\ lastKey \in points
  <2>1. points \subseteq Nat /\ points \subseteq 0..MAX
    <3> HIDE DEF points
    <3>1. \A x \in points : x \in 0..MAX
      BY <1>2, <1>6
    <3>2. \A x \in 0..MAX : x \in Nat
      BY <1>2
    <3> QED  BY <3>1, <3>2
  <2> HIDE DEF used, points
  <2> QED  BY <1>2, <1>3, <1>5, <2>1, MinOfNumbers, MaxOfNumbers
<1> HIDE DEF used, points
<1>9. firstLeaf \in 1..n /\ lastLeaf \in 1..n /\ firstKey \in 0..MAX /\ lastKey \in 0..MAX
  <2>1. CASE used = {}
    BY <1>2, <1>3, <2>1
  <2>2. CASE used # {}
    BY <1>2, <1>6, <1>7, <1>8, <2>2
  <2> QED  BY <2>1, <2>2
<1>10. Len(node) = n /\ DOMAIN node = 1..n
  <2>1. node = [i \in 1..n |-> node[i]]
    BY <1>3
  <2> QED  BY <1>2, <2>1, LengthIs
<1>11. ASSUME NEW i \in 1..n
       PROVE  LeafOK(node[i], n)
  <2>1. node[i] = Leaf(under[i], i - 1, (i + 1) % (n + 1))
    BY <1>3
  <2>2. i - 1 \in 0..n /\ (i + 1) % (n + 1) \in 0..n
    BY <1>2
  <2>3. under[i] \in Seq(Key) /\ Rising(under[i])
    <3>1. under[i] \in Seq(Key) /\ under[i] \in Seq(Int)
      BY <1>4, KeysAreNumbers
    <3>2. \A j \in 1..Len(under[i]) - 1 : under[i][j] <= under[i][j + 1]
      BY <1>3 DEF Sorted
    <3> QED  BY <3>1, <3>2, AdjacentRise
  <2> DEFINE s == under[i]
             y == (i + 1) % (n + 1)
  <2>4. node[i] = [kind |-> "leaf", points |-> s, previousLeaf |-> i - 1, nextLeaf |-> y]
    BY <2>1 DEF Leaf
  <2>5. s \in Seq(Key) /\ Rising(s) /\ y \in 0..n
    BY <2>2, <2>3
  <2> HIDE DEF s, y
  <2> QED  BY <2>2, <2>4, <2>5 DEF LeafOK
<1>12. Tree(node)
  BY <1>2, <1>10, <1>11 DEF Tree
<1>13. /\ root \in [Key -> 1..RootLeaves] /\ inserting = 0 /\ at = 0 /\ failed = FALSE
  BY DEF Init
<1>14. at \in 0..Len(node) /\ RootLeaves <= Len(node)
  BY <1>2, <1>10, <1>13
<1> QED  BY <1>9, <1>10, <1>12, <1>13, <1>14 DEF TreeInv, OnItsWay

----------------------------------------------------------------------------
(* Split.                                                                  *)
LEMMA SplitIs ==
  ASSUME TreeInv, Refuses
  PROVE  /\ inserting \in Key /\ at \in 1..Len(node) /\ at \in Nat
         /\ LeafOK(node[at], Len(node)) /\ SortedKeys(node[at].points)
         /\ Len(node[at].points) > 0
         /\ Inner.lr = Train(node[at].points, Children)
         /\ Inner.childLeft = Len(node) + 1
         /\ InnerOK(Inner, at, Len(node) + Children)
         /\ \A c \in Int : Part(c) = PartOf(node[at].points, c)
<1> DEFINE n == Len(node)
           p == node[at].points
           lr == Train(p, Children)
<1>1. /\ inserting \in Key /\ at \in 1..n /\ at \in Nat /\ n \in Nat
      /\ node[at].kind = "leaf" /\ Len(p) >= LeafMin
  <2>1. inserting # 0 /\ IsLeaf(at) /\ Len(p) >= LeafMin
    BY DEF Refuses
  <2> QED  BY <2>1 DEF TreeInv, Tree, OnItsWay, IsLeaf
<1>2. LeafOK(node[at], n)
  BY <1>1, Kinds DEF TreeInv, Tree
<1>3. SortedKeys(p)
  BY <1>2, Kinds
<1>4. Len(p) > 0 /\ Children \in Nat /\ Children > 1
  <2>1. p \in Seq(Key)
    BY <1>3 DEF SortedKeys
  <2> QED  BY <1>1, <2>1, SizesAssumption
<1>5. lr \in Lines
  <2>1. p \in Seq(Int) /\ Children \in Int
    BY <1>3, <1>4, KeysAreNumbers DEF SortedKeys
  <2> QED  BY <1>4, <2>1, TrainFits
<1>6. Inner = [kind |-> "inner", lr |-> lr, childLeft |-> n + 1]
  BY DEF Inner
<1> HIDE DEF lr, n, p
<1>7. Inner.lr = lr /\ Inner.childLeft = n + 1
  BY <1>6
<1>8. InnerOK(Inner, at, n + Children)
  <2>1. Inner \in [kind : {"inner"}, lr : Lines, childLeft : Nat]
    BY <1>1, <1>5, <1>6
  <2>2. at < n + 1 /\ (n + 1) + Children - 1 <= n + Children
    BY <1>1, <1>4
  <2> QED  BY <1>7, <2>1, <2>2 DEF InnerOK
<1>9. ASSUME NEW c \in Int
      PROVE  Part(c) = PartOf(p, c)
  <2>1. DOMAIN p = 1..Len(p) /\ \A i \in 1..Len(p) : p[i] \in Key
    BY <1>3 DEF SortedKeys
  <2>2. ASSUME NEW i \in 1..Len(p)
        PROVE  ChildOf(Inner, p[i]) = Inner.childLeft + c <=> Predict(lr, Children, p[i]) = c
    <3> DEFINE x == Predict(lr, Children, p[i])
    <3>1. /\ x \in 0..Children - 1 /\ ChildOf(Inner, p[i]) = (n + 1) + x
          /\ Inner.childLeft + c = (n + 1) + c
      <4>1. n + Children \in Nat /\ p[i] \in Key
        BY <1>1, <1>4, <2>1
      <4>2. Predict(Inner.lr, Children, p[i]) \in 0..Children - 1
        BY <1>1, <1>8, <4>1, ChildrenBehind
      <4> QED  BY <1>7, <4>2 DEF ChildOf
    <3> HIDE DEF x
    <3>2. (n + 1) + x = (n + 1) + c <=> x = c
      BY <1>1, <1>4, <3>1
    <3> QED  BY <3>1, <3>2 DEF x
  <2>3. Own(c) = OwnOf(p, c)
    <3>1. Own(c) = {i \in DOMAIN p : ChildOf(Inner, p[i]) = Inner.childLeft + c}
      BY DEF Own, p
    <3>2. OwnOf(p, c) = {i \in 1..Len(p) : Predict(lr, Children, p[i]) = c}
      BY DEF OwnOf, lr
    <3> QED  BY <2>1, <2>2, <3>1, <3>2
  <2> QED  BY <2>3 DEF Part, PartOf, p
<1> QED  BY <1>1, <1>2, <1>3, <1>4, <1>7, <1>8, <1>9 DEF n, p, lr

(* The nodes after Split, whether it has come to its end or has thrown     *)
(* with the child c: the leaf has become an inner node, others keep their  *)
(* points or their children.                                               *)
SplitTo(nd, n, c) ==
  /\ Len(nd) = n + Children /\ DOMAIN nd = 1..n + Children
  /\ nd[at] = Inner
  /\ \A i \in 1..n : i # at =>
       \/ nd[i] = node[i]
       \/ /\ LeafOK(node[i], n) /\ LeafOK(nd[i], n + Children)
          /\ nd[i].points = node[i].points
  /\ \A i \in n + 1..n + c : /\ LeafOK(nd[i], n + Children)
                             /\ nd[i].points = Part(i - (n + 1))
  /\ \A i \in n + c + 1..n + Children : nd[i] = Raw

LEMMA SplitsToTree ==
  ASSUME TreeInv, Refuses, NEW nd, NEW c \in 0..Children, SplitTo(nd, Len(node), c)
  PROVE  Tree(nd) /\ SameWays(node, nd, at) /\ Len(node) <= Len(nd)
<1> DEFINE n == Len(node)
           m == n + Children
<1>1. /\ n \in Nat /\ Children \in Nat /\ Children > 1 /\ m \in Nat /\ n <= m /\ c \in 0..Children
      /\ Tree(node)
  BY SizesAssumption DEF TreeInv, Tree
<1>2. at \in 1..n /\ LeafOK(node[at], n) /\ InnerOK(Inner, at, m)
  BY SplitIs
<1>3. Len(nd) = m /\ DOMAIN nd = 1..m
  BY DEF SplitTo
<1>4. ASSUME NEW i \in 1..n, i # at
      PROVE  nd[i] = node[i] \/ (/\ LeafOK(node[i], n) /\ LeafOK(nd[i], m)
                                 /\ nd[i].points = node[i].points)
  BY <1>4 DEF SplitTo
<1>5. ASSUME NEW i \in 1..m
      PROVE  LeafOK(nd[i], m) \/ InnerOK(nd[i], i, m) \/ nd[i] = Raw
  <2>1. CASE i = at
    BY <1>2, <2>1 DEF SplitTo
  <2>2. CASE i \in 1..n /\ i # at
    <3>1. LeafOK(node[i], n) \/ InnerOK(node[i], i, n) \/ node[i] = Raw
      BY <1>1, <2>2 DEF Tree
    <3>2. LeafOK(node[i], n) => LeafOK(node[i], m)
      <4>1. 0..n \subseteq 0..m
        BY <1>1
      <4> HIDE DEF n, m
      <4> QED  BY <4>1 DEF LeafOK
    <3>3. InnerOK(node[i], i, n) => InnerOK(node[i], i, m)
      <4> DEFINE x == node[i].childLeft
      <4>1. x \in Nat /\ x + Children - 1 <= n => x + Children - 1 <= m
        BY <1>1
      <4> HIDE DEF n, m
      <4> QED  BY <4>1 DEF InnerOK
    <3> QED  BY <1>4, <2>2, <3>1, <3>2, <3>3
  <2>3. CASE i \in n + 1..n + c
    BY <2>3 DEF SplitTo
  <2>4. CASE i \in n + c + 1..n + Children
    BY <2>4 DEF SplitTo
  <2>5. \/ i \in 1..n \/ i \in n + 1..n + c \/ i \in n + c + 1..n + Children
    BY <1>1
  <2> QED  BY <2>1, <2>2, <2>3, <2>4, <2>5
<1>6. Tree(nd)
  BY <1>1, <1>3, <1>5 DEF Tree
<1>7. SameWays(node, nd, at)
  <2>1. ASSUME NEW i \in 1..n, i # at
        PROVE  /\ node[i].kind = "inner" => nd[i] = node[i]
               /\ node[i].kind # "inner" => nd[i].kind # "inner"
    BY <1>4, <2>1, Kinds
  <2>2. node[at].kind # "inner"
    BY <1>2, Kinds
  <2> QED  BY <1>1, <1>3, <1>6, <2>1, <2>2 DEF SameWays
<1> QED  BY <1>1, <1>3, <1>6, <1>7

LEMMA PartsAreSorted ==
  ASSUME TreeInv, Refuses, NEW c \in Int
  PROVE  SortedKeys(Part(c))
<1>1. /\ SortedKeys(node[at].points) /\ Len(node[at].points) > 0
      /\ Part(c) = PartOf(node[at].points, c)
  BY SplitIs
<1> QED  BY <1>1, PartIs

LEMMA LeafIsOK ==
  ASSUME NEW n \in Nat, NEW s, SortedKeys(s), NEW x \in 0..n, NEW y \in 0..n
  PROVE  LeafOK(Leaf(s, x, y), n) /\ Leaf(s, x, y).points = s
BY DEF LeafOK, Leaf, SortedKeys

LEMMA RelinkedIs ==
  ASSUME TreeInv, NEW i \in 1..Len(node), NEW m \in Nat, Len(node) <= m,
         NEW x \in 0..m, NEW y \in 0..m
  PROVE  \/ Relinked(i, x, y) = node[i]
         \/ /\ LeafOK(node[i], Len(node)) /\ LeafOK(Relinked(i, x, y), m)
            /\ Relinked(i, x, y).points = node[i].points
<1> DEFINE n == Len(node)
           v == node[i]
           w == Relinked(i, x, y)
<1>1. CASE IsLeaf(i)
  <2>1. LeafOK(v, n) /\ n \in Nat
    BY <1>1, Kinds DEF TreeInv, Tree, IsLeaf
  <2>2. PICK a, b : /\ a \in 0..m /\ b \in 0..m
                    /\ w = [kind |-> v.kind, points |-> v.points, previousLeaf |-> b, nextLeaf |-> a]
    <3> DEFINE a == IF i = node[at].previousLeaf THEN x ELSE v.nextLeaf
               b == IF i = node[at].nextLeaf THEN y ELSE v.previousLeaf
    <3>1. v.nextLeaf \in 0..n /\ v.previousLeaf \in 0..n
      BY <2>1 DEF LeafOK
    <3>2. \A j \in 0..n : j \in 0..m
      BY <2>1
    <3>3. a \in 0..m /\ b \in 0..m
      BY <3>1, <3>2
    <3>4. w = [v EXCEPT !.nextLeaf = a, !.previousLeaf = b]
      BY <1>1 DEF Relinked
    <3> HIDE DEF a, b, v, w, n
    <3>5. w = [kind |-> v.kind, points |-> v.points, previousLeaf |-> b, nextLeaf |-> a]
      BY <2>1, <3>4 DEF LeafOK
    <3> QED  BY <3>3, <3>5
  <2> HIDE DEF v, w, n
  <2>3. LeafOK(w, m) /\ w.points = v.points
    BY <2>1, <2>2 DEF LeafOK
  <2> QED  BY <2>1, <2>3 DEF v, w, n
<1>2. CASE ~ IsLeaf(i)
  BY <1>2 DEF Relinked
<1> QED  BY <1>1, <1>2

LEMMA SplitLands ==
  ASSUME TreeInv, Split
  PROVE  /\ Refuses /\ SplitTo(node', Len(node), Children)
         /\ Tree(node') /\ SameWays(node, node', at) /\ Len(node) <= Len(node')
<1> DEFINE n == Len(node)
           old == node[at]
           childLeft == Inner.childLeft
           end == childLeft + Children - 1
           Child(i) == Leaf(Part(i - childLeft),
                            IF i = childLeft THEN old.previousLeaf ELSE i - 1,
                            IF i = end THEN old.nextLeaf ELSE i + 1)
           m == n + Children
<1>1. /\ Refuses
      /\ node' = [i \in 1..end |-> IF i = at THEN Inner
                                   ELSE IF i >= childLeft THEN Child(i)
                                   ELSE Relinked(i, childLeft, end)]
  BY DEF Split
<1>2. /\ n \in Nat /\ Children \in Nat /\ Children > 1 /\ m \in Nat /\ n <= m
      /\ childLeft = n + 1 /\ end = m /\ m = n + Children
      /\ at \in 1..n /\ LeafOK(old, n)
  <2>1. n \in Nat /\ Children \in Nat /\ Children > 1
    BY SizesAssumption DEF TreeInv, Tree
  <2>2. Inner.childLeft = n + 1 /\ at \in 1..n /\ LeafOK(old, n)
    BY <1>1, SplitIs
  <2> QED  BY <2>1, <2>2
<1> HIDE DEF childLeft, end, n, m, old
<1>3. Len(node') = m /\ DOMAIN node' = 1..m
  <2>1. node' = [i \in 1..m |-> node'[i]]
    BY <1>1, <1>2
  <2> QED  BY <1>2, <2>1, LengthIs
<1>4. node'[at] = Inner
  <2>1. at \in 1..end
    BY <1>2
  <2> QED  BY <1>1, <2>1
<1>5. ASSUME NEW i \in 1..n, i # at
      PROVE  \/ node'[i] = node[i]
             \/ /\ LeafOK(node[i], n) /\ LeafOK(node'[i], m)
                /\ node'[i].points = node[i].points
  <2>1. i \in 1..end /\ ~ (i >= childLeft) /\ childLeft \in 0..m /\ end \in 0..m
    BY <1>2
  <2>2. node'[i] = Relinked(i, childLeft, end)
    BY <1>1, <1>5, <2>1
  <2>3. i \in 1..Len(node) /\ Len(node) <= m
    BY <1>2 DEF n
  <2>4. \/ Relinked(i, childLeft, end) = node[i]
        \/ /\ LeafOK(node[i], Len(node)) /\ LeafOK(Relinked(i, childLeft, end), m)
           /\ Relinked(i, childLeft, end).points = node[i].points
    BY <1>2, <2>1, <2>3, RelinkedIs
  <2> QED  BY <2>2, <2>4 DEF n
<1>6. ASSUME NEW i \in n + 1..n + Children
      PROVE  LeafOK(node'[i], m) /\ node'[i].points = Part(i - (n + 1))
  <2>1. i \in 1..end /\ i >= childLeft /\ i # at /\ i - childLeft = i - (n + 1)
        /\ i - (n + 1) \in Int
    BY <1>2
  <2>2. node'[i] = Child(i)
    BY <1>1, <2>1
  <2> DEFINE x == IF i = childLeft THEN old.previousLeaf ELSE i - 1
             y == IF i = end THEN old.nextLeaf ELSE i + 1
             s == Part(i - (n + 1))
  <2>3. x \in 0..m /\ y \in 0..m
    <3>1. old.previousLeaf \in 0..n /\ old.nextLeaf \in 0..n
      BY <1>2 DEF LeafOK
    <3> DEFINE a == old.previousLeaf
               b == old.nextLeaf
    <3>2. a \in 0..n /\ b \in 0..n
      BY <3>1
    <3>3. x = (IF i = childLeft THEN a ELSE i - 1) /\ y = (IF i = end THEN b ELSE i + 1)
      OBVIOUS
    <3> HIDE DEF a, b, x, y
    <3> QED  BY <1>2, <3>2, <3>3
  <2>4. SortedKeys(s)
    BY <1>1, <2>1, PartsAreSorted
  <2>5. node'[i] = Leaf(s, x, y)
    BY <2>1, <2>2
  <2> HIDE DEF x, y, s
  <2>6. LeafOK(node'[i], m) /\ node'[i].points = s
    BY <1>2, <2>3, <2>4, <2>5, LeafIsOK
  <2> QED  BY <2>6 DEF s
<1>7. n + Children + 1..n + Children = {}
  BY <1>2
<1>8. SplitTo(node', Len(node), Children)
  BY <1>3, <1>4, <1>5, <1>6, <1>7 DEF SplitTo, n, m
<1>9. Children \in 0..Children
  BY <1>2
<1>10. Tree(node') /\ SameWays(node, node', at) /\ Len(node) <= Len(node')
  <2> DEFINE nd == node'
  <2>1. SplitTo(nd, Len(node), Children) /\ Refuses
    BY <1>1, <1>8
  <2> HIDE DEF nd
  <2>2. Tree(nd) /\ SameWays(node, nd, at) /\ Len(node) <= Len(nd)
    BY <1>9, <2>1, SplitsToTree
  <2> QED  BY <2>2 DEF nd
<1> QED  BY <1>1, <1>8, <1>10

LEMMA SplitThrowsLands ==
  ASSUME TreeInv, SplitThrows
  PROVE  /\ Refuses /\ Tree(node') /\ Len(node) <= Len(node')
<1> DEFINE n == Len(node)
           childLeft == Inner.childLeft
           end == childLeft + Children - 1
           m == n + Children
<1>1. /\ Refuses
      /\ \E c \in 0..Children - 1 :
           node' = [i \in 1..end |->
                      IF i = at THEN Inner
                      ELSE IF i < childLeft THEN node[i]
                      ELSE IF i < childLeft + c
                      THEN Leaf(Part(i - childLeft), 0, 0) ELSE Raw]
  BY DEF SplitThrows
<1>2. PICK c \in 0..Children - 1 :
         node' = [i \in 1..end |->
                      IF i = at THEN Inner
                      ELSE IF i < childLeft THEN node[i]
                      ELSE IF i < childLeft + c
                      THEN Leaf(Part(i - childLeft), 0, 0) ELSE Raw]
  BY <1>1
<1>3. /\ n \in Nat /\ Children \in Nat /\ Children > 1 /\ m \in Nat /\ n <= m
      /\ childLeft = n + 1 /\ end = m /\ m = n + Children
      /\ at \in 1..n /\ c \in 0..Children
  <2>1. n \in Nat /\ Children \in Nat /\ Children > 1
    BY SizesAssumption DEF TreeInv, Tree
  <2>2. Inner.childLeft = n + 1 /\ at \in 1..n
    BY <1>1, SplitIs
  <2> QED  BY <2>1, <2>2
<1> HIDE DEF childLeft, end, n, m
<1>4. Len(node') = m /\ DOMAIN node' = 1..m
  <2>1. node' = [i \in 1..m |-> node'[i]]
    BY <1>2, <1>3
  <2> QED  BY <1>3, <2>1, LengthIs
<1>5. node'[at] = Inner
  <2>1. at \in 1..end
    BY <1>3
  <2> QED  BY <1>2, <2>1
<1>6. ASSUME NEW i \in 1..n, i # at
      PROVE  node'[i] = node[i]
  <2>1. i \in 1..end /\ i < childLeft
    BY <1>3
  <2> QED  BY <1>2, <1>6, <2>1
<1>7. ASSUME NEW i \in n + 1..n + c
      PROVE  LeafOK(node'[i], m) /\ node'[i].points = Part(i - (n + 1))
  <2>1. i \in 1..end /\ ~ (i < childLeft) /\ i < childLeft + c /\ i # at
        /\ i - childLeft = i - (n + 1) /\ i - (n + 1) \in Int /\ 0 \in 0..m
    BY <1>3
  <2> DEFINE s == Part(i - (n + 1))
  <2>2. node'[i] = Leaf(s, 0, 0)
    BY <1>2, <2>1
  <2>3. SortedKeys(s)
    BY <1>1, <2>1, PartsAreSorted
  <2> HIDE DEF s
  <2>4. LeafOK(node'[i], m) /\ node'[i].points = s
    BY <1>3, <2>1, <2>2, <2>3, LeafIsOK
  <2> QED  BY <2>4 DEF s
<1>8. ASSUME NEW i \in n + c + 1..n + Children
      PROVE  node'[i] = Raw
  <2>1. i \in 1..end /\ ~ (i < childLeft) /\ ~ (i < childLeft + c) /\ i # at
    BY <1>3
  <2> QED  BY <1>2, <2>1
<1>9. SplitTo(node', Len(node), c)
  BY <1>4, <1>5, <1>6, <1>7, <1>8 DEF SplitTo, n, m
<1> DEFINE nd == node'
<1>10. SplitTo(nd, Len(node), c)
  BY <1>9
<1> HIDE DEF nd
<1>11. Tree(nd) /\ Len(node) <= Len(nd)
  BY <1>1, <1>3, <1>10, SplitsToTree
<1> QED  BY <1>1, <1>11 DEF nd

(* Other points in one leaf.                                               *)
WithPoints(nd, a, s) == [nd EXCEPT ![a].points = s]

LEMMA PointsChanged ==
  ASSUME NEW nd, Tree(nd), NEW a \in 1..Len(nd), LeafOK(nd[a], Len(nd)),
         NEW s, SortedKeys(s), NEW md, md = WithPoints(nd, a, s)
  PROVE  /\ Tree(md) /\ Len(md) = Len(nd)
         /\ SameWays(nd, md, 0)
         /\ \A i \in 1..Len(nd) : i # a => md[i] = nd[i]
         /\ LeafOK(md[a], Len(nd)) /\ md[a].points = s
<1> DEFINE n == Len(nd)
<1>1. n \in Nat /\ DOMAIN nd = 1..n /\ a \in 1..n
  BY DEF Tree
<1>2. \A i \in 1..n : md[i] = IF i = a THEN [nd[a] EXCEPT !.points = s] ELSE nd[i]
  BY <1>1 DEF WithPoints
<1>3. Len(md) = n /\ DOMAIN md = 1..n
  <2>1. md = [i \in 1..n |-> md[i]]
    BY <1>1 DEF WithPoints
  <2> QED  BY <1>1, <2>1, LengthIs
<1>4. LeafOK(md[a], n) /\ md[a].points = s
  <2> DEFINE v == nd[a]
             w == md[a]
  <2>1. LeafOK(v, n) /\ w = [v EXCEPT !.points = s]
    BY <1>1, <1>2
  <2> HIDE DEF v, w, n
  <2>2. LeafOK(w, n) /\ w.points = s
    BY <2>1 DEF LeafOK, SortedKeys
  <2> QED  BY <2>2 DEF w
<1>5. \A i \in 1..n : i # a => md[i] = nd[i]
  BY <1>2
<1>6. Tree(md)
  <2>1. ASSUME NEW i \in 1..n
        PROVE  LeafOK(md[i], n) \/ InnerOK(md[i], i, n) \/ md[i] = Raw
    BY <1>4, <1>5 DEF Tree
  <2> QED  BY <1>1, <1>3, <2>1 DEF Tree
<1>7. SameWays(nd, md, 0)
  <2>1. ASSUME NEW i \in 1..n
        PROVE  /\ nd[i].kind = "inner" => md[i] = nd[i]
               /\ nd[i].kind # "inner" => md[i].kind # "inner"
    <3>1. nd[a].kind # "inner" /\ md[a].kind # "inner"
      BY <1>4, Kinds
    <3> QED  BY <1>5, <3>1
  <2>2. ~ (0 \in 1..n) /\ n <= n
    BY <1>1
  <2> QED  BY <1>3, <1>6, <2>1, <2>2 DEF SameWays
<1> QED  BY <1>3, <1>4, <1>5, <1>6, <1>7

----------------------------------------------------------------------------
(* The steps.                                                              *)
LEMMA WaysStay ==
  ASSUME NEW nd, NEW md, SameWays(nd, md, 0), NEW k \in Key, NEW i \in 1..Len(nd)
  PROVE  /\ Way(md, k)[i] = Way(nd, k)[i]
         /\ Way(nd, k)[i] \in 1..Len(nd)
<1>1. /\ Way(md, k)[i] = IF Way(nd, k)[i] = 0 THEN Way(md, k)[0] ELSE Way(nd, k)[i]
      /\ Way(nd, k)[i] \in 1..Len(nd)
  BY WaysGoOn
<1>2. Len(nd) \in Nat /\ ~ (0 \in 1..Len(nd))
  BY DEF SameWays, Tree
<1> QED  BY <1>1, <1>2

(* The points held under k, of given nodes and a given root.               *)
HeldIn(nd, a, k) == IF nd[a].kind = "leaf" THEN Count(nd[a].points, k) ELSE 0

LEMMA HeldIs ==
  ASSUME NEW k
  PROVE  /\ Held(k) = HeldIn(node, Way(node, k)[root[k]], k)
         /\ Held(k)' = HeldIn(node', Way(node', k)[root'[k]], k)
         /\ LeafFor(k)' = Way(node', k)[root'[k]]
<1>1. LeafFor(k)' = Way(node', k)[root'[k]]
  BY DEF LeafFor, Way, IsWay
<1>2. Held(k) = HeldIn(node, Way(node, k)[root[k]], k)
  BY LeafForIs DEF Held, HeldIn, IsLeaf
<1>3. Held(k)' = HeldIn(node', LeafFor(k)', k)
  <2>1. Held(k)' = IF node'[LeafFor(k)'].kind = "leaf"
                   THEN Count(node'[LeafFor(k)'].points, k) ELSE 0
    BY DEF Held, IsLeaf, Count
  <2> QED  BY <2>1 DEF HeldIn
<1> QED  BY <1>1, <1>2, <1>3

(* Nothing changes for a lookup when the nodes do not change.              *)
LEMMA HeldStays ==
  ASSUME UNCHANGED <<node, root>>
  PROVE  UNCHANGED HeldKeys
<1>1. ASSUME NEW k \in Key
      PROVE  Held(k)' = Held(k)
  BY HeldIs
<1> QED  BY <1>1 DEF HeldKeys

Recounts(s, p, k, x) ==
  \A j \in Key : Count(s, j) = IF j = k THEN x ELSE Count(p, j)

HeldBut(k, x) == [HeldKeys EXCEPT ![k] = x]

(* The points of one leaf change, and with them what is held of k.         *)
LEMMA HeldChanges ==
  ASSUME TreeInv, root' = root, NEW a \in 1..Len(node), NEW s, SortedKeys(s),
         LeafOK(node[a], Len(node)), node' = WithPoints(node, a, s),
         NEW k \in Key, LeafFor(k) = a, NEW x, Recounts(s, node[a].points, k, x)
  PROVE  /\ Tree(node') /\ Len(node') = Len(node)
         /\ HeldKeys' = HeldBut(k, x)
         /\ HeldKeys[k] = Count(node[a].points, k)
<1> DEFINE nd == node
           md == node'
<1>1. /\ Tree(nd) /\ a \in 1..Len(nd) /\ LeafOK(nd[a], Len(nd))
      /\ md = WithPoints(nd, a, s)
  BY DEF TreeInv
<1> HIDE DEF nd, md
<1>2. /\ Tree(md) /\ Len(md) = Len(nd)
      /\ SameWays(nd, md, 0)
      /\ \A i \in 1..Len(nd) : i # a => md[i] = nd[i]
      /\ LeafOK(md[a], Len(nd)) /\ md[a].points = s
  BY <1>1, PointsChanged
<1> USE DEF nd, md
<1>3. nd[a].kind = "leaf" /\ md[a].kind = "leaf"
  BY <1>2, Kinds
<1>4. ASSUME NEW j \in Key
      PROVE  Held(j)' = IF j = k THEN x ELSE Held(j)
  <2> DEFINE b == Way(nd, j)[root[j]]
  <2>1. root[j] \in 1..Len(nd)
    BY RootInTree
  <2>2. b \in 1..Len(nd) /\ Way(md, j)[root[j]] = b
    <3> HIDE DEF nd, md
    <3> QED  BY <1>2, <2>1, WaysStay
  <2>3. /\ Held(j) = HeldIn(nd, b, j) /\ Held(j)' = HeldIn(md, b, j)
        /\ LeafFor(j) = b
    BY <2>2, HeldIs, LeafForIs
  <2> HIDE DEF b
  <2>4. CASE b = a
    <3>1. Held(j) = Count(nd[a].points, j) /\ Held(j)' = Count(s, j)
      BY <1>2, <1>3, <2>3, <2>4 DEF HeldIn
    <3>2. Count(s, j) = IF j = k THEN x ELSE Count(nd[a].points, j)
      BY DEF Recounts
    <3> QED  BY <3>1, <3>2
  <2>5. CASE b # a
    <3>1. md[b] = nd[b]
      BY <1>2, <2>2, <2>5
    <3>2. j # k
      BY <2>3, <2>5
    <3> QED  BY <2>3, <3>1, <3>2 DEF HeldIn
  <2> QED  BY <2>4, <2>5
<1>5. HeldKeys' = [j \in Key |-> Held(j)'] /\ HeldKeys = [j \in Key |-> Held(j)]
  BY DEF HeldKeys
<1>6. HeldKeys' = HeldBut(k, x)
  BY <1>4, <1>5 DEF HeldBut
<1>7. HeldKeys[k] = Count(node[a].points, k)
  <2>1. Held(k) = HeldIn(nd, a, k)
    BY HeldIs, LeafForIs
  <2> QED  BY <1>3, <1>5, <2>1 DEF HeldIn
<1> QED  BY <1>2, <1>6, <1>7

LEMMA InsertIntoLeafIs ==
  ASSUME TreeInv, InsertIntoLeaf
  PROVE  /\ Tree(node') /\ Len(node') = Len(node) /\ inserting \in Key
         /\ HeldKeys' = [HeldKeys EXCEPT ![inserting] = @ + 1]
         /\ at \in 1..Len(node)
<1> DEFINE k == inserting
           p == node[at].points
<1>1. /\ inserting # 0 /\ IsLeaf(at) /\ root' = root
      /\ node' = WithPoints(node, at, Added(p, k))
  BY DEF InsertIntoLeaf, Added, WithPoints
<1>2. k \in Key /\ at \in 1..Len(node) /\ Way(node, k)[at] = LeafFor(k)
  BY <1>1 DEF TreeInv, OnItsWay
<1>3. LeafOK(node[at], Len(node)) /\ SortedKeys(p)
  BY <1>1, <1>2, Kinds DEF TreeInv, Tree, IsLeaf
<1>4. LeafFor(k) = at
  <2>1. Tree(node)
    BY DEF TreeInv
  <2>2. Way(node, k)[at] = IF node[at].kind = "inner" THEN Way(node, k)[ChildOf(node[at], k)] ELSE at
    BY <1>2, <2>1, WayEndsAt
  <2>3. node[at].kind # "inner"
    BY <1>3, Kinds
  <2> QED  BY <1>2, <2>2, <2>3
<1> DEFINE s == Added(p, k)
<1>5. SortedKeys(s) /\ \A j : Count(s, j) = Count(p, j) + (IF j = k THEN 1 ELSE 0)
  BY <1>2, <1>3, AddedIs
<1>6. \A j : Count(p, j) \in Nat
  <2>1. Len(p) \in Nat /\ DOMAIN p = 1..Len(p)
    BY <1>3 DEF SortedKeys
  <2> HIDE DEF p
  <2> QED  BY <2>1, CountIs, OccursIsNumber
<1>7. node' = WithPoints(node, at, s)
  BY <1>1
<1> DEFINE x == Count(p, k) + 1
<1>8. Recounts(s, node[at].points, k, x)
  BY <1>5, <1>6 DEF Recounts
<1> HIDE DEF s, x
<1>9. /\ Tree(node') /\ Len(node') = Len(node)
      /\ HeldKeys' = HeldBut(k, x)
      /\ HeldKeys[k] = Count(p, k)
  BY <1>1, <1>2, <1>3, <1>4, <1>5, <1>7, <1>8, HeldChanges
<1> HIDE DEF k
<1>10. HeldKeys' = [HeldKeys EXCEPT ![k] = @ + 1]
  BY <1>9 DEF x, HeldBut
<1> QED  BY <1>2, <1>9, <1>10 DEF k

LEMMA DeleteIs ==
  ASSUME TreeInv, NEW k \in Key, Delete(k)
  PROVE  /\ Tree(node') /\ Len(node') = Len(node)
         /\ HeldKeys' = [HeldKeys EXCEPT ![k] = 0]
<1> DEFINE a == LeafFor(k)
           p == node[a].points
           s == Without(p, k)
<1>1. /\ Held(k) > 0 /\ root' = root
      /\ node' = WithPoints(node, a, s)
  BY DEF Delete, Without, WithPoints
<1>2. a \in 1..Len(node) /\ IsLeaf(a)
  <2>1. a \in 1..Len(node)
    BY LookupEnds
  <2>2. ~ IsLeaf(a) => Held(k) = 0
    BY DEF Held
  <2> QED  BY <1>1, <2>1, <2>2
<1>3. LeafOK(node[a], Len(node)) /\ SortedKeys(p)
  BY <1>2, Kinds DEF TreeInv, Tree, IsLeaf
<1>4. SortedKeys(s) /\ Recounts(s, node[a].points, k, 0)
  BY <1>3, WithoutIs DEF Recounts
<1> HIDE DEF s
<1>5. LeafFor(k) = a
  OBVIOUS
<1> HIDE DEF a
<1>6. /\ Tree(node') /\ Len(node') = Len(node)
      /\ HeldKeys' = HeldBut(k, 0)
  BY <1>1, <1>2, <1>3, <1>4, <1>5, HeldChanges
<1> QED  BY <1>6 DEF HeldBut

LEMMA NoneInserted ==
  ASSUME inserting' = 0, at' = 0
  PROVE  OnItsWay'
BY DEF OnItsWay

LEMMA StepKeepsInv ==
  ASSUME TreeInv, [Next]_vars
  PROVE  TreeInv'
<1>0. /\ Tree(node) /\ Len(node) \in Nat /\ RootLeaves \in Nat /\ RootLeaves <= Len(node)
      /\ root \in [Key -> 1..RootLeaves]
      /\ firstLeaf \in 1..Len(node) /\ lastLeaf \in 1..Len(node)
      /\ firstKey \in 0..MAX /\ lastKey \in 0..MAX
      /\ inserting \in Key \cup {0} /\ at \in 0..Len(node)
      /\ failed \in BOOLEAN
      /\ OnItsWay
  BY SizesAssumption DEF TreeInv, Tree
<1>1. ASSUME NEW k \in Key, BeginInsert(k)
      PROVE  TreeInv'
  <2>1. /\ inserting' = k /\ at' = root[k] /\ node' = node /\ root' = root
        /\ UNCHANGED <<firstLeaf, lastLeaf, firstKey, lastKey, failed>>
    BY <1>1 DEF BeginInsert
  <2>2. root[k] \in 1..Len(node)
    BY RootInTree
  <2>3. OnItsWay'
    <3>1. LeafFor(k)' = Way(node, k)[root[k]]
      BY <2>1, HeldIs
    <3>2. LeafFor(inserting)' = Way(node, k)[root[k]]
      BY <2>1, <3>1 DEF LeafFor
    <3> QED  BY <2>1, <2>2, <3>2 DEF OnItsWay
  <2>4. at' \in 0..Len(node)
    BY <1>0, <2>1, <2>2
  <2> QED  BY <1>0, <2>1, <2>3, <2>4 DEF TreeInv
<1>2. CASE Descend
  <2>1. /\ inserting # 0 /\ node[at].kind = "inner" /\ at' = ChildOf(node[at], inserting)
        /\ node' = node /\ root' = root /\ inserting' = inserting
        /\ UNCHANGED <<firstLeaf, lastLeaf, firstKey, lastKey, failed>>
    BY <1>2 DEF Descend
  <2> DEFINE k == inserting
  <2>2. k \in Key /\ at \in 1..Len(node) /\ Way(node, k)[at] = LeafFor(k)
    BY <1>0, <2>1 DEF OnItsWay
  <2>3. InnerOK(node[at], at, Len(node)) /\ at \in Nat
    BY <1>0, <2>1, <2>2, Kinds DEF Tree
  <2>4. at' \in at + 1..Len(node)
    BY <1>0, <2>1, <2>2, <2>3, ChildrenBehind
  <2>5. at' \in 1..Len(node) /\ at' \in 0..Len(node)
    BY <1>0, <2>3, <2>4
  <2>6. Way(node, k)[at] = Way(node, k)[at']
    <3>1. Way(node, k)[at] = IF node[at].kind = "inner" THEN Way(node, k)[ChildOf(node[at], k)] ELSE at
      BY <1>0, <2>2, WayEndsAt
    <3> QED  BY <2>1, <3>1
  <2>7. OnItsWay'
    <3>1. LeafFor(inserting)' = LeafFor(inserting)
      BY <2>1 DEF LeafFor, ChildOf
    <3>2. Way(node', inserting') = Way(node, inserting)
      BY <2>1
    <3>3. Way(node', inserting')[at'] = LeafFor(inserting)'
      BY <2>2, <2>6, <3>1, <3>2
    <3>4. at' \in 1..Len(node')
      BY <2>1, <2>5
    <3> QED  BY <3>3, <3>4 DEF OnItsWay
  <2> QED  BY <1>0, <2>1, <2>5, <2>7 DEF TreeInv
<1>3. CASE InsertIntoLeaf
  <2>1. Tree(node') /\ Len(node') = Len(node) /\ inserting \in Key /\ at \in 1..Len(node)
    BY <1>3, InsertIntoLeafIs
  <2>2. /\ lastLeaf' = (IF inserting > lastKey THEN at ELSE lastLeaf)
        /\ lastKey' = Max({inserting, lastKey})
        /\ firstLeaf' = (IF inserting < firstKey THEN at ELSE firstLeaf)
        /\ firstKey' = Min({inserting, firstKey})
        /\ inserting' = 0 /\ at' = 0 /\ root' = root /\ failed' = failed
    BY <1>3 DEF InsertIntoLeaf
  <2>3. inserting \in 0..MAX /\ MAX \in Nat
    <3>1. MAX \in Nat /\ inserting \in 1..MAX - 1
      BY <2>1, KeyAssumption
    <3> QED  BY <3>1
  <2>4. lastKey' \in 0..MAX /\ firstKey' \in 0..MAX
    <3>1. \A x \in 0..MAX : x \in Int
      BY <2>3
    <3>2. lastKey' = IF inserting >= lastKey THEN inserting ELSE lastKey
      BY <1>0, <2>2, <2>3, <3>1, MaxOfTwo
    <3>3. firstKey' = IF inserting <= firstKey THEN inserting ELSE firstKey
      BY <1>0, <2>2, <2>3, <3>1, MinOfTwo
    <3> QED  BY <1>0, <2>3, <3>2, <3>3
  <2>5. firstLeaf' \in 1..Len(node) /\ lastLeaf' \in 1..Len(node)
    BY <1>0, <2>1, <2>2
  <2>6. at' \in 0..Len(node) /\ inserting' \in Key \cup {0}
    BY <1>0, <2>2
  <2>7. OnItsWay'
    BY <2>2, NoneInserted
  <2> QED  BY <1>0, <2>1, <2>2, <2>4, <2>5, <2>6, <2>7 DEF TreeInv
<1>4. CASE Split
  <2>1. /\ Refuses /\ SplitTo(node', Len(node), Children)
        /\ Tree(node') /\ SameWays(node, node', at) /\ Len(node) <= Len(node')
    BY <1>4, SplitLands
  <2>2. /\ lastLeaf' = (IF at = lastLeaf THEN Inner.childLeft + Children - 1 ELSE lastLeaf)
        /\ firstLeaf' = (IF at = firstLeaf THEN Inner.childLeft ELSE firstLeaf)
        /\ inserting' = inserting /\ at' = at /\ root' = root /\ failed' = failed
        /\ firstKey' = firstKey /\ lastKey' = lastKey
    BY <1>4 DEF Split
  <2>3. /\ inserting \in Key /\ at \in 1..Len(node) /\ Inner.childLeft = Len(node) + 1
        /\ Len(node') = Len(node) + Children /\ Children \in Nat /\ Children > 1
    BY <2>1, SplitIs, SizesAssumption DEF SplitTo
  <2>4. firstLeaf' \in 1..Len(node') /\ lastLeaf' \in 1..Len(node')
    <3> DEFINE n == Len(node)
               x == Inner.childLeft
    <3>1. /\ lastLeaf' = (IF at = lastLeaf THEN x + Children - 1 ELSE lastLeaf)
          /\ firstLeaf' = (IF at = firstLeaf THEN x ELSE firstLeaf)
          /\ x = n + 1 /\ n \in Nat /\ firstLeaf \in 1..n /\ lastLeaf \in 1..n
      BY <1>0, <2>2, <2>3
    <3> HIDE DEF n, x
    <3>2. firstLeaf' \in 1..n + Children /\ lastLeaf' \in 1..n + Children
      BY <2>3, <3>1
    <3> QED  BY <2>3, <3>2 DEF n
  <2>5. /\ at' \in 1..Len(node') /\ at' \in 0..Len(node') /\ RootLeaves <= Len(node')
    BY <1>0, <2>2, <2>3
  <2>6. OnItsWay'
    <3> DEFINE k == inserting
               r == root[k]
               md == node'
    <3>1. k \in Key /\ k # 0 /\ Way(node, k)[at] = LeafFor(k)
      BY <1>0, <2>1, <2>3 DEF OnItsWay, Refuses
    <3>2. r \in 1..Len(node)
      BY <3>1, RootInTree
    <3>3. Way(node, k)[r] = at
      <4>1. node[at].kind # "inner"
        BY <2>3, <2>1 DEF SameWays
      <4>2. Way(node, k)[at] = IF node[at].kind = "inner" THEN Way(node, k)[ChildOf(node[at], k)] ELSE at
        BY <1>0, <2>3, <3>1, WayEndsAt
      <4>3. LeafFor(k) = Way(node, k)[r]
        BY LeafForIs
      <4> QED  BY <3>1, <4>1, <4>2, <4>3
    <3>4. SameWays(node, md, at)
      BY <2>1
    <3> HIDE DEF md, r
    <3>5. Way(md, k)[r] = IF Way(node, k)[r] = at THEN Way(md, k)[at] ELSE Way(node, k)[r]
      BY <3>1, <3>2, <3>4, WaysGoOn
    <3>6. Way(md, k)[r] = Way(md, k)[at]
      BY <3>3, <3>5
    <3>7. LeafFor(inserting)' = Way(node', inserting')[root'[inserting']]
      BY DEF LeafFor, Way, IsWay
    <3>8. LeafFor(inserting)' = Way(node', inserting')[at']
      BY <2>2, <3>6, <3>7 DEF md, r
    <3> QED  BY <2>5, <3>8 DEF OnItsWay
  <2> QED  BY <1>0, <2>1, <2>2, <2>3, <2>4, <2>5, <2>6 DEF TreeInv
<1>5. CASE SplitThrows
  <2>1. Tree(node') /\ Len(node) <= Len(node')
    BY <1>5, SplitThrowsLands
  <2>2. /\ inserting' = 0 /\ at' = 0 /\ failed' = TRUE
        /\ UNCHANGED <<root, firstLeaf, lastLeaf, firstKey, lastKey>>
    BY <1>5 DEF SplitThrows
  <2>3. /\ Len(node') \in Nat /\ RootLeaves <= Len(node')
        /\ firstLeaf' \in 1..Len(node') /\ lastLeaf' \in 1..Len(node')
        /\ at' \in 0..Len(node')
    <3>1. Len(node') \in Nat
      BY <2>1 DEF Tree
    <3> QED  BY <1>0, <2>1, <2>2, <3>1
  <2>4. OnItsWay'
    BY <2>2, NoneInserted
  <2> QED  BY <1>0, <2>1, <2>2, <2>3, <2>4 DEF TreeInv
<1>6. ASSUME NEW k \in Key, Delete(k)
      PROVE  TreeInv'
  <2>1. Tree(node') /\ Len(node') = Len(node)
    BY <1>6, DeleteIs
  <2>2. /\ inserting = 0 /\ inserting' = inserting /\ at' = at /\ root' = root /\ failed' = failed
        /\ UNCHANGED <<firstLeaf, lastLeaf, firstKey, lastKey>>
    BY <1>6 DEF Delete
  <2>3. OnItsWay'
    BY <2>2 DEF OnItsWay
  <2> QED  BY <1>0, <2>1, <2>2, <2>3 DEF TreeInv
<1>7. CASE UNCHANGED vars
  <2>1. /\ node' = node /\ root' = root /\ inserting' = inserting /\ at' = at
        /\ UNCHANGED <<firstLeaf, lastLeaf, firstKey, lastKey, failed>>
    BY <1>7 DEF vars
  <2>2. OnItsWay'
    <3>1. LeafFor(inserting)' = LeafFor(inserting)
      BY <2>1 DEF LeafFor, ChildOf
    <3> QED  BY <1>0, <2>1, <3>1 DEF OnItsWay
  <2> QED  BY <1>0, <2>1, <2>2 DEF TreeInv
<1> QED  BY <1>1, <1>2, <1>3, <1>4, <1>5, <1>6, <1>7 DEF Next

(* The links that Split sets: of the new leaves, and towards them.         *)
OldLinks(md, n, c) ==
  \A i \in 1..n : i # at /\ node[i].kind = "leaf" =>
    /\ md[i].kind = "leaf" /\ md[i].points = node[i].points
    /\ md[i].nextLeaf = IF i = node[at].previousLeaf THEN n + 1 ELSE node[i].nextLeaf
    /\ md[i].previousLeaf = IF i = node[at].nextLeaf THEN n + c ELSE node[i].previousLeaf

NewLinks(md, n, c) ==
  \A i \in n + 1..n + c :
    /\ md[i].kind = "leaf" /\ md[i].points = Part(i - (n + 1))
    /\ md[i].nextLeaf = IF i = n + c THEN node[at].nextLeaf ELSE i + 1
    /\ md[i].previousLeaf = IF i = n + 1 THEN node[at].previousLeaf ELSE i - 1

LEMMA SplitLinks ==
  ASSUME TreeInv, Split
  PROVE  OldLinks(node', Len(node), Children) /\ NewLinks(node', Len(node), Children)
<1> DEFINE n == Len(node)
           old == node[at]
           childLeft == Inner.childLeft
           end == childLeft + Children - 1
           Child(i) == Leaf(Part(i - childLeft),
                            IF i = childLeft THEN old.previousLeaf ELSE i - 1,
                            IF i = end THEN old.nextLeaf ELSE i + 1)
<1>1. /\ Refuses
      /\ node' = [i \in 1..end |-> IF i = at THEN Inner
                                   ELSE IF i >= childLeft THEN Child(i)
                                   ELSE Relinked(i, childLeft, end)]
  BY DEF Split
<1>2. /\ n \in Nat /\ Children \in Nat /\ Children > 1
      /\ childLeft = n + 1 /\ end = n + Children
      /\ at \in 1..n /\ Tree(node)
  <2>1. n \in Nat /\ Children \in Nat /\ Children > 1 /\ Tree(node)
    BY SizesAssumption DEF TreeInv, Tree
  <2>2. Inner.childLeft = n + 1 /\ at \in 1..n
    BY <1>1, SplitIs
  <2> QED  BY <2>1, <2>2
<1> HIDE DEF childLeft, end, n
<1>3. ASSUME NEW i \in 1..n, i # at, node[i].kind = "leaf"
      PROVE  /\ node'[i].kind = "leaf" /\ node'[i].points = node[i].points
             /\ node'[i].nextLeaf = IF i = old.previousLeaf THEN n + 1 ELSE node[i].nextLeaf
             /\ node'[i].previousLeaf = IF i = old.nextLeaf THEN n + Children ELSE node[i].previousLeaf
  <2>1. i \in 1..end /\ ~ (i >= childLeft)
    BY <1>2
  <2>2. node'[i] = Relinked(i, childLeft, end)
    BY <1>1, <1>3, <2>1
  <2> DEFINE v == node[i]
             a == IF i = old.previousLeaf THEN childLeft ELSE v.nextLeaf
             b == IF i = old.nextLeaf THEN end ELSE v.previousLeaf
  <2>3. node'[i] = [v EXCEPT !.nextLeaf = a, !.previousLeaf = b]
    BY <1>3, <2>2 DEF Relinked, IsLeaf
  <2>4. LeafOK(v, n)
    BY <1>2, <1>3, Kinds DEF Tree, n
  <2> HIDE DEF a, b, v
  <2>5. /\ node'[i].kind = v.kind /\ node'[i].points = v.points
        /\ node'[i].nextLeaf = a /\ node'[i].previousLeaf = b
    BY <2>3, <2>4 DEF LeafOK
  <2> QED  BY <1>2, <1>3, <2>5 DEF a, b, v
<1>4. ASSUME NEW i \in n + 1..n + Children
      PROVE  /\ node'[i].kind = "leaf" /\ node'[i].points = Part(i - (n + 1))
             /\ node'[i].nextLeaf = IF i = n + Children THEN old.nextLeaf ELSE i + 1
             /\ node'[i].previousLeaf = IF i = n + 1 THEN old.previousLeaf ELSE i - 1
  <2>1. i \in 1..end /\ i >= childLeft /\ i # at
    BY <1>2
  <2>2. node'[i] = Child(i)
    BY <1>1, <2>1
  <2> QED  BY <1>2, <2>2 DEF Leaf
<1> QED  BY <1>3, <1>4 DEF OldLinks, NewLinks, n

(* Where a lookup comes to that came to the leaf that was split.           *)
PartFor(k) == Predict(Train(node[at].points, Children), Children, k)

LEMMA SplitWays ==
  ASSUME TreeInv, Split, NEW k \in Key, NEW r \in 1..Len(node)
  PROVE  /\ PartFor(k) \in 0..Children - 1
         /\ Way(node', k)[r] = IF Way(node, k)[r] = at THEN Len(node) + 1 + PartFor(k)
                               ELSE Way(node, k)[r]
<1> DEFINE n == Len(node)
           md == node'
           c == PartFor(k)
           i == n + 1 + c
<1>1. /\ Refuses /\ Tree(md) /\ SameWays(node, md, at)
      /\ NewLinks(md, n, Children) /\ SplitTo(md, n, Children)
  BY SplitLands, SplitLinks
<1>2. /\ at \in 1..n /\ at \in Nat /\ n \in Nat /\ Children \in Nat /\ Children > 1
      /\ Inner.lr = Train(node[at].points, Children) /\ Inner.childLeft = n + 1
      /\ InnerOK(Inner, at, n + Children)
  BY <1>1, SplitIs, SizesAssumption DEF TreeInv, Tree
<1>3. c \in 0..Children - 1 /\ ChildOf(Inner, k) = i
  <2>1. n + Children \in Nat
    BY <1>2
  <2>2. /\ ChildOf(Inner, k) = Inner.childLeft + Predict(Inner.lr, Children, k)
        /\ Predict(Inner.lr, Children, k) \in 0..Children - 1
    BY <1>2, <2>1, ChildrenBehind
  <2> QED  BY <1>2, <2>2 DEF PartFor
<1> HIDE DEF c, md
<1>4. i \in n + 1..n + Children /\ i \in 1..n + Children /\ at \in 1..n + Children
  BY <1>2, <1>3
<1>5. md[i].kind = "leaf" /\ Len(md) = n + Children /\ md[at] = Inner
  BY <1>1, <1>4 DEF NewLinks, SplitTo
<1> HIDE DEF i
<1>6. Way(md, k)[i] = i
  <2>1. Way(md, k)[i] = IF md[i].kind = "inner" THEN Way(md, k)[ChildOf(md[i], k)] ELSE i
    BY <1>1, <1>4, <1>5, WayEndsAt
  <2> QED  BY <1>5, <2>1
<1>7. Way(md, k)[at] = i
  <2>1. Way(md, k)[at] = IF md[at].kind = "inner" THEN Way(md, k)[ChildOf(md[at], k)] ELSE at
    BY <1>1, <1>4, <1>5, WayEndsAt
  <2>2. Inner.kind = "inner"
    BY <1>2, Kinds
  <2> QED  BY <1>3, <1>5, <1>6, <2>1, <2>2
<1>8. Way(md, k)[r] = IF Way(node, k)[r] = at THEN Way(md, k)[at] ELSE Way(node, k)[r]
  BY <1>1, WaysGoOn
<1> QED  BY <1>3, <1>7, <1>8 DEF c, i, md

LEMMA SplitParts ==
  ASSUME TreeInv, Refuses
  PROVE  \A c \in Int, k \in Key : Count(Part(c), k) = IF PartFor(k) = c
                                                       THEN Count(node[at].points, k) ELSE 0
<1>1. /\ SortedKeys(node[at].points) /\ Len(node[at].points) > 0
      /\ \A c \in Int : Part(c) = PartOf(node[at].points, c)
  BY SplitIs
<1> DEFINE p == node[at].points
<1> HIDE DEF p
<1>2. \A c \in Int, k \in Key : Count(PartOf(p, c), k)
                                  = IF Predict(Train(p, Children), Children, k) = c
                                    THEN Count(p, k) ELSE 0
  BY <1>1, PartIs DEF p
<1> QED  BY <1>1, <1>2 DEF p, PartFor

(* A split leaves every point where a lookup of its key comes to.          *)
LEMMA SplitKeepsHeld ==
  ASSUME TreeInv, Split
  PROVE  UNCHANGED HeldKeys
<1> DEFINE n == Len(node)
           md == node'
<1>1. /\ Refuses /\ SplitTo(md, n, Children) /\ NewLinks(md, n, Children) /\ root' = root
  BY SplitLands, SplitLinks DEF Split
<1>2. n \in Nat /\ Children \in Nat /\ node[at].kind = "leaf"
  BY <1>1, SplitIs, Kinds, SizesAssumption DEF TreeInv, Tree
<1> HIDE DEF n, md
<1>3. ASSUME NEW k \in Key
      PROVE  Held(k)' = Held(k)
  <2> DEFINE r == root[k]
             b == Way(node, k)[r]
             d == Way(md, k)[r]
             c == PartFor(k)
  <2>1. r \in 1..Len(node)
    BY RootInTree
  <2>2. /\ c \in 0..Children - 1
        /\ d = IF b = at THEN n + 1 + c ELSE b
    <3> HIDE DEF r
    <3> QED  BY <2>1, SplitWays DEF n, md
  <2>3. Held(k) = HeldIn(node, b, k) /\ Held(k)' = HeldIn(md, d, k) /\ b \in 1..n
    BY <1>1, HeldIs, LookupEnds, LeafForIs DEF md, n
  <2> HIDE DEF r, b, d, c
  <2>4. CASE b = at
    <3>1. /\ d = n + 1 + c /\ d \in n + 1..n + Children /\ d - (n + 1) = c /\ c \in Int
      BY <1>2, <2>2, <2>4
    <3>2. md[d].kind = "leaf" /\ md[d].points = Part(c)
      BY <1>1, <3>1 DEF NewLinks
    <3>3. Count(Part(c), k) = Count(node[at].points, k)
      <4>1. PartFor(k) = c
        BY DEF c
      <4> QED  BY <1>1, <3>1, <4>1, SplitParts
    <3> QED  BY <1>2, <2>3, <2>4, <3>2, <3>3 DEF HeldIn
  <2>5. CASE b # at
    <3>1. md[b] = node[b] \/ (/\ LeafOK(node[b], n) /\ LeafOK(md[b], n + Children)
                              /\ md[b].points = node[b].points)
      BY <1>1, <2>3, <2>5 DEF SplitTo
    <3>2. HeldIn(md, b, k) = HeldIn(node, b, k)
      BY <3>1, Kinds DEF HeldIn
    <3> QED  BY <2>2, <2>3, <2>5, <3>2
  <2> QED  BY <2>4, <2>5
<1> QED  BY <1>3 DEF HeldKeys

(* What a step does to the points that lookups find.                       *)
Keeps ==
  \/ failed'
  \/ inserting # 0 /\ inserting' = 0 /\ Keys!Insert(inserting)
  \/ inserting = 0 /\ inserting' = 0 /\ \E k \in Key : Keys!Erase(k)
  \/ inserting' # 0 /\ UNCHANGED HeldKeys

LEMMA StepKeepsKeys ==
  ASSUME TreeInv, [Next]_vars
  PROVE  Keeps \/ UNCHANGED vars
<1>1. ASSUME NEW k \in Key, BeginInsert(k)
      PROVE  Keeps
  <2>1. inserting' = k /\ UNCHANGED <<node, root>>
    BY <1>1 DEF BeginInsert
  <2>2. k # 0
    BY KeyAssumption
  <2>3. UNCHANGED HeldKeys
    BY <2>1, HeldStays
  <2> QED  BY <2>1, <2>2, <2>3 DEF Keeps
<1>2. CASE Descend
  <2>1. inserting' # 0 /\ UNCHANGED <<node, root>>
    BY <1>2 DEF Descend
  <2>2. UNCHANGED HeldKeys
    BY <2>1, HeldStays
  <2> QED  BY <2>1, <2>2 DEF Keeps
<1>3. CASE InsertIntoLeaf
  <2>1. inserting # 0 /\ inserting' = 0
    BY <1>3 DEF InsertIntoLeaf
  <2>2. HeldKeys' = [HeldKeys EXCEPT ![inserting] = @ + 1]
    BY <1>3, InsertIntoLeafIs
  <2>3. Keys!Insert(inserting)
    BY <2>2 DEF Keys!Insert
  <2> QED  BY <2>1, <2>3 DEF Keeps
<1>4. CASE Split
  <2>1. inserting' = inserting /\ inserting # 0
    BY <1>4 DEF Split, Refuses
  <2>2. UNCHANGED HeldKeys
    BY <1>4, SplitKeepsHeld
  <2> QED  BY <2>1, <2>2 DEF Keeps
<1>5. CASE SplitThrows
  <2>1. failed' = TRUE
    BY <1>5 DEF SplitThrows
  <2> QED  BY <2>1 DEF Keeps
<1>6. ASSUME NEW k \in Key, Delete(k)
      PROVE  Keeps
  <2>1. inserting = 0 /\ inserting' = 0
    BY <1>6 DEF Delete
  <2>2. HeldKeys' = [HeldKeys EXCEPT ![k] = 0]
    BY <1>6, DeleteIs
  <2>3. Keys!Erase(k)
    BY <2>2 DEF Keys!Erase
  <2> QED  BY <2>1, <2>3 DEF Keeps
<1> QED  BY <1>1, <1>2, <1>3, <1>4, <1>5, <1>6 DEF Next

----------------------------------------------------------------------------
(* Sorted points, one by one and joined.                                   *)
(*                                                                         *)
(* Sorted points that hold each key as often as each other are the same.   *)
SameCounts(s, t) == \A k \in Key : Count(s, k) = Count(t, k)

LEMMA ForeignKeys ==
  ASSUME NEW s, SortedKeys(s), NEW k, k \notin Key
  PROVE  Count(s, k) = 0
<1>1. DOMAIN s = 1..Len(s) /\ \A i \in 1..Len(s) : s[i] \in Key
  BY DEF SortedKeys
<1>2. {i \in DOMAIN s : s[i] = k} = {}
  BY <1>1
<1> QED  BY <1>2, FS_EmptySet DEF Count

LEMMA BelowNext ==
  ASSUME NEW s, SortedKeys(s), NEW k \in Nat
  PROVE  /\ Below(s, k) \in Nat /\ Count(s, k) \in Nat
         /\ Below(s, k) + Count(s, k) <= Len(s) /\ Len(s) \in Nat
         /\ Below(s, k + 1) = Below(s, k) + Count(s, k)
<1> DEFINE n == Len(s)
           b == Below(s, k)
           d == Below(s, k + 1)
           c == Count(s, k)
<1>1. s \in Seq(Int) /\ Rising(s) /\ k \in Int /\ k + 1 \in Int
  BY KeysAreNumbers DEF SortedKeys
<1>2. n \in Nat /\ \A i \in 1..n : s[i] \in Int
  BY <1>1
<1>3. /\ b \in Nat /\ c \in Nat /\ b + c <= n
      /\ \A i \in 1..n : (s[i] < k <=> i <= b) /\ (s[i] = k <=> b < i /\ i <= b + c)
  BY <1>1, BelowThenCount
<1>4. /\ d \in Nat /\ d <= n
      /\ \A i \in 1..n : s[i] < k + 1 <=> i <= d
  <2>1. /\ Below(s, k + 1) \in Nat /\ Count(s, k + 1) \in Nat
        /\ Below(s, k + 1) + Count(s, k + 1) <= Len(s)
        /\ \A i \in 1..Len(s) : s[i] < k + 1 <=> i <= Below(s, k + 1)
    BY <1>1, BelowThenCount
  <2> QED  BY <1>2, <2>1
<1> HIDE DEF n, b, d, c
<1>5. ASSUME NEW i \in 1..n
      PROVE  i <= d <=> i <= b + c
  <2>1. s[i] < k + 1 <=> s[i] < k \/ s[i] = k
    BY <1>1, <1>2
  <2>2. i <= b \/ (b < i /\ i <= b + c) <=> i <= b + c
    BY <1>2, <1>3
  <2> QED  BY <1>3, <1>4, <2>1, <2>2
<1>6. d = b + c
  <2>1. d \in 0..n /\ b + c \in 0..n
    BY <1>2, <1>3, <1>4
  <2> DEFINE x == b + c
  <2>2. x \in 0..n /\ d \in 0..n /\ \A i \in 1..n : i <= d <=> i <= x
    BY <1>5, <2>1
  <2> HIDE DEF x
  <2>3. (d \in 1..n => d <= x) /\ (x \in 1..n => x <= d)
    BY <2>2
  <2>4. d = x
    BY <1>2, <2>2, <2>3
  <2> QED  BY <2>4 DEF x
<1> QED  BY <1>2, <1>3, <1>6 DEF n, b, d, c

LEMMA SameBelow ==
  ASSUME NEW s, SortedKeys(s), NEW t, SortedKeys(t), SameCounts(s, t)
  PROVE  \A k \in Nat : /\ Below(s, k) = Below(t, k) /\ Count(s, k) = Count(t, k)
<1>1. ASSUME NEW k
      PROVE  Count(s, k) = Count(t, k)
  BY ForeignKeys DEF SameCounts
<1>2. ASSUME NEW u, SortedKeys(u)
      PROVE  Below(u, 0) = 0
  <2>1. DOMAIN u = 1..Len(u) /\ \A i \in 1..Len(u) : u[i] \in Key
    BY <1>2 DEF SortedKeys
  <2>2. \A x \in Key : ~ (x < 0)
    BY KeyAssumption
  <2>3. {i \in DOMAIN u : u[i] < 0} = {}
    BY <2>1, <2>2
  <2> QED  BY <2>3, FS_EmptySet DEF Below
<1> DEFINE S == {k \in Nat : Below(s, k) = Below(t, k)}
<1>3. 0 \in S
  BY <1>2
<1>4. ASSUME NEW k \in Nat, k \in S
      PROVE  k + 1 \in S
  <2>1. Below(s, k + 1) = Below(s, k) + Count(s, k) /\ Below(t, k + 1) = Below(t, k) + Count(t, k)
    BY BelowNext
  <2>2. Below(s, k + 1) = Below(t, k + 1)
    BY <1>1, <1>4, <2>1
  <2> QED  BY <2>2
<1> HIDE DEF S
<1>5. Nat \subseteq S
  BY <1>3, <1>4, Induction
<1> QED  BY <1>1, <1>5 DEF S

LEMMA SortedAlike ==
  ASSUME NEW s, SortedKeys(s), NEW t, SortedKeys(t), SameCounts(s, t)
  PROVE  s = t
<1>1. ASSUME NEW u, NEW v, SortedKeys(u), SortedKeys(v), SameCounts(u, v), NEW i \in 1..Len(u)
      PROVE  i \in 1..Len(v) /\ v[i] = u[i]
  <2> DEFINE k == u[i]
             b == Below(u, k)
             c == Count(u, k)
             n == Len(u)
             m == Len(v)
  <2>1. k \in Key /\ n \in Nat /\ m \in Nat
    BY <1>1 DEF SortedKeys
  <2>2. k \in Nat /\ k \in Int
    <3>1. \A x \in Key : x \in Nat /\ x \in Int
      BY KeyAssumption
    <3> HIDE DEF k
    <3> QED  BY <2>1, <3>1
  <2>3. Below(v, k) = b /\ Count(v, k) = c
    <3> HIDE DEF k
    <3> QED  BY <1>1, <2>2, SameBelow
  <2>4. u \in Seq(Int) /\ Rising(u) /\ v \in Seq(Int) /\ Rising(v)
    BY <1>1, KeysAreNumbers DEF SortedKeys
  <2>5. /\ Below(u, k) \in Nat /\ Count(u, k) \in Nat
        /\ u[i] = k <=> Below(u, k) < i /\ i <= Below(u, k) + Count(u, k)
    <3> HIDE DEF k
    <3> QED  BY <2>2, <2>4, BelowThenCount
  <2>6. /\ Below(v, k) + Count(v, k) <= Len(v)
        /\ \A j \in 1..Len(v) : v[j] = k <=> Below(v, k) < j /\ j <= Below(v, k) + Count(v, k)
    <3> HIDE DEF k
    <3> QED  BY <2>2, <2>4, BelowThenCount
  <2>7. b \in Nat /\ c \in Nat /\ b < i /\ i <= b + c /\ b + c <= m
    BY <2>3, <2>5, <2>6
  <2>8. i \in 1..m
    <3> HIDE DEF b, c, m
    <3>1. i \in Nat
      BY <2>1
    <3> QED  BY <2>1, <2>7, <3>1
  <2>9. v[i] = k
    BY <2>3, <2>6, <2>7, <2>8
  <2> QED  BY <2>8, <2>9
<1>2. SameCounts(t, s)
  BY DEF SameCounts
<1>3. \A i \in 1..Len(s) : i \in 1..Len(t) /\ t[i] = s[i]
  BY <1>1
<1>4. \A i \in 1..Len(t) : i \in 1..Len(s)
  BY <1>1, <1>2
<1>5. s \in Seq(Key) /\ t \in Seq(Key)
  BY DEF SortedKeys
<1> DEFINE n == Len(s)
           m == Len(t)
<1>6. n \in Nat /\ m \in Nat /\ s = [i \in 1..n |-> s[i]] /\ t = [i \in 1..m |-> t[i]]
  BY <1>5
<1> HIDE DEF n, m
<1>7. 1..n = 1..m
  BY <1>3, <1>4 DEF n, m
<1>8. \A i \in 1..n : t[i] = s[i]
  BY <1>3 DEF n
<1> QED  BY <1>6, <1>7, <1>8

(* One sequence of sorted points behind another.                           *)
Precedes(s, t) == \A i \in 1..Len(s), j \in 1..Len(t) : s[i] <= t[j]

LEMMA JoinedSorted ==
  ASSUME NEW s, SortedKeys(s), NEW t, SortedKeys(t), Precedes(s, t)
  PROVE  /\ SortedKeys(s \o t)
         /\ \A k : Count(s \o t, k) = Count(s, k) + Count(t, k)
<1> DEFINE n == Len(s)
           m == Len(t)
           u == s \o t
<1>1. /\ s \in Seq(Key) /\ t \in Seq(Key) /\ n \in Nat /\ m \in Nat
      /\ DOMAIN s = 1..n /\ DOMAIN t = 1..m
      /\ \A i, j \in 1..n : i <= j => s[i] <= s[j]
      /\ \A i, j \in 1..m : i <= j => t[i] <= t[j]
  BY DEF SortedKeys, Rising
<1>2. /\ u \in Seq(Key) /\ Len(u) = n + m /\ DOMAIN u = 1..n + m
      /\ \A i \in 1..n + m : u[i] = IF i <= n THEN s[i] ELSE t[i - n]
  BY <1>1, ConcatProperties
<1>3. \A i \in 1..n, j \in 1..m : s[i] <= t[j]
  BY DEF Precedes
<1> HIDE DEF u, n, m
<1>4. Rising(u)
  <2> SUFFICES ASSUME NEW i \in 1..n + m, NEW j \in 1..n + m, i <= j
               PROVE  u[i] <= u[j]
    BY <1>2 DEF Rising
  <2>1. CASE j <= n
    <3>1. i \in 1..n /\ j \in 1..n /\ i <= n
      BY <1>1, <2>1
    <3> QED  BY <1>1, <1>2, <2>1, <3>1
  <2>2. CASE i <= n /\ ~ (j <= n)
    <3>1. i \in 1..n /\ j - n \in 1..m
      BY <1>1, <2>2
    <3> QED  BY <1>2, <1>3, <2>2, <3>1
  <2>3. CASE ~ (i <= n)
    <3>1. i - n \in 1..m /\ j - n \in 1..m /\ i - n <= j - n /\ ~ (j <= n)
      BY <1>1, <2>3
    <3> QED  BY <1>1, <1>2, <2>3, <3>1
  <2> QED  BY <2>1, <2>2, <2>3
<1>5. ASSUME NEW k
      PROVE  Count(u, k) = Count(s, k) + Count(t, k)
  <2>1. n + m \in Nat
    BY <1>1
  <2>2. Count(u, k) = Occurs(u, n + m, k) /\ Count(s, k) = Occurs(s, n, k)
        /\ Count(t, k) = Occurs(t, m, k)
    BY <1>1, <1>2, <2>1, CountIs
  <2>3. Together(s, n, t, m, u)
    <3>1. \A i \in 1..n : i \in 1..n + m /\ i <= n
      BY <1>1
    <3>2. \A i \in 1..m : n + i \in 1..n + m /\ ~ (n + i <= n) /\ (n + i) - n = i
      BY <1>1
    <3> QED  BY <1>2, <3>1, <3>2 DEF Together
  <2>4. Occurs(u, n + m, k) = Occurs(s, n, k) + Occurs(t, m, k)
    BY <1>1, <2>3, OccursAppended
  <2> QED  BY <2>2, <2>4
<1> QED  BY <1>2, <1>4, <1>5 DEF SortedKeys, u

(* Sorted pieces, each key in the one that is its home.                    *)
Pieces(F, n, home, num) ==
  /\ \A q \in 1..n : SortedKeys(F[q])
  /\ \A k \in Key : home[k] \in Int /\ num[k] \in Nat
  /\ \A j, k \in Key : j <= k => home[j] <= home[k]
  /\ \A q \in 1..n, k \in Key : Count(F[q], k) = IF home[k] = q THEN num[k] ELSE 0

Gathered(s, n, home, num) ==
  /\ SortedKeys(s)
  /\ \A k \in Key : Count(s, k) = IF home[k] \in 1..n THEN num[k] ELSE 0

LEMMA Present ==
  ASSUME NEW s, SortedKeys(s), NEW i \in 1..Len(s)
  PROVE  s[i] \in Key /\ Count(s, s[i]) # 0
<1> DEFINE n == Len(s)
           P == {j \in 1..n : s[j] = s[i]}
<1>1. n \in Nat /\ DOMAIN s = 1..n /\ s[i] \in Key
  BY DEF SortedKeys
<1>2. IsFiniteSet(P)
  <2>1. IsFiniteSet(1..n) /\ P \subseteq 1..n
    BY <1>1, FS_Interval
  <2> QED  BY <2>1, FS_Subset
<1>3. P # {}
  OBVIOUS
<1>4. Count(s, s[i]) = Cardinality(P)
  BY <1>1 DEF Count
<1> HIDE DEF P
<1>5. Cardinality(P) # 0
  BY <1>2, <1>3, FS_EmptySet
<1> QED  BY <1>1, <1>4, <1>5

LEMMA GatherNext ==
  ASSUME NEW n \in Nat, NEW m \in Nat, n < m, NEW F, NEW home, NEW num, Pieces(F, m, home, num),
         NEW s, Gathered(s, n, home, num)
  PROVE  Gathered(s \o F[n + 1], n + 1, home, num)
<1> DEFINE t == F[n + 1]
           u == s \o t
<1>1. /\ n + 1 \in 1..m /\ SortedKeys(t) /\ SortedKeys(s)
      /\ \A k \in Key : home[k] \in Int /\ num[k] \in Nat
      /\ \A j, k \in Key : j <= k => home[j] <= home[k]
      /\ \A k \in Key : Count(t, k) = IF home[k] = n + 1 THEN num[k] ELSE 0
      /\ \A k \in Key : Count(s, k) = IF home[k] \in 1..n THEN num[k] ELSE 0
  BY DEF Pieces, Gathered
<1> HIDE DEF t
<1>2. Precedes(s, t)
  <2> SUFFICES ASSUME NEW i \in 1..Len(s), NEW j \in 1..Len(t)
               PROVE  s[i] <= t[j]
    BY DEF Precedes
  <2> DEFINE x == s[i]
             y == t[j]
  <2>1. x \in Key /\ y \in Key /\ Count(s, x) # 0 /\ Count(t, y) # 0
    BY <1>1, Present
  <2>2. x \in Int /\ y \in Int
    <3> HIDE DEF x, y
    <3> QED  BY <2>1, KeysAreNumbers
  <2> HIDE DEF x, y
  <2>3. home[x] \in 1..n /\ home[y] = n + 1
    BY <1>1, <2>1
  <2>4. ~ (home[y] <= home[x])
    BY <2>3
  <2>5. ~ (y <= x)
    BY <1>1, <2>1, <2>4
  <2>6. x <= y
    BY <2>2, <2>5
  <2> QED  BY <2>6 DEF x, y
<1>3. SortedKeys(u) /\ \A k : Count(u, k) = Count(s, k) + Count(t, k)
  BY <1>1, <1>2, JoinedSorted
<1> HIDE DEF u
<1>4. ASSUME NEW k \in Key
      PROVE  Count(u, k) = IF home[k] \in 1..n + 1 THEN num[k] ELSE 0
  <2> DEFINE h == home[k]
             x == num[k]
  <2>1. /\ h \in Int /\ x \in Nat
        /\ Count(t, k) = IF h = n + 1 THEN x ELSE 0
        /\ Count(s, k) = IF h \in 1..n THEN x ELSE 0
        /\ Count(u, k) = Count(s, k) + Count(t, k)
    BY <1>1, <1>3
  <2> HIDE DEF h, x
  <2>2. Count(u, k) = IF h \in 1..n + 1 THEN x ELSE 0
    BY <2>1
  <2> QED  BY <2>2 DEF h, x
<1> QED  BY <1>3, <1>4 DEF Gathered, u, t

Flattens(g, F, n) == g = [i \in 1..n |-> IF i = 1 THEN F[i] ELSE g[i - 1] \o F[i]]

LEMMA FlattensExist ==
  ASSUME NEW n \in Nat, NEW F
  PROVE  \E g : Flattens(g, F, n)
<1> DEFINE S == {m \in Nat : \E g : Flattens(g, F, m)}
<1>1. 0 \in S
  <2>1. Flattens(<<>>, F, 0)
    BY DEF Flattens
  <2> QED  BY <2>1
<1>2. ASSUME NEW m \in Nat, m \in S
      PROVE  m + 1 \in S
  <2>1. PICK g : Flattens(g, F, m)
    BY <1>2
  <2> DEFINE h == [i \in 1..m + 1 |-> IF i = 1 THEN F[i] ELSE g[i - 1] \o F[i]]
  <2>2. \A i \in 1..m : g[i] = IF i = 1 THEN F[i] ELSE g[i - 1] \o F[i]
    BY <2>1 DEF Flattens
  <2>3. \A i \in 1..m : h[i] = g[i]
    BY <2>2
  <2>4. \A i \in 1..m + 1 : i # 1 => i - 1 \in 1..m
    OBVIOUS
  <2>5. \A i \in 1..m + 1 : i # 1 => h[i - 1] = g[i - 1]
    <3> HIDE DEF h
    <3> QED  BY <2>3, <2>4
  <2>6. h = [i \in 1..m + 1 |-> IF i = 1 THEN F[i] ELSE h[i - 1] \o F[i]]
    <3>1. \A i \in 1..m + 1 : (IF i = 1 THEN F[i] ELSE g[i - 1] \o F[i])
                              = (IF i = 1 THEN F[i] ELSE h[i - 1] \o F[i])
      <4> HIDE DEF h
      <4> QED  BY <2>5
    <3>2. h = [i \in 1..m + 1 |-> IF i = 1 THEN F[i] ELSE g[i - 1] \o F[i]]
      OBVIOUS
    <3> HIDE DEF h
    <3> QED  BY <3>1, <3>2
  <2> HIDE DEF h
  <2>7. Flattens(h, F, m + 1)
    BY <2>6 DEF Flattens
  <2> QED  BY <2>7
<1> HIDE DEF S
<1>3. Nat \subseteq S
  BY <1>1, <1>2, Induction
<1> QED  BY <1>3 DEF S

LEMMA FlattenIs ==
  ASSUME NEW n \in Nat \ {0}, NEW F, Len(F) = n, NEW home, NEW num, Pieces(F, n, home, num)
  PROVE  Gathered(FlattenSeq(F), n, home, num)
<1> DEFINE g == CHOOSE x : Flattens(x, F, n)
<1>1. FlattenSeq(F) = g[n]
  BY DEF FlattenSeq, Flattens
<1>2. Flattens(g, F, n)
  BY FlattensExist
<1> HIDE DEF g
<1>3. \A i \in 1..n : g[i] = IF i = 1 THEN F[i] ELSE g[i - 1] \o F[i]
  BY <1>2 DEF Flattens
<1> DEFINE S == {m \in Nat : m + 1 <= n => Gathered(g[m + 1], m + 1, home, num)}
<1>4. 0 \in S
  <2>1. 1 \in 1..n /\ g[1] = F[1]
    BY <1>3
  <2>2. SortedKeys(F[1]) /\ \A k \in Key : Count(F[1], k) = IF home[k] = 1 THEN num[k] ELSE 0
    BY <2>1 DEF Pieces
  <2>3. \A k \in Key : home[k] = 1 <=> home[k] \in 1..1
    BY DEF Pieces
  <2>4. Gathered(g[1], 1, home, num)
    BY <2>1, <2>2, <2>3 DEF Gathered
  <2> QED  BY <2>4
<1>5. ASSUME NEW m \in Nat, m \in S
      PROVE  m + 1 \in S
  <2> DEFINE d == m + 1
  <2> SUFFICES ASSUME d + 1 <= n
               PROVE  Gathered(g[d + 1], d + 1, home, num)
    OBVIOUS
  <2>1. d \in Nat /\ d < n /\ d + 1 \in 1..n /\ d + 1 # 1 /\ (d + 1) - 1 = d
    OBVIOUS
  <2>2. Gathered(g[d], d, home, num)
    BY <1>5, <2>1
  <2> HIDE DEF d
  <2>3. g[d + 1] = g[d] \o F[d + 1]
    BY <1>3, <2>1
  <2>4. Gathered(g[d] \o F[d + 1], d + 1, home, num)
    BY <2>1, <2>2, GatherNext
  <2> QED  BY <2>3, <2>4
<1> HIDE DEF S
<1>6. Nat \subseteq S
  BY <1>4, <1>5, Induction
<1>7. n - 1 \in S /\ (n - 1) + 1 = n
  BY <1>6
<1>8. Gathered(g[n], n, home, num)
  BY <1>7 DEF S
<1> QED  BY <1>1, <1>8

----------------------------------------------------------------------------
(* The chain of the leaves.                                                *)
(*                                                                         *)
(* The leaves ch[1] to ch[m], each linked to the next and to the previous. *)
Linked(nd, m, ch) ==
  /\ m \in 1..Len(nd)
  /\ ch \in [1..m -> 1..Len(nd)]
  /\ \A q, r \in 1..m : ch[q] = ch[r] => q = r
  /\ \A q \in 1..m :
       /\ nd[ch[q]].kind = "leaf"
       /\ nd[ch[q]].nextLeaf = IF q = m THEN 0 ELSE ch[q + 1]
       /\ nd[ch[q]].previousLeaf = IF q = 1 THEN 0 ELSE ch[q - 1]

(* The place in the chain of the leaf that a lookup of k comes to: it has  *)
(* every point of k, and a greater key is not found in front of it.        *)
AtHome(nd, rt, m, ch, home) ==
  /\ home \in [Key -> 1..m]
  /\ \A k \in Key : Way(nd, k)[rt[k]] = ch[home[k]]
  /\ \A j, k \in Key : j <= k => home[j] <= home[k]
  /\ \A q \in 1..m, k \in Key : Count(nd[ch[q]].points, k) # 0 => home[k] = q

(* The points are of keys from fk to lk, found from place f to place l.    *)
Spanned(nd, m, ch, fk, lk) ==
  \A q \in 1..m, k \in Key : Count(nd[ch[q]].points, k) # 0 => fk <= k /\ k <= lk

Bounds(m, home, f, l, fk, lk) ==
  /\ f \in 1..m /\ l \in 1..m
  /\ \A k \in Key : (fk <= k => f <= home[k]) /\ (k <= lk => home[k] <= l)

(* Where lookups and scans come by the same points.                        *)
Chained(nd, rt, fl, ll, fk, lk) ==
  \E m, ch, home, f, l :
    /\ Linked(nd, m, ch) /\ AtHome(nd, rt, m, ch, home)
    /\ Spanned(nd, m, ch, fk, lk) /\ Bounds(m, home, f, l, fk, lk)
    /\ fl = ch[f] /\ ll = ch[l]

ChainInv == ~ failed => Chained(node, root, firstLeaf, lastLeaf, firstKey, lastKey)

----------------------------------------------------------------------------
(* What the scans come by.                                                 *)
LEMMA HeldIsCount ==
  ASSUME TreeInv, NEW m, NEW ch, NEW home, Linked(node, m, ch),
         AtHome(node, root, m, ch, home), NEW k \in Key
  PROVE  /\ Held(k) \in Nat /\ home[k] \in 1..m
         /\ Held(k) = Count(node[ch[home[k]]].points, k)
         /\ \A q \in 1..m : /\ SortedKeys(node[ch[q]].points)
                            /\ Count(node[ch[q]].points, k) = IF home[k] = q THEN Held(k) ELSE 0
<1>1. home[k] \in 1..m /\ LeafFor(k) = ch[home[k]]
  BY LeafForIs DEF AtHome
<1>2. \A q \in 1..m : ch[q] \in 1..Len(node) /\ node[ch[q]].kind = "leaf"
  BY DEF Linked
<1>3. ASSUME NEW q \in 1..m
      PROVE  SortedKeys(node[ch[q]].points)
  BY <1>2, Kinds DEF TreeInv, Tree
<1>4. Held(k) = Count(node[ch[home[k]]].points, k)
  BY <1>1, <1>2 DEF Held, IsLeaf
<1>5. Held(k) \in Nat
  <2> DEFINE p == node[ch[home[k]]].points
  <2>1. SortedKeys(p) /\ Held(k) = Count(p, k)
    BY <1>1, <1>3, <1>4
  <2> HIDE DEF p
  <2>2. Len(p) \in Nat /\ DOMAIN p = 1..Len(p)
    BY <2>1 DEF SortedKeys
  <2> QED  BY <2>1, <2>2, CountIs, OccursIsNumber
<1>6. ASSUME NEW q \in 1..m
      PROVE  Count(node[ch[q]].points, k) = IF home[k] = q THEN Held(k) ELSE 0
  BY <1>4 DEF AtHome
<1> QED  BY <1>1, <1>3, <1>4, <1>5, <1>6

(* The pieces that AllPoints puts together.                                *)
LEMMA SameKeys ==
  ASSUME NEW n \in Nat, NEW k \in Key
  PROVE  /\ SortedKeys([i \in 1..n |-> k])
         /\ \A j : Count([i \in 1..n |-> k], j) = IF j = k THEN n ELSE 0
<1> DEFINE s == [i \in 1..n |-> k]
<1>1. k \in Int
  BY KeysAreNumbers
<1>2. s \in Seq(Key) /\ Len(s) = n /\ DOMAIN s = 1..n /\ \A i \in 1..n : s[i] = k
  OBVIOUS
<1> HIDE DEF s
<1>3. SortedKeys(s)
  BY <1>1, <1>2 DEF SortedKeys, Rising
<1>4. ASSUME NEW j
      PROVE  Count(s, j) = IF j = k THEN n ELSE 0
  <2>1. CASE j = k
    <3>1. {i \in DOMAIN s : s[i] = j} = 1..n
      BY <1>2, <2>1
    <3>2. Cardinality(1..n) = n
      BY FS_Interval
    <3> QED  BY <2>1, <3>1, <3>2 DEF Count
  <2>2. CASE j # k
    <3>1. {i \in DOMAIN s : s[i] = j} = {}
      BY <1>2, <2>2
    <3> QED  BY <2>2, <3>1, FS_EmptySet DEF Count
  <2> QED  BY <2>1, <2>2
<1> QED  BY <1>3, <1>4 DEF s

LEMMA AllPointsAre ==
  ASSUME \A k \in Key : Held(k) \in Nat
  PROVE  /\ SortedKeys(AllPoints)
         /\ \A k \in Key : Count(AllPoints, k) = Held(k)
<1> DEFINE F == [k \in 1..MAX |-> IF k \in Key THEN [i \in 1..Held(k) |-> k] ELSE <<>>]
           home == [k \in Key |-> k]
<1>1. MAX \in Nat /\ \A k \in Key : k \in Int /\ k \in 1..MAX
  <2>1. MAX \in Nat /\ \A k \in Key : k \in 1..MAX - 1
    BY KeyAssumption
  <2> QED  BY <2>1
<1>2. MAX \in Nat \ {0}
  <2>1. PICK k \in Key : TRUE
    BY KeyAssumption
  <2> QED  BY <1>1, <2>1
<1>3. Len(F) = MAX
  <2>1. F = [k \in 1..MAX |-> F[k]]
    OBVIOUS
  <2> HIDE DEF F
  <2> QED  BY <1>1, <2>1, LengthIs
<1>4. ASSUME NEW q \in 1..MAX
      PROVE  SortedKeys(F[q]) /\ \A k \in Key : Count(F[q], k) = IF k = q THEN HeldKeys[k] ELSE 0
  <2>1. CASE q \in Key
    <3>1. F[q] = [i \in 1..Held(q) |-> q] /\ HeldKeys[q] = Held(q) /\ Held(q) \in Nat
      BY <2>1 DEF HeldKeys
    <3> DEFINE x == Held(q)
    <3>2. F[q] = [i \in 1..x |-> q] /\ HeldKeys[q] = x /\ x \in Nat
      BY <3>1
    <3> HIDE DEF x, F
    <3>3. SortedKeys([i \in 1..x |-> q])
          /\ \A j : Count([i \in 1..x |-> q], j) = IF j = q THEN x ELSE 0
      BY <2>1, <3>2, SameKeys
    <3> QED  BY <3>2, <3>3
  <2>2. CASE q \notin Key
    <3>1. F[q] = <<>>
      BY <2>2
    <3> HIDE DEF F
    <3> QED  BY <2>2, <3>1, NoPoints
  <2> QED  BY <2>1, <2>2
<1>5. AllPoints = FlattenSeq(F)
  BY DEF AllPoints
<1> HIDE DEF F
<1>6. Pieces(F, MAX, home, HeldKeys)
  <2>1. \A k \in Key : home[k] = k /\ HeldKeys[k] = Held(k)
    BY DEF HeldKeys
  <2> HIDE DEF home
  <2>2. \A k \in Key : home[k] \in Int /\ HeldKeys[k] \in Nat
    BY <1>1, <2>1
  <2>3. \A j, k \in Key : j <= k => home[j] <= home[k]
    BY <2>1
  <2>4. \A q \in 1..MAX, k \in Key : Count(F[q], k) = IF home[k] = q THEN HeldKeys[k] ELSE 0
    BY <1>4, <2>1
  <2> QED  BY <1>4, <2>2, <2>3, <2>4 DEF Pieces
<1>7. \A k \in Key : home[k] \in 1..MAX /\ HeldKeys[k] = Held(k)
  BY <1>1 DEF HeldKeys
<1> HIDE DEF home
<1>8. Gathered(FlattenSeq(F), MAX, home, HeldKeys)
  BY <1>2, <1>3, <1>6, FlattenIs
<1> QED  BY <1>5, <1>7, <1>8 DEF Gathered

(* A walk that comes by the part of the chain where the points are.        *)
Along(walk, n, m, ch, d) ==
  /\ walk = [s \in 1..n |-> walk[s]]
  /\ \A s \in 1..n : walk[s] = IF s + d \in 1..m THEN ch[s + d] ELSE 0

LEMMA ScanIs ==
  ASSUME TreeInv, NEW m, NEW ch, NEW home, Linked(node, m, ch),
         AtHome(node, root, m, ch, home), NEW n \in Nat \ {0}, NEW d \in Int,
         NEW walk, Along(walk, n, m, ch, d),
         \A k \in Key : Held(k) # 0 => home[k] - d \in 1..n
  PROVE  PointsAlong(walk) = AllPoints
<1> DEFINE F == [s \in 1..n |-> PointsOf(walk[s])]
           at1 == [k \in Key |-> home[k] - d]
<1>1. Len(node) \in Nat /\ m \in Nat
  BY DEF TreeInv, Tree, Linked
<1>2. ASSUME NEW k \in Key
      PROVE  /\ Held(k) \in Nat /\ home[k] \in 1..m /\ home[k] \in Int
             /\ \A q \in 1..m :
                  /\ SortedKeys(node[ch[q]].points)
                  /\ Count(node[ch[q]].points, k) = IF home[k] = q THEN Held(k) ELSE 0
  BY <1>1, HeldIsCount
<1>3. PointsAlong(walk) = FlattenSeq(F)
  <2>1. DOMAIN walk = 1..n
    BY DEF Along
  <2> QED  BY <2>1 DEF PointsAlong
<1>4. Len(F) = n
  <2>1. F = [s \in 1..n |-> F[s]]
    OBVIOUS
  <2> HIDE DEF F
  <2> QED  BY <2>1, LengthIs
<1>5. ASSUME NEW s \in 1..n
      PROVE  /\ SortedKeys(F[s])
             /\ \A k \in Key : Count(F[s], k) = IF home[k] - d = s THEN Held(k) ELSE 0
  <2> DEFINE q == s + d
  <2>1. F[s] = PointsOf(walk[s]) /\ walk[s] = (IF q \in 1..m THEN ch[q] ELSE 0)
    BY DEF Along
  <2>2. q \in Int /\ \A k \in Key : home[k] - d = s <=> home[k] = q
    BY <1>2
  <2> HIDE DEF F, q
  <2>3. CASE q \in 1..m
    <3>1. ch[q] \in 1..Len(node) /\ node[ch[q]].kind = "leaf"
      BY <2>3 DEF Linked
    <3>2. ch[q] # 0
      BY <1>1, <3>1
    <3>3. F[s] = node[ch[q]].points
      BY <2>1, <2>3, <3>1, <3>2 DEF PointsOf, IsLeaf
    <3>4. SortedKeys(F[s])
      <4>1. Key # {}
        BY KeyAssumption
      <4> QED  BY <1>2, <2>3, <3>3, <4>1
    <3> QED  BY <1>2, <2>2, <2>3, <3>3, <3>4
  <2>4. CASE q \notin 1..m
    <3>1. F[s] = <<>>
      BY <2>1, <2>4 DEF PointsOf
    <3>2. \A k \in Key : home[k] # q
      BY <1>2, <2>4
    <3> QED  BY <2>2, <3>1, <3>2, NoPoints
  <2> QED  BY <2>3, <2>4
<1> HIDE DEF F
<1>6. Pieces(F, n, at1, HeldKeys)
  <2>1. \A k \in Key : at1[k] = home[k] - d /\ HeldKeys[k] = Held(k)
    BY DEF HeldKeys
  <2> HIDE DEF at1
  <2>2. \A k \in Key : at1[k] \in Int /\ HeldKeys[k] \in Nat
    BY <1>2, <2>1
  <2>3. \A j, k \in Key : j <= k => at1[j] <= at1[k]
    <3>1. \A j, k \in Key : j <= k => home[j] <= home[k]
      BY DEF AtHome
    <3> QED  BY <1>2, <2>1, <3>1
  <2>4. \A q \in 1..n, k \in Key : Count(F[q], k) = IF at1[k] = q THEN HeldKeys[k] ELSE 0
    BY <1>5, <2>1
  <2> QED  BY <1>5, <2>2, <2>3, <2>4 DEF Pieces
<1>7. \A k \in Key : HeldKeys[k] = Held(k) /\ (Held(k) # 0 => at1[k] \in 1..n)
  BY DEF HeldKeys
<1> HIDE DEF at1
<1>8. Gathered(FlattenSeq(F), n, at1, HeldKeys)
  BY <1>4, <1>6, FlattenIs
<1>9. SortedKeys(FlattenSeq(F)) /\ \A k \in Key : Count(FlattenSeq(F), k) = Held(k)
  BY <1>7, <1>8 DEF Gathered
<1>10. SortedKeys(AllPoints) /\ \A k \in Key : Count(AllPoints, k) = Held(k)
  BY <1>2, AllPointsAre
<1>11. SameCounts(FlattenSeq(F), AllPoints)
  BY <1>9, <1>10 DEF SameCounts
<1> QED  BY <1>3, <1>9, <1>10, <1>11, SortedAlike

(* There is one walk that follows the links.                               *)
Follows(w, from, links, n) ==
  /\ w = [s \in 1..n |-> w[s]]
  /\ \A s \in 1..n : w[s] = IF s = 1 THEN from ELSE links[w[s - 1]]

LEMMA WalkIs ==
  ASSUME NEW n, n = Len(node) + 1, n \in Nat, NEW from, NEW links, NEW w, Follows(w, from, links, n)
  PROVE  Walk(from, links) = w
<1> DEFINE IsWalk(x) == x = [s \in 1..n |-> IF s = 1 THEN from ELSE links[x[s - 1]]]
           v == CHOOSE x : IsWalk(x)
<1>1. Walk(from, links) = v
  BY DEF Walk
<1>2. IsWalk(w)
  <2>1. w = [s \in 1..n |-> w[s]] /\ \A s \in 1..n : w[s] = IF s = 1 THEN from ELSE links[w[s - 1]]
    BY DEF Follows
  <2> QED  BY <2>1
<1>3. IsWalk(v)
  <2> HIDE DEF IsWalk
  <2> QED  BY <1>2
<1> HIDE DEF v
<1>4. v = [s \in 1..n |-> v[s]] /\ \A s \in 1..n : v[s] = IF s = 1 THEN from ELSE links[v[s - 1]]
  <2>1. \A s \in 1..n : v[s] = IF s = 1 THEN from ELSE links[v[s - 1]]
    BY <1>3
  <2>2. v = [s \in 1..n |-> v[s]]
    BY <1>3
  <2> QED  BY <2>1, <2>2
<1> HIDE DEF IsWalk
<1>9. w = [s \in 1..n |-> w[s]] /\ \A s \in 1..n : w[s] = IF s = 1 THEN from ELSE links[w[s - 1]]
  BY DEF Follows
<1> DEFINE S == {m \in Nat : m + 1 <= n => v[m + 1] = w[m + 1]}
<1>5. 0 \in S
  <2>1. 1 <= n => 1 \in 1..n
    OBVIOUS
  <2>2. 1 <= n => v[1] = w[1]
    BY <1>4, <1>9, <2>1
  <2> QED  BY <2>2
<1>6. ASSUME NEW m \in Nat, m \in S
      PROVE  m + 1 \in S
  <2> DEFINE d == m + 1
  <2> SUFFICES ASSUME d + 1 <= n
               PROVE  v[d + 1] = w[d + 1]
    OBVIOUS
  <2>1. d + 1 \in 1..n /\ d + 1 # 1 /\ (d + 1) - 1 = d /\ d <= n
    OBVIOUS
  <2>2. v[d] = w[d]
    BY <1>6, <2>1
  <2> HIDE DEF d
  <2>3. /\ v[d + 1] = links[v[(d + 1) - 1]]
        /\ w[d + 1] = links[w[(d + 1) - 1]]
    BY <1>4, <1>9, <2>1
  <2> QED  BY <2>1, <2>2, <2>3
<1> HIDE DEF S
<1>7. Nat \subseteq S
  BY <1>5, <1>6, Induction
<1>8. ASSUME NEW s \in 1..n
      PROVE  v[s] = w[s]
  <2>1. s - 1 \in S /\ (s - 1) + 1 = s /\ s <= n
    BY <1>7
  <2> QED  BY <2>1 DEF S
<1> QED  BY <1>1, <1>4, <1>9, <1>8

LEMMA LinksAre ==
  ASSUME TreeInv, NEW m, NEW ch, Linked(node, m, ch)
  PROVE  /\ m \in Nat /\ m <= Len(node) /\ Len(node) \in Nat
         /\ NextLeaves[0] = 0 /\ PreviousLeaves[0] = 0
         /\ \A q \in 1..m : /\ ch[q] # 0
                            /\ NextLeaves[ch[q]] = IF q = m THEN 0 ELSE ch[q + 1]
                            /\ PreviousLeaves[ch[q]] = IF q = 1 THEN 0 ELSE ch[q - 1]
<1>1. Len(node) \in Nat /\ m \in Nat /\ m <= Len(node) /\ 0 \in 0..Len(node)
  BY DEF TreeInv, Tree, Linked
<1>2. NextLeaves[0] = 0 /\ PreviousLeaves[0] = 0
  BY <1>1 DEF NextLeaves, PreviousLeaves
<1>3. ASSUME NEW q \in 1..m
      PROVE  /\ ch[q] # 0
             /\ NextLeaves[ch[q]] = IF q = m THEN 0 ELSE ch[q + 1]
             /\ PreviousLeaves[ch[q]] = IF q = 1 THEN 0 ELSE ch[q - 1]
  <2> DEFINE i == ch[q]
  <2>1. /\ i \in 1..Len(node) /\ node[i].kind = "leaf"
        /\ node[i].nextLeaf = IF q = m THEN 0 ELSE ch[q + 1]
        /\ node[i].previousLeaf = IF q = 1 THEN 0 ELSE ch[q - 1]
    BY DEF Linked
  <2> HIDE DEF i
  <2>2. i # 0 /\ i \in 0..Len(node)
    BY <1>1, <2>1
  <2>3. NextLeaves[i] = node[i].nextLeaf /\ PreviousLeaves[i] = node[i].previousLeaf
    BY <2>1, <2>2 DEF NextLeaves, PreviousLeaves, IsLeaf
  <2> QED  BY <2>1, <2>2, <2>3 DEF i
<1> QED  BY <1>1, <1>2, <1>3

LEMMA ForwardWalk ==
  ASSUME TreeInv, NEW m, NEW ch, Linked(node, m, ch), NEW f \in 1..m, firstLeaf = ch[f],
         NEW n, n = Len(node) + 1
  PROVE  /\ Along(Walk(firstLeaf, NextLeaves), n, m, ch, f - 1)
         /\ Last(Walk(firstLeaf, NextLeaves)) = 0
<1> DEFINE w == [s \in 1..n |-> IF f + s - 1 <= m THEN ch[f + s - 1] ELSE 0]
<1>1. /\ m \in Nat /\ m < n /\ n \in Nat /\ f \in Nat
      /\ NextLeaves[0] = 0
      /\ \A q \in 1..m : NextLeaves[ch[q]] = IF q = m THEN 0 ELSE ch[q + 1]
  BY LinksAre
<1>2. Follows(w, firstLeaf, NextLeaves, n)
  <2>1. w = [s \in 1..n |-> w[s]]
    OBVIOUS
  <2>2. ASSUME NEW s \in 1..n
        PROVE  w[s] = IF s = 1 THEN firstLeaf ELSE NextLeaves[w[s - 1]]
    <3>1. CASE s = 1
      <4>1. f + s - 1 = f /\ f <= m
        BY <1>1, <3>1
      <4> QED  BY <3>1, <4>1
    <3>2. CASE s # 1
      <4> DEFINE q == f + s - 2
      <4>1. /\ s - 1 \in 1..n /\ q \in Nat /\ q >= 1
            /\ f + (s - 1) - 1 = q /\ f + s - 1 = q + 1
        BY <1>1, <3>2
      <4>2. w[s - 1] = (IF q <= m THEN ch[q] ELSE 0) /\ w[s] = (IF q + 1 <= m THEN ch[q + 1] ELSE 0)
        BY <4>1
      <4> HIDE DEF w, q
      <4>3. CASE q + 1 <= m
        <5>1. q \in 1..m /\ q # m /\ q <= m
          BY <1>1, <4>1, <4>3
        <5> QED  BY <1>1, <3>2, <4>2, <4>3, <5>1
      <4>4. CASE q = m
        <5>1. q \in 1..m /\ q <= m /\ ~ (q + 1 <= m)
          BY <1>1, <4>1, <4>4
        <5> QED  BY <1>1, <3>2, <4>2, <4>4, <5>1
      <4>5. CASE q > m
        <5>1. ~ (q <= m) /\ ~ (q + 1 <= m)
          BY <1>1, <4>1, <4>5
        <5> QED  BY <1>1, <3>2, <4>2, <5>1
      <4> QED  BY <1>1, <4>1, <4>3, <4>4, <4>5
    <3> QED  BY <3>1, <3>2
  <2> HIDE DEF w
  <2> QED  BY <2>1, <2>2 DEF Follows
<1>3. Walk(firstLeaf, NextLeaves) = w
  <2> HIDE DEF w
  <2> QED  BY <1>1, <1>2, WalkIs
<1>4. Along(w, n, m, ch, f - 1)
  <2>1. w = [s \in 1..n |-> w[s]]
    OBVIOUS
  <2>2. ASSUME NEW s \in 1..n
        PROVE  w[s] = IF s + (f - 1) \in 1..m THEN ch[s + (f - 1)] ELSE 0
    <3>1. s + (f - 1) = f + s - 1 /\ (f + s - 1 <= m <=> s + (f - 1) \in 1..m)
      BY <1>1
    <3> QED  BY <3>1
  <2> HIDE DEF w
  <2> QED  BY <2>1, <2>2 DEF Along
<1>5. Last(w) = 0
  <2>1. Len(w) = n
    <3>1. w = [s \in 1..n |-> w[s]]
      OBVIOUS
    <3> HIDE DEF w
    <3> QED  BY <1>1, <3>1, LengthIs
  <2>2. n \in 1..n /\ ~ (f + n - 1 <= m)
    BY <1>1
  <2>3. w[n] = 0
    BY <2>2
  <2> HIDE DEF w
  <2> QED  BY <2>1, <2>3 DEF Last
<1> QED  BY <1>3, <1>4, <1>5

LEMMA BackwardWalk ==
  ASSUME TreeInv, NEW m, NEW ch, Linked(node, m, ch), NEW l \in 1..m, lastLeaf = ch[l],
         NEW n, n = Len(node) + 1
  PROVE  /\ Along(Reverse(Walk(lastLeaf, PreviousLeaves)), n, m, ch, l - n)
         /\ Last(Walk(lastLeaf, PreviousLeaves)) = 0
<1> DEFINE w == [s \in 1..n |-> IF s <= l THEN ch[l + 1 - s] ELSE 0]
<1>1. /\ m \in Nat /\ m < n /\ n \in Nat /\ l \in Nat /\ l <= m
      /\ PreviousLeaves[0] = 0
      /\ \A q \in 1..m : PreviousLeaves[ch[q]] = IF q = 1 THEN 0 ELSE ch[q - 1]
  BY LinksAre
<1>2. Follows(w, lastLeaf, PreviousLeaves, n)
  <2>1. w = [s \in 1..n |-> w[s]]
    OBVIOUS
  <2>2. ASSUME NEW s \in 1..n
        PROVE  w[s] = IF s = 1 THEN lastLeaf ELSE PreviousLeaves[w[s - 1]]
    <3>1. CASE s = 1
      <4>1. l + 1 - s = l /\ s <= l
        BY <1>1, <3>1
      <4> QED  BY <3>1, <4>1
    <3>2. CASE s # 1
      <4> DEFINE q == l + 2 - s
      <4>1. /\ s - 1 \in 1..n /\ q \in Int /\ q <= m
            /\ l + 1 - (s - 1) = q /\ l + 1 - s = q - 1
            /\ (s <= l <=> q >= 2) /\ (s - 1 <= l <=> q >= 1)
        BY <1>1, <3>2
      <4>2. w[s - 1] = (IF q >= 1 THEN ch[q] ELSE 0) /\ w[s] = (IF q >= 2 THEN ch[q - 1] ELSE 0)
        BY <4>1
      <4> HIDE DEF w, q
      <4>3. CASE q >= 2
        <5>1. q \in 1..m /\ q # 1 /\ q >= 1
          BY <1>1, <4>1, <4>3
        <5> QED  BY <1>1, <3>2, <4>2, <4>3, <5>1
      <4>4. CASE q = 1
        <5>1. q \in 1..m /\ q >= 1 /\ ~ (q >= 2)
          BY <1>1, <4>1, <4>4
        <5> QED  BY <1>1, <3>2, <4>2, <4>4, <5>1
      <4>5. CASE q < 1
        <5>1. ~ (q >= 1) /\ ~ (q >= 2)
          BY <1>1, <4>1, <4>5
        <5> QED  BY <1>1, <3>2, <4>2, <5>1
      <4> QED  BY <1>1, <4>1, <4>3, <4>4, <4>5
    <3> QED  BY <3>1, <3>2
  <2> HIDE DEF w
  <2> QED  BY <2>1, <2>2 DEF Follows
<1>3. Walk(lastLeaf, PreviousLeaves) = w
  <2> HIDE DEF w
  <2> QED  BY <1>1, <1>2, WalkIs
<1>4. Len(w) = n
  <2>1. w = [s \in 1..n |-> w[s]]
    OBVIOUS
  <2> HIDE DEF w
  <2> QED  BY <1>1, <2>1, LengthIs
<1>5. Along(Reverse(w), n, m, ch, l - n)
  <2> DEFINE v == [s \in 1..n |-> w[(n - s) + 1]]
  <2>1. Reverse(w) = v
    <3> HIDE DEF w
    <3> QED  BY <1>4 DEF Reverse
  <2>2. v = [s \in 1..n |-> v[s]]
    OBVIOUS
  <2>3. ASSUME NEW s \in 1..n
        PROVE  v[s] = IF s + (l - n) \in 1..m THEN ch[s + (l - n)] ELSE 0
    <3>1. /\ (n - s) + 1 \in 1..n /\ l + 1 - ((n - s) + 1) = s + (l - n)
          /\ ((n - s) + 1 <= l <=> s + (l - n) \in 1..m)
      BY <1>1
    <3>2. v[s] = w[(n - s) + 1]
      OBVIOUS
    <3>3. w[(n - s) + 1] = IF (n - s) + 1 <= l THEN ch[l + 1 - ((n - s) + 1)] ELSE 0
      BY <3>1
    <3> QED  BY <3>1, <3>2, <3>3
  <2> HIDE DEF v
  <2> QED  BY <2>1, <2>2, <2>3 DEF Along
<1>6. Last(w) = 0
  <2>1. n \in 1..n /\ ~ (n <= l)
    BY <1>1
  <2>2. w[n] = 0
    BY <2>1
  <2> HIDE DEF w
  <2> QED  BY <1>4, <2>2 DEF Last
<1> QED  BY <1>3, <1>5, <1>6

LEMMA ChainMakesScans ==
  ASSUME TreeInv, ChainInv
  PROVE  ForwardScan /\ BackwardScan
<1> SUFFICES ASSUME ~ failed
             PROVE  ForwardScan /\ BackwardScan
  BY DEF ForwardScan, BackwardScan
<1>1. PICK m, ch, home, f, l :
        /\ Linked(node, m, ch) /\ AtHome(node, root, m, ch, home)
        /\ Spanned(node, m, ch, firstKey, lastKey) /\ Bounds(m, home, f, l, firstKey, lastKey)
        /\ firstLeaf = ch[f] /\ lastLeaf = ch[l]
  BY DEF ChainInv, Chained
<1> DEFINE n == Len(node) + 1
           forward == Walk(firstLeaf, NextLeaves)
           backward == Walk(lastLeaf, PreviousLeaves)
<1>2. m \in Nat /\ m < n /\ n \in Nat \ {0} /\ f \in 1..m /\ l \in 1..m
  BY <1>1, LinksAre DEF Bounds
<1>3. ASSUME NEW k \in Key, Held(k) # 0
      PROVE  f <= home[k] /\ home[k] <= l /\ home[k] \in 1..m
  <2>1. home[k] \in 1..m /\ Held(k) = Count(node[ch[home[k]]].points, k)
    BY <1>1, HeldIsCount
  <2>2. firstKey <= k /\ k <= lastKey
    BY <1>1, <1>3, <2>1 DEF Spanned
  <2> QED  BY <1>1, <2>1, <2>2 DEF Bounds
<1> HIDE DEF n
<1>4. Along(forward, n, m, ch, f - 1) /\ Last(forward) = 0
  BY <1>1, <1>2, ForwardWalk DEF n
<1>5. Along(Reverse(backward), n, m, ch, l - n) /\ Last(backward) = 0
  BY <1>1, <1>2, BackwardWalk DEF n
<1> HIDE DEF forward, backward
<1>6. PointsAlong(forward) = AllPoints
  <2> DEFINE d == f - 1
  <2>1. d \in Int /\ \A k \in Key : Held(k) # 0 => home[k] - d \in 1..n
    BY <1>2, <1>3
  <2>2. Along(forward, n, m, ch, d)
    BY <1>4
  <2> HIDE DEF d
  <2> QED  BY <1>1, <1>2, <2>1, <2>2, ScanIs
<1>7. PointsAlong(Reverse(backward)) = AllPoints
  <2> DEFINE d == l - n
             w == Reverse(backward)
  <2>1. d \in Int /\ \A k \in Key : Held(k) # 0 => home[k] - d \in 1..n
    BY <1>2, <1>3
  <2>2. Along(w, n, m, ch, d)
    BY <1>5
  <2> HIDE DEF d, w
  <2>3. PointsAlong(w) = AllPoints
    BY <1>1, <1>2, <2>1, <2>2, ScanIs
  <2> QED  BY <2>3 DEF w
<1> QED  BY <1>4, <1>5, <1>6, <1>7 DEF ForwardScan, BackwardScan, forward, backward

----------------------------------------------------------------------------
(* The steps keep the chain.                                               *)
OnlyMore(nd, md, m, ch, k) ==
  \A q \in 1..m, j \in Key :
    Count(md[ch[q]].points, j) # 0 => j = k \/ Count(nd[ch[q]].points, j) # 0

LeadsTo(rt, nd, k, a) ==
  /\ \A j \in Key : rt[j] \in 1..Len(nd)
  /\ Way(nd, k)[rt[k]] = a

LEMMA ChainWithPoints ==
  ASSUME NEW nd, Tree(nd), NEW a \in 1..Len(nd), LeafOK(nd[a], Len(nd)),
         NEW s, SortedKeys(s), NEW md, md = WithPoints(nd, a, s),
         NEW rt, NEW k \in Key, LeadsTo(rt, nd, k, a),
         NEW x, Recounts(s, nd[a].points, k, x),
         NEW m, NEW ch, NEW home, Linked(nd, m, ch), AtHome(nd, rt, m, ch, home)
  PROVE  /\ Linked(md, m, ch) /\ AtHome(md, rt, m, ch, home)
         /\ OnlyMore(nd, md, m, ch, k)
<1>0. Way(nd, k)[rt[k]] = a /\ \A j \in Key : rt[j] \in 1..Len(nd)
  BY DEF LeadsTo
<1>1. /\ Tree(md) /\ Len(md) = Len(nd) /\ SameWays(nd, md, 0)
      /\ \A i \in 1..Len(nd) : i # a => md[i] = nd[i]
      /\ LeafOK(md[a], Len(nd)) /\ md[a].points = s
  BY PointsChanged
<1>2. /\ md[a].kind = nd[a].kind /\ md[a].nextLeaf = nd[a].nextLeaf
      /\ md[a].previousLeaf = nd[a].previousLeaf
  <2> DEFINE v == nd[a]
             w == md[a]
  <2>1. a \in DOMAIN nd
    BY DEF Tree
  <2>2. LeafOK(v, Len(nd)) /\ w = [v EXCEPT !.points = s]
    BY <2>1 DEF WithPoints
  <2> HIDE DEF v, w
  <2>3. w.kind = v.kind /\ w.nextLeaf = v.nextLeaf /\ w.previousLeaf = v.previousLeaf
    BY <2>2 DEF LeafOK
  <2> QED  BY <2>3 DEF v, w
<1>3. ASSUME NEW i \in 1..Len(nd)
      PROVE  /\ md[i].kind = nd[i].kind /\ md[i].nextLeaf = nd[i].nextLeaf
             /\ md[i].previousLeaf = nd[i].previousLeaf
  BY <1>1, <1>2
<1>4. Linked(md, m, ch)
  <2>1. \A q \in 1..m : ch[q] \in 1..Len(nd)
    BY DEF Linked
  <2>2. /\ m \in 1..Len(md) /\ ch \in [1..m -> 1..Len(md)]
        /\ \A q, r \in 1..m : ch[q] = ch[r] => q = r
    BY <1>1 DEF Linked
  <2>3. ASSUME NEW q \in 1..m
        PROVE  /\ md[ch[q]].kind = "leaf"
               /\ md[ch[q]].nextLeaf = IF q = m THEN 0 ELSE ch[q + 1]
               /\ md[ch[q]].previousLeaf = IF q = 1 THEN 0 ELSE ch[q - 1]
    <3>1. /\ nd[ch[q]].kind = "leaf"
          /\ nd[ch[q]].nextLeaf = IF q = m THEN 0 ELSE ch[q + 1]
          /\ nd[ch[q]].previousLeaf = IF q = 1 THEN 0 ELSE ch[q - 1]
      BY DEF Linked
    <3>2. ch[q] \in 1..Len(nd)
      BY <2>1
    <3> QED  BY <1>3, <3>1, <3>2
  <2> QED  BY <2>2, <2>3 DEF Linked
<1>5. ASSUME NEW q \in 1..m, NEW j \in Key, Count(md[ch[q]].points, j) # 0
      PROVE  (j = k /\ ch[q] = a) \/ Count(nd[ch[q]].points, j) # 0
  <2>1. ch[q] \in 1..Len(nd)
    BY DEF Linked
  <2>2. CASE ch[q] = a
    <3>1. Count(s, j) # 0 /\ Count(s, j) = IF j = k THEN x ELSE Count(nd[a].points, j)
      BY <1>1, <1>5, <2>2 DEF Recounts
    <3> QED  BY <2>2, <3>1
  <2>3. CASE ch[q] # a
    BY <1>1, <1>5, <2>1, <2>3
  <2> QED  BY <2>2, <2>3
<1>6. AtHome(md, rt, m, ch, home)
  <2>1. ASSUME NEW j \in Key
        PROVE  Way(md, j)[rt[j]] = ch[home[j]]
    <3>1. Way(md, j)[rt[j]] = Way(nd, j)[rt[j]]
      BY <1>0, <1>1, WaysStay
    <3> QED  BY <3>1 DEF AtHome
  <2>2. ASSUME NEW q \in 1..m, NEW j \in Key, Count(md[ch[q]].points, j) # 0
        PROVE  home[j] = q
    <3>1. CASE j = k /\ ch[q] = a
      <4>1. ch[home[k]] = a /\ home[k] \in 1..m
        BY <1>0 DEF AtHome
      <4> QED  BY <3>1, <4>1 DEF Linked
    <3>2. CASE Count(nd[ch[q]].points, j) # 0
      BY <3>2 DEF AtHome
    <3> QED  BY <1>5, <2>2, <3>1, <3>2
  <2> QED  BY <2>1, <2>2 DEF AtHome
<1> QED  BY <1>4, <1>5, <1>6 DEF OnlyMore

(* Nothing changes for the chain.                                          *)
LEMMA ChainStays ==
  ASSUME ChainInv, UNCHANGED <<node, root, firstLeaf, lastLeaf, firstKey, lastKey, failed>>
  PROVE  ChainInv'
BY DEF ChainInv

LEMMA DeleteKeepsChain ==
  ASSUME TreeInv, ChainInv, NEW k \in Key, Delete(k)
  PROVE  ChainInv'
<1> DEFINE nd == node
           md == node'
           a == LeafFor(k)
           s == Without(nd[a].points, k)
<1>1. /\ Held(k) > 0 /\ root' = root /\ failed' = failed /\ ~ failed /\ md = WithPoints(nd, a, s)
      /\ firstLeaf' = firstLeaf /\ lastLeaf' = lastLeaf /\ firstKey' = firstKey /\ lastKey' = lastKey
  BY DEF Delete, Without, WithPoints
<1>2. a \in 1..Len(nd) /\ IsLeaf(a)
  <2>1. a \in 1..Len(node)
    BY LookupEnds
  <2>2. ~ IsLeaf(a) => Held(k) = 0
    BY DEF Held
  <2> QED  BY <1>1, <2>1, <2>2
<1>3. LeafOK(nd[a], Len(nd)) /\ SortedKeys(nd[a].points) /\ Tree(nd)
  BY <1>2, Kinds DEF TreeInv, Tree, IsLeaf
<1>4. SortedKeys(s) /\ Recounts(s, nd[a].points, k, 0)
  BY <1>3, WithoutIs DEF Recounts
<1>5. LeadsTo(root, nd, k, a)
  BY LeafForIs, RootInTree DEF LeadsTo
<1>6. PICK m, ch, home, f, l :
        /\ Linked(nd, m, ch) /\ AtHome(nd, root, m, ch, home)
        /\ Spanned(nd, m, ch, firstKey, lastKey) /\ Bounds(m, home, f, l, firstKey, lastKey)
        /\ firstLeaf = ch[f] /\ lastLeaf = ch[l]
  BY <1>1 DEF ChainInv, Chained
<1> HIDE DEF s, a, nd, md
<1>7. Linked(md, m, ch) /\ AtHome(md, root, m, ch, home) /\ OnlyMore(nd, md, m, ch, k)
  BY <1>1, <1>2, <1>3, <1>4, <1>5, <1>6, ChainWithPoints
<1>8. Spanned(md, m, ch, firstKey, lastKey)
  <2> SUFFICES ASSUME NEW q \in 1..m, NEW j \in Key, Count(md[ch[q]].points, j) # 0
               PROVE  firstKey <= j /\ j <= lastKey
    BY DEF Spanned
  <2>1. CASE j = k
    <3>1. home[k] \in 1..m /\ Held(k) = Count(nd[ch[home[k]]].points, k)
      BY <1>6, HeldIsCount DEF nd
    <3>2. Count(nd[ch[home[k]]].points, k) # 0
      BY <1>1, <3>1
    <3> QED  BY <1>6, <2>1, <3>1, <3>2 DEF Spanned
  <2>2. CASE j # k
    BY <1>6, <1>7, <2>2 DEF Spanned, OnlyMore
  <2> QED  BY <2>1, <2>2
<1>9. Chained(md, root, firstLeaf, lastLeaf, firstKey, lastKey)
  BY <1>6, <1>7, <1>8 DEF Chained
<1> QED  BY <1>1, <1>9 DEF ChainInv, md

LEMMA InsertKeepsChain ==
  ASSUME TreeInv, ChainInv, InsertIntoLeaf
  PROVE  ChainInv'
<1> SUFFICES ASSUME ~ failed
             PROVE  ChainInv'
  BY DEF InsertIntoLeaf, ChainInv
<1> DEFINE nd == node
           md == node'
           k == inserting
           a == at
           p == nd[a].points
           s == Added(p, k)
<1>1. /\ k # 0 /\ IsLeaf(a) /\ root' = root /\ failed' = failed /\ md = WithPoints(nd, a, s)
      /\ lastLeaf' = (IF k > lastKey THEN a ELSE lastLeaf) /\ lastKey' = Max({k, lastKey})
      /\ firstLeaf' = (IF k < firstKey THEN a ELSE firstLeaf) /\ firstKey' = Min({k, firstKey})
  BY DEF InsertIntoLeaf, Added, WithPoints
<1>2. k \in Key /\ a \in 1..Len(nd) /\ Way(nd, k)[a] = LeafFor(k) /\ Tree(nd)
  BY <1>1 DEF TreeInv, OnItsWay
<1>3. LeafOK(nd[a], Len(nd)) /\ SortedKeys(p)
  BY <1>1, <1>2, Kinds DEF Tree, IsLeaf
<1>4. LeafFor(k) = a
  <2>1. Way(nd, k)[a] = IF nd[a].kind = "inner" THEN Way(nd, k)[ChildOf(nd[a], k)] ELSE a
    BY <1>2, WayEndsAt
  <2>2. nd[a].kind # "inner"
    BY <1>3, Kinds
  <2> QED  BY <1>2, <2>1, <2>2
<1>5. LeadsTo(root, nd, k, a)
  BY <1>2, <1>4, LeafForIs, RootInTree DEF LeadsTo
<1> DEFINE x == Count(p, k) + 1
<1>6. SortedKeys(s) /\ Recounts(s, nd[a].points, k, x)
  <2>1. SortedKeys(s) /\ \A j : Count(s, j) = Count(p, j) + (IF j = k THEN 1 ELSE 0)
    BY <1>2, <1>3, AddedIs
  <2>2. \A j : Count(p, j) \in Nat
    <3>1. Len(p) \in Nat /\ DOMAIN p = 1..Len(p)
      BY <1>3 DEF SortedKeys
    <3> HIDE DEF p
    <3> QED  BY <3>1, CountIs, OccursIsNumber
  <2> QED  BY <2>1, <2>2 DEF Recounts
<1>7. PICK m, ch, home, f, l :
        /\ Linked(nd, m, ch) /\ AtHome(nd, root, m, ch, home)
        /\ Spanned(nd, m, ch, firstKey, lastKey) /\ Bounds(m, home, f, l, firstKey, lastKey)
        /\ firstLeaf = ch[f] /\ lastLeaf = ch[l]
  BY DEF ChainInv, Chained
<1> HIDE DEF x, s, p, a, nd, md, k
<1>8. Linked(md, m, ch) /\ AtHome(md, root, m, ch, home) /\ OnlyMore(nd, md, m, ch, k)
  BY <1>1, <1>2, <1>3, <1>5, <1>6, <1>7, ChainWithPoints
<1>9. /\ firstKey \in Int /\ lastKey \in Int /\ k \in Int /\ \A j \in Key : j \in Int
      /\ firstKey' = (IF k <= firstKey THEN k ELSE firstKey)
      /\ lastKey' = (IF k >= lastKey THEN k ELSE lastKey)
  <2>1. firstKey \in Int /\ lastKey \in Int /\ k \in Int /\ \A j \in Key : j \in Int
    <3>1. \A j \in Key : j \in Int
      BY KeysAreNumbers
    <3>2. firstKey \in Int /\ lastKey \in Int
      BY KeyAssumption DEF TreeInv
    <3> QED  BY <1>2, <3>1, <3>2
  <2> QED  BY <1>1, <2>1, MinOfTwo, MaxOfTwo
<1>10. Spanned(md, m, ch, firstKey', lastKey')
  <2> SUFFICES ASSUME NEW q \in 1..m, NEW j \in Key, Count(md[ch[q]].points, j) # 0
               PROVE  firstKey' <= j /\ j <= lastKey'
    BY DEF Spanned
  <2>1. CASE j = k
    BY <1>9, <2>1
  <2>2. CASE j # k
    <3>1. firstKey <= j /\ j <= lastKey /\ j \in Int
      BY <1>7, <1>8, <1>9, <2>2 DEF Spanned, OnlyMore
    <3> QED  BY <1>9, <3>1
  <2> QED  BY <2>1, <2>2
<1> DEFINE g == IF k < firstKey THEN home[k] ELSE f
           t == IF k > lastKey THEN home[k] ELSE l
<1>11. /\ home[k] \in 1..m /\ ch[home[k]] = a
       /\ \A i, j \in Key : i <= j => home[i] <= home[j]
  BY <1>2, <1>5, <1>7 DEF AtHome, LeadsTo
<1>12. Bounds(m, home, g, t, firstKey', lastKey')
  <2>1. /\ f \in 1..m /\ l \in 1..m
        /\ \A j \in Key : (firstKey <= j => f <= home[j]) /\ (j <= lastKey => home[j] <= l)
    BY <1>7 DEF Bounds
  <2>2. g \in 1..m /\ t \in 1..m
    BY <1>11, <2>1
  <2>3. ASSUME NEW j \in Key
        PROVE  firstKey' <= j => g <= home[j]
    <3>1. CASE k < firstKey
      <4>1. firstKey' = k /\ g = home[k]
        BY <1>9, <3>1
      <4> QED  BY <1>2, <1>11, <4>1
    <3>2. CASE ~ (k < firstKey)
      <4>1. firstKey' = firstKey /\ g = f
        BY <1>9, <3>2
      <4> QED  BY <2>1, <4>1
    <3> QED  BY <3>1, <3>2
  <2>4. ASSUME NEW j \in Key
        PROVE  j <= lastKey' => home[j] <= t
    <3>1. CASE k > lastKey
      <4>1. lastKey' = k /\ t = home[k]
        BY <1>9, <3>1
      <4> QED  BY <1>2, <1>11, <4>1
    <3>2. CASE ~ (k > lastKey)
      <4>1. lastKey' = lastKey /\ t = l
        BY <1>9, <3>2
      <4> QED  BY <2>1, <4>1
    <3> QED  BY <3>1, <3>2
  <2> HIDE DEF g, t
  <2> QED  BY <2>2, <2>3, <2>4 DEF Bounds
<1>13. firstLeaf' = ch[g] /\ lastLeaf' = ch[t]
  BY <1>1, <1>7, <1>11
<1> HIDE DEF g, t
<1>14. Chained(md, root, firstLeaf', lastLeaf', firstKey', lastKey')
  BY <1>8, <1>10, <1>12, <1>13 DEF Chained
<1> QED  BY <1>1, <1>14 DEF ChainInv, md

(* Split: the new leaves in the place p of the chain, for the one that was *)
(* there.                                                                  *)
Widened(ch, m, p, n, c) ==
  [i \in 1..m + c - 1 |-> IF i < p THEN ch[i]
                          ELSE IF i < p + c THEN n + 1 + (i - p)
                          ELSE ch[i - c + 1]]

Widens(w, M, ch, m, p, n, c) ==
  /\ w \in [1..M -> 1..n + c]
  /\ \A q, r \in 1..M : w[q] = w[r] => q = r
  /\ \A i \in 1..M :
       /\ i < p => i \in 1..m /\ w[i] = ch[i] /\ w[i] \in 1..n
       /\ p <= i /\ i < p + c => w[i] = n + 1 + (i - p) /\ w[i] \in n + 1..n + c
       /\ p + c <= i => /\ i - c + 1 \in p + 1..m /\ i - c + 1 \in 1..m
                        /\ w[i] = ch[i - c + 1] /\ w[i] \in 1..n

LEMMA WidenedIs ==
  ASSUME NEW ch, NEW m \in Nat, NEW p \in 1..m, NEW n \in Nat, NEW c \in Nat, c > 1,
         ch \in [1..m -> 1..n], \A q, r \in 1..m : ch[q] = ch[r] => q = r,
         m <= n, NEW w, w = Widened(ch, m, p, n, c)
  PROVE  /\ m + c - 1 \in 1..n + c
         /\ Widens(w, m + c - 1, ch, m, p, n, c)
<1>1. ASSUME NEW i \in 1..m + c - 1
      PROVE  /\ i < p => i \in 1..m /\ w[i] = ch[i] /\ w[i] \in 1..n
             /\ p <= i /\ i < p + c => w[i] = n + 1 + (i - p) /\ w[i] \in n + 1..n + c
             /\ p + c <= i => /\ i - c + 1 \in p + 1..m /\ i - c + 1 \in 1..m
                              /\ w[i] = ch[i - c + 1] /\ w[i] \in 1..n
  <2>1. w[i] = IF i < p THEN ch[i] ELSE IF i < p + c THEN n + 1 + (i - p) ELSE ch[i - c + 1]
    BY DEF Widened
  <2>2. i < p => i \in 1..m
    OBVIOUS
  <2>3. p + c <= i => i - c + 1 \in p + 1..m /\ i - c + 1 \in 1..m /\ ~ (i < p) /\ ~ (i < p + c)
    OBVIOUS
  <2>4. p <= i /\ i < p + c => ~ (i < p) /\ n + 1 + (i - p) \in n + 1..n + c
    OBVIOUS
  <2> QED  BY <2>1, <2>2, <2>3, <2>4
<1>2. m + c - 1 \in 1..n + c
  OBVIOUS
<1>3. w \in [1..m + c - 1 -> 1..n + c]
  <2>1. \A i \in 1..m + c - 1 : w[i] \in 1..n + c
    <3> SUFFICES ASSUME NEW i \in 1..m + c - 1
                 PROVE  w[i] \in 1..n + c
      OBVIOUS
    <3>1. w[i] \in 1..n \/ w[i] \in n + 1..n + c
      <4>1. i < p \/ (p <= i /\ i < p + c) \/ p + c <= i
        OBVIOUS
      <4> QED  BY <1>1, <4>1
    <3> QED  BY <3>1
  <2>2. w = [i \in 1..m + c - 1 |-> w[i]]
    BY DEF Widened
  <2> QED  BY <2>1, <2>2
<1>4. ASSUME NEW q \in 1..m + c - 1, NEW r \in 1..m + c - 1, w[q] = w[r]
      PROVE  q = r
  <2>1. (q < p \/ (p <= q /\ q < p + c) \/ p + c <= q) /\ (r < p \/ (p <= r /\ r < p + c) \/ p + c <= r)
    OBVIOUS
  <2>2. CASE p <= q /\ q < p + c
    <3>1. w[q] = n + 1 + (q - p) /\ ~ (w[r] \in 1..n)
      BY <1>1, <1>4, <2>2
    <3>2. p <= r /\ r < p + c
      BY <1>1, <2>1, <3>1
    <3>3. w[r] = n + 1 + (r - p)
      BY <1>1, <3>2
    <3>4. n + 1 + (q - p) = n + 1 + (r - p)
      BY <1>4, <3>1, <3>3
    <3> QED  BY <3>4
  <2>3. CASE q < p
    <3>1. w[q] = ch[q] /\ q \in 1..m /\ ~ (w[r] \in n + 1..n + c)
      BY <1>1, <1>4, <2>3
    <3>2. r < p \/ p + c <= r
      BY <1>1, <2>1, <3>1
    <3>3. r < p => w[r] = ch[r] /\ r \in 1..m
      BY <1>1
    <3>4. p + c <= r => w[r] = ch[r - c + 1] /\ r - c + 1 \in 1..m /\ r - c + 1 # q
      BY <1>1, <2>3
    <3> QED  BY <1>4, <3>1, <3>2, <3>3, <3>4
  <2>4. CASE p + c <= q
    <3>1. w[q] = ch[q - c + 1] /\ q - c + 1 \in 1..m /\ ~ (w[r] \in n + 1..n + c)
      BY <1>1, <1>4, <2>4
    <3>2. r < p \/ p + c <= r
      BY <1>1, <2>1, <3>1
    <3>3. r < p => w[r] = ch[r] /\ r \in 1..m /\ r # q - c + 1
      BY <1>1, <2>4
    <3>4. p + c <= r => /\ w[r] = ch[r - c + 1] /\ r - c + 1 \in 1..m
                        /\ r - c + 1 = q - c + 1 => r = q
      BY <1>1
    <3> QED  BY <1>4, <3>1, <3>2, <3>3, <3>4
  <2> QED  BY <2>1, <2>2, <2>3, <2>4
<1> QED  BY <1>1, <1>2, <1>3, <1>4 DEF Widens

LEMMA SplitLinked ==
  ASSUME NEW n, n = Len(node), n \in Nat, NEW c \in Nat, c > 1, NEW m, NEW ch, Linked(node, m, ch),
         NEW p \in 1..m, ch[p] = at, NEW md, Len(md) = n + c,
         OldLinks(md, n, c), NewLinks(md, n, c), NEW w, w = Widened(ch, m, p, n, c)
  PROVE  Linked(md, m + c - 1, w)
<1>1. /\ m \in Nat /\ m <= n /\ p \in Nat
      /\ ch \in [1..m -> 1..n]
      /\ \A q, r \in 1..m : ch[q] = ch[r] => q = r
      /\ \A q \in 1..m :
           /\ node[ch[q]].kind = "leaf"
           /\ node[ch[q]].nextLeaf = IF q = m THEN 0 ELSE ch[q + 1]
           /\ node[ch[q]].previousLeaf = IF q = 1 THEN 0 ELSE ch[q - 1]
  BY DEF Linked
<1> DEFINE M == m + c - 1
           before == node[at].previousLeaf
           behind == node[at].nextLeaf
<1>2. /\ before = (IF p = 1 THEN 0 ELSE ch[p - 1])
      /\ behind = (IF p = m THEN 0 ELSE ch[p + 1])
  BY <1>1
<1>3. M \in 1..n + c /\ Widens(w, M, ch, m, p, n, c)
  BY <1>1, WidenedIs
<1>4. /\ m \in Nat /\ p \in Nat /\ p <= m /\ 1 <= p /\ n \in Nat /\ c \in Nat /\ c > 1
      /\ M = m + c - 1 /\ M \in Nat
  BY <1>1
<1> HIDE DEF M, before, behind
<1>9. /\ w \in [1..M -> 1..n + c]
      /\ \A q, r \in 1..M : w[q] = w[r] => q = r
      /\ \A i \in 1..M :
           /\ i < p => i \in 1..m /\ w[i] = ch[i] /\ w[i] \in 1..n
           /\ p <= i /\ i < p + c => w[i] = n + 1 + (i - p) /\ w[i] \in n + 1..n + c
           /\ p + c <= i => /\ i - c + 1 \in p + 1..m /\ i - c + 1 \in 1..m
                            /\ w[i] = ch[i - c + 1] /\ w[i] \in 1..n
  BY <1>3 DEF Widens
<1>5. ASSUME NEW r \in 1..m, r # p
      PROVE  /\ md[ch[r]].kind = "leaf"
             /\ md[ch[r]].nextLeaf = IF r = p - 1 THEN n + 1 ELSE IF r = m THEN 0 ELSE ch[r + 1]
             /\ md[ch[r]].previousLeaf = IF r = p + 1 THEN n + c ELSE IF r = 1 THEN 0 ELSE ch[r - 1]
  <2> DEFINE i == ch[r]
  <2>1. i \in 1..n /\ i # 0 /\ i # at /\ node[i].kind = "leaf"
    BY <1>1, <1>5
  <2>2. i = before <=> r = p - 1
    <3>1. p # 1 => p - 1 \in 1..m
      BY <1>1
    <3>2. p # 1 => (ch[r] = ch[p - 1] <=> r = p - 1)
      BY <1>1, <3>1
    <3>3. p = 1 => r # p - 1
      BY <1>1
    <3> QED  BY <1>2, <2>1, <3>2, <3>3
  <2>3. i = behind <=> r = p + 1
    <3>1. p # m => p + 1 \in 1..m
      BY <1>1
    <3>2. p # m => (ch[r] = ch[p + 1] <=> r = p + 1)
      BY <1>1, <3>1
    <3>3. p = m => r # p + 1
      BY <1>1
    <3> QED  BY <1>2, <2>1, <3>2, <3>3
  <2>4. /\ md[i].kind = "leaf"
        /\ md[i].nextLeaf = IF i = before THEN n + 1 ELSE node[i].nextLeaf
        /\ md[i].previousLeaf = IF i = behind THEN n + c ELSE node[i].previousLeaf
    BY <2>1 DEF OldLinks, before, behind
  <2>5. /\ node[i].nextLeaf = IF r = m THEN 0 ELSE ch[r + 1]
        /\ node[i].previousLeaf = IF r = 1 THEN 0 ELSE ch[r - 1]
    BY <1>1
  <2> QED  BY <2>2, <2>3, <2>4, <2>5
<1>6. ASSUME NEW q \in 1..M
      PROVE  /\ md[w[q]].kind = "leaf"
             /\ md[w[q]].nextLeaf = IF q = M THEN 0 ELSE w[q + 1]
             /\ md[w[q]].previousLeaf = IF q = 1 THEN 0 ELSE w[q - 1]
  <2>1. CASE q < p
    <3>1. q \in 1..m /\ q # p /\ q # p + 1 /\ w[q] = ch[q] /\ q # M /\ q # m /\ q + 1 \in 1..M
      BY <1>9, <1>4, <2>1
    <3>2. w[q + 1] = IF q = p - 1 THEN n + 1 ELSE ch[q + 1]
      <4>1. CASE q = p - 1
        <5>1. p <= q + 1 /\ q + 1 < p + c /\ n + 1 + ((q + 1) - p) = n + 1
          BY <1>4, <4>1
        <5> QED  BY <1>9, <3>1, <4>1, <5>1
      <4>2. CASE q # p - 1
        <5>1. q + 1 < p
          BY <1>4, <2>1, <4>2
        <5> QED  BY <1>9, <3>1, <4>2, <5>1
      <4> QED  BY <4>1, <4>2
    <3>3. q # 1 => w[q - 1] = ch[q - 1]
      <4>1. q # 1 => q - 1 \in 1..M /\ q - 1 < p
        BY <1>4, <2>1
      <4> QED  BY <1>9, <4>1
    <3> QED  BY <1>5, <3>1, <3>2, <3>3
  <2>2. CASE p <= q /\ q < p + c
    <3> DEFINE i == w[q]
    <3>1. i = n + 1 + (q - p) /\ i \in n + 1..n + c
      BY <1>9, <2>2
    <3> HIDE DEF i
    <3>2. /\ md[i].kind = "leaf"
          /\ md[i].nextLeaf = IF i = n + c THEN behind ELSE i + 1
          /\ md[i].previousLeaf = IF i = n + 1 THEN before ELSE i - 1
      BY <3>1 DEF NewLinks, before, behind
    <3>3. (i = n + c <=> q = p + c - 1) /\ (i = n + 1 <=> q = p)
      BY <1>4, <3>1
    <3>4. CASE q = p + c - 1
      <4>1. (q = M <=> p = m) /\ q # p
        BY <1>4, <3>4
      <4>2. p # m => w[q + 1] = ch[p + 1]
        <5>1. p # m => q + 1 \in 1..M /\ p + c <= q + 1 /\ (q + 1) - c + 1 = p + 1
          BY <1>4, <3>4
        <5> QED  BY <1>9, <5>1
      <4>3. md[i].nextLeaf = IF q = M THEN 0 ELSE w[q + 1]
        BY <1>2, <3>2, <3>3, <3>4, <4>1, <4>2
      <4>4. q # 1 /\ w[q - 1] = i - 1
        <5>1. q # 1 /\ q - 1 \in 1..M /\ p <= q - 1 /\ q - 1 < p + c /\ n + 1 + ((q - 1) - p) = i - 1
          BY <1>4, <3>1, <3>4
        <5> QED  BY <1>9, <5>1
      <4> QED  BY <3>2, <3>3, <4>1, <4>3, <4>4 DEF i
    <3>5. CASE q # p + c - 1
      <4>1. /\ q # M /\ q + 1 \in 1..M /\ p <= q + 1 /\ q + 1 < p + c
            /\ n + 1 + ((q + 1) - p) = i + 1
        BY <1>4, <2>2, <3>1, <3>5
      <4>2. w[q + 1] = i + 1
        BY <1>9, <4>1
      <4>3. md[i].nextLeaf = IF q = M THEN 0 ELSE w[q + 1]
        BY <3>2, <3>3, <3>5, <4>1, <4>2
      <4>4. CASE q = p
        <5>1. q # 1 => q - 1 \in 1..M /\ q - 1 < p /\ q - 1 = p - 1
          BY <1>4, <4>4
        <5>2. q # 1 => w[q - 1] = ch[p - 1]
          BY <1>9, <5>1
        <5> QED  BY <1>2, <3>2, <3>3, <4>3, <4>4, <5>2 DEF i
      <4>5. CASE q # p
        <5>1. q # 1 /\ q - 1 \in 1..M /\ p <= q - 1 /\ q - 1 < p + c /\ n + 1 + ((q - 1) - p) = i - 1
          BY <1>4, <2>2, <3>1, <4>5
        <5>2. w[q - 1] = i - 1
          BY <1>9, <5>1
        <5> QED  BY <3>2, <3>3, <4>3, <4>5, <5>1, <5>2 DEF i
      <4> QED  BY <4>4, <4>5
    <3> QED  BY <3>4, <3>5
  <2>3. CASE p + c <= q
    <3> DEFINE r == q - c + 1
    <3>0. r \in p + 1..m /\ r \in 1..m /\ w[q] = ch[r]
      BY <1>9, <2>3
    <3>1. r \in p + 1..m /\ r \in 1..m /\ r = q - c + 1
      BY <3>0
    <3> HIDE DEF r
    <3>2. r # p /\ r # p - 1 /\ r # 1 /\ q # 1 /\ (r = m <=> q = M) /\ q = r + c - 1
      BY <1>4, <2>3, <3>1
    <3>3. q # M => w[q + 1] = ch[r + 1]
      <4>1. q # M => q + 1 \in 1..M /\ p + c <= q + 1 /\ (q + 1) - c + 1 = r + 1
        BY <1>4, <2>3, <3>1, <3>2
      <4> QED  BY <1>9, <4>1
    <3>4. w[q - 1] = IF r = p + 1 THEN n + c ELSE ch[r - 1]
      <4>1. CASE r = p + 1
        <5>1. q - 1 \in 1..M /\ p <= q - 1 /\ q - 1 < p + c /\ n + 1 + ((q - 1) - p) = n + c
          BY <1>4, <3>1, <3>2, <4>1
        <5> QED  BY <1>9, <4>1, <5>1
      <4>2. CASE r # p + 1
        <5>1. q - 1 \in 1..M /\ p + c <= q - 1 /\ (q - 1) - c + 1 = r - 1
          BY <1>4, <3>1, <3>2, <4>2
        <5> QED  BY <1>9, <4>2, <5>1
      <4> QED  BY <4>1, <4>2
    <3>5. /\ md[ch[r]].kind = "leaf"
          /\ md[ch[r]].nextLeaf = IF r = m THEN 0 ELSE ch[r + 1]
          /\ md[ch[r]].previousLeaf = IF r = p + 1 THEN n + c ELSE ch[r - 1]
      BY <1>5, <3>1, <3>2
    <3> QED  BY <3>0, <3>2, <3>3, <3>4, <3>5
  <2>4. q < p \/ (p <= q /\ q < p + c) \/ p + c <= q
    BY <1>4
  <2> QED  BY <2>1, <2>2, <2>3, <2>4
<1>7. Linked(md, M, w)
  BY <1>3, <1>6, <1>9 DEF Linked
<1> QED  BY <1>7 DEF M

(* A greater key goes to no child in front.                                *)
LEMMA ChildrenInOrder ==
  ASSUME TreeInv, Refuses, NEW j \in Key, NEW k \in Key, j <= k
  PROVE  PartFor(j) <= PartFor(k)
<1> DEFINE p == node[at].points
           lr == Train(p, Children)
<1>1. SortedKeys(p) /\ Len(p) > 0 /\ Children \in Nat \ {0} /\ Children \in Int /\ Children \in Nat
  BY SplitIs, SizesAssumption
<1>2. p \in Seq(Int) /\ Rising(p) /\ j \in Int /\ k \in Int
  BY <1>1, KeysAreNumbers DEF SortedKeys
<1> HIDE DEF p
<1>3. lr \in Lines /\ lr.slope >= 0
  BY <1>1, <1>2, TrainFits, TrainRises
<1> HIDE DEF lr
<1>4. Predict(lr, Children, j) <= Predict(lr, Children, k)
  BY <1>1, <1>2, <1>3, PredictKeepsOrder
<1> QED  BY <1>4 DEF PartFor, lr, p

(* The places when the leaf in the place p was split.                      *)
Moved(home, p) ==
  [k \in Key |-> IF home[k] < p THEN home[k]
                 ELSE IF home[k] = p THEN p + PartFor(k) ELSE home[k] + Children - 1]

LEMMA SplitAtHome ==
  ASSUME TreeInv, Split, NEW m, NEW ch, NEW home, Linked(node, m, ch),
         AtHome(node, root, m, ch, home), NEW p \in 1..m, ch[p] = at,
         NEW w, w = Widened(ch, m, p, Len(node), Children),
         NEW away, away = Moved(home, p), NEW M, M = m + Children - 1
  PROVE  /\ Linked(node', M, w) /\ AtHome(node', root, M, w, away)
         /\ \A q \in 1..M, k \in Key : Count(node'[w[q]].points, k) # 0
              => \E r \in 1..m : Count(node[ch[r]].points, k) # 0
<1> DEFINE n == Len(node)
           c == Children
           md == node'
<1>1. Refuses /\ OldLinks(md, n, c) /\ NewLinks(md, n, c) /\ Len(md) = n + c
  BY SplitLands, SplitLinks DEF SplitTo
<1>2. /\ n \in Nat /\ c \in Nat /\ c > 1 /\ m \in Nat /\ m <= n /\ p \in Nat /\ p <= m /\ 1 <= p
      /\ M = m + c - 1 /\ M \in Nat /\ n = Len(node)
  BY LinksAre, SizesAssumption
<1>3. /\ ch \in [1..m -> 1..n] /\ \A q, r \in 1..m : ch[q] = ch[r] => q = r
      /\ \A q \in 1..m : node[ch[q]].kind = "leaf"
  BY DEF Linked
<1>4. /\ home \in [Key -> 1..m]
      /\ \A k \in Key : Way(node, k)[root[k]] = ch[home[k]]
      /\ \A j, k \in Key : j <= k => home[j] <= home[k]
      /\ \A q \in 1..m, k \in Key : Count(node[ch[q]].points, k) # 0 => home[k] = q
  BY DEF AtHome
<1>5. \A k \in Key : /\ root[k] \in 1..n /\ PartFor(k) \in 0..c - 1
                     /\ Way(md, k)[root[k]] = IF Way(node, k)[root[k]] = at
                                              THEN n + 1 + PartFor(k)
                                              ELSE Way(node, k)[root[k]]
  BY RootInTree, SplitWays
<1>6. \A j, k \in Key : j <= k => PartFor(j) <= PartFor(k)
  BY <1>1, ChildrenInOrder
<1>7. \A b \in Int, k \in Key : Count(Part(b), k) = IF PartFor(k) = b
                                                    THEN Count(node[at].points, k) ELSE 0
  BY <1>1, SplitParts
<1>8. w = Widened(ch, m, p, n, c)
  OBVIOUS
<1> HIDE DEF n, c, md
<1>9. Linked(md, M, w)
  <2>1. Linked(md, m + c - 1, w)
    BY <1>1, <1>2, <1>8, SplitLinked
  <2> QED  BY <1>2, <2>1
<1>10. Widens(w, M, ch, m, p, n, c)
  <2>1. Widens(w, m + c - 1, ch, m, p, n, c)
    BY <1>2, <1>3, <1>8, WidenedIs
  <2> QED  BY <1>2, <2>1
<1>11. ASSUME NEW k \in Key
       PROVE  /\ home[k] \in 1..m /\ away[k] \in 1..M
              /\ home[k] < p => away[k] = home[k]
              /\ home[k] = p => away[k] = p + PartFor(k)
              /\ home[k] > p => away[k] = home[k] + c - 1
              /\ w[away[k]] = IF home[k] = p THEN n + 1 + PartFor(k) ELSE ch[home[k]]
  <2> DEFINE h == home[k]
             x == PartFor(k)
             d == away[k]
  <2>1. /\ h \in 1..m /\ x \in 0..c - 1
        /\ d = IF h < p THEN h ELSE IF h = p THEN p + x ELSE h + c - 1
    BY <1>4, <1>5 DEF Moved, c
  <2> HIDE DEF h, x, d
  <2>2. /\ h < p => d = h
        /\ h = p => d = p + x
        /\ h > p => d = h + c - 1
    BY <1>2, <2>1
  <2>3. CASE h < p
    <3>1. d \in 1..M /\ h # p
      BY <1>2, <2>1, <2>2, <2>3
    <3>2. w[d] = ch[h]
      BY <1>10, <2>2, <2>3, <3>1 DEF Widens
    <3> QED  BY <2>1, <2>2, <3>1, <3>2 DEF h, x, d
  <2>4. CASE h = p
    <3>1. d \in 1..M /\ p <= d /\ d < p + c /\ n + 1 + (d - p) = n + 1 + x
      BY <1>2, <2>1, <2>2, <2>4
    <3>2. w[d] = n + 1 + x
      BY <1>10, <3>1 DEF Widens
    <3> QED  BY <2>1, <2>2, <2>4, <3>1, <3>2 DEF h, x, d
  <2>5. CASE h > p
    <3>1. d \in 1..M /\ p + c <= d /\ d - c + 1 = h /\ h # p
      BY <1>2, <2>1, <2>2, <2>5
    <3>2. w[d] = ch[h]
      BY <1>10, <3>1 DEF Widens
    <3> QED  BY <2>1, <2>2, <3>1, <3>2 DEF h, x, d
  <2> QED  BY <1>2, <2>1, <2>3, <2>4, <2>5
<1>12. ASSUME NEW k \in Key
       PROVE  Way(md, k)[root[k]] = w[away[k]]
  <2>1. Way(node, k)[root[k]] = at <=> home[k] = p
    BY <1>3, <1>4, <1>11
  <2> QED  BY <1>4, <1>5, <1>11, <2>1
<1>13. ASSUME NEW j \in Key, NEW k \in Key, j <= k
       PROVE  away[j] <= away[k]
  <2> DEFINE h == home[j]
             g == home[k]
             x == PartFor(j)
             y == PartFor(k)
  <2>1. h <= g /\ h \in 1..m /\ g \in 1..m /\ x <= y /\ x \in 0..c - 1 /\ y \in 0..c - 1
    BY <1>4, <1>5, <1>6, <1>11, <1>13
  <2>2. /\ h < p => away[j] = h
        /\ h = p => away[j] = p + x
        /\ h > p => away[j] = h + c - 1
    BY <1>11
  <2>3. /\ g < p => away[k] = g
        /\ g = p => away[k] = p + y
        /\ g > p => away[k] = g + c - 1
    BY <1>11
  <2> HIDE DEF h, g, x, y
  <2> QED  BY <1>2, <2>1, <2>2, <2>3
<1>14. ASSUME NEW q \in 1..M, NEW k \in Key, Count(md[w[q]].points, k) # 0
       PROVE  /\ away[k] = q
              /\ \E r \in 1..m : Count(node[ch[r]].points, k) # 0
  <2>1. CASE q < p
    <3>1. q \in 1..m /\ w[q] = ch[q] /\ w[q] \in 1..n
      BY <1>10, <2>1 DEF Widens
    <3>2. ch[q] # at
      BY <1>2, <1>3, <2>1, <3>1
    <3>3. md[w[q]].points = node[ch[q]].points
      BY <1>1, <1>3, <3>1, <3>2 DEF OldLinks
    <3>4. home[k] = q
      BY <1>4, <1>14, <3>1, <3>3
    <3> QED  BY <1>11, <1>14, <2>1, <3>1, <3>3, <3>4
  <2>2. CASE p <= q /\ q < p + c
    <3> DEFINE b == q - p
    <3>1. w[q] = n + 1 + b /\ w[q] \in n + 1..n + c
      BY <1>10, <2>2 DEF Widens
    <3>2. b \in Int /\ (n + 1 + b) - (n + 1) = b /\ p + b = q
      BY <1>2
    <3> HIDE DEF b
    <3>3. md[w[q]].points = Part(b)
      BY <1>1, <3>1, <3>2 DEF NewLinks
    <3>4. PartFor(k) = b /\ Count(node[at].points, k) # 0
      BY <1>7, <1>14, <3>2, <3>3
    <3>5. home[k] = p
      BY <1>4, <3>4
    <3> QED  BY <1>11, <3>2, <3>4, <3>5
  <2>3. CASE p + c <= q
    <3> DEFINE r == q - c + 1
    <3>1. r \in p + 1..m /\ r \in 1..m /\ w[q] = ch[r] /\ w[q] \in 1..n
      BY <1>10, <2>3 DEF Widens
    <3>2. r # p /\ r > p /\ r + c - 1 = q
      BY <1>2, <3>1
    <3> HIDE DEF r
    <3>3. ch[r] # at
      BY <1>3, <3>1, <3>2
    <3>4. md[w[q]].points = node[ch[r]].points
      BY <1>1, <1>3, <3>1, <3>3 DEF OldLinks
    <3>5. home[k] = r
      BY <1>4, <1>14, <3>1, <3>4
    <3> QED  BY <1>11, <1>14, <3>1, <3>2, <3>4, <3>5
  <2>4. q < p \/ (p <= q /\ q < p + c) \/ p + c <= q
    BY <1>2
  <2> QED  BY <2>1, <2>2, <2>3, <2>4
<1>15. AtHome(md, root, M, w, away)
  <2>1. away \in [Key -> 1..M]
    <3>1. away = [k \in Key |-> away[k]]
      BY DEF Moved
    <3> QED  BY <1>11, <3>1
  <2> QED  BY <1>12, <1>13, <1>14, <2>1 DEF AtHome
<1> QED  BY <1>9, <1>14, <1>15 DEF md

LEMMA SplitBounds ==
  ASSUME TreeInv, Split, NEW m, NEW ch, NEW home, Linked(node, m, ch),
         AtHome(node, root, m, ch, home), NEW p \in 1..m, ch[p] = at,
         NEW w, w = Widened(ch, m, p, Len(node), Children),
         NEW M, M = m + Children - 1, NEW f, NEW l,
         Bounds(m, home, f, l, firstKey, lastKey), firstLeaf = ch[f], lastLeaf = ch[l],
         NEW g, g = (IF f <= p THEN f ELSE f + Children - 1),
         NEW t, t = (IF l < p THEN l ELSE l + Children - 1)
  PROVE  /\ Bounds(M, Moved(home, p), g, t, firstKey, lastKey)
         /\ firstLeaf' = w[g] /\ lastLeaf' = w[t]
<1> DEFINE n == Len(node)
           c == Children
<1>1. /\ lastLeaf' = (IF at = lastLeaf THEN n + 1 + c - 1 ELSE lastLeaf)
      /\ firstLeaf' = (IF at = firstLeaf THEN n + 1 ELSE firstLeaf)
      /\ \A k \in Key : PartFor(k) \in 0..c - 1
  <2>1. Refuses
    BY DEF Split
  <2>2. Inner.childLeft = n + 1
    BY <2>1, SplitIs
  <2>3. \A k \in Key : root[k] \in 1..n
    BY RootInTree
  <2> QED  BY <2>2, <2>3, SplitWays DEF Split
<1>2. /\ n \in Nat /\ c \in Nat /\ c > 1 /\ m \in Nat /\ m <= n /\ p \in Nat /\ p <= m /\ 1 <= p
      /\ M = m + c - 1 /\ M \in Nat
  BY LinksAre, SizesAssumption
<1>3. ch \in [1..m -> 1..n] /\ \A q, r \in 1..m : ch[q] = ch[r] => q = r
  BY DEF Linked
<1>4. /\ f \in 1..m /\ l \in 1..m
      /\ \A k \in Key : (firstKey <= k => f <= home[k]) /\ (k <= lastKey => home[k] <= l)
  BY DEF Bounds
<1>5. /\ g = (IF f <= p THEN f ELSE f + c - 1)
      /\ t = (IF l < p THEN l ELSE l + c - 1)
  OBVIOUS
<1>6. w = Widened(ch, m, p, n, c)
  OBVIOUS
<1>16. f \in Nat /\ l \in Nat
  BY <1>2, <1>4
<1> HIDE DEF n, c
<1>17. \A a, b, d \in Nat :
         a > b => b + d <= a + d - 1 /\ (a + d - 1) - d + 1 = a /\ a # b
  OBVIOUS
<1>7. Widens(w, M, ch, m, p, n, c)
  <2>1. Widens(w, m + c - 1, ch, m, p, n, c)
    BY <1>2, <1>3, <1>6, WidenedIs
  <2> QED  BY <1>2, <2>1
<1>8. g \in 1..M /\ t \in 1..M
  BY <1>2, <1>4, <1>5
<1>9. firstLeaf' = w[g]
  <2>1. at = firstLeaf <=> f = p
    BY <1>3, <1>4
  <2>2. CASE f < p
    <3>1. g = f /\ g < p /\ f # p
      BY <1>2, <1>5, <1>16, <2>2
    <3> QED  BY <1>1, <1>7, <1>8, <2>1, <3>1 DEF Widens
  <2>3. CASE f = p
    <3>1. g = p /\ p <= g /\ g < p + c /\ n + 1 + (g - p) = n + 1
      BY <1>2, <1>5, <2>3
    <3> QED  BY <1>1, <1>7, <1>8, <2>1, <2>3, <3>1 DEF Widens
  <2>4. CASE f > p
    <3>1. ~ f <= p /\ g = f + c - 1
      BY <1>2, <1>5, <1>16, <2>4
    <3>2. p + c <= f + c - 1 /\ (f + c - 1) - c + 1 = f /\ f # p
      BY <1>2, <1>16, <1>17, <2>4
    <3>3. p + c <= g /\ g - c + 1 = f /\ f # p
      BY <3>1, <3>2
    <3> QED  BY <1>1, <1>7, <1>8, <2>1, <3>3 DEF Widens
  <2> QED  BY <1>2, <1>16, <2>2, <2>3, <2>4
<1>10. lastLeaf' = w[t]
  <2>1. at = lastLeaf <=> l = p
    BY <1>3, <1>4
  <2>2. CASE l < p
    <3>1. t = l /\ t < p /\ l # p
      BY <1>2, <1>5, <1>16, <2>2
    <3> QED  BY <1>1, <1>7, <1>8, <2>1, <3>1 DEF Widens
  <2>3. CASE l = p
    <3>1. p <= t /\ t < p + c /\ n + 1 + (t - p) = n + 1 + c - 1
      BY <1>2, <1>5, <2>3
    <3> QED  BY <1>1, <1>7, <1>8, <2>1, <2>3, <3>1 DEF Widens
  <2>4. CASE l > p
    <3>1. ~ l < p /\ t = l + c - 1
      BY <1>2, <1>5, <1>16, <2>4
    <3>2. p + c <= l + c - 1 /\ (l + c - 1) - c + 1 = l /\ l # p
      BY <1>2, <1>16, <1>17, <2>4
    <3>3. p + c <= t /\ t - c + 1 = l /\ l # p
      BY <3>1, <3>2
    <3> QED  BY <1>1, <1>7, <1>8, <2>1, <3>3 DEF Widens
  <2> QED  BY <1>2, <1>16, <2>2, <2>3, <2>4
<1> DEFINE away == Moved(home, p)
<1>11. ASSUME NEW k \in Key
       PROVE  (firstKey <= k => g <= away[k]) /\ (k <= lastKey => away[k] <= t)
  <2> DEFINE h == home[k]
             x == PartFor(k)
             d == away[k]
  <2>1. /\ h \in 1..m /\ x \in 0..c - 1
        /\ d = IF h < p THEN h ELSE IF h = p THEN p + x ELSE h + c - 1
    BY <1>1 DEF Moved, c, AtHome
  <2>2. (firstKey <= k => f <= h) /\ (k <= lastKey => h <= l)
    BY <1>4
  <2> HIDE DEF h, x, d, away
  <2>3. f <= h => g <= d
    BY <1>2, <1>4, <1>5, <2>1
  <2>4. h <= l => d <= t
    BY <1>2, <1>4, <1>5, <2>1
  <2> QED  BY <2>2, <2>3, <2>4 DEF d
<1> HIDE DEF away
<1>12. Bounds(M, away, g, t, firstKey, lastKey)
  BY <1>8, <1>11 DEF Bounds
<1> QED  BY <1>9, <1>10, <1>12 DEF away

LEMMA SplitKeepsChain ==
  ASSUME TreeInv, ChainInv, Split
  PROVE  ChainInv'
<1> SUFFICES ASSUME ~ failed
             PROVE  ChainInv'
  BY DEF Split, ChainInv
<1>1. PICK m, ch, home, f, l :
        /\ Linked(node, m, ch) /\ AtHome(node, root, m, ch, home)
        /\ Spanned(node, m, ch, firstKey, lastKey) /\ Bounds(m, home, f, l, firstKey, lastKey)
        /\ firstLeaf = ch[f] /\ lastLeaf = ch[l]
  BY DEF ChainInv, Chained
<1>2. root' = root /\ firstKey' = firstKey /\ lastKey' = lastKey
  BY DEF Split
<1>3. PICK p \in 1..m : ch[p] = at
  <2> DEFINE k == inserting
  <2>1. Refuses
    BY DEF Split
  <2>2. k \in Key /\ at \in 1..Len(node) /\ node[at].kind = "leaf"
    BY <2>1, SplitIs, Kinds
  <2>3. Way(node, k)[at] = LeafFor(k) /\ Tree(node)
    BY <2>1 DEF TreeInv, OnItsWay, Refuses
  <2>4. Way(node, k)[at] = IF node[at].kind = "inner" THEN Way(node, k)[ChildOf(node[at], k)] ELSE at
    BY <2>2, <2>3, WayEndsAt
  <2>5. LeafFor(k) = at
    BY <2>2, <2>3, <2>4
  <2>6. home[k] \in 1..m /\ ch[home[k]] = at
    BY <1>1, <2>2, <2>5, LeafForIs DEF AtHome
  <2> QED  BY <2>6
<1> DEFINE w == Widened(ch, m, p, Len(node), Children)
           away == Moved(home, p)
           M == m + Children - 1
           g == IF f <= p THEN f ELSE f + Children - 1
           t == IF l < p THEN l ELSE l + Children - 1
           md == node'
<1>4. /\ Linked(md, M, w) /\ AtHome(md, root, M, w, away)
      /\ \A q \in 1..M, k \in Key : Count(md[w[q]].points, k) # 0
           => \E r \in 1..m : Count(node[ch[r]].points, k) # 0
  BY <1>1, <1>3, SplitAtHome
<1>5. /\ Bounds(M, away, g, t, firstKey, lastKey)
      /\ firstLeaf' = w[g] /\ lastLeaf' = w[t]
  BY <1>1, <1>3, SplitBounds
<1> HIDE DEF w, away, M, g, t, md
<1>6. Spanned(md, M, w, firstKey, lastKey)
  BY <1>1, <1>4 DEF Spanned
<1>7. Chained(md, root, firstLeaf', lastLeaf', firstKey, lastKey)
  BY <1>4, <1>5, <1>6 DEF Chained
<1> QED  BY <1>2, <1>7 DEF ChainInv, md

LEMMA InitHasChain ==
  ASSUME Init PROVE ChainInv
<1>1. PICK under \in [1..RootLeaves -> BoundedSeq(Key, LeafCap)] :
        LET used   == {i \in 1..RootLeaves : under[i] # <<>>}
            points == {k \in Key : \E i \in used : \E q \in DOMAIN under[i] : under[i][q] = k}
        IN /\ \A i \in 1..RootLeaves :
                Sorted(under[i]) /\ \A q \in DOMAIN under[i] : root[under[i][q]] = i
           /\ node = [i \in 1..RootLeaves |->
                        Leaf(under[i], i - 1, (i + 1) % (RootLeaves + 1))]
           /\ firstLeaf = IF used = {} THEN 1 ELSE Min(used)
           /\ lastLeaf = IF used = {} THEN RootLeaves ELSE Max(used)
           /\ firstKey = IF used = {} THEN MAX ELSE Min(points)
           /\ lastKey = IF used = {} THEN 0 ELSE Max(points)
  BY DEF Init
<1> DEFINE n == RootLeaves
           used == {i \in 1..n : under[i] # <<>>}
           points == {k \in Key : \E i \in used : \E q \in DOMAIN under[i] : under[i][q] = k}
           ch == [i \in 1..n |-> i]
<1>2. n \in Nat /\ n > 1 /\ MAX \in Nat /\ \A k \in Key : k \in 1..MAX - 1 /\ k \in Int
  BY KeyAssumption, SizesAssumption
<1>3. /\ \A i \in 1..n : \A q \in DOMAIN under[i] : root[under[i][q]] = i
      /\ node = [i \in 1..n |-> Leaf(under[i], i - 1, (i + 1) % (n + 1))]
      /\ firstLeaf = IF used = {} THEN 1 ELSE Min(used)
      /\ lastLeaf = IF used = {} THEN n ELSE Max(used)
      /\ firstKey = IF used = {} THEN MAX ELSE Min(points)
      /\ lastKey = IF used = {} THEN 0 ELSE Max(points)
  BY <1>1
<1>4. /\ root \in [Key -> 1..n] /\ \A j, k \in Key : j < k => root[j] <= root[k]
      /\ TreeInv
  BY InitIsInv DEF Init
<1>5. Len(node) = n /\ Tree(node) /\ DOMAIN node = 1..n
  <2>1. node = [i \in 1..n |-> node[i]]
    BY <1>3
  <2> QED  BY <1>2, <1>4, <2>1, LengthIs DEF TreeInv
<1>6. /\ used \subseteq 1..n
      /\ used # {} => /\ Min(used) \in used /\ Max(used) \in used
                      /\ \A x \in used : Min(used) <= x /\ x <= Max(used)
  <2>1. used \subseteq 1..n /\ used \subseteq Nat /\ used \subseteq 0..n
    BY <1>2
  <2> HIDE DEF used, n
  <2> QED  BY <1>2, <2>1, MinOfNumbers, MaxOfNumbers
<1>7. points \subseteq Key /\ \A k \in points : root[k] \in used
  BY <1>3
<1>8. ASSUME NEW i \in 1..n
      PROVE  /\ node[i].kind = "leaf" /\ node[i].points = under[i]
             /\ node[i].nextLeaf = (IF i = n THEN 0 ELSE i + 1) /\ node[i].previousLeaf = i - 1
  <2>1. node[i] = Leaf(under[i], i - 1, (i + 1) % (n + 1))
    BY <1>3
  <2>2. (i + 1) % (n + 1) = IF i = n THEN 0 ELSE i + 1
    BY <1>2
  <2> QED  BY <2>1, <2>2 DEF Leaf
<1>9. ASSUME NEW i \in 1..n, NEW k \in Key, Count(node[i].points, k) # 0
      PROVE  i \in used /\ k \in points /\ root[k] = i
  <2> DEFINE s == under[i]
  <2>1. {q \in DOMAIN s : s[q] = k} # {}
    <3>1. Count(s, k) # 0
      BY <1>8, <1>9
    <3> HIDE DEF s
    <3> QED  BY <3>1, FS_EmptySet DEF Count
  <2>2. PICK q \in DOMAIN s : s[q] = k
    BY <2>1
  <2>3. s # <<>>
    <3> HIDE DEF s
    <3> QED  BY <2>2
  <2> QED  BY <1>3, <2>2, <2>3
<1>10. points # {} <=> used # {}
  <2>1. ASSUME NEW i \in used
        PROVE  points # {}
    <3> DEFINE s == node[i].points
    <3>1. i \in 1..n /\ s = under[i] /\ s # <<>>
      BY <1>8
    <3>2. LeafOK(node[i], n)
      BY <1>5, <1>8, <3>1, Kinds DEF Tree
    <3>3. SortedKeys(s)
      BY <3>2, Kinds
    <3> HIDE DEF s
    <3>4. 1 \in 1..Len(s)
      BY <3>1, <3>3 DEF SortedKeys
    <3>5. s[1] \in Key /\ Count(s, s[1]) # 0
      BY <3>3, <3>4, Present
    <3>6. s[1] \in points
      BY <1>9, <3>1, <3>5 DEF s
    <3> QED  BY <3>6
  <2> QED  BY <1>7, <2>1
<1>11. points # {} => /\ Min(points) \in points /\ Max(points) \in points
                      /\ \A x \in points : Min(points) <= x /\ x <= Max(points)
  <2>1. points \subseteq Nat /\ points \subseteq 0..MAX
    <3> HIDE DEF points
    <3>1. \A x \in points : x \in 1..MAX - 1
      BY <1>2, <1>7
    <3>2. \A x \in 1..MAX - 1 : x \in 0..MAX /\ x \in Nat
      BY <1>2
    <3> QED  BY <3>1, <3>2
  <2> HIDE DEF points
  <2> QED  BY <1>2, <2>1, MinOfNumbers, MaxOfNumbers
<1> HIDE DEF used, points
<1>12. \A j, k \in Key : j <= k => root[j] <= root[k]
  <2> SUFFICES ASSUME NEW j \in Key, NEW k \in Key, j <= k
               PROVE  root[j] <= root[k]
    OBVIOUS
  <2>1. CASE j < k
    BY <1>4, <2>1
  <2>2. CASE ~ (j < k)
    <3>1. j = k
      BY <1>2, <2>2
    <3>2. root[k] \in 1..n
      BY <1>4
    <3> QED  BY <1>2, <3>1, <3>2
  <2> QED  BY <2>1, <2>2
<1>13. Linked(node, n, ch)
  <2>1. ch \in [1..n -> 1..n] /\ \A i \in 1..n : ch[i] = i
    OBVIOUS
  <2> HIDE DEF ch
  <2>2. n \in 1..n
    BY <1>2
  <2>3. ASSUME NEW i \in 1..n
        PROVE  /\ node[ch[i]].kind = "leaf"
               /\ node[ch[i]].nextLeaf = IF i = n THEN 0 ELSE ch[i + 1]
               /\ node[ch[i]].previousLeaf = IF i = 1 THEN 0 ELSE ch[i - 1]
    <3>1. ch[i] = i /\ (i # n => ch[i + 1] = i + 1) /\ (i # 1 => ch[i - 1] = i - 1)
      <4>1. (i # n => i + 1 \in 1..n) /\ (i # 1 => i - 1 \in 1..n)
        BY <1>2
      <4> QED  BY <2>1, <4>1
    <3>2. i = 1 => i - 1 = 0
      OBVIOUS
    <3> QED  BY <1>8, <3>1, <3>2
  <2> QED  BY <1>5, <2>1, <2>2, <2>3 DEF Linked
<1>14. \A i \in 1..n : ch[i] = i
  OBVIOUS
<1> HIDE DEF ch
<1>15. AtHome(node, root, n, ch, root)
  <2>1. ASSUME NEW k \in Key
        PROVE  Way(node, k)[root[k]] = ch[root[k]]
    <3> DEFINE r == root[k]
    <3>1. r \in 1..n /\ r \in 1..Len(node)
      BY <1>4, <1>5
    <3> HIDE DEF r
    <3>2. Way(node, k)[r] = IF node[r].kind = "inner" THEN Way(node, k)[ChildOf(node[r], k)] ELSE r
      BY <1>5, <3>1, WayEndsAt
    <3>3. Way(node, k)[r] = ch[r]
      BY <1>8, <1>14, <3>1, <3>2
    <3> QED  BY <3>3 DEF r
  <2> QED  BY <1>4, <1>9, <1>12, <1>14, <2>1 DEF AtHome
<1>16. Spanned(node, n, ch, firstKey, lastKey)
  <2> SUFFICES ASSUME NEW i \in 1..n, NEW k \in Key, Count(node[ch[i]].points, k) # 0
               PROVE  firstKey <= k /\ k <= lastKey
    BY DEF Spanned
  <2>1. k \in points /\ used # {}
    BY <1>9, <1>14
  <2> QED  BY <1>3, <1>11, <2>1
<1>17. Bounds(n, root, firstLeaf, lastLeaf, firstKey, lastKey)
  <2>1. CASE used = {}
    <3>1. firstLeaf = 1 /\ lastLeaf = n /\ firstKey = MAX /\ lastKey = 0
      BY <1>3, <2>1
    <3>2. \A k \in Key : ~ (MAX <= k) /\ ~ (k <= 0)
      BY <1>2
    <3>3. 1 \in 1..n /\ n \in 1..n
      BY <1>2
    <3> QED  BY <3>1, <3>2, <3>3 DEF Bounds
  <2>2. CASE used # {}
    <3>1. /\ firstLeaf \in used /\ lastLeaf \in used
          /\ \A x \in used : firstLeaf <= x /\ x <= lastLeaf
          /\ firstKey \in points /\ lastKey \in points
      BY <1>3, <1>6, <1>10, <1>11, <2>2
    <3>2. /\ firstLeaf \in 1..n /\ lastLeaf \in 1..n
          /\ root[firstKey] \in 1..n /\ root[lastKey] \in 1..n
          /\ firstLeaf <= root[firstKey] /\ root[lastKey] <= lastLeaf
          /\ firstKey \in Key /\ lastKey \in Key
      BY <1>4, <1>6, <1>7, <3>1
    <3>3. ASSUME NEW k \in Key
          PROVE  /\ firstKey <= k => firstLeaf <= root[k]
                 /\ k <= lastKey => root[k] <= lastLeaf
      <4>1. root[k] \in 1..n
        BY <1>4
      <4>2. firstKey <= k => root[firstKey] <= root[k]
        BY <1>12, <3>2
      <4>3. k <= lastKey => root[k] <= root[lastKey]
        BY <1>12, <3>2
      <4> QED  BY <3>2, <4>1, <4>2, <4>3
    <3> QED  BY <3>2, <3>3 DEF Bounds
  <2> QED  BY <2>1, <2>2
<1>18. firstLeaf = ch[firstLeaf] /\ lastLeaf = ch[lastLeaf]
  BY <1>14, <1>17 DEF Bounds
<1>19. Chained(node, root, firstLeaf, lastLeaf, firstKey, lastKey)
  BY <1>13, <1>15, <1>16, <1>17, <1>18 DEF Chained
<1> QED  BY <1>19 DEF ChainInv

LEMMA StepKeepsChain ==
  ASSUME TreeInv, ChainInv, [Next]_vars
  PROVE  ChainInv'
<1>1. ASSUME NEW k \in Key, BeginInsert(k)
      PROVE  ChainInv'
  BY <1>1, ChainStays DEF BeginInsert
<1>2. CASE Descend
  BY <1>2, ChainStays DEF Descend
<1>3. CASE InsertIntoLeaf
  BY <1>3, InsertKeepsChain
<1>4. CASE Split
  BY <1>4, SplitKeepsChain
<1>5. CASE SplitThrows
  <2>1. failed' = TRUE
    BY <1>5 DEF SplitThrows
  <2> QED  BY <2>1 DEF ChainInv
<1>6. ASSUME NEW k \in Key, Delete(k)
      PROVE  ChainInv'
  BY <1>6, DeleteKeepsChain
<1>7. CASE UNCHANGED vars
  BY <1>7, ChainStays DEF vars
<1> QED  BY <1>1, <1>2, <1>3, <1>4, <1>5, <1>6, <1>7 DEF Next

----------------------------------------------------------------------------
(* The children of inner nodes and the neighbours of leaves are nodes of   *)
(* the node array, and Insert is at one, also when a split has thrown.     *)
THEOREM TreeIsSound == Spec => []TypeOK
<1>1. Init => TreeInv
  BY InitIsInv
<1>2. TreeInv /\ [Next]_vars => TreeInv'
  BY StepKeepsInv
<1>3. TreeInv => TypeOK
  BY TreeInvIsTypeOK
<1> QED  BY <1>1, <1>2, <1>3, PTL DEF Spec

(* Insert, Delete and Split implement a store of keys: lookups find what   *)
(* was inserted and not erased, through every split, unless a step throws. *)
THEOREM TreeKeepsItsKeys == Spec => KeepsItsKeys
<1>1. Init => TreeInv
  BY InitIsInv
<1>2. TreeInv /\ [Next]_vars => TreeInv'
  BY StepKeepsInv
<1>3. TreeInv /\ [Next]_vars => [Keeps]_vars
  BY StepKeepsKeys
<1>4. Spec => [][Keeps]_vars
  BY <1>1, <1>2, <1>3, PTL DEF Spec
<1>5. KeepsItsKeys <=> [][Keeps]_vars
  BY DEF KeepsItsKeys, Keeps
<1> QED  BY <1>4, <1>5

(* A scan forward from firstLeaf comes by every point that lookups find,   *)
(* in order, and ends: Split links its new leaves in the place of the old. *)
THEOREM TreeScansForward == Spec => []ForwardScan
<1>1. Init => TreeInv /\ ChainInv
  BY InitIsInv, InitHasChain
<1>2. TreeInv /\ ChainInv /\ [Next]_vars => TreeInv' /\ ChainInv'
  BY StepKeepsInv, StepKeepsChain
<1>3. TreeInv /\ ChainInv => ForwardScan
  BY ChainMakesScans
<1> QED  BY <1>1, <1>2, <1>3, PTL DEF Spec

(* The same for a scan backward from lastLeaf.                             *)
THEOREM TreeScansBackward == Spec => []BackwardScan
<1>1. Init => TreeInv /\ ChainInv
  BY InitIsInv, InitHasChain
<1>2. TreeInv /\ ChainInv /\ [Next]_vars => TreeInv' /\ ChainInv'
  BY StepKeepsInv, StepKeepsChain
<1>3. TreeInv /\ ChainInv => BackwardScan
  BY ChainMakesScans
<1> QED  BY <1>1, <1>2, <1>3, PTL DEF Spec
=============================================================================
