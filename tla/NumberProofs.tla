---------------------------- MODULE NumberProofs ----------------------------
(***************************************************************************)
(* Induction over the numbers with sets instead of predicates, and what it *)
(* gives: functions defined by recursion exist, and sets of numbers have   *)
(* least and greatest elements.  Then how often an element occurs in a     *)
(* sequence.  The proofs about the models rest on these.                   *)
(*                                                                         *)
(* Behind them, least squares over sorted keys: the line that              *)
(* LRModel::Train fits never falls, whatever the keys, so that Predict     *)
(* keeps their order; it names a child for every key, and parts the least  *)
(* from the greatest key if they are not the same.  The other models of    *)
(* inner nodes, trained with any keys: each names a child for every key,   *)
(* and sends no greater key to a lower one.                                *)
(***************************************************************************)
EXTENDS InnerModels, FiniteSetTheorems, SequenceTheorems, WellFoundedInduction, TLAPS

(* A set of numbers has a least one.                                       *)
LEMMA LeastNumber ==
  ASSUME NEW T, T \subseteq Nat, T # {}
  PROVE  \E x \in T : \A y \in T : x <= y
<1> DEFINE R == {p \in Nat \X Nat : p[1] < p[2]}
<1>1. IsWellFoundedOn(R, Nat)
  BY NatLessThanWellFounded DEF OpToRel
<1> HIDE DEF R
<1>2. PICK x \in T : \A y \in T : ~ (<<y, x>> \in R)
  BY <1>1, WFMin
<1>3. ASSUME NEW y \in T
      PROVE  x <= y
  <2>1. x \in Nat /\ y \in Nat /\ (y < x => <<y, x>> \in R)
    BY DEF R
  <2> QED  BY <1>2, <2>1
<1> QED  BY <1>3

(* A set that has 0, and with each number the next, has all of them.       *)
LEMMA Induction ==
  ASSUME NEW S, 0 \in S, \A n \in Nat : n \in S => n + 1 \in S
  PROVE  Nat \subseteq S
<1> SUFFICES ASSUME Nat \ S # {} PROVE FALSE
  OBVIOUS
<1>1. PICK x \in Nat \ S : \A y \in Nat \ S : x <= y
  BY LeastNumber
<1>2. x - 1 \in Nat /\ x - 1 \notin Nat \ S /\ (x - 1) + 1 = x
  BY <1>1
<1> QED  BY <1>2

(* A set that has each number of a range if it has those before has all.   *)
LEMMA StrongInduction ==
  ASSUME NEW S, NEW N \in Nat,
         \A n \in 0..N : (\A m \in 0..n - 1 : m \in S) => n \in S
  PROVE  0..N \subseteq S
<1> SUFFICES ASSUME (0..N) \ S # {} PROVE FALSE
  OBVIOUS
<1> DEFINE T == (0..N) \ S
<1>0. T \subseteq Nat /\ T # {}
  OBVIOUS
<1> HIDE DEF T
<1>1. PICK x \in T : \A y \in T : x <= y
  BY <1>0, LeastNumber
<1> USE DEF T
<1>2. \A m \in 0..x - 1 : m \in S
  BY <1>1
<1> QED  BY <1>1, <1>2

(* The values of a recursion with the start a and the step g, up to n.     *)
Chain(h, n, V, a, g) ==
  /\ h \in [0..n -> V]
  /\ h[0] = a
  /\ \A k \in 0..n - 1 : h[k + 1] = g[<<k + 1, h[k]>>]

LEMMA ChainsExist ==
  ASSUME NEW V, NEW a \in V, NEW g \in [Nat \X V -> V], NEW n \in Nat
  PROVE  \E h : Chain(h, n, V, a, g)
<1> DEFINE S == {m \in Nat : \E h : Chain(h, m, V, a, g)}
<1>1. 0 \in S
  <2>1. Chain([k \in 0..0 |-> a], 0, V, a, g)
    BY DEF Chain
  <2> QED  BY <2>1
<1>2. ASSUME NEW m \in Nat, m \in S
      PROVE  m + 1 \in S
  <2>1. PICK h : Chain(h, m, V, a, g)
    BY <1>2
  <2> DEFINE i == [k \in 0..m + 1 |-> IF k <= m THEN h[k] ELSE g[<<m + 1, h[m]>>]]
  <2>2. h \in [0..m -> V] /\ h[0] = a /\ h[m] \in V
    BY <2>1 DEF Chain
  <2>3. g[<<m + 1, h[m]>>] \in V
    BY <2>2
  <2>4. i \in [0..m + 1 -> V]
    BY <2>2, <2>3
  <2>5. ASSUME NEW k \in 0..(m + 1) - 1
        PROVE  i[k + 1] = g[<<k + 1, i[k]>>]
    <3>1. CASE k < m
      <4>1. k \in 0..m - 1 /\ k + 1 <= m
        BY <3>1
      <4> QED  BY <2>1, <4>1 DEF Chain
    <3>2. CASE k = m
      BY <3>2
    <3> QED  BY <3>1, <3>2
  <2>6. i[0] = a
    BY <2>2
  <2> HIDE DEF i
  <2>7. Chain(i, m + 1, V, a, g)
    BY <2>4, <2>5, <2>6 DEF Chain
  <2> QED  BY <2>7
<1> HIDE DEF S
<1>3. Nat \subseteq S
  BY <1>1, <1>2, Induction
<1> QED  BY <1>3 DEF S

LEMMA ChainsAgree ==
  ASSUME NEW V, NEW a \in V, NEW g \in [Nat \X V -> V], NEW n \in Nat,
         NEW h, NEW i, Chain(h, n + 1, V, a, g), Chain(i, n, V, a, g)
  PROVE  h[n] = i[n]
<1> DEFINE S == {k \in Nat : k <= n => h[k] = i[k]}
<1>1. 0 \in S
  BY DEF Chain
<1>2. ASSUME NEW k \in Nat, k \in S
      PROVE  k + 1 \in S
  <2> SUFFICES ASSUME k + 1 <= n
               PROVE  h[k + 1] = i[k + 1]
    OBVIOUS
  <2>1. h[k] = i[k] /\ k \in 0..(n + 1) - 1 /\ k \in 0..n - 1
    BY <1>2
  <2> QED  BY <2>1 DEF Chain
<1> HIDE DEF S
<1>3. Nat \subseteq S
  BY <1>1, <1>2, Induction
<1> QED  BY <1>3 DEF S

(* Recursion over the numbers defines a function.                          *)
Recurs(f, V, a, g) ==
  /\ f \in [Nat -> V]
  /\ f[0] = a
  /\ \A n \in Nat : f[n + 1] = g[<<n + 1, f[n]>>]

LEMMA Recursion ==
  ASSUME NEW V, NEW a \in V, NEW g \in [Nat \X V -> V]
  PROVE  \E f : Recurs(f, V, a, g)
<1> DEFINE chain(n) == CHOOSE h : Chain(h, n, V, a, g)
           f == [n \in Nat |-> chain(n)[n]]
<1>1. \A n \in Nat : Chain(chain(n), n, V, a, g)
  BY ChainsExist
<1> HIDE DEF chain
<1>2. f \in [Nat -> V]
  BY <1>1 DEF Chain
<1>3. f[0] = a
  BY <1>1 DEF Chain
<1>4. ASSUME NEW n \in Nat
      PROVE  f[n + 1] = g[<<n + 1, f[n]>>]
  <2>1. chain(n + 1)[n] = chain(n)[n]
    <3>1. Chain(chain(n + 1), n + 1, V, a, g)
      BY <1>1
    <3>2. Chain(chain(n), n, V, a, g)
      BY <1>1
    <3> QED  BY <3>1, <3>2, ChainsAgree, SMTT(30)
  <2>2. chain(n + 1)[n + 1] = g[<<n + 1, chain(n + 1)[n]>>]
    BY <1>1 DEF Chain
  <2> QED  BY <2>1, <2>2
<1> HIDE DEF f
<1>5. Recurs(f, V, a, g)
  BY <1>2, <1>3, <1>4 DEF Recurs
<1> QED  BY <1>5

(* The sums of the first n values of w.                                    *)
LEMMA Sums ==
  ASSUME NEW w \in [Nat -> Nat]
  PROVE  \E f \in [Nat -> Nat] :
           f[0] = 0 /\ \A n \in Nat : f[n + 1] = f[n] + w[n + 1]
<1> DEFINE g == [p \in Nat \X Nat |-> p[2] + w[p[1]]]
<1>1. g \in [Nat \X Nat -> Nat]
  OBVIOUS
<1>2. ASSUME NEW a \in Nat, NEW b \in Nat
      PROVE  g[<<a, b>>] = b + w[a]
  OBVIOUS
<1> HIDE DEF g
<1>3. \E f : Recurs(f, Nat, 0, g)
  BY <1>1, Recursion
<1>4. PICK f : /\ f \in [Nat -> Nat] /\ f[0] = 0
               /\ \A n \in Nat : f[n + 1] = g[<<n + 1, f[n]>>]
  BY <1>3 DEF Recurs
<1>5. ASSUME NEW n \in Nat
      PROVE  f[n + 1] = f[n] + w[n + 1]
  <2>1. n + 1 \in Nat /\ f[n] \in Nat
    BY <1>4
  <2> QED  BY <1>2, <1>4, <2>1
<1> QED  BY <1>4, <1>5

----------------------------------------------------------------------------
(* Least and greatest numbers.                                             *)
LEMMA MaxOfTwo ==
  ASSUME NEW a \in Int, NEW b \in Int
  PROVE  Max({a, b}) = IF a >= b THEN a ELSE b
BY DEF Max

LEMMA MinOfTwo ==
  ASSUME NEW a \in Int, NEW b \in Int
  PROVE  Min({a, b}) = IF a <= b THEN a ELSE b
BY DEF Min

LEMMA MaxOfNumbers ==
  ASSUME NEW n \in Nat, NEW T, T \subseteq 0..n, T # {}
  PROVE  Max(T) \in T /\ \A x \in T : x <= Max(T)
<1> DEFINE U == {u \in 0..n : n - u \in T}
<1>1. U \subseteq Nat /\ U # {}
  <2>1. PICK x \in T : TRUE
    OBVIOUS
  <2>2. x \in 0..n /\ n - x \in 0..n /\ n - (n - x) = x
    BY <2>1
  <2>3. n - x \in U
    BY <2>1, <2>2
  <2>4. U \subseteq Nat
    OBVIOUS
  <2> HIDE DEF U
  <2> QED  BY <2>3, <2>4
<1> HIDE DEF U
<1>2. PICK u \in U : \A v \in U : u <= v
  BY <1>1, LeastNumber
<1>3. u \in 0..n /\ n - u \in T
  BY <1>2 DEF U
<1>4. ASSUME NEW x \in T
      PROVE  x <= n - u
  <2>1. x \in 0..n /\ n - x \in 0..n /\ n - (n - x) = x
    BY <1>4
  <2>2. n - x \in U
    BY <2>1 DEF U
  <2> QED  BY <1>2, <1>3, <2>1, <2>2
<1>5. \E x \in T : \A y \in T : x >= y
  BY <1>3, <1>4
<1> QED  BY <1>5 DEF Max

----------------------------------------------------------------------------
(* How often x is among the first n elements of s.                         *)
PlacesOf(s, n, x) == {i \in 1..n : s[i] = x}

Occurs(s, n, x) == Cardinality(PlacesOf(s, n, x))

OneIf(s, i, x) == IF s[i] = x THEN 1 ELSE 0

LEMMA OccursIsNumber ==
  ASSUME NEW s, NEW n \in Nat, NEW x
  PROVE  Occurs(s, n, x) \in Nat /\ IsFiniteSet(PlacesOf(s, n, x))
<1> DEFINE S == {i \in 1..n : s[i] = x}
<1>1. IsFiniteSet(1..n)
  <2>1. 1 \in Int /\ n \in Int
    OBVIOUS
  <2> QED  BY <2>1, FS_Interval
<1>2. S \in SUBSET (1..n)
  OBVIOUS
<1> HIDE DEF S
<1>3. IsFiniteSet(S)
  BY <1>1, <1>2, FS_Subset
<1>4. Cardinality(S) \in Nat
  BY <1>3, FS_CardinalityType
<1> QED  BY <1>3, <1>4 DEF S, PlacesOf, Occurs

LEMMA OccursInNone ==
  ASSUME NEW s, NEW x PROVE Occurs(s, 0, x) = 0
<1>1. {i \in 1..0 : s[i] = x} = {}
  OBVIOUS
<1> QED  BY <1>1, FS_EmptySet DEF PlacesOf, Occurs

LEMMA OccursNext ==
  ASSUME NEW s, NEW n \in Nat, NEW x
  PROVE  Occurs(s, n + 1, x) = Occurs(s, n, x) + OneIf(s, n + 1, x)
<1> DEFINE S == {i \in 1..n : s[i] = x}
           T == {i \in 1..n + 1 : s[i] = x}
<1>1. IsFiniteSet(S) /\ Cardinality(S) \in Nat
  BY OccursIsNumber DEF PlacesOf, Occurs
<1>2. n + 1 \notin S /\ n + 1 \in 1..n + 1
  OBVIOUS
<1>3. CASE s[n + 1] = x
  <2>1. T = S \cup {n + 1}
    BY <1>3
  <2> HIDE DEF S, T
  <2>2. Cardinality(T) = Cardinality(S) + 1
    BY <1>1, <1>2, <2>1, FS_AddElement
  <2> QED  BY <1>3, <2>2 DEF S, T, PlacesOf, Occurs, OneIf
<1>4. CASE s[n + 1] # x
  <2>1. T = S
    BY <1>4
  <2> HIDE DEF S, T
  <2> QED  BY <1>1, <1>4, <2>1 DEF S, T, PlacesOf, Occurs, OneIf
<1> QED  BY <1>3, <1>4

LEMMA OccursAlike ==
  ASSUME NEW s, NEW t, NEW n \in Nat, NEW x, \A i \in 1..n : s[i] = t[i]
  PROVE  Occurs(s, n, x) = Occurs(t, n, x)
<1>1. {i \in 1..n : s[i] = x} = {i \in 1..n : t[i] = x}
  OBVIOUS
<1> QED  BY <1>1 DEF PlacesOf, Occurs

(* One element put in between.                                             *)
PutIn(s, t, n, at) ==
  /\ \A i \in 1..n : i < at => t[i] = s[i]
  /\ \A i \in 1..n : at <= i => t[i + 1] = s[i]

LEMMA OccursPutIn ==
  ASSUME NEW s, NEW t, NEW n \in Nat, NEW at \in 1..n + 1, NEW x,
         PutIn(s, t, n, at)
  PROVE  Occurs(t, n + 1, x) = Occurs(s, n, x) + OneIf(t, at, x)
<1> DEFINE S == {d \in Nat : (at - 1) + d <= n =>
                   Occurs(t, ((at - 1) + d) + 1, x)
                     = Occurs(s, (at - 1) + d, x) + OneIf(t, at, x)}
<1>0. at \in Nat /\ at - 1 \in Nat /\ (at - 1) + 1 = at /\ OneIf(t, at, x) \in Nat
  BY DEF OneIf
<1>1. 0 \in S
  <2>1. (at - 1) + 0 = at - 1
    BY <1>0
  <2>2. \A i \in 1..at - 1 : t[i] = s[i]
    BY <1>0 DEF PutIn
  <2>3. Occurs(t, at - 1, x) = Occurs(s, at - 1, x)
    BY <1>0, <2>2, OccursAlike
  <2>4. Occurs(t, (at - 1) + 1, x) = Occurs(t, at - 1, x) + OneIf(t, (at - 1) + 1, x)
    BY <1>0, OccursNext
  <2> QED  BY <1>0, <2>1, <2>3, <2>4
<1>2. ASSUME NEW d \in Nat, d \in S
      PROVE  d + 1 \in S
  <2> DEFINE m == (at - 1) + d
  <2>1. m \in Nat /\ m + 1 \in Nat /\ (at - 1) + (d + 1) = m + 1
    BY <1>0
  <2> SUFFICES ASSUME m + 1 <= n
               PROVE  Occurs(t, (m + 1) + 1, x) = Occurs(s, m + 1, x) + OneIf(t, at, x)
    BY <2>1
  <2>2. m <= n /\ m + 1 \in 1..n /\ at <= m + 1
    BY <1>0, <2>1
  <2>3. Occurs(t, m + 1, x) = Occurs(s, m, x) + OneIf(t, at, x)
    BY <1>2, <2>2
  <2> HIDE DEF m, S
  <2>4. Occurs(t, (m + 1) + 1, x) = Occurs(t, m + 1, x) + OneIf(t, (m + 1) + 1, x)
    BY <2>1, OccursNext
  <2>5. Occurs(s, m + 1, x) = Occurs(s, m, x) + OneIf(s, m + 1, x)
    BY <2>1, OccursNext
  <2>6. OneIf(t, (m + 1) + 1, x) = OneIf(s, m + 1, x) /\ OneIf(s, m + 1, x) \in Nat
    BY <2>2 DEF OneIf, PutIn
  <2>7. Occurs(s, m, x) \in Nat
    BY <2>1, OccursIsNumber
  <2> QED  BY <1>0, <2>3, <2>4, <2>5, <2>6, <2>7
<1> HIDE DEF S
<1>3. Nat \subseteq S
  BY <1>1, <1>2, Induction
<1>4. n - (at - 1) \in Nat /\ (at - 1) + (n - (at - 1)) = n
  BY <1>0
<1>5. n - (at - 1) \in S
  BY <1>3, <1>4
<1> QED  BY <1>4, <1>5 DEF S

(* One sequence behind another.                                            *)
Together(s, m, t, n, u) ==
  /\ \A i \in 1..m : u[i] = s[i]
  /\ \A i \in 1..n : u[m + i] = t[i]

LEMMA OccursAppended ==
  ASSUME NEW s, NEW t, NEW u, NEW m \in Nat, NEW n \in Nat, NEW x,
         Together(s, m, t, n, u)
  PROVE  Occurs(u, m + n, x) = Occurs(s, m, x) + Occurs(t, n, x)
<1> DEFINE S == {d \in Nat : d <= n =>
                   Occurs(u, m + d, x) = Occurs(s, m, x) + Occurs(t, d, x)}
<1>0. Occurs(s, m, x) \in Nat
  BY OccursIsNumber
<1>1. 0 \in S
  <2>1. Occurs(u, m, x) = Occurs(s, m, x) /\ m + 0 = m
    BY OccursAlike DEF Together
  <2>2. Occurs(t, 0, x) = 0
    BY OccursInNone
  <2> QED  BY <1>0, <2>1, <2>2
<1>2. ASSUME NEW d \in Nat, d \in S
      PROVE  d + 1 \in S
  <2> SUFFICES ASSUME d + 1 <= n
               PROVE  Occurs(u, m + (d + 1), x) = Occurs(s, m, x) + Occurs(t, d + 1, x)
    OBVIOUS
  <2>1. d <= n /\ d + 1 \in 1..n /\ m + (d + 1) = (m + d) + 1 /\ m + d \in Nat
    OBVIOUS
  <2>2. Occurs(u, m + d, x) = Occurs(s, m, x) + Occurs(t, d, x)
    BY <1>2, <2>1
  <2> HIDE DEF S
  <2>3. Occurs(u, (m + d) + 1, x) = Occurs(u, m + d, x) + OneIf(u, (m + d) + 1, x)
    BY <2>1, OccursNext
  <2>4. Occurs(t, d + 1, x) = Occurs(t, d, x) + OneIf(t, d + 1, x)
    BY OccursNext
  <2>5. u[m + (d + 1)] = t[d + 1]
    BY <2>1 DEF Together
  <2>6. OneIf(u, (m + d) + 1, x) = OneIf(t, d + 1, x) /\ OneIf(t, d + 1, x) \in Nat
    BY <2>1, <2>5 DEF OneIf
  <2>7. Occurs(t, d, x) \in Nat
    BY OccursIsNumber
  <2> QED  BY <1>0, <2>1, <2>2, <2>3, <2>4, <2>6, <2>7
<1> HIDE DEF S
<1>3. n \in S
  <2>1. Nat \subseteq S
    BY <1>1, <1>2, Induction
  <2> QED  BY <2>1
<1> QED  BY <1>3 DEF S

----------------------------------------------------------------------------
(* Sets of numbers, and sequences.                                         *)
LEMMA MinOfNumbers ==
  ASSUME NEW T, T \subseteq Nat, T # {}
  PROVE  Min(T) \in T /\ \A x \in T : Min(T) <= x
BY LeastNumber DEF Min

(* A set of positions that has all those before its last.                  *)
LEMMA FirstOnes ==
  ASSUME NEW n \in Nat, NEW T, T \subseteq 1..n,
         \A i \in T : \A j \in 1..n : j < i => j \in T
  PROVE  Cardinality(T) \in 0..n /\ \A i \in 1..n : i \in T <=> i <= Cardinality(T)
<1>1. CASE T = {}
  <2>1. Cardinality(T) = 0
    BY <1>1, FS_EmptySet
  <2> QED  BY <1>1, <2>1
<1>2. CASE T # {}
  <2>1. Max(T) \in T /\ \A x \in T : x <= Max(T)
    <3>1. T \subseteq 0..n
      OBVIOUS
    <3> QED  BY <1>2, <3>1, MaxOfNumbers
  <2> DEFINE b == Max(T)
  <2>2. b \in T /\ \A x \in T : x <= b
    BY <2>1
  <2> HIDE DEF b
  <2>3. b \in 1..n /\ T = 1..b
    <3>1. b \in 1..n /\ T \subseteq 1..b
      BY <2>2
    <3>2. ASSUME NEW j \in 1..b
          PROVE  j \in T
      <4>1. j \in 1..n /\ (j = b \/ j < b)
        BY <3>1
      <4> QED  BY <2>2, <4>1
    <3> QED  BY <3>1, <3>2
  <2>4. Cardinality(1..b) = b
    BY <2>3, FS_Interval
  <2> QED  BY <2>3, <2>4
<1> QED  BY <1>1, <1>2

(* In a function that does not fall, the values less than k come first,    *)
(* those that are k next.                                                  *)
HowMany(f, n, k) == Cardinality({i \in 1..n : f[i] = k})
HowManyLess(f, n, k) == Cardinality({i \in 1..n : f[i] < k})

LEMMA LessThenEqual ==
  ASSUME NEW n \in Nat, NEW f, \A i \in 1..n : f[i] \in Int,
         \A i, j \in 1..n : i <= j => f[i] <= f[j], NEW k \in Int
  PROVE  /\ HowManyLess(f, n, k) \in Nat /\ HowMany(f, n, k) \in Nat
         /\ HowManyLess(f, n, k) + HowMany(f, n, k) <= n
         /\ \A i \in 1..n :
              /\ f[i] < k <=> i <= HowManyLess(f, n, k)
              /\ f[i] = k <=> /\ HowManyLess(f, n, k) < i
                              /\ i <= HowManyLess(f, n, k) + HowMany(f, n, k)
<1> DEFINE L == {i \in 1..n : f[i] < k}
           E == {i \in 1..n : f[i] = k}
           U == {i \in 1..n : f[i] <= k}
<1>1. /\ n \in Nat /\ \A i \in 1..n : f[i] \in Int
      /\ \A i, j \in 1..n : i <= j => f[i] <= f[j]
  OBVIOUS
<1>2. HowManyLess(f, n, k) = Cardinality(L) /\ HowMany(f, n, k) = Cardinality(E)
  BY DEF HowMany, HowManyLess
<1>3. /\ \A i \in 1..n : (f[i] < k \/ f[i] = k) <=> f[i] <= k
      /\ \A i \in 1..n : f[i] < k => f[i] # k
      /\ \A i, j \in 1..n : j < i /\ f[i] < k => f[j] < k
      /\ \A i, j \in 1..n : j < i /\ f[i] <= k => f[j] <= k
  BY <1>1
<1>4. Cardinality(L) \in 0..n /\ \A i \in 1..n : i \in L <=> i <= Cardinality(L)
  <2>1. L \subseteq 1..n /\ \A i \in L : \A j \in 1..n : j < i => j \in L
    BY <1>3
  <2> HIDE DEF L
  <2> QED  BY <1>1, <2>1, FirstOnes
<1>5. Cardinality(U) \in 0..n /\ \A i \in 1..n : i \in U <=> i <= Cardinality(U)
  <2>1. U \subseteq 1..n /\ \A i \in U : \A j \in 1..n : j < i => j \in U
    BY <1>3
  <2> HIDE DEF U
  <2> QED  BY <1>1, <2>1, FirstOnes
<1>6. Cardinality(U) = Cardinality(L) + Cardinality(E) /\ Cardinality(E) \in Nat
  <2>1. L \cup E = U /\ L \cap E = {} /\ L \subseteq 1..n /\ E \subseteq 1..n
    BY <1>3
  <2> HIDE DEF L, E, U
  <2>2. IsFiniteSet(L) /\ IsFiniteSet(E)
    <3>1. IsFiniteSet(1..n)
      BY <1>1, FS_Interval
    <3> QED  BY <2>1, <3>1, FS_Subset
  <2>3. Cardinality(L \cap E) = 0
    BY <2>1, FS_EmptySet
  <2>4. Cardinality(L) \in Nat /\ Cardinality(E) \in Nat
    BY <2>2, FS_CardinalityType
  <2>5. Cardinality(L \cup E) = Cardinality(L) + Cardinality(E) - Cardinality(L \cap E)
    BY <2>2, FS_Union
  <2>6. Cardinality(U) = Cardinality(L) + Cardinality(E) - 0
    BY <2>1, <2>3, <2>5
  <2> QED  BY <2>4, <2>6
<1> DEFINE u == Cardinality(U)
           l == Cardinality(L)
           e == Cardinality(E)
<1>7. ASSUME NEW i \in 1..n
      PROVE  (f[i] < k <=> i <= l) /\ (f[i] = k <=> l < i /\ i <= u)
  <2>1. (f[i] < k <=> i <= l) /\ (f[i] <= k <=> i <= u)
    BY <1>4, <1>5
  <2>2. f[i] = k <=> f[i] <= k /\ ~ (f[i] < k)
    BY <1>1
  <2>3. l \in 0..n
    BY <1>4
  <2> HIDE DEF l, u
  <2> QED  BY <2>1, <2>2, <2>3
<1>8. u = l + e /\ u \in 0..n /\ l \in 0..n /\ e \in Nat
  BY <1>4, <1>5, <1>6
<1>9. HowManyLess(f, n, k) = l /\ HowMany(f, n, k) = e
  BY <1>2
<1> HIDE DEF l, u, e
<1> QED  BY <1>7, <1>8, <1>9

LEMMA LengthIs ==
  ASSUME NEW n \in Nat, NEW f, f = [i \in 1..n |-> f[i]]
  PROVE  Len(f) = n /\ DOMAIN f = 1..n
<1> DEFINE S == {f[i] : i \in 1..n}
<1>1. f \in [1..n -> S]
  OBVIOUS
<1> HIDE DEF S
<1> QED  BY <1>1

LEMMA JoinedIs ==
  ASSUME NEW S, NEW s \in Seq(S), NEW t \in Seq(S)
  PROVE  s \o t = [i \in 1..Len(s) + Len(t) |-> IF i <= Len(s) THEN s[i] ELSE t[i - Len(s)]]
<1> DEFINE u == s \o t
           n == Len(s) + Len(t)
<1>1. /\ u \in Seq(S) /\ Len(u) = n
      /\ \A i \in 1..n : u[i] = IF i <= Len(s) THEN s[i] ELSE t[i - Len(s)]
  BY ConcatProperties
<1> HIDE DEF u
<1>2. u = [i \in 1..Len(u) |-> u[i]]
  BY <1>1
<1> HIDE DEF n
<1>3. u = [i \in 1..n |-> IF i <= Len(s) THEN s[i] ELSE t[i - Len(s)]]
  BY <1>1, <1>2
<1> QED  BY <1>3 DEF u, n

----------------------------------------------------------------------------
(* The way down.                                                           *)
(*                                                                         *)
(* Of nodes that lead on to a node behind them, or end the way: each way   *)
(* has an end.                                                             *)
LeadsOn(J, n) == \A i \in 1..n : J[i] = i \/ J[i] \in i + 1..n

Arrives(g, J, n) ==
  /\ g \in [1..n -> 1..n]
  /\ \A i \in 1..n : g[i] = IF J[i] = i THEN i ELSE g[J[i]]

LEMMA EndsExist ==
  ASSUME NEW n \in Nat, NEW J, LeadsOn(J, n)
  PROVE  \E g : Arrives(g, J, n)
<1> DEFINE Right(g, m) ==
             /\ g \in [1..n -> 1..n]
             /\ \A i \in 1..n : n - m < i => g[i] = IF J[i] = i THEN i ELSE g[J[i]]
           S == {m \in Nat : m <= n => \E g : Right(g, m)}
<1>1. 0 \in S
  <2>1. Right([i \in 1..n |-> i], 0)
    OBVIOUS
  <2> QED  BY <2>1
<1>2. ASSUME NEW m \in Nat, m \in S
      PROVE  m + 1 \in S
  <2> SUFFICES ASSUME m + 1 <= n
               PROVE  \E g : Right(g, m + 1)
    OBVIOUS
  <2>1. PICK g : Right(g, m)
    BY <1>2
  <2> DEFINE a == n - m
             h == [g EXCEPT ![a] = IF J[a] = a THEN a ELSE g[J[a]]]
  <2>2. a \in 1..n /\ (J[a] = a \/ J[a] \in a + 1..n)
    BY DEF LeadsOn
  <2>3. h \in [1..n -> 1..n]
    <3>1. (IF J[a] = a THEN a ELSE g[J[a]]) \in 1..n
      BY <2>1, <2>2
    <3> HIDE DEF a
    <3> QED  BY <2>1, <3>1
  <2>4. /\ \A i \in 1..n : i # a => h[i] = g[i]
        /\ h[a] = IF J[a] = a THEN a ELSE g[J[a]]
    BY <2>1, <2>2
  <2> HIDE DEF h
  <2>5. ASSUME NEW i \in 1..n, n - (m + 1) < i
        PROVE  h[i] = IF J[i] = i THEN i ELSE h[J[i]]
    <3>1. J[i] = i \/ J[i] \in i + 1..n
      BY DEF LeadsOn
    <3>2. CASE i = a
      BY <2>2, <2>4, <3>2
    <3>3. CASE i # a
      <4>1. n - m < i
        BY <2>5, <3>3
      <4>2. h[i] = g[i] /\ g[i] = IF J[i] = i THEN i ELSE g[J[i]]
        BY <2>1, <2>4, <3>3, <4>1
      <4>3. J[i] # i => J[i] \in 1..n /\ J[i] # a
        BY <3>1, <4>1
      <4> QED  BY <2>4, <4>2, <4>3
    <3> QED  BY <3>2, <3>3
  <2>6. Right(h, m + 1)
    BY <2>3, <2>5
  <2> QED  BY <2>6
<1> HIDE DEF S
<1>3. Nat \subseteq S
  BY <1>1, <1>2, Induction
<1>4. n \in S
  BY <1>3
<1>5. PICK g : Right(g, n)
  BY <1>4 DEF S
<1>6. \A i \in 1..n : n - n < i
  OBVIOUS
<1> QED  BY <1>5, <1>6 DEF Arrives

(* There is no other function with these ends.                             *)
LEMMA ArrivesAlike ==
  ASSUME NEW n \in Nat, NEW J, NEW g, NEW w, LeadsOn(J, n), Arrives(g, J, n),
         w = [i \in 1..n |-> w[i]],
         \A i \in 1..n : w[i] = IF J[i] = i THEN i ELSE w[J[i]]
  PROVE  w = g
<1> DEFINE S == {d \in Nat : \A i \in 1..n : n - d < i => w[i] = g[i]}
<1>1. 0 \in S
  OBVIOUS
<1>2. ASSUME NEW d \in Nat, d \in S
      PROVE  d + 1 \in S
  <2> SUFFICES ASSUME NEW i \in 1..n, n - (d + 1) < i
               PROVE  w[i] = g[i]
    OBVIOUS
  <2>1. /\ w[i] = IF J[i] = i THEN i ELSE w[J[i]]
        /\ g[i] = IF J[i] = i THEN i ELSE g[J[i]]
    BY DEF Arrives
  <2>2. CASE J[i] = i
    BY <2>1, <2>2
  <2>3. CASE J[i] # i
    <3>1. J[i] \in i + 1..n
      BY <2>3 DEF LeadsOn
    <3>2. J[i] \in 1..n /\ n - d < J[i]
      BY <3>1
    <3>3. w[J[i]] = g[J[i]]
      BY <1>2, <3>2
    <3> QED  BY <2>1, <2>3, <3>3
  <2> QED  BY <2>2, <2>3
<1> HIDE DEF S
<1>3. Nat \subseteq S
  BY <1>1, <1>2, Induction
<1>4. n \in S /\ \A i \in 1..n : n - n < i
  BY <1>3
<1>5. \A i \in 1..n : w[i] = g[i]
  BY <1>4 DEF S
<1>6. g \in [1..n -> 1..n]
  BY DEF Arrives
<1> QED  BY <1>5, <1>6

(* The ways of K follow those of J, but may go on from a, an end of J.     *)
GoesOn(J, n, K, m, a) ==
  /\ n <= m
  /\ \A i \in 1..n : i # a => K[i] = J[i]
  /\ a \in 1..n => J[a] = a

EndsBehind(g, h, J, n, a) ==
  \A i \in 1..n : /\ h[i] = IF g[i] = a THEN h[a] ELSE g[i]
                  /\ J[g[i]] = g[i]

LEMMA EndsGoOn ==
  ASSUME NEW n \in Nat, NEW m \in Nat, NEW J, NEW K, NEW a, NEW g, NEW h,
         LeadsOn(J, n), Arrives(g, J, n), Arrives(h, K, m), GoesOn(J, n, K, m, a)
  PROVE  EndsBehind(g, h, J, n, a)
<1> DEFINE S == {d \in Nat : \A i \in 1..n : n - d < i =>
                               /\ h[i] = IF g[i] = a THEN h[a] ELSE g[i]
                               /\ J[g[i]] = g[i]}
<1>1. 0 \in S
  OBVIOUS
<1>2. ASSUME NEW d \in Nat, d \in S
      PROVE  d + 1 \in S
  <2> SUFFICES ASSUME NEW i \in 1..n, n - (d + 1) < i
               PROVE  /\ h[i] = IF g[i] = a THEN h[a] ELSE g[i]
                      /\ J[g[i]] = g[i]
    OBVIOUS
  <2>1. J[i] = i \/ J[i] \in i + 1..n
    BY DEF LeadsOn
  <2>2. i \in 1..m /\ (i # a => K[i] = J[i])
    BY DEF GoesOn
  <2>3. g[i] = (IF J[i] = i THEN i ELSE g[J[i]]) /\ h[i] = IF K[i] = i THEN i ELSE h[K[i]]
    BY <2>2 DEF Arrives
  <2>4. CASE J[i] = i
    BY <2>2, <2>3, <2>4
  <2>5. CASE J[i] # i
    <3>1. i # a
      BY <2>5 DEF GoesOn
    <3>2. J[i] \in 1..n /\ n - d < J[i]
      BY <2>1, <2>5
    <3> QED  BY <1>2, <2>2, <2>3, <2>5, <3>1, <3>2
  <2> QED  BY <2>4, <2>5
<1> HIDE DEF S
<1>3. Nat \subseteq S
  BY <1>1, <1>2, Induction
<1>4. n \in S
  BY <1>3
<1>5. \A i \in 1..n : n - n < i
  OBVIOUS
<1> QED  BY <1>4, <1>5 DEF S, EndsBehind

----------------------------------------------------------------------------
(* Sums.                                                                   *)
LEMMA SumOfIs ==
  ASSUME NEW n \in Nat, NEW f, NEW S \in [0..n -> Int], S[0] = 0,
         \A i \in 1..n : S[i] = S[i - 1] + f[i]
  PROVE  SumOf(f, n) = S[n]
<1> DEFINE Is(g) == g = [i \in 0..n |-> IF i = 0 THEN 0 ELSE g[i - 1] + f[i]]
<1>1. Is(S)
  <2>1. S = [i \in 0..n |-> S[i]]
    OBVIOUS
  <2>2. \A i \in 0..n : S[i] = IF i = 0 THEN 0 ELSE S[i - 1] + f[i]
    OBVIOUS
  <2> QED  BY <2>1, <2>2
<1>2. ASSUME NEW g, Is(g)
      PROVE  g[n] = S[n]
  <2> DEFINE T == {i \in Nat : i <= n => g[i] = S[i]}
  <2>0. \A i \in 0..n : g[i] = IF i = 0 THEN 0 ELSE g[i - 1] + f[i]
    BY <1>2
  <2>1. 0 \in T
    BY <2>0
  <2>2. ASSUME NEW i \in Nat, i \in T
        PROVE  i + 1 \in T
    <3> SUFFICES ASSUME i + 1 <= n
                 PROVE  g[i + 1] = S[i + 1]
      OBVIOUS
    <3>1. g[i] = S[i] /\ i + 1 \in 1..n /\ i + 1 \in 0..n /\ (i + 1) - 1 = i
      BY <2>2
    <3>2. g[i + 1] = g[i] + f[i + 1]
      BY <2>0, <3>1
    <3> QED  BY <3>1, <3>2
  <2> HIDE DEF T
  <2>3. Nat \subseteq T
    BY <2>1, <2>2, Induction
  <2> QED  BY <2>3 DEF T
<1>3. SumOf(f, n) = (CHOOSE g : Is(g))[n]
  BY DEF SumOf
<1>4. Is(CHOOSE g : Is(g))
  <2> HIDE DEF Is
  <2> QED  BY <1>1
<1> HIDE DEF Is
<1> QED  BY <1>2, <1>3, <1>4

(* The sums of the values of f, as far as it goes.                         *)
LEMMA SumsExist ==
  ASSUME NEW n \in Nat, NEW f \in [1..n -> Int]
  PROVE  \E S \in [0..n -> Int] : S[0] = 0 /\ \A i \in 1..n : S[i] = S[i - 1] + f[i]
<1> DEFINE w == [i \in Nat |-> IF i \in 1..n THEN f[i] ELSE 0]
           g == [p \in Nat \X Int |-> p[2] + w[p[1]]]
<1>1. w \in [Nat -> Int] /\ \A i \in 1..n : w[i] = f[i]
  OBVIOUS
<1> HIDE DEF w
<1>2. g \in [Nat \X Int -> Int]
  BY <1>1
<1>3. ASSUME NEW a \in Nat, NEW b \in Int
      PROVE  g[<<a, b>>] = b + w[a]
  OBVIOUS
<1> HIDE DEF g
<1>4. \E h : Recurs(h, Int, 0, g)
  <2>1. 0 \in Int
    OBVIOUS
  <2> QED  BY <1>2, <2>1, Recursion
<1>5. PICK h : /\ h \in [Nat -> Int] /\ h[0] = 0
               /\ \A i \in Nat : h[i + 1] = g[<<i + 1, h[i]>>]
  BY <1>4 DEF Recurs
<1> DEFINE S == [i \in 0..n |-> h[i]]
<1>6. S \in [0..n -> Int] /\ S[0] = 0
  BY <1>5
<1>7. ASSUME NEW i \in 1..n
      PROVE  S[i] = S[i - 1] + f[i]
  <2>1. i - 1 \in Nat /\ (i - 1) + 1 = i /\ i - 1 \in 0..n /\ i \in 0..n /\ i \in Nat
    OBVIOUS
  <2>2. h[i] = g[<<i, h[i - 1]>>] /\ h[i - 1] \in Int
    BY <1>5, <2>1
  <2>3. g[<<i, h[i - 1]>>] = h[i - 1] + w[i]
    BY <1>3, <2>1, <2>2
  <2> QED  BY <1>1, <2>1, <2>2, <2>3
<1> HIDE DEF S
<1> QED  BY <1>6, <1>7

(* The sum grows by one value after the other.                             *)
LEMMA SumOfNext ==
  ASSUME NEW n \in Nat, NEW f \in [1..n -> Int]
  PROVE  /\ SumOf(f, 0) = 0
         /\ \A m \in 0..n : SumOf(f, m) \in Int
         /\ \A m \in 1..n : SumOf(f, m) = SumOf(f, m - 1) + f[m]
<1>1. PICK S \in [0..n -> Int] : S[0] = 0 /\ \A i \in 1..n : S[i] = S[i - 1] + f[i]
  BY SumsExist
<1>2. ASSUME NEW m \in 0..n
      PROVE  SumOf(f, m) = S[m]
  <2> DEFINE R == [i \in 0..m |-> S[i]]
  <2>1. m \in Nat /\ R \in [0..m -> Int] /\ R[0] = 0 /\ R[m] = S[m]
    BY <1>1
  <2>2. \A i \in 1..m : R[i] = R[i - 1] + f[i]
    BY <1>1
  <2> HIDE DEF R
  <2>3. SumOf(f, m) = R[m]
    BY <2>1, <2>2, SumOfIs
  <2> QED  BY <2>1, <2>3
<1> QED  BY <1>1, <1>2

LEMMA SumIsNumber ==
  ASSUME NEW n \in Nat, NEW f \in [1..n -> Int]
  PROVE  SumOf(f, n) \in Int
<1>1. n \in 0..n
  OBVIOUS
<1> QED  BY <1>1, SumOfNext

----------------------------------------------------------------------------
(* The sums of least squares.                                              *)
Products(x, y, n) == [i \in 1..n |-> x[i] * y[i]]

(* Of sums A of products, B and D of m values: the sum of the products of  *)
(* the distances from a and b.                                             *)
Around(A, B, D, m, a, b) == A - b * B - a * D + m * (a * b)

AroundTo(x, y, n, a, b) ==
  [m \in 0..n |->
     Around(SumOf(Products(x, y, n), m), SumOf(x, m), SumOf(y, m), m, a, b)]

Distances(x, y, n, a, b) == [m \in 1..n |-> (x[m] - a) * (y[m] - b)]

Grows(R, d, n) ==
  /\ R \in [0..n -> Int] /\ d \in [1..n -> Int]
  /\ R[0] = 0
  /\ \A m \in 1..n : R[m] = R[m - 1] + d[m]

LEMMA AroundGrows ==
  ASSUME NEW n \in Nat, NEW x \in [1..n -> Int], NEW y \in [1..n -> Int],
         NEW a \in Int, NEW b \in Int
  PROVE  Grows(AroundTo(x, y, n, a, b), Distances(x, y, n, a, b), n)
<1> DEFINE xy == Products(x, y, n)
           R == [m \in 0..n |-> Around(SumOf(xy, m), SumOf(x, m), SumOf(y, m), m, a, b)]
           d == [m \in 1..n |-> (x[m] - a) * (y[m] - b)]
<1>1. xy \in [1..n -> Int] /\ \A i \in 1..n : xy[i] = x[i] * y[i]
  BY DEF Products
<1> HIDE DEF xy
<1>2. a \in Int /\ b \in Int
  OBVIOUS
<1>3. ASSUME NEW m \in 0..n
      PROVE  R[m] \in Int
  <2> DEFINE A == SumOf(xy, m)
             B == SumOf(x, m)
             E == SumOf(y, m)
  <2>3. \A j \in 0..n : SumOf(xy, j) \in Int /\ SumOf(x, j) \in Int /\ SumOf(y, j) \in Int
    BY <1>1, SumOfNext
  <2>1. A \in Int /\ B \in Int /\ E \in Int /\ m \in Int
    BY <2>3
  <2>2. R[m] = Around(A, B, E, m, a, b)
    OBVIOUS
  <2> HIDE DEF A, B, E, R
  <2> QED  BY <1>2, <2>1, <2>2 DEF Around
<1>4. ASSUME NEW m \in 1..n
      PROVE  d[m] \in Int
  <2>1. x[m] - a \in Int /\ y[m] - b \in Int
    OBVIOUS
  <2> QED  BY <2>1
<1>5. R[0] = 0
  <2>1. SumOf(xy, 0) = 0 /\ SumOf(x, 0) = 0 /\ SumOf(y, 0) = 0
    BY <1>1, SumOfNext
  <2> QED  BY <1>2, <2>1 DEF Around
<1>6. ASSUME NEW m \in 1..n
      PROVE  R[m] = R[m - 1] + d[m]
  <2> DEFINE i == m - 1
             p == x[m]
             q == y[m]
             A == SumOf(xy, i)
             B == SumOf(x, i)
             E == SumOf(y, i)
  <2>1. i \in 0..n /\ m \in 0..n /\ m = i + 1
    OBVIOUS
  <2>8. \A j \in 0..n : SumOf(xy, j) \in Int /\ SumOf(x, j) \in Int /\ SumOf(y, j) \in Int
    BY <1>1, SumOfNext
  <2>2. A \in Int /\ B \in Int /\ E \in Int /\ i \in Int
    BY <2>1, <2>8
  <2>3. SumOf(xy, m) = A + xy[m] /\ SumOf(x, m) = B + x[m] /\ SumOf(y, m) = E + y[m]
    BY <1>1, SumOfNext
  <2>4. p \in Int /\ q \in Int /\ xy[m] = p * q
    BY <1>1
  <2>5. R[m] = Around(A + p * q, B + p, E + q, i + 1, a, b)
    BY <2>1, <2>3, <2>4
  <2>6. R[m - 1] = Around(A, B, E, i, a, b) /\ d[m] = (p - a) * (q - b)
    BY <2>1
  <2> HIDE DEF i, p, q, A, B, E, R, d
  <2>7. Around(A + p * q, B + p, E + q, i + 1, a, b)
          = Around(A, B, E, i, a, b) + (p - a) * (q - b)
    BY ONLY <1>2, <2>2, <2>4 DEF Around
  <2> QED  BY <2>5, <2>6, <2>7
<1> HIDE DEF d, R
<1>7. R \in [0..n -> Int] /\ d \in [1..n -> Int]
  <2>1. R = [m \in 0..n |-> R[m]] /\ d = [m \in 1..n |-> d[m]]
    BY DEF R, d
  <2> QED  BY <1>3, <1>4, <2>1
<1>8. Grows(R, d, n)
  BY <1>5, <1>6, <1>7 DEF Grows
<1> QED  BY <1>8 DEF R, d, xy, AroundTo, Distances

(* None of the products is negative.                                       *)
LEMMA ProductsAround ==
  ASSUME NEW n \in Nat, NEW x \in [1..n -> Int], NEW y \in [1..n -> Int],
         NEW a \in Int, NEW b \in Int,
         NEW k \in 0..n, \A i \in 1..k : (x[i] - a) * (y[i] - b) >= 0
  PROVE  /\ Around(SumOf(Products(x, y, n), k), SumOf(x, k), SumOf(y, k), k, a, b) >= 0
         /\ k > 0 =>
              Around(SumOf(Products(x, y, n), k), SumOf(x, k), SumOf(y, k), k, a, b)
                >= (x[1] - a) * (y[1] - b)
<1> DEFINE R == [m \in 0..n |-> Around(SumOf(Products(x, y, n), m), SumOf(x, m),
                                       SumOf(y, m), m, a, b)]
           d == [m \in 1..n |-> (x[m] - a) * (y[m] - b)]
           T == {m \in Nat : m <= k => R[m] >= 0 /\ (m > 0 => R[m] >= d[1])}
<1>1. /\ R \in [0..n -> Int] /\ d \in [1..n -> Int]
      /\ R[0] = 0
      /\ \A m \in 1..n : R[m] = R[m - 1] + d[m]
  <2>1. R = AroundTo(x, y, n, a, b) /\ d = Distances(x, y, n, a, b)
    BY DEF AroundTo, Distances
  <2> HIDE DEF R, d
  <2>2. Grows(AroundTo(x, y, n, a, b), Distances(x, y, n, a, b), n)
    BY AroundGrows
  <2> QED  BY <2>1, <2>2 DEF Grows
<1>2. \A i \in 1..k : d[i] >= 0
  OBVIOUS
<1>3. /\ R[k] = Around(SumOf(Products(x, y, n), k), SumOf(x, k), SumOf(y, k), k, a, b)
      /\ k > 0 => d[1] = (x[1] - a) * (y[1] - b)
  OBVIOUS
<1> HIDE DEF R, d
<1>4. 0 \in T
  BY <1>1
<1>5. ASSUME NEW m \in Nat, m \in T
      PROVE  m + 1 \in T
  <2> SUFFICES ASSUME m + 1 <= k
               PROVE  R[m + 1] >= 0 /\ R[m + 1] >= d[1]
    OBVIOUS
  <2>1. m \in 0..n /\ m + 1 \in 1..n /\ m + 1 \in 1..k /\ 1 \in 1..k /\ (m + 1) - 1 = m
    OBVIOUS
  <2>9. 1 \in 1..n
    OBVIOUS
  <2>10. R[m] \in Int /\ d[m + 1] \in Int /\ d[1] \in Int
    BY <1>1, <2>1, <2>9
  <2>2. R[m + 1] = R[m] + d[m + 1] /\ R[m] \in Int /\ d[m + 1] \in Int /\ d[1] \in Int
    BY <1>1, <2>1, <2>10
  <2>3. d[m + 1] >= 0 /\ d[1] >= 0
    BY <1>2, <2>1
  <2>4. R[m] >= 0 /\ (m > 0 => R[m] >= d[1])
    BY <1>5
  <2>5. m = 0 \/ m > 0
    OBVIOUS
  <2>6. m = 0 => R[m] = 0 /\ d[m + 1] = d[1]
    BY <1>1
  <2> DEFINE u == R[m + 1]
             v == R[m]
             w == d[m + 1]
             z == d[1]
  <2>7. u = v + w /\ v \in Int /\ w \in Int /\ z \in Int /\ w >= 0 /\ v >= 0
        /\ (v >= z \/ (v = 0 /\ w = z))
    BY <2>2, <2>3, <2>4, <2>5, <2>6
  <2> HIDE DEF u, v, w, z
  <2>8. u >= 0 /\ u >= z
    BY ONLY <2>7
  <2> QED  BY <2>8 DEF u, z
<1> HIDE DEF T
<1>6. Nat \subseteq T
  BY <1>4, <1>5, Induction
<1>7. R[k] >= 0 /\ (k > 0 => R[k] >= d[1])
  <2>1. k \in Nat
    OBVIOUS
  <2> QED  BY <1>6, <2>1 DEF T
<1> QED  BY <1>3, <1>7

(* None of them is positive.                                               *)
LEMMA ProductsBelow ==
  ASSUME NEW n \in Nat, NEW x \in [1..n -> Int], NEW y \in [1..n -> Int],
         NEW a \in Int, NEW b \in Int,
         NEW k \in 0..n, \A i \in 1..k : (x[i] - a) * (y[i] - b) <= 0
  PROVE  Around(SumOf(Products(x, y, n), k), SumOf(x, k), SumOf(y, k), k, a, b) <= 0
<1> DEFINE R == [m \in 0..n |-> Around(SumOf(Products(x, y, n), m), SumOf(x, m),
                                       SumOf(y, m), m, a, b)]
           d == [m \in 1..n |-> (x[m] - a) * (y[m] - b)]
           T == {m \in Nat : m <= k => R[m] <= 0}
<1>1. /\ R \in [0..n -> Int] /\ d \in [1..n -> Int]
      /\ R[0] = 0
      /\ \A m \in 1..n : R[m] = R[m - 1] + d[m]
  <2>1. R = AroundTo(x, y, n, a, b) /\ d = Distances(x, y, n, a, b)
    BY DEF AroundTo, Distances
  <2> HIDE DEF R, d
  <2>2. Grows(AroundTo(x, y, n, a, b), Distances(x, y, n, a, b), n)
    BY AroundGrows
  <2> QED  BY <2>1, <2>2 DEF Grows
<1>2. \A i \in 1..k : d[i] <= 0
  OBVIOUS
<1>3. R[k] = Around(SumOf(Products(x, y, n), k), SumOf(x, k), SumOf(y, k), k, a, b)
  OBVIOUS
<1> HIDE DEF R, d
<1>4. 0 \in T
  BY <1>1
<1>5. ASSUME NEW m \in Nat, m \in T
      PROVE  m + 1 \in T
  <2> SUFFICES ASSUME m + 1 <= k
               PROVE  R[m + 1] <= 0
    OBVIOUS
  <2>1. m \in 0..n /\ m + 1 \in 1..n /\ m + 1 \in 1..k /\ (m + 1) - 1 = m
    OBVIOUS
  <2>2. R[m + 1] = R[m] + d[m + 1] /\ R[m] \in Int /\ d[m + 1] \in Int
    BY <1>1, <2>1
  <2>3. d[m + 1] <= 0
    BY <1>2, <2>1
  <2>4. R[m] <= 0
    BY <1>5
  <2> DEFINE u == R[m + 1]
             v == R[m]
             w == d[m + 1]
  <2>7. u = v + w /\ v \in Int /\ w \in Int /\ w <= 0 /\ v <= 0
    BY <2>2, <2>3, <2>4
  <2> HIDE DEF u, v, w
  <2>8. u <= 0
    BY ONLY <2>7
  <2> QED  BY <2>8 DEF u
<1> HIDE DEF T
<1>6. Nat \subseteq T
  BY <1>4, <1>5, Induction
<1>7. R[k] <= 0
  <2>1. k \in Nat
    OBVIOUS
  <2> QED  BY <1>6, <2>1 DEF T
<1> QED  BY <1>3, <1>7

(* What is compared for m values: m * m times their covariance.            *)
Cover(A, B, D, m) == A * m - B * D

(* x and y rise together: the sum of the products is not less than that of *)
(* their averages (Chebyshev; Cauchy and Schwarz for y = x).               *)
LEMMA RiseTogether ==
  ASSUME NEW n \in Nat, NEW x \in [1..n -> Int], NEW y \in [1..n -> Int],
         \A i, j \in 1..n : i <= j => (x[i] - x[j]) * (y[i] - y[j]) >= 0,
         NEW k \in 0..n
  PROVE  Cover(SumOf(Products(x, y, n), k), SumOf(x, k), SumOf(y, k), k) >= 0
<1> DEFINE xy == Products(x, y, n)
           C(m) == Cover(SumOf(xy, m), SumOf(x, m), SumOf(y, m), m)
           T == {m \in Nat : m <= n => C(m) >= 0}
<1>1. xy \in [1..n -> Int] /\ \A i \in 1..n : xy[i] = x[i] * y[i]
  BY DEF Products
<1>2. 0 \in T
  <2> HIDE DEF xy
  <2>1. SumOf(xy, 0) = 0 /\ SumOf(x, 0) = 0 /\ SumOf(y, 0) = 0
    BY <1>1, SumOfNext
  <2> QED  BY <2>1 DEF Cover
<1>3. ASSUME NEW m \in Nat, m \in T
      PROVE  m + 1 \in T
  <2> SUFFICES ASSUME m + 1 <= n
               PROVE  C(m + 1) >= 0
    OBVIOUS
  <2> DEFINE p == x[m + 1]
             q == y[m + 1]
  <2>1. m \in 0..n /\ m + 1 \in 1..n /\ (m + 1) - 1 = m
    OBVIOUS
  <2>2. C(m) >= 0
    BY <1>3
  <2>3. \A i \in 1..m : (x[i] - p) * (y[i] - q) >= 0
    BY <2>1
  <2>4. p \in Int /\ q \in Int
    BY <2>1
  <2> HIDE DEF p, q
  <2>5. Around(SumOf(xy, m), SumOf(x, m), SumOf(y, m), m, p, q) >= 0
    BY <2>1, <2>3, <2>4, ProductsAround
  <2> HIDE DEF xy
  <2>6. SumOf(xy, m) \in Int /\ SumOf(x, m) \in Int /\ SumOf(y, m) \in Int
    BY <1>1, <2>1, SumOfNext
  <2>7. /\ SumOf(xy, m + 1) = SumOf(xy, m) + p * q
        /\ SumOf(x, m + 1) = SumOf(x, m) + p
        /\ SumOf(y, m + 1) = SumOf(y, m) + q
    BY <1>1, <2>1, SumOfNext DEF p, q
  <2> DEFINE A == SumOf(xy, m)
             B == SumOf(x, m)
             E == SumOf(y, m)
  <2>8. C(m + 1) = Cover(A + p * q, B + p, E + q, m + 1)
    BY <2>7
  <2>9. /\ A \in Int /\ B \in Int /\ E \in Int /\ m \in Int
        /\ C(m) = Cover(A, B, E, m) /\ Around(A, B, E, m, p, q) >= 0
    BY <2>5, <2>6
  <2> HIDE DEF C, A, B, E
  <2>11. p \in Int /\ q \in Int /\ A \in Int /\ B \in Int /\ E \in Int /\ m \in Int
    BY <2>4, <2>9
  <2>12. /\ Cover(A, B, E, m) \in Int
         /\ Around(A, B, E, m, p, q) \in Int
         /\ Cover(A + p * q, B + p, E + q, m + 1)
              = Cover(A, B, E, m) + Around(A, B, E, m, p, q)
    BY ONLY <2>11 DEF Cover, Around
  <2>10. /\ C(m + 1) = C(m) + Around(A, B, E, m, p, q)
         /\ C(m) \in Int /\ Around(A, B, E, m, p, q) \in Int
    BY <2>8, <2>9, <2>12
  <2> QED  BY <2>2, <2>9, <2>10
<1> HIDE DEF T
<1>4. Nat \subseteq T
  BY <1>2, <1>3, Induction
<1> HIDE DEF C
<1>5. C(k) >= 0
  <2>1. k \in Nat /\ k <= n
    OBVIOUS
  <2> QED  BY <1>4, <2>1 DEF T
<1> QED  BY <1>5 DEF C, xy

----------------------------------------------------------------------------
(* The line that Train fits.                                               *)
Lines == [minValue : Int, slope : Int, intercept : Int, den : Nat \ {0}]

LEMMA SquareIsNotNegative ==
  ASSUME NEW a \in Int PROVE a * a >= 0
OBVIOUS

LEMMA PositiveProduct ==
  ASSUME NEW a \in Nat \ {0}, NEW b \in Nat \ {0} PROVE a * b \in Nat \ {0}
OBVIOUS

LEMMA NotNegativeProduct ==
  ASSUME NEW a \in Nat, NEW b \in Nat PROVE a * b \in Nat
OBVIOUS

(* Whatever the points, Predict does not divide by zero.                   *)
LEMMA TrainFits ==
  ASSUME NEW keys \in Seq(Int), Len(keys) > 0, NEW children \in Int
  PROVE  /\ Train(keys, children) \in Lines
         /\ Train(keys, children).minValue = keys[1]
<1> DEFINE n == Len(keys)
           x == [i \in 1..n |-> keys[i] - keys[1]]
           y == [i \in 1..n |-> (i - 1) * children]
           xx == [i \in 1..n |-> x[i] * x[i]]
           xy == [i \in 1..n |-> x[i] * y[i]]
           t1 == SumOf(xx, n)
           t2 == SumOf(x, n)
           t3 == SumOf(xy, n)
           t4 == SumOf(y, n)
           det == t1 * n - t2 * t2
<1>1. n \in Nat /\ n > 0 /\ keys[1] \in Int /\ \A i \in 1..n : keys[i] \in Int
  OBVIOUS
<1> HIDE DEF n
<1>2. x \in [1..n -> Int] /\ y \in [1..n -> Int]
  BY <1>1
<1>3. xx = Products(x, x, n) /\ xx \in [1..n -> Int] /\ xy \in [1..n -> Int]
  BY <1>1 DEF Products
<1>4. Train(keys, children) =
        [minValue  |-> keys[1],
         slope     |-> IF det # 0 THEN t3 * n - t2 * t4 ELSE 0,
         intercept |-> IF det # 0 THEN t1 * t4 - t2 * t3 ELSE 0,
         den       |-> IF det # 0 THEN det * n ELSE 1]
  BY DEF Train, n
<1> HIDE DEF x, y, xx, xy
<1>5. t1 \in Int /\ t2 \in Int /\ t3 \in Int /\ t4 \in Int
  BY <1>1, <1>2, <1>3, SumIsNumber
<1>6. det >= 0 /\ det \in Int
  <2>1. ASSUME NEW i \in 1..n, NEW j \in 1..n
        PROVE  (x[i] - x[j]) * (x[i] - x[j]) >= 0
    <3>1. x[i] - x[j] \in Int
      <4>1. x[i] \in Int /\ x[j] \in Int
        BY <1>2
      <4> QED  BY <4>1
    <3> QED  BY <3>1, SquareIsNotNegative
  <2>3. n \in 0..n
    BY <1>1
  <2>2. Cover(t1, t2, t2, n) >= 0
    BY <1>1, <1>2, <1>3, <2>1, <2>3, RiseTogether
  <2> HIDE DEF t1, t2
  <2> QED  BY <1>1, <1>5, <2>2 DEF Cover
<1> HIDE DEF t1, t2, t3, t4, det
<1>7. det # 0 => det * n \in Nat \ {0}
  BY <1>1, <1>6, PositiveProduct
<1>8. t3 * n - t2 * t4 \in Int /\ t1 * t4 - t2 * t3 \in Int
  BY <1>1, <1>5
<1> QED  BY <1>1, <1>4, <1>7, <1>8 DEF Lines

Rising(keys) == \A i, j \in 1..Len(keys) : i <= j => keys[i] <= keys[j]

(* A sequence that falls nowhere from one key to the next is sorted.       *)
LEMMA AdjacentRise ==
  ASSUME NEW s \in Seq(Int), \A i \in 1..Len(s) - 1 : s[i] <= s[i + 1]
  PROVE  Rising(s)
<1> DEFINE n == Len(s)
           S == {d \in Nat : \A i \in 1..n : i + d <= n => s[i] <= s[i + d]}
<1>1. n \in Nat /\ \A i \in 1..n : s[i] \in Int
  OBVIOUS
<1> HIDE DEF n
<1>2. 0 \in S
  <2>1. \A i \in 1..n : i + 0 = i /\ s[i] <= s[i]
    BY <1>1
  <2> QED  BY <2>1
<1>3. ASSUME NEW d \in Nat, d \in S
      PROVE  d + 1 \in S
  <2> SUFFICES ASSUME NEW i \in 1..n, i + (d + 1) <= n
               PROVE  s[i] <= s[i + (d + 1)]
    OBVIOUS
  <2>1. i + d \in 1..n - 1 /\ i + d \in 1..n /\ i + (d + 1) \in 1..n /\ i + d <= n
        /\ (i + d) + 1 = i + (d + 1)
    BY <1>1
  <2>2. s[i] <= s[i + d]
    BY <1>3, <2>1
  <2>3. s[i + d] <= s[(i + d) + 1]
    BY <2>1 DEF n
  <2>4. s[i] \in Int /\ s[i + d] \in Int /\ s[i + (d + 1)] \in Int
    BY <1>1, <2>1
  <2> QED  BY <2>1, <2>2, <2>3, <2>4
<1> HIDE DEF S
<1>4. Nat \subseteq S
  BY <1>2, <1>3, Induction
<1>5. ASSUME NEW i \in 1..n, NEW j \in 1..n, i <= j
      PROVE  s[i] <= s[j]
  <2>1. j - i \in S /\ i + (j - i) = j /\ j <= n
    BY <1>1, <1>4, <1>5
  <2> QED  BY <2>1 DEF S
<1> QED  BY <1>5 DEF Rising, n

(* The line of sorted points does not fall.                                *)
LEMMA TrainRises ==
  ASSUME NEW keys \in Seq(Int), Len(keys) > 0, NEW children \in Nat, Rising(keys)
  PROVE  Train(keys, children).slope >= 0
<1> DEFINE n == Len(keys)
           x == [i \in 1..n |-> keys[i] - keys[1]]
           y == [i \in 1..n |-> (i - 1) * children]
           xx == [i \in 1..n |-> x[i] * x[i]]
           xy == [i \in 1..n |-> x[i] * y[i]]
           t1 == SumOf(xx, n)
           t2 == SumOf(x, n)
           t3 == SumOf(xy, n)
           t4 == SumOf(y, n)
           det == t1 * n - t2 * t2
<1>1. n \in Nat /\ n > 0 /\ keys[1] \in Int /\ \A i \in 1..n : keys[i] \in Int
  OBVIOUS
<1>2. \A i, j \in 1..n : i <= j => keys[i] <= keys[j]
  BY DEF Rising
<1> HIDE DEF n
<1>3. x \in [1..n -> Int] /\ y \in [1..n -> Int]
  BY <1>1
<1>4. xy = Products(x, y, n) /\ xy \in [1..n -> Int]
  BY <1>1 DEF Products
<1>5. Train(keys, children).slope = IF det # 0 THEN t3 * n - t2 * t4 ELSE 0
  BY DEF Train, n
<1>6. ASSUME NEW i \in 1..n, NEW j \in 1..n, i <= j
      PROVE  (x[i] - x[j]) * (y[i] - y[j]) >= 0
  <2> DEFINE a == keys[j] - keys[i]
             b == j - i
  <2>1. a \in Nat /\ b \in Nat /\ children \in Nat
    BY <1>1, <1>2, <1>6
  <2>2. x[i] - x[j] = 0 - a
    BY <1>1
  <2>3. y[i] - y[j] = (i - 1) * children - (j - 1) * children
    OBVIOUS
  <2>4. (i - 1) * children - (j - 1) * children = 0 - b * children
    OBVIOUS
  <2> HIDE DEF a, b
  <2>5. b * children \in Nat
    BY <2>1, NotNegativeProduct
  <2> DEFINE d == b * children
  <2> HIDE DEF d
  <2>6. a * d \in Nat /\ d \in Nat
    BY <2>1, <2>5, NotNegativeProduct DEF d
  <2>7. (0 - a) * (0 - d) = a * d
    BY <2>1, <2>6
  <2>8. y[i] - y[j] = 0 - d
    BY <2>3, <2>4 DEF d
  <2> HIDE DEF x, y
  <2> QED  BY <2>2, <2>6, <2>7, <2>8
<1> HIDE DEF x, y, xx, xy
<1>7. t2 \in Int /\ t3 \in Int /\ t4 \in Int
  BY <1>1, <1>3, <1>4, SumIsNumber
<1>9. n \in 0..n
  BY <1>1
<1>8. Cover(t3, t2, t4, n) >= 0
  BY <1>1, <1>3, <1>4, <1>6, <1>9, RiseTogether
<1> HIDE DEF t1, t2, t3, t4, det
<1> QED  BY <1>5, <1>7, <1>8 DEF Cover

----------------------------------------------------------------------------
(* Predict.                                                                *)
LEMMA Quotient ==
  ASSUME NEW a \in Int, NEW d \in Nat \ {0}
  PROVE  a \div d \in Int /\ (a \div d) * d <= a /\ a < (a \div d) * d + d
OBVIOUS

LEMMA QuotientRises ==
  ASSUME NEW a \in Int, NEW b \in Int, NEW d \in Nat \ {0}, a <= b
  PROVE  a \div d <= b \div d
<1> DEFINE p == a \div d
           q == b \div d
<1>1. p \in Int /\ q \in Int /\ p * d <= a /\ b < q * d + d
  BY Quotient
<1> HIDE DEF p, q
<1>2. CASE q < p
  <2>1. PICK e \in Nat : p = q + 1 + e
    <3>1. p - (q + 1) \in Nat /\ p = q + 1 + (p - (q + 1))
      BY <1>1, <1>2
    <3> QED  BY <3>1
  <2>2. p * d = q * d + d + e * d /\ q * d \in Int
    BY <1>1, <2>1
  <2>3. e * d \in Nat
    BY <2>1, NotNegativeProduct
  <2> QED  BY <1>1, <2>2, <2>3
<1> QED  BY <1>1, <1>2 DEF p, q

Value(lr, k) == lr.slope * (k - lr.minValue) + lr.intercept

LEMMA ValueIsNumber ==
  ASSUME NEW lr \in Lines, NEW k \in Int
  PROVE  Value(lr, k) \in Int /\ Value(lr, k) \div lr.den \in Int
<1>1. lr.slope \in Int /\ lr.minValue \in Int /\ lr.intercept \in Int /\ lr.den \in Nat \ {0}
  BY DEF Lines
<1>2. Value(lr, k) \in Int
  BY <1>1 DEF Value
<1> QED  BY <1>1, <1>2, Quotient

LEMMA PredictIs ==
  ASSUME NEW lr \in Lines, NEW children \in Nat \ {0}, NEW k \in Int
  PROVE  LET p == Value(lr, k) \div lr.den
         IN Predict(lr, children, k)
              = IF p < 0 THEN 0 ELSE IF p > children - 1 THEN children - 1 ELSE p
<1> DEFINE p == Value(lr, k) \div lr.den
           m == Min({p, children - 1})
<1>1. p \in Int
  BY ValueIsNumber
<1>2. Predict(lr, children, k) = Max({0, m})
  BY DEF Predict, Value
<1> HIDE DEF p
<1>3. m = IF p <= children - 1 THEN p ELSE children - 1
  BY <1>1, MinOfTwo
<1>4. m \in Int
  BY <1>1, <1>3
<1> HIDE DEF m
<1>5. Max({0, m}) = IF 0 >= m THEN 0 ELSE m
  BY <1>4, MaxOfTwo
<1>6. Predict(lr, children, k)
        = IF p < 0 THEN 0 ELSE IF p > children - 1 THEN children - 1 ELSE p
  BY <1>1, <1>2, <1>3, <1>5
<1> QED  BY <1>6 DEF p

(* Every key has a child.                                                  *)
LEMMA PredictInRange ==
  ASSUME NEW lr \in Lines, NEW children \in Nat \ {0}, NEW k \in Int
  PROVE  Predict(lr, children, k) \in 0..children - 1
<1> DEFINE p == Value(lr, k) \div lr.den
<1>1. p \in Int
  BY ValueIsNumber
<1>2. Predict(lr, children, k)
        = IF p < 0 THEN 0 ELSE IF p > children - 1 THEN children - 1 ELSE p
  BY PredictIs
<1> HIDE DEF p
<1> QED  BY <1>1, <1>2

(* The children are in the order of the keys.                              *)
LEMMA PredictKeepsOrder ==
  ASSUME NEW lr \in Lines, lr.slope >= 0, NEW children \in Nat \ {0},
         NEW j \in Int, NEW k \in Int, j <= k
  PROVE  Predict(lr, children, j) <= Predict(lr, children, k)
<1> DEFINE p == Value(lr, j) \div lr.den
           q == Value(lr, k) \div lr.den
<1>1. p \in Int /\ q \in Int
  BY ValueIsNumber
<1>2. /\ Predict(lr, children, j)
           = IF p < 0 THEN 0 ELSE IF p > children - 1 THEN children - 1 ELSE p
      /\ Predict(lr, children, k)
           = IF q < 0 THEN 0 ELSE IF q > children - 1 THEN children - 1 ELSE q
  BY PredictIs
<1>3. p <= q
  <2>1. /\ lr.slope \in Nat /\ lr.minValue \in Int /\ lr.intercept \in Int
        /\ lr.den \in Nat \ {0}
    BY DEF Lines
  <2>2. k - j \in Nat
    OBVIOUS
  <2>3. lr.slope * (k - j) \in Nat
    BY <2>1, <2>2, NotNegativeProduct
  <2>4. Value(lr, k) = Value(lr, j) + lr.slope * (k - j)
    BY <2>1 DEF Value
  <2>5. Value(lr, j) \in Int /\ Value(lr, k) \in Int
    BY ValueIsNumber
  <2>6. Value(lr, j) <= Value(lr, k)
    BY <2>3, <2>4, <2>5
  <2> QED  BY <2>1, <2>5, <2>6, QuotientRises
<1> HIDE DEF p, q
<1> QED  BY <1>1, <1>2, <1>3

----------------------------------------------------------------------------
(* A line over different keys parts the first from the last: its values at *)
(* the two are half the number of children apart at least, the one below   *)
(* the middle and the other not.                                           *)
Ranks(n, c) == [i \in 1..n |-> (i - 1) * c]

LEMMA SumOfRanks ==
  ASSUME NEW n \in Nat, NEW c \in Int, NEW k \in 0..n
  PROVE  2 * SumOf(Ranks(n, c), k) = c * (k * (k - 1))
<1> DEFINE y == Ranks(n, c)
           T == {m \in Nat : m <= k => 2 * SumOf(y, m) = c * (m * (m - 1))}
<1>1. y \in [1..n -> Int] /\ \A i \in 1..n : y[i] = (i - 1) * c
  BY DEF Ranks
<1> HIDE DEF y
<1>2. 0 \in T
  <2>1. SumOf(y, 0) = 0
    BY <1>1, SumOfNext
  <2> QED  BY <2>1
<1>3. ASSUME NEW m \in Nat, m \in T
      PROVE  m + 1 \in T
  <2> SUFFICES ASSUME m + 1 <= k
               PROVE  2 * SumOf(y, m + 1) = c * ((m + 1) * ((m + 1) - 1))
    OBVIOUS
  <2>1. m \in 0..n /\ m + 1 \in 1..n /\ (m + 1) - 1 = m
    OBVIOUS
  <2>2. SumOf(y, m) \in Int /\ SumOf(y, m + 1) = SumOf(y, m) + y[m + 1]
    BY <1>1, <2>1, SumOfNext
  <2>3. y[m + 1] = m * c
    BY <1>1, <2>1
  <2>4. 2 * SumOf(y, m) = c * (m * (m - 1))
    BY <1>3
  <2>5. c * (m * (m - 1)) + 2 * (m * c) = c * ((m + 1) * m)
    OBVIOUS
  <2> DEFINE A == SumOf(y, m)
  <2> HIDE DEF A
  <2>6. 2 * (A + m * c) = 2 * A + 2 * (m * c)
    BY <2>2 DEF A
  <2> QED  BY <2>1, <2>2, <2>3, <2>4, <2>5, <2>6 DEF A
<1> HIDE DEF T
<1>4. Nat \subseteq T
  BY <1>2, <1>3, Induction
<1>5. k \in Nat /\ k <= k
  OBVIOUS
<1> QED  BY <1>4, <1>5 DEF T, y

LEMMA SumBelow ==
  ASSUME NEW n \in Nat, NEW x \in [1..n -> Int], NEW X \in Nat, NEW k \in 1..n,
         x[1] = 0, \A i \in 1..n : x[i] <= X
  PROVE  SumOf(x, k) <= (k - 1) * X
<1> DEFINE T == {m \in Nat : m + 1 <= k => SumOf(x, m + 1) <= m * X}
<1>0. /\ SumOf(x, 0) = 0
      /\ \A m \in 0..n : SumOf(x, m) \in Int
      /\ \A m \in 1..n : SumOf(x, m) = SumOf(x, m - 1) + x[m]
  BY SumOfNext
<1>1. 0 \in T
  <2>1. 1 \in 1..n /\ 1 - 1 = 0
    OBVIOUS
  <2>2. SumOf(x, 1) = 0
    BY <1>0, <2>1
  <2> QED  BY <2>2
<1>2. ASSUME NEW m \in Nat, m \in T
      PROVE  m + 1 \in T
  <2> SUFFICES ASSUME (m + 1) + 1 <= k
               PROVE  SumOf(x, (m + 1) + 1) <= (m + 1) * X
    OBVIOUS
  <2>1. m + 1 \in 0..n /\ (m + 1) + 1 \in 1..n /\ ((m + 1) + 1) - 1 = m + 1
    OBVIOUS
  <2>2. SumOf(x, m + 1) \in Int /\ SumOf(x, (m + 1) + 1) = SumOf(x, m + 1) + x[(m + 1) + 1]
    BY <1>0, <2>1
  <2>3. x[(m + 1) + 1] <= X /\ x[(m + 1) + 1] \in Int
    BY <2>1
  <2>4. SumOf(x, m + 1) <= m * X
    BY <1>2, <2>1
  <2>5. (m + 1) * X = m * X + X /\ m * X \in Int
    OBVIOUS
  <2> QED  BY <2>2, <2>3, <2>4, <2>5
<1> HIDE DEF T
<1>3. Nat \subseteq T
  BY <1>1, <1>2, Induction
<1>4. k - 1 \in Nat /\ (k - 1) + 1 = k /\ k <= k
  OBVIOUS
<1>5. k - 1 \in T
  BY <1>3, <1>4
<1> QED  BY <1>4, <1>5 DEF T

(* The sums t1, t2, t3 of m keys: what the line gains over the last key X  *)
(* against half the number of children, c.                                 *)
Gain(t1, t2, t3, m, X, c) ==
  X * (2 * t3 - (c * (m - 1)) * t2) - c * (t1 * m - t2 * t2)

LEMMA GainIsNotNegative ==
  ASSUME NEW n \in Nat, NEW c \in Nat, NEW x \in [1..n -> Int], NEW X \in Nat,
         \A i \in 1..n : 0 <= x[i] /\ x[i] <= X,
         \A i, j \in 1..n : i <= j => x[i] <= x[j],
         NEW k \in 0..n
  PROVE  Gain(SumOf(Products(x, x, n), k), SumOf(x, k),
              SumOf(Products(x, Ranks(n, c), n), k), k, X, c) >= 0
<1> DEFINE y == Ranks(n, c)
           xx == Products(x, x, n)
           xy == Products(x, y, n)
           G(m) == Gain(SumOf(xx, m), SumOf(x, m), SumOf(xy, m), m, X, c)
           T == {m \in Nat : m <= k => G(m) >= 0 /\ G(m) \in Int}
<1>1. /\ y \in [1..n -> Int] /\ xx \in [1..n -> Int] /\ xy \in [1..n -> Int]
      /\ \A i \in 1..n : xx[i] = x[i] * x[i] /\ xy[i] = x[i] * ((i - 1) * c)
  BY DEF Ranks, Products
<1> HIDE DEF y, xy
<1>2. 0 \in T
  <2> HIDE DEF xx
  <2>1. SumOf(xx, 0) = 0 /\ SumOf(x, 0) = 0 /\ SumOf(xy, 0) = 0
    BY <1>1, SumOfNext
  <2> QED  BY <2>1 DEF Gain
<1>3. ASSUME NEW m \in Nat, m \in T
      PROVE  m + 1 \in T
  <2> SUFFICES ASSUME m + 1 <= k
               PROVE  G(m + 1) >= 0 /\ G(m + 1) \in Int
    OBVIOUS
  <2> DEFINE p == x[m + 1]
             A == SumOf(xx, m)
             B == SumOf(x, m)
             E == SumOf(xy, m)
  <2>1. m \in 0..n /\ m + 1 \in 1..n /\ (m + 1) - 1 = m
    OBVIOUS
  <2>2. p \in Int
    BY <2>1
  <2>3. ASSUME NEW i \in 1..m
        PROVE  (x[i] - p) * (x[i] - (p - X)) <= 0
    <3> DEFINE a == p - x[i]
               b == X - (p - x[i])
    <3>1. i \in 1..n /\ i <= m + 1 /\ x[i] \in Int
      OBVIOUS
    <3>2. x[i] <= p /\ 0 <= x[i] /\ p <= X
      BY <2>1, <3>1
    <3>3. a \in Nat /\ b \in Nat
      BY <2>2, <3>1, <3>2
    <3>4. x[i] - p = 0 - a /\ x[i] - (p - X) = b
      BY <2>2, <3>1
    <3> HIDE DEF a, b
    <3>5. a * b \in Nat /\ (0 - a) * b = 0 - a * b
      BY <3>3, NotNegativeProduct
    <3> QED  BY <3>4, <3>5
  <2>4. p - X \in Int
    BY <2>2
  <2> HIDE DEF p
  <2>5. Around(A, B, B, m, p, p - X) <= 0
    BY <2>1, <2>2, <2>3, <2>4, ProductsBelow
  <2> HIDE DEF xx
  <2>6. \A j \in 0..n : SumOf(xx, j) \in Int /\ SumOf(x, j) \in Int /\ SumOf(xy, j) \in Int
    BY <1>1, SumOfNext
  <2>7. A \in Int /\ B \in Int /\ E \in Int
    BY <2>1, <2>6
  <2>8. /\ SumOf(xx, m + 1) = SumOf(xx, m) + xx[m + 1]
        /\ SumOf(x, m + 1) = SumOf(x, m) + x[m + 1]
        /\ SumOf(xy, m + 1) = SumOf(xy, m) + xy[m + 1]
    BY <1>1, <2>1, SumOfNext
  <2>9. xx[m + 1] = p * p /\ xy[m + 1] = p * (m * c) /\ x[m + 1] = p
    BY <1>1, <2>1 DEF p
  <2>10. G(m + 1) = Gain(A + p * p, B + p, E + p * (m * c), m + 1, X, c)
    BY <2>8, <2>9
  <2>11. G(m) = Gain(A, B, E, m, X, c)
    OBVIOUS
  <2>12. G(m) >= 0 /\ G(m) \in Int
    BY <1>3, <2>1
  <2>13. c \in Nat /\ X \in Nat /\ m \in Nat
    OBVIOUS
  <2> HIDE DEF A, B, E, G
  <2> DEFINE W == 0 - Around(A, B, B, m, p, p - X)
  <2>14. W \in Nat
    <3>1. Around(A, B, B, m, p, p - X) \in Int
      BY ONLY <2>2, <2>7, <2>13 DEF Around
    <3> QED  BY <2>5, <3>1
  <2>15. Gain(A + p * p, B + p, E + p * (m * c), m + 1, X, c)
           = Gain(A, B, E, m, X, c) + c * W
    BY ONLY <2>2, <2>7, <2>13, SMTT(30) DEF Around, Gain
  <2> HIDE DEF W
  <2>16. c * W \in Nat
    BY <2>13, <2>14, NotNegativeProduct
  <2> QED  BY <2>10, <2>11, <2>12, <2>15, <2>16
<1> HIDE DEF T, G
<1>4. Nat \subseteq T
  BY <1>2, <1>3, Induction
<1>5. k \in Nat /\ k <= k
  OBVIOUS
<1>6. G(k) >= 0
  BY <1>4, <1>5 DEF T
<1> QED  BY <1>6 DEF G, xx, xy, y

(* Different keys vary.                                                    *)
LEMMA VariancePositive ==
  ASSUME NEW n \in Nat, n >= 2, NEW x \in [1..n -> Int], x[1] # x[n]
  PROVE  Cover(SumOf(Products(x, x, n), n), SumOf(x, n), SumOf(x, n), n) >= 1
<1> DEFINE m == n - 1
           p == x[n]
           xx == Products(x, x, n)
           A == SumOf(xx, m)
           B == SumOf(x, m)
<1>1. m \in Nat /\ m > 0 /\ m \in 0..n /\ n \in 1..n /\ 1 \in 1..n /\ n = m + 1
  OBVIOUS
<1>2. p \in Int /\ x[1] \in Int
  BY <1>1
<1>3. ASSUME NEW i \in 1..n, NEW j \in Int
      PROVE  (x[i] - j) * (x[i] - j) >= 0
  <2>1. x[i] - j \in Int
    OBVIOUS
  <2> QED  BY <2>1, SquareIsNotNegative
<1>4. xx \in [1..n -> Int] /\ xx[n] = p * p
  BY <1>1 DEF Products
<1> HIDE DEF m, p
<1>5. /\ Around(A, B, B, m, p, p) >= 0
      /\ m > 0 => Around(A, B, B, m, p, p) >= (x[1] - p) * (x[1] - p)
  <2>1. \A i \in 1..m : (x[i] - p) * (x[i] - p) >= 0
    BY <1>1, <1>2, <1>3
  <2> QED  BY <1>1, <1>2, <2>1, ProductsAround
<1>6. (x[1] - p) * (x[1] - p) >= 1
  <2> DEFINE d == x[1] - p
  <2>1. d \in Int /\ d # 0
    BY <1>2 DEF p
  <2> HIDE DEF d
  <2>2. d * d >= 1
    BY <2>1
  <2> QED  BY <2>2 DEF d
<1>7. Cover(A, B, B, m) >= 0
  <2>1. ASSUME NEW i \in 1..n, NEW j \in 1..n
        PROVE  (x[i] - x[j]) * (x[i] - x[j]) >= 0
    <3>1. x[j] \in Int
      OBVIOUS
    <3> QED  BY <1>3, <3>1
  <2> QED  BY <1>1, <2>1, RiseTogether
<1> HIDE DEF xx
<1>8. A \in Int /\ B \in Int
  <2>1. \A j \in 0..n : SumOf(xx, j) \in Int /\ SumOf(x, j) \in Int
    BY <1>4, SumOfNext
  <2> QED  BY <1>1, <2>1
<1>9. SumOf(xx, n) = A + p * p /\ SumOf(x, n) = B + p
  <2>1. \A j \in 1..n : SumOf(xx, j) = SumOf(xx, j - 1) + xx[j]
                         /\ SumOf(x, j) = SumOf(x, j - 1) + x[j]
    BY <1>4, SumOfNext
  <2> QED  BY <1>1, <1>4, <2>1 DEF m, p
<1> HIDE DEF A, B
<1>10. Cover(A + p * p, B + p, B + p, m + 1) = Cover(A, B, B, m) + Around(A, B, B, m, p, p)
  <2>1. m \in Int
    BY <1>1
  <2> QED  BY ONLY <1>2, <1>8, <2>1 DEF Cover, Around
<1>11. Cover(A, B, B, m) \in Int /\ Around(A, B, B, m, p, p) \in Int
  <2>1. m \in Int
    BY <1>1
  <2> QED  BY ONLY <1>2, <1>8, <2>1 DEF Cover, Around
<1>12. Around(A, B, B, m, p, p) >= 1
  <2> DEFINE u == (x[1] - p) * (x[1] - p)
  <2>1. u >= 1 /\ u \in Int /\ Around(A, B, B, m, p, p) >= u
    BY <1>1, <1>2, <1>5, <1>6
  <2> HIDE DEF u
  <2> QED  BY <1>11, <2>1
<1>13. Cover(A + p * p, B + p, B + p, n) >= 1
  BY <1>1, <1>7, <1>10, <1>11, <1>12
<1> QED  BY <1>9, <1>13 DEF xx

(* The arithmetic of it.                                                   *)
LEMMA ProductRises ==
  ASSUME NEW a \in Nat, NEW b \in Int, NEW c \in Int, b <= c
  PROVE  a * b <= a * c
<1>1. c - b \in Nat
  OBVIOUS
<1>2. a * (c - b) \in Nat
  BY <1>1, NotNegativeProduct
<1>3. a * c = a * b + a * (c - b) /\ a * b \in Int
  OBVIOUS
<1> QED  BY <1>2, <1>3

LEMMA ProductRisesBack ==
  ASSUME NEW a \in Nat \ {0}, NEW b \in Int, NEW c \in Int, a * b <= a * c
  PROVE  b <= c
<1> SUFFICES ASSUME c < b PROVE FALSE
  OBVIOUS
<1>1. b - c \in Nat \ {0}
  OBVIOUS
<1>2. a * (b - c) \in Nat \ {0}
  BY <1>1, PositiveProduct
<1>3. a * b = a * c + a * (b - c) /\ a * c \in Int
  OBVIOUS
<1> QED  BY <1>2, <1>3

LEMMA LineParts ==
  ASSUME NEW n \in Nat, n >= 2, NEW c \in Nat, NEW X \in Nat,
         NEW t1 \in Int, NEW t2 \in Int, NEW t3 \in Int, NEW t4 \in Int,
         2 * t4 = c * (n * (n - 1)),
         0 <= t2, t2 <= (n - 1) * X,
         NEW det, det = t1 * n - t2 * t2, det >= 1,
         NEW slope, slope = t3 * n - t2 * t4, slope >= 0,
         NEW intercept, intercept = t1 * t4 - t2 * t3,
         Gain(t1, t2, t3, n, X, c) >= 0
  PROVE  /\ c * (det * n) <= 2 * (slope * X)
         /\ 2 * intercept + c * det <= c * (det * n)
         /\ c * (det * n) <= 2 * (slope * X + intercept)
<1> DEFINE G == 2 * t3 - (c * (n - 1)) * t2
           den == det * n
<1>1. det \in Nat \ {0} /\ slope \in Nat /\ intercept \in Int
  OBVIOUS
<1>2. G \in Int /\ X * G \in Int
  OBVIOUS
<1>3. 2 * slope = n * G
  <2>1. 2 * slope = 2 * (t3 * n) - t2 * (2 * t4)
    OBVIOUS
  <2>2. t2 * (c * (n * (n - 1))) = n * ((c * (n - 1)) * t2)
    OBVIOUS
  <2> QED  BY ONLY <2>1, <2>2, 2 * t4 = c * (n * (n - 1)), n \in Nat, c \in Nat,
              t2 \in Int, t3 \in Int
<1>4. c * det <= X * G
  <2>1. c * det \in Int
    BY <1>1
  <2> QED  BY <1>2, <2>1 DEF Gain
<1>5. den \in Nat \ {0}
  BY <1>1, PositiveProduct
<1>6. n * (c * det) <= n * (X * G)
  <2>1. c * det \in Int
    BY <1>1
  <2> QED  BY <1>2, <1>4, <2>1, ProductRises
<1>7. c * den = n * (c * det)
  BY <1>1
<1>8. 2 * (slope * X) = n * (X * G)
  <2>1. 2 * (slope * X) = (2 * slope) * X
    BY <1>1
  <2>2. (n * G) * X = n * (X * G)
    BY <1>2
  <2> QED  BY <1>3, <2>1, <2>2
<1>9. c * den <= 2 * (slope * X)
  BY <1>6, <1>7, <1>8
<1>10. n * intercept = t4 * det - slope * t2
  <2>1. n * (t1 * t4 - t2 * t3) = t4 * (t1 * n - t2 * t2) - (t3 * n - t2 * t4) * t2
    OBVIOUS
  <2> QED  BY <2>1
<1>11. (2 * t4) * det = (n - 1) * (c * den)
  <2>1. (c * (n * (n - 1))) * det = (n - 1) * (c * den)
    BY <1>1
  <2> QED  BY <2>1
<1>12. n * (2 * intercept) = (n - 1) * (c * den) - 2 * (slope * t2)
  <2>1. n * (2 * intercept) = 2 * (t4 * det - slope * t2)
    BY <1>1, <1>10
  <2>2. 2 * (t4 * det - slope * t2) = (2 * t4) * det - 2 * (slope * t2)
    BY <1>1
  <2> QED  BY <1>11, <2>1, <2>2
<1>13. 2 * (slope * t2) \in Nat
  <2>1. t2 \in Nat
    OBVIOUS
  <2>2. slope * t2 \in Nat
    BY <1>1, <2>1, NotNegativeProduct
  <2> QED  BY <2>2
<1> HIDE DEF den
<1>14. c * den \in Nat /\ c * det \in Nat
  BY <1>1, <1>5, NotNegativeProduct
<1>15. 2 * intercept + c * det <= c * den
  <2>1. n * (2 * intercept) <= (n - 1) * (c * den)
    <3>1. (n - 1) * (c * den) \in Int
      BY <1>14
    <3> QED  BY <1>12, <1>13, <3>1
  <2>2. n * (2 * intercept + c * det) = n * (2 * intercept) + n * (c * det)
    BY <1>1, <1>14
  <2>3. n * (c * den) = (n - 1) * (c * den) + c * den
    BY <1>14
  <2>4. n * (c * det) = c * den
    BY <1>7 DEF den
  <2>5. n * (2 * intercept) \in Int /\ (n - 1) * (c * den) \in Int
    BY <1>1, <1>14
  <2>6. n * (2 * intercept + c * det) <= n * (c * den)
    BY <1>14, <2>1, <2>2, <2>3, <2>4, <2>5
  <2>7. n \in Nat \ {0} /\ 2 * intercept + c * det \in Int /\ c * den \in Int
    BY <1>1, <1>14
  <2> QED  BY <2>6, <2>7, ProductRisesBack
<1>16. c * den <= 2 * (slope * X + intercept)
  <2> DEFINE v == 2 * (slope * X + intercept)
  <2>1. v \in Int /\ slope * X \in Int
    BY <1>1
  <2>2. n * v = 2 * (slope * (n * X)) + n * (2 * intercept)
    BY <1>1
  <2>3. t2 + X <= n * X
    <3>1. (n - 1) * X + X = n * X /\ (n - 1) * X \in Int
      OBVIOUS
    <3> QED  BY <3>1
  <2>4. slope * (t2 + X) <= slope * (n * X)
    <3>1. t2 + X \in Int /\ n * X \in Int
      OBVIOUS
    <3> QED  BY <1>1, <2>3, <3>1, ProductRises
  <2>5. slope * (t2 + X) = slope * t2 + slope * X /\ slope * t2 \in Int
    BY <1>1
  <2>6. slope * (n * X) \in Int
    BY <1>1
  <2> HIDE DEF v
  <2>7. 2 * (slope * X) + (n - 1) * (c * den) <= n * v
    <3>1. (n - 1) * (c * den) \in Int
      BY <1>14
    <3>2. 2 * (slope * (n * X)) >= 2 * (slope * t2) + 2 * (slope * X)
      BY <2>1, <2>4, <2>5, <2>6
    <3> QED  BY <1>12, <2>1, <2>2, <2>5, <2>6, <3>1, <3>2
  <2>8. n * (c * den) = (n - 1) * (c * den) + c * den
    BY <1>14
  <2>9. n * (c * den) <= n * v
    <3>1. (n - 1) * (c * den) \in Int /\ n * v \in Int
      BY <1>14, <2>1
    <3> QED  BY <1>9, <1>14, <2>1, <2>7, <2>8, <3>1 DEF den
  <2>10. n \in Nat \ {0} /\ c * den \in Int
    BY <1>14
  <2>11. c * den <= v
    BY <2>1, <2>9, <2>10, ProductRisesBack
  <2> QED  BY <2>11 DEF v
<1> QED  BY <1>9, <1>15, <1>16 DEF den

(* What a trained line has if its keys are different.                      *)
LineEnds(lr, c, X) ==
  /\ lr \in Lines /\ lr.slope >= 0 /\ lr.intercept \in Int
  /\ c * lr.den <= 2 * (lr.slope * X)
  /\ 2 * lr.intercept < c * lr.den
  /\ c * lr.den <= 2 * (lr.slope * X + lr.intercept)

LEMMA TrainParts ==
  ASSUME NEW keys \in Seq(Int), Len(keys) > 0, NEW children \in Nat \ {0}, Rising(keys),
         keys[1] # keys[Len(keys)]
  PROVE  LineEnds(Train(keys, children), children, keys[Len(keys)] - keys[1])
<1> DEFINE n == Len(keys)
           c == children
           X == keys[n] - keys[1]
           x == [i \in 1..n |-> keys[i] - keys[1]]
           y == [i \in 1..n |-> (i - 1) * children]
           xx == [i \in 1..n |-> x[i] * x[i]]
           xy == [i \in 1..n |-> x[i] * y[i]]
           t1 == SumOf(xx, n)
           t2 == SumOf(x, n)
           t3 == SumOf(xy, n)
           t4 == SumOf(y, n)
           det == t1 * n - t2 * t2
           slope == t3 * n - t2 * t4
           intercept == t1 * t4 - t2 * t3
           lr == Train(keys, children)
<1>1. n \in Nat /\ n > 0 /\ keys[1] \in Int /\ \A i \in 1..n : keys[i] \in Int
  OBVIOUS
<1>2. \A i, j \in 1..n : i <= j => keys[i] <= keys[j]
  BY DEF Rising
<1>3. lr \in Lines /\ lr.slope >= 0
  BY TrainFits, TrainRises
<1>4. lr = [minValue  |-> keys[1],
            slope     |-> IF det # 0 THEN slope ELSE 0,
            intercept |-> IF det # 0 THEN intercept ELSE 0,
            den       |-> IF det # 0 THEN det * n ELSE 1]
  BY DEF Train
<1>5. keys[1] # keys[n]
  OBVIOUS
<1> HIDE DEF n, lr
<1>6. n >= 2 /\ n \in 1..n /\ 1 \in 1..n /\ n \in 0..n
  BY <1>1, <1>5
<1>7. X \in Nat /\ X > 0 /\ \A i \in 1..n : x[i] = keys[i] - keys[1] /\ 0 <= x[i] /\ x[i] <= X
  BY <1>1, <1>2, <1>5, <1>6
<1>8. x \in [1..n -> Int] /\ x[1] = 0 /\ x[n] = X /\ y \in [1..n -> Int]
  BY <1>1, <1>6
<1>9. xx = Products(x, x, n) /\ xy = Products(x, Ranks(n, c), n) /\ y = Ranks(n, c)
      /\ xx \in [1..n -> Int] /\ xy \in [1..n -> Int]
  BY <1>1 DEF Products, Ranks
<1>10. \A i, j \in 1..n : i <= j => x[i] <= x[j]
  BY <1>1, <1>2
<1> HIDE DEF x, y, xx, xy, X
<1>11. t1 \in Int /\ t2 \in Int /\ t3 \in Int /\ t4 \in Int
  BY <1>1, <1>8, <1>9, SumIsNumber
<1>12. 2 * t4 = c * (n * (n - 1))
  <2>1. children \in Int /\ n \in 0..n
    BY <1>6
  <2>2. 2 * SumOf(Ranks(n, children), n) = children * (n * (n - 1))
    BY <1>1, <2>1, SumOfRanks
  <2> QED  BY <1>9, <2>2
<1>13. t2 <= (n - 1) * X
  BY <1>1, <1>6, <1>7, <1>8, SumBelow
<1>14. 0 <= t2
  <2> DEFINE T == {m \in Nat : m <= n => 0 <= SumOf(x, m)}
  <2>0. /\ SumOf(x, 0) = 0
        /\ \A m \in 0..n : SumOf(x, m) \in Int
        /\ \A m \in 1..n : SumOf(x, m) = SumOf(x, m - 1) + x[m]
    BY <1>1, <1>8, SumOfNext
  <2>1. 0 \in T
    BY <2>0
  <2>2. ASSUME NEW m \in Nat, m \in T
        PROVE  m + 1 \in T
    <3> SUFFICES ASSUME m + 1 <= n
                 PROVE  0 <= SumOf(x, m + 1)
      OBVIOUS
    <3>1. m + 1 \in 1..n /\ (m + 1) - 1 = m /\ m \in 0..n
      BY <1>1
    <3>2. SumOf(x, m + 1) = SumOf(x, m) + x[m + 1] /\ SumOf(x, m) \in Int /\ 0 <= SumOf(x, m)
      BY <2>0, <2>2, <3>1
    <3>3. 0 <= x[m + 1] /\ x[m + 1] \in Int
      BY <1>7, <1>8, <3>1
    <3> QED  BY <3>2, <3>3
  <2> HIDE DEF T
  <2>3. Nat \subseteq T
    BY <2>1, <2>2, Induction
  <2> QED  BY <1>1, <2>3 DEF T
<1>15. Cover(t1, t2, t2, n) >= 1
  <2>1. x[1] # x[n]
    BY <1>7, <1>8
  <2> QED  BY <1>1, <1>6, <1>8, <1>9, <2>1, VariancePositive
<1>16. Gain(t1, t2, t3, n, X, c) >= 0
  <2>1. c \in Nat
    OBVIOUS
  <2>2. \A i \in 1..n : 0 <= x[i] /\ x[i] <= X
    BY <1>7
  <2> HIDE DEF c
  <2> QED  BY <1>1, <1>6, <1>7, <1>8, <1>9, <1>10, <2>1, <2>2, GainIsNotNegative
<1> HIDE DEF t1, t2, t3, t4
<1>17. det >= 1 /\ det \in Int
  BY <1>1, <1>11, <1>15 DEF Cover
<1>18. lr.slope = slope /\ lr.intercept = intercept /\ lr.den = det * n
  BY <1>4, <1>17
<1>19. slope >= 0
  BY <1>3, <1>18
<1>20. c \in Nat
  OBVIOUS
<1> HIDE DEF det, slope, intercept, c
<1>21. det = t1 * n - t2 * t2 /\ slope = t3 * n - t2 * t4 /\ intercept = t1 * t4 - t2 * t3
  BY DEF det, slope, intercept
<1>22. /\ c * (det * n) <= 2 * (slope * X)
       /\ 2 * intercept + c * det <= c * (det * n)
       /\ c * (det * n) <= 2 * (slope * X + intercept)
  BY <1>1, <1>6, <1>7, <1>11, <1>12, <1>13, <1>14, <1>16, <1>17, <1>19, <1>20, <1>21,
     LineParts
<1>23. c * det \in Nat \ {0}
  <2>1. c \in Nat \ {0} /\ det \in Nat \ {0}
    BY <1>17 DEF c
  <2> QED  BY <2>1, PositiveProduct
<1>24. intercept \in Int /\ c * (det * n) \in Int
  BY <1>1, <1>11, <1>17, <1>20, <1>21
<1>25. 2 * intercept < c * (det * n)
  BY <1>22, <1>23, <1>24
<1> QED  BY <1>3, <1>18, <1>22, <1>24, <1>25 DEF LineEnds, X, n, c, lr

(* A regression over different keys sends the last to a later child than   *)
(* the first, whatever the keys between them.                              *)
THEOREM TrainDivides ==
  ASSUME NEW keys \in Seq(Int), Len(keys) > 0, Rising(keys),
         keys[1] # keys[Len(keys)], NEW children \in Nat, children >= 2
  PROVE  Predict(Train(keys, children), children, keys[1])
           < Predict(Train(keys, children), children, keys[Len(keys)])
<1> DEFINE lr == Train(keys, children)
           X == keys[Len(keys)] - keys[1]
           v == Value(lr, keys[1])
           w == Value(lr, keys[Len(keys)])
           p == v \div lr.den
           q == w \div lr.den
           d == lr.den
<1>1. keys[1] \in Int /\ keys[Len(keys)] \in Int /\ X \in Int
  OBVIOUS
<1>2. lr \in Lines /\ lr.minValue = keys[1]
  BY TrainFits
<1>3. LineEnds(lr, children, X)
  BY TrainParts
<1>4. /\ Predict(lr, children, keys[1])
           = IF p < 0 THEN 0 ELSE IF p > children - 1 THEN children - 1 ELSE p
      /\ Predict(lr, children, keys[Len(keys)])
           = IF q < 0 THEN 0 ELSE IF q > children - 1 THEN children - 1 ELSE q
  <2> HIDE DEF lr
  <2>1. children \in Nat \ {0}
    OBVIOUS
  <2> QED  BY <1>1, <1>2, <2>1, PredictIs
<1> HIDE DEF lr
<1>5. d \in Nat \ {0} /\ lr.slope \in Int /\ lr.intercept \in Int
  BY <1>2 DEF Lines
<1>6. v = lr.intercept /\ w = lr.slope * X + lr.intercept
  BY <1>1, <1>2, <1>5 DEF Value
<1>7. v \in Int /\ w \in Int
  BY <1>1, <1>5, <1>6
<1>8. /\ children * d <= 2 * (w - v) /\ 2 * v < children * d /\ children * d <= 2 * w
  <2>1. lr.slope * X \in Int
    BY <1>1, <1>5
  <2> QED  BY <1>3, <1>5, <1>6, <2>1 DEF LineEnds
<1> HIDE DEF v, w, d
<1>9. /\ p \in Int /\ p * d <= v /\ v < p * d + d
      /\ q \in Int /\ q * d <= w /\ w < q * d + d
  BY <1>5, <1>7, Quotient DEF d
<1> HIDE DEF p, q
<1>10. children * d \in Nat /\ 2 * d <= children * d
  <2>1. children - 2 \in Nat /\ d \in Nat
    BY <1>5
  <2>2. (children - 2) * d \in Nat
    BY <2>1, NotNegativeProduct
  <2>3. children * d = (children - 2) * d + 2 * d
    BY <1>5
  <2> QED  BY <1>5, <2>2, <2>3
<1>11. p < q
  <2> SUFFICES ASSUME q <= p PROVE FALSE
    BY <1>9
  <2>1. d * q <= d * p
    BY <1>5, <1>9, ProductRises
  <2>2. d * q = q * d /\ d * p = p * d /\ q * d \in Int /\ p * d \in Int
    BY <1>5, <1>9
  <2>3. d <= w - v
    BY <1>5, <1>7, <1>8, <1>10
  <2> QED  BY <1>5, <1>7, <1>9, <2>1, <2>2, <2>3
<1>12. q >= 1
  <2> SUFFICES ASSUME q <= 0 PROVE FALSE
    BY <1>9
  <2>1. d * q <= d * 0 /\ d * 0 = 0 /\ d * q = q * d /\ q * d \in Int
    BY <1>5, <1>9, ProductRises
  <2> QED  BY <1>5, <1>7, <1>8, <1>9, <1>10, <2>1
<1>13. p < children - 1
  <2> SUFFICES ASSUME children - 1 <= p PROVE FALSE
    BY <1>9
  <2>1. children - 1 \in Int /\ d * (children - 1) <= d * p
    BY <1>5, <1>9, ProductRises
  <2>2. d * (children - 1) = children * d - d /\ d * p = p * d /\ p * d \in Int
    BY <1>5, <1>9
  <2> QED  BY <1>5, <1>7, <1>8, <1>9, <1>10, <2>1, <2>2
<1> QED  BY <1>4, <1>9, <1>11, <1>12, <1>13 DEF lr

----------------------------------------------------------------------------
(* The first element of which something holds, the positions being I.      *)
LeastOf(I) == IF I # {} THEN Min(I) ELSE 0

LEMMA LeastOfIs ==
  ASSUME NEW n \in Nat, NEW I, I \subseteq 1..n
  PROVE  /\ LeastOf(I) \in 0..n
         /\ LeastOf(I) = 0 <=> I = {}
         /\ I # {} => LeastOf(I) \in I /\ \A i \in I : LeastOf(I) <= i
<1>1. CASE I = {}
  BY <1>1 DEF LeastOf
<1>2. CASE I # {}
  <2>1. I \subseteq Nat
    OBVIOUS
  <2>2. \E x \in I : \A y \in I : x <= y
    BY <1>2, <2>1, LeastNumber
  <2>3. Min(I) \in I /\ \A y \in I : Min(I) <= y
    BY <2>2 DEF Min
  <2>4. LeastOf(I) = Min(I)
    BY <1>2 DEF LeastOf
  <2>5. LeastOf(I) \in 1..n
    BY <2>3, <2>4
  <2> QED  BY <1>2, <2>3, <2>4, <2>5
<1> QED  BY <1>1, <1>2

----------------------------------------------------------------------------
(* Binary search nodes.                                                    *)
AtLeast(s, k) == {i \in 1..Len(s) : s[i] >= k}

LEMMA PredictBSIs ==
  ASSUME NEW s, NEW k
  PROVE  PredictBS(s, k) = IF LeastOf(AtLeast(s, k)) = 0 THEN Len(s)
                           ELSE LeastOf(AtLeast(s, k)) - 1
BY DEF PredictBS, SelectInSeq, LeastOf, AtLeast

LEMMA BSInRange ==
  ASSUME NEW s \in Seq(Int), NEW k \in Int
  PROVE  PredictBS(s, k) \in 0..Len(s)
<1>1. AtLeast(s, k) \subseteq 1..Len(s) /\ Len(s) \in Nat
  BY DEF AtLeast
<1>2. LeastOf(AtLeast(s, k)) \in 0..Len(s)
  BY <1>1, LeastOfIs
<1> QED  BY <1>1, <1>2, PredictBSIs

LEMMA BSKeepsOrder ==
  ASSUME NEW s \in Seq(Int), NEW j \in Int, NEW k \in Int, j <= k
  PROVE  PredictBS(s, j) <= PredictBS(s, k)
<1> DEFINE n == Len(s)
           I == AtLeast(s, j)
           J == AtLeast(s, k)
<1>1. I \subseteq 1..n /\ J \subseteq 1..n /\ n \in Nat
  BY DEF AtLeast
<1>2. J \subseteq I
  <2>1. \A i \in 1..n : s[i] \in Int
    OBVIOUS
  <2> QED  BY <2>1 DEF AtLeast
<1>3. /\ PredictBS(s, j) = IF LeastOf(I) = 0 THEN n ELSE LeastOf(I) - 1
      /\ PredictBS(s, k) = IF LeastOf(J) = 0 THEN n ELSE LeastOf(J) - 1
  BY PredictBSIs
<1> HIDE DEF n, I, J
<1>4. /\ LeastOf(I) \in 0..n /\ LeastOf(J) \in 0..n
      /\ LeastOf(J) # 0 => LeastOf(J) \in J
      /\ LeastOf(I) = 0 => I = {}
      /\ \A i \in I : LeastOf(I) <= i
  BY <1>1, LeastOfIs
<1> QED  BY <1>1, <1>2, <1>3, <1>4

LEMMA BSChildrenIs ==
  ASSUME NEW c \in Nat
  PROVE  BSChildren(c) \in Nat /\ BSChildren(c) >= 2
<1> DEFINE m == Min({c, MaxKeyNum + 1})
<1>1. MaxKeyNum \in Nat
  BY InnerModelsAssumption
<1>2. m \in Nat
  BY <1>1, MinOfTwo
<1> HIDE DEF m
<1>3. Max({2, m}) = IF 2 >= m THEN 2 ELSE m
  BY <1>2, MaxOfTwo
<1>4. BSChildren(c) = Max({2, m})
  BY DEF BSChildren, m
<1> QED  BY <1>2, <1>3, <1>4

LEMMA SeparatorsAre ==
  ASSUME NEW ks \in Seq(Int), Len(ks) > 0, NEW c \in Nat, c >= 2
  PROVE  Separators(ks, c) \in Seq(Int) /\ Len(Separators(ks, c)) = c - 1
<1> DEFINE n == Len(ks)
           v == n \div c
<1>1. n \in Nat /\ n > 0 /\ c \in Nat \ {0} /\ n \in Int
  OBVIOUS
<1>2. v \in Int /\ v * c <= n /\ n < v * c + c
  BY <1>1, Quotient
<1>3. \A i \in 1..n : ks[i] \in Int
  OBVIOUS
<1>4. Separators(ks, c) = [i \in 1..c - 1 |-> ks[1 + i * v]]
  BY DEF Separators
<1> HIDE DEF n, v
<1>5. v >= 0
  <2> SUFFICES ASSUME v < 0 PROVE FALSE
    BY <1>2
  <2>1. (-1) - v \in Nat /\ c \in Nat
    BY <1>2
  <2>2. ((-1) - v) * c \in Nat
    BY <2>1, NotNegativeProduct
  <2>3. ((-1) - v) * c = 0 - v * c - c /\ v * c \in Int
    BY <1>1, <1>2
  <2> QED  BY <1>1, <1>2, <2>2, <2>3
<1>6. ASSUME NEW i \in 1..c - 1
      PROVE  1 + i * v \in 1..n
  <2>1. v \in Nat /\ i \in Nat /\ (c - 1) - i \in Nat
    BY <1>2, <1>5
  <2>2. i * v \in Nat /\ ((c - 1) - i) * v \in Nat
    BY <2>1, NotNegativeProduct
  <2>3. v * c = i * v + ((c - 1) - i) * v + v
    BY <2>1
  <2>4. v = 0 => i * v = 0
    OBVIOUS
  <2> QED  BY <1>1, <1>2, <2>1, <2>2, <2>3, <2>4
<1>7. \A i \in 1..c - 1 : ks[1 + i * v] \in Int
  BY <1>3, <1>6
<1>8. c - 1 \in Nat
  OBVIOUS
<1>9. [i \in 1..c - 1 |-> ks[1 + i * v]] \in [1..c - 1 -> Int]
  BY <1>7
<1> DEFINE s == [i \in 1..c - 1 |-> ks[1 + i * v]]
<1> HIDE DEF s
<1>10. s \in [1..c - 1 -> Int]
  BY <1>9 DEF s
<1>11. s \in Seq(Int) /\ Len(s) = c - 1
  BY <1>8, <1>10
<1> QED  BY <1>4, <1>11 DEF s

----------------------------------------------------------------------------
(* Histograms.                                                             *)
LEMMA BucketIs ==
  ASSUME NEW low \in Int, NEW range \in Nat, NEW c \in Nat \ {0}, NEW k \in Int
  PROVE  LET b == ((k - low) * c) \div range
         IN Bucket(low, range, c, k)
              = IF range = 0 \/ b < 0 THEN 0 ELSE IF b > c - 1 THEN c - 1 ELSE b
<1> DEFINE b == ((k - low) * c) \div range
           m == Min({c - 1, b})
<1>1. CASE range = 0
  BY <1>1 DEF Bucket
<1>2. CASE range # 0
  <2>1. (k - low) * c \in Int /\ range \in Nat \ {0}
    BY <1>2
  <2>2. b \in Int
    BY <2>1, Quotient
  <2>3. Bucket(low, range, c, k) = Max({0, m})
    BY <1>2 DEF Bucket
  <2> HIDE DEF b
  <2>4. m = IF c - 1 <= b THEN c - 1 ELSE b
    BY <2>2, MinOfTwo
  <2>5. m \in Int
    BY <2>2, <2>4
  <2> HIDE DEF m
  <2>6. Max({0, m}) = IF 0 >= m THEN 0 ELSE m
    BY <2>5, MaxOfTwo
  <2>7. Bucket(low, range, c, k)
          = IF range = 0 \/ b < 0 THEN 0 ELSE IF b > c - 1 THEN c - 1 ELSE b
    BY <1>2, <2>2, <2>3, <2>4, <2>6
  <2> QED  BY <2>7 DEF b
<1> QED  BY <1>1, <1>2

LEMMA BucketInRange ==
  ASSUME NEW low \in Int, NEW range \in Nat, NEW c \in Nat \ {0}, NEW k \in Int
  PROVE  Bucket(low, range, c, k) \in 0..c - 1
<1> DEFINE b == ((k - low) * c) \div range
<1>1. Bucket(low, range, c, k)
        = IF range = 0 \/ b < 0 THEN 0 ELSE IF b > c - 1 THEN c - 1 ELSE b
  BY BucketIs
<1>2. range # 0 => b \in Int
  <2>1. (k - low) * c \in Int
    OBVIOUS
  <2> QED  BY <2>1, Quotient
<1> HIDE DEF b
<1>3. CASE range = 0
  BY <1>1, <1>3
<1>4. CASE range # 0
  <2>1. b \in Int
    BY <1>2, <1>4
  <2>2. Bucket(low, range, c, k) = IF b < 0 THEN 0 ELSE IF b > c - 1 THEN c - 1 ELSE b
    BY <1>1, <1>4
  <2> QED  BY <2>1, <2>2
<1> QED  BY <1>3, <1>4

LEMMA BucketKeepsOrder ==
  ASSUME NEW low \in Int, NEW range \in Nat, NEW c \in Nat \ {0},
         NEW j \in Int, NEW k \in Int, j <= k
  PROVE  Bucket(low, range, c, j) <= Bucket(low, range, c, k)
<1> DEFINE a == ((j - low) * c) \div range
           b == ((k - low) * c) \div range
<1>1. /\ Bucket(low, range, c, j)
           = IF range = 0 \/ a < 0 THEN 0 ELSE IF a > c - 1 THEN c - 1 ELSE a
      /\ Bucket(low, range, c, k)
           = IF range = 0 \/ b < 0 THEN 0 ELSE IF b > c - 1 THEN c - 1 ELSE b
  BY BucketIs
<1>2. range # 0 => a \in Int /\ b \in Int /\ a <= b
  <2> SUFFICES ASSUME range # 0 PROVE a \in Int /\ b \in Int /\ a <= b
    OBVIOUS
  <2>1. (j - low) * c \in Int /\ (k - low) * c \in Int /\ range \in Nat \ {0}
    OBVIOUS
  <2>2. k - j \in Nat /\ c \in Nat
    OBVIOUS
  <2>3. (k - j) * c \in Nat /\ (k - low) * c = (j - low) * c + (k - j) * c
    BY <2>2, NotNegativeProduct
  <2>4. (j - low) * c <= (k - low) * c
    BY <2>1, <2>3
  <2> QED  BY <2>1, <2>4, Quotient, QuotientRises
<1> HIDE DEF a, b
<1>3. CASE range = 0
  BY <1>1, <1>3
<1>4. CASE range # 0
  <2>1. a \in Int /\ b \in Int /\ a <= b
    BY <1>2, <1>4
  <2>2. /\ Bucket(low, range, c, j) = IF a < 0 THEN 0 ELSE IF a > c - 1 THEN c - 1 ELSE a
        /\ Bucket(low, range, c, k) = IF b < 0 THEN 0 ELSE IF b > c - 1 THEN c - 1 ELSE b
    BY <1>1, <1>4
  <2> QED  BY <2>1, <2>2
<1> QED  BY <1>3, <1>4

(* The keys up to a bucket, and their rounded share of the children.       *)
UpTo(ks, c, b) ==
  {i \in 1..Len(ks) : Bucket(ks[1], ks[Len(ks)] - ks[1], c, ks[i]) <= b}

Share(ks, c, b) ==
  (2 * Cardinality(UpTo(ks, c, b)) * (c - 1) + Len(ks)) \div (2 * Len(ks))

LEMMA ShareInRange ==
  ASSUME NEW ks \in Seq(Int), Len(ks) > 0, Rising(ks), NEW c \in Nat \ {0},
         NEW b \in Int
  PROVE  Share(ks, c, b) \in 0..c - 1
<1> DEFINE n == Len(ks)
           u == Cardinality(UpTo(ks, c, b))
           a == 2 * u * (c - 1) + n
           q == a \div (2 * n)
<1>1. n \in Nat \ {0}
  OBVIOUS
<1>2. u \in Nat /\ u <= n
  <2>1. IsFiniteSet(1..n) /\ Cardinality(1..n) = n
    BY <1>1, FS_Interval
  <2>2. UpTo(ks, c, b) \subseteq 1..n
    BY DEF UpTo
  <2>3. IsFiniteSet(UpTo(ks, c, b)) /\ Cardinality(UpTo(ks, c, b)) <= n
    BY <2>1, <2>2, FS_Subset
  <2>4. Cardinality(UpTo(ks, c, b)) \in Nat
    BY <2>3, FS_CardinalityType
  <2> QED  BY <2>3, <2>4
<1> HIDE DEF n, u
<1>3. c - 1 \in Nat
  OBVIOUS
<1>4. u * (c - 1) \in Nat /\ (n - u) * (c - 1) \in Nat
  <2>1. n - u \in Nat
    BY <1>1, <1>2
  <2> QED  BY <1>2, <1>3, <2>1, NotNegativeProduct
<1>5. a = 2 * (u * (c - 1)) + n /\ a \in Nat
  <2>1. 2 * u * (c - 1) = 2 * (u * (c - 1))
    BY <1>2
  <2> QED  BY <1>1, <1>4, <2>1
<1>6. q \in Int /\ q * (2 * n) <= a /\ a < q * (2 * n) + 2 * n
  <2>1. 2 * n \in Nat \ {0} /\ a \in Int
    BY <1>1, <1>5
  <2> HIDE DEF a
  <2> QED  BY <2>1, Quotient
<1>7. n * (c - 1) = u * (c - 1) + (n - u) * (c - 1)
  BY <1>1, <1>2, <1>3
<1>8. n * (c - 1) \in Nat
  BY <1>4, <1>7
<1> HIDE DEF a, q
<1>9. q < c
  <2> SUFFICES ASSUME c <= q PROVE FALSE
    BY <1>6
  <2>1. n * c <= n * q
    BY <1>1, <1>6, ProductRises
  <2>2. n * c = n * (c - 1) + n /\ q * (2 * n) = 2 * (n * q) /\ n * q \in Int
    BY <1>1, <1>6
  <2> DEFINE nq == n * q
             nc == n * c
             m  == n * (c - 1)
             um == u * (c - 1)
             vm == (n - u) * (c - 1)
             d  == q * (2 * n)
  <2>3. /\ n \in Nat /\ n > 0 /\ nq \in Int /\ m \in Nat /\ um \in Nat /\ vm \in Nat
        /\ a = 2 * um + n /\ d <= a /\ m = um + vm /\ nc <= nq
        /\ nc = m + n /\ d = 2 * nq
    BY <1>1, <1>4, <1>5, <1>6, <1>7, <1>8, <2>1, <2>2
  <2> HIDE DEF nq, nc, m, um, vm, d
  <2> QED  BY ONLY <2>3
<1>10. q >= 0
  <2> SUFFICES ASSUME q <= -1 PROVE FALSE
    BY <1>6
  <2>1. n * q <= n * (-1)
    BY <1>1, <1>6, ProductRises
  <2>2. n * (-1) = 0 - n /\ q * (2 * n) = 2 * (n * q) /\ n * q \in Int
    BY <1>1, <1>6
  <2> QED  BY <1>1, <1>5, <1>6, <2>1, <2>2
<1>11. Share(ks, c, b) = q
  BY DEF Share, q, a, u, n
<1> QED  BY <1>6, <1>9, <1>10, <1>11

LEMMA ShareRises ==
  ASSUME NEW ks \in Seq(Int), Len(ks) > 0, Rising(ks), NEW c \in Nat \ {0},
         NEW a \in Int, NEW b \in Int, a <= b
  PROVE  Share(ks, c, a) <= Share(ks, c, b)
<1> DEFINE n == Len(ks)
           u == Cardinality(UpTo(ks, c, a))
           v == Cardinality(UpTo(ks, c, b))
<1>1. n \in Nat \ {0} /\ 1 \in 1..n /\ n \in 1..n /\ \A i \in 1..n : ks[i] \in Int
  OBVIOUS
<1>2. \A i \in 1..n : Bucket(ks[1], ks[n] - ks[1], c, ks[i]) \in Int
  <2>1. ks[1] <= ks[n]
    BY <1>1 DEF Rising
  <2>2. ks[1] \in Int /\ ks[n] - ks[1] \in Nat
    BY <1>1, <2>1
  <2>3. \A i \in 1..n : Bucket(ks[1], ks[n] - ks[1], c, ks[i]) \in 0..c - 1
    BY <1>1, <2>2, BucketInRange
  <2> QED  BY <2>3
<1>3. UpTo(ks, c, a) \subseteq UpTo(ks, c, b) /\ UpTo(ks, c, b) \subseteq 1..n
  BY <1>2 DEF UpTo
<1>4. IsFiniteSet(1..n)
  BY <1>1, FS_Interval
<1>5. IsFiniteSet(UpTo(ks, c, b)) /\ IsFiniteSet(UpTo(ks, c, a))
  BY <1>3, <1>4, FS_Subset
<1>6. u \in Nat /\ v \in Nat /\ u <= v
  BY <1>3, <1>5, FS_Subset, FS_CardinalityType
<1>7. /\ Share(ks, c, a) = (2 * u * (c - 1) + n) \div (2 * n)
      /\ Share(ks, c, b) = (2 * v * (c - 1) + n) \div (2 * n)
  BY DEF Share
<1> HIDE DEF n, u, v
<1>8. c - 1 \in Nat /\ v - u \in Nat
  BY <1>6
<1>9. (v - u) * (c - 1) \in Nat /\ u * (c - 1) \in Nat
  BY <1>6, <1>8, NotNegativeProduct
<1>10. /\ 2 * u * (c - 1) = 2 * (u * (c - 1))
       /\ 2 * v * (c - 1) = 2 * (u * (c - 1)) + 2 * ((v - u) * (c - 1))
  BY <1>6, <1>8
<1>11. /\ 2 * u * (c - 1) + n \in Int /\ 2 * v * (c - 1) + n \in Int
       /\ 2 * u * (c - 1) + n <= 2 * v * (c - 1) + n /\ 2 * n \in Nat \ {0}
  BY <1>1, <1>9, <1>10
<1> QED  BY <1>7, <1>11, QuotientRises


(* The child of a bucket: no more than its share, and at most one more than*)
(* the child of the bucket before.                                         *)
Capped(t, r, m) ==
  t = [b \in 0..m |-> IF b = 0 THEN r[b] ELSE Min({r[b], t[b - 1] + 1})]

LEMMA CappedExists ==
  ASSUME NEW m \in Nat, NEW r \in [Nat -> Int]
  PROVE  \E t : Capped(t, r, m)
<1> DEFINE g == [p \in Nat \X Int |-> Min({r[p[1]], p[2] + 1})]
<1>1. ASSUME NEW a \in Nat, NEW v \in Int
      PROVE  g[<<a, v>>] = Min({r[a], v + 1}) /\ Min({r[a], v + 1}) \in Int
  <2>1. r[a] \in Int /\ v + 1 \in Int
    OBVIOUS
  <2>2. Min({r[a], v + 1}) \in Int
    BY <2>1, MinOfTwo
  <2> QED  BY <2>2
<1>2. g \in [Nat \X Int -> Int]
  <2>1. ASSUME NEW p \in Nat \X Int
        PROVE  Min({r[p[1]], p[2] + 1}) \in Int
    <3>1. p[1] \in Nat /\ p[2] \in Int
      OBVIOUS
    <3>2. r[p[1]] \in Int /\ p[2] + 1 \in Int
      BY <3>1
    <3> QED  BY <3>2, MinOfTwo
  <2> QED  BY <2>1
<1> HIDE DEF g
<1>3. \E h : Recurs(h, Int, r[0], g)
  <2>1. r[0] \in Int
    OBVIOUS
  <2> QED  BY <1>2, <2>1, Recursion
<1>4. PICK h : /\ h \in [Nat -> Int] /\ h[0] = r[0]
               /\ \A i \in Nat : h[i + 1] = g[<<i + 1, h[i]>>]
  BY <1>3 DEF Recurs
<1> DEFINE t == [b \in 0..m |-> h[b]]
<1>5. ASSUME NEW b \in 0..m
      PROVE  t[b] = IF b = 0 THEN r[b] ELSE Min({r[b], t[b - 1] + 1})
  <2>1. CASE b = 0
    BY <1>4, <2>1
  <2>2. CASE b # 0
    <3>1. b - 1 \in Nat /\ (b - 1) + 1 = b /\ b - 1 \in 0..m /\ b \in Nat
      BY <2>2
    <3>2. h[b] = g[<<b, h[b - 1]>>] /\ h[b - 1] \in Int
      BY <1>4, <3>1
    <3>3. g[<<b, h[b - 1]>>] = Min({r[b], h[b - 1] + 1})
      BY <1>1, <3>1, <3>2
    <3> QED  BY <2>2, <3>1, <3>2, <3>3
  <2> QED  BY <2>1, <2>2
<1>6. t = [b \in 0..m |-> t[b]]
  OBVIOUS
<1> HIDE DEF t
<1>7. Capped(t, r, m)
  BY <1>5, <1>6 DEF Capped
<1> QED  BY <1>7

(* It follows the shares up from one bucket to the next, by steps of one.  *)
LEMMA CappedRises ==
  ASSUME NEW m \in Nat, NEW r \in [Nat -> Int], NEW t, Capped(t, r, m),
         \A b \in Nat : 0 <= r[b] /\ r[b] <= r[b + 1]
  PROVE  /\ t \in [0..m -> Int] /\ t[0] = r[0]
         /\ \A b \in 0..m : 0 <= t[b] /\ t[b] <= r[b]
         /\ \A b \in 1..m : t[b - 1] <= t[b] /\ t[b] <= t[b - 1] + 1
<1> DEFINE Good(b) == t[b] \in Int /\ 0 <= t[b] /\ t[b] <= r[b]
<1>1. \A b \in 0..m : t[b] = IF b = 0 THEN r[b] ELSE Min({r[b], t[b - 1] + 1})
  BY DEF Capped
<1>2. \A b \in Nat : r[b] \in Int
  OBVIOUS
<1>3. ASSUME NEW b \in 1..m, Good(b - 1)
      PROVE  Good(b) /\ t[b - 1] <= t[b] /\ t[b] <= t[b - 1] + 1
  <2>1. b \in 0..m /\ b # 0 /\ b - 1 \in Nat /\ (b - 1) + 1 = b /\ b \in Nat
    OBVIOUS
  <2>2. t[b] = Min({r[b], t[b - 1] + 1})
    BY <1>1, <2>1
  <2>3. r[b] \in Int /\ r[b - 1] \in Int /\ r[b - 1] <= r[b]
    BY <1>2, <2>1
  <2>4. t[b - 1] \in Int /\ 0 <= t[b - 1] /\ t[b - 1] <= r[b - 1] /\ t[b - 1] + 1 \in Int
    BY <1>3
  <2>5. t[b] = IF r[b] <= t[b - 1] + 1 THEN r[b] ELSE t[b - 1] + 1
    BY <2>2, <2>3, <2>4, MinOfTwo
  <2> QED  BY <2>3, <2>4, <2>5
<1>4. Good(0) /\ t[0] = r[0]
  <2>1. 0 \in 0..m
    OBVIOUS
  <2>2. t[0] = r[0] /\ r[0] \in Int /\ 0 <= r[0]
    BY <1>1, <1>2, <2>1
  <2> QED  BY <2>2
<1> DEFINE S == {b \in Nat : b <= m => Good(b)}
<1>5. Nat \subseteq S
  <2>1. 0 \in S
    BY <1>4
  <2>2. ASSUME NEW b \in Nat, b \in S
        PROVE  b + 1 \in S
    <3> SUFFICES ASSUME b + 1 <= m PROVE Good(b + 1)
      OBVIOUS
    <3>1. b + 1 \in 1..m /\ (b + 1) - 1 = b /\ Good(b)
      BY <2>2
    <3> HIDE DEF Good
    <3>2. Good((b + 1) - 1)
      BY <3>1
    <3> QED  BY <1>3, <3>1, <3>2
  <2> HIDE DEF S
  <2> QED  BY <2>1, <2>2, Induction
<1>6. \A b \in 0..m : Good(b)
  <2> HIDE DEF Good
  <2>1. \A b \in 0..m : b \in Nat /\ b <= m
    OBVIOUS
  <2> QED  BY <1>5, <2>1
<1>7. \A b \in 1..m : Good(b - 1)
  <2>1. \A b \in 1..m : b - 1 \in 0..m
    OBVIOUS
  <2> QED  BY <1>6, <2>1
<1>8. t \in [0..m -> Int]
  <2>1. t = [b \in 0..m |-> t[b]]
    BY <1>1 DEF Capped
  <2> QED  BY <1>6, <2>1
<1> QED  BY <1>3, <1>4, <1>6, <1>7, <1>8

Shares(ks, c) == [b \in Nat |-> Share(ks, c, b)]

LEMMA SharesRise ==
  ASSUME NEW ks \in Seq(Int), Len(ks) > 0, Rising(ks), NEW c \in Nat \ {0}
  PROVE  /\ Shares(ks, c) \in [Nat -> Int]
         /\ \A b \in Nat : /\ 0 <= Shares(ks, c)[b] /\ Shares(ks, c)[b] <= c - 1
                           /\ Shares(ks, c)[b] <= Shares(ks, c)[b + 1]
<1> DEFINE r == Shares(ks, c)
<1>1. \A b \in Nat : Share(ks, c, b) \in 0..c - 1
  <2> TAKE b \in Nat
  <2>1. b \in Int
    OBVIOUS
  <2> QED  BY <2>1, ShareInRange
<1>2. \A b \in Nat : Share(ks, c, b) <= Share(ks, c, b + 1)
  <2> TAKE b \in Nat
  <2>1. b \in Int /\ b + 1 \in Int /\ b <= b + 1
    OBVIOUS
  <2> QED  BY <2>1, ShareRises
<1>3. \A b \in Nat : r[b] = Share(ks, c, b)
  BY DEF Shares
<1>4. r = [b \in Nat |-> r[b]]
  BY DEF Shares
<1> HIDE DEF r
<1>5. ASSUME NEW b \in Nat
      PROVE  r[b] \in Int /\ 0 <= r[b] /\ r[b] <= c - 1 /\ r[b] <= r[b + 1]
  <2>1. r[b] = Share(ks, c, b) /\ r[b + 1] = Share(ks, c, b + 1)
    BY <1>3
  <2>2. Share(ks, c, b) \in 0..c - 1 /\ Share(ks, c, b) <= Share(ks, c, b + 1)
    BY <1>1, <1>2
  <2> QED  BY <2>1, <2>2
<1>6. r \in [Nat -> Int]
  BY <1>4, <1>5
<1> QED  BY <1>5, <1>6 DEF r

LEMMA TableIs ==
  ASSUME NEW ks \in Seq(Int), Len(ks) > 0, Rising(ks), NEW c \in Nat \ {0}
  PROVE  Capped(Table(ks, c), Shares(ks, c), c - 1)
<1> DEFINE r == Shares(ks, c)
<1>1. \A b \in 0..c - 1 :
        r[b] = (2 * Cardinality({i \in 1..Len(ks) :
                  Bucket(ks[1], ks[Len(ks)] - ks[1], c, ks[i]) <= b}) * (c - 1) + Len(ks))
               \div (2 * Len(ks))
  BY DEF Shares, Share, UpTo
<1> DEFINE Is(t) ==
             t = [b \in 0..c - 1 |->
                    IF b = 0
                    THEN (2 * Cardinality({i \in 1..Len(ks) :
                            Bucket(ks[1], ks[Len(ks)] - ks[1], c, ks[i]) <= b}) * (c - 1)
                          + Len(ks)) \div (2 * Len(ks))
                    ELSE Min({(2 * Cardinality({i \in 1..Len(ks) :
                                 Bucket(ks[1], ks[Len(ks)] - ks[1], c, ks[i]) <= b}) * (c - 1)
                               + Len(ks)) \div (2 * Len(ks)),
                              t[b - 1] + 1})]
<1>2. Table(ks, c) = CHOOSE t : Is(t)
  BY DEF Table
<1>3. \A t : Is(t) <=> Capped(t, r, c - 1)
  <2> HIDE DEF r
  <2> QED  BY <1>1 DEF Capped
<1> HIDE DEF Is
<1>4. \E t : Capped(t, r, c - 1)
  <2>1. r \in [Nat -> Int]
    BY SharesRise
  <2>2. c - 1 \in Nat
    OBVIOUS
  <2> HIDE DEF r
  <2> QED  BY <2>1, <2>2, CappedExists
<1>5. Is(CHOOSE t : Is(t))
  BY <1>3, <1>4
<1> QED  BY <1>2, <1>3, <1>5

(* What the proofs need of the table.                                      *)
Climbs(t, m) ==
  /\ t \in [0..m -> Int]
  /\ \A b \in 1..m : t[b - 1] <= t[b] /\ t[b] <= t[b - 1] + 1

LEMMA TableClimbs ==
  ASSUME NEW ks \in Seq(Int), Len(ks) > 0, Rising(ks), NEW c \in Nat \ {0}
  PROVE  /\ Climbs(Table(ks, c), c - 1)
         /\ \A b \in 0..c - 1 : Table(ks, c)[b] \in 0..c - 1
<1> DEFINE t == Table(ks, c)
           r == Shares(ks, c)
<1>1. Capped(t, r, c - 1) /\ c - 1 \in Nat
  BY TableIs
<1>2. /\ r \in [Nat -> Int]
      /\ \A b \in Nat : 0 <= r[b] /\ r[b] <= c - 1 /\ r[b] <= r[b + 1]
  BY SharesRise
<1> HIDE DEF t, r
<1>3. /\ t \in [0..c - 1 -> Int]
      /\ \A b \in 0..c - 1 : 0 <= t[b] /\ t[b] <= r[b]
      /\ \A b \in 1..c - 1 : t[b - 1] <= t[b] /\ t[b] <= t[b - 1] + 1
  BY <1>1, <1>2, CappedRises
<1>4. ASSUME NEW b \in 0..c - 1
      PROVE  t[b] \in 0..c - 1
  <2>1. b \in Nat /\ t[b] \in Int /\ 0 <= t[b] /\ t[b] <= r[b]
    BY <1>3
  <2>2. r[b] <= c - 1 /\ r[b] \in Int
    BY <1>2, <2>1
  <2> QED  BY <2>1, <2>2
<1>5. Climbs(t, c - 1)
  BY <1>3 DEF Climbs
<1> QED  BY <1>4, <1>5 DEF t

LEMMA ClimbsInOrder ==
  ASSUME NEW m \in Nat, NEW t, Climbs(t, m), NEW a \in 0..m, NEW b \in 0..m, a <= b
  PROVE  t[a] <= t[b]
<1> DEFINE S == {d \in Nat : a + d <= m => t[a] <= t[a + d]}
<1>1. \A i \in 0..m : t[i] \in Int
  BY DEF Climbs
<1>2. 0 \in S
  <2>1. a + 0 = a
    OBVIOUS
  <2> QED  BY <1>1, <2>1
<1>3. ASSUME NEW d \in Nat, d \in S
      PROVE  d + 1 \in S
  <2> SUFFICES ASSUME a + (d + 1) <= m PROVE t[a] <= t[a + (d + 1)]
    OBVIOUS
  <2>1. a + d \in 0..m /\ a + (d + 1) \in 1..m /\ (a + (d + 1)) - 1 = a + d
    OBVIOUS
  <2>2. t[a + d] <= t[a + (d + 1)]
    BY <2>1 DEF Climbs
  <2>3. t[a] <= t[a + d]
    BY <1>3, <2>1
  <2>4. t[a] \in Int /\ t[a + d] \in Int /\ t[a + (d + 1)] \in Int
    <3>1. a + (d + 1) \in 0..m
      BY <2>1
    <3> QED  BY <1>1, <2>1, <3>1
  <2> QED  BY <2>2, <2>3, <2>4
<1> HIDE DEF S
<1>4. Nat \subseteq S
  BY <1>2, <1>3, Induction
<1>5. b - a \in Nat /\ a + (b - a) = b
  OBVIOUS
<1> QED  BY <1>4, <1>5 DEF S

(* How the table is packed: the rises after a bucket and up to another one *)
(* are as many as the table climbs between them.                           *)
GoesUp(t, a, b) == {i \in a + 1..b : t[i] # t[i - 1]}

LEMMA RisesCounted ==
  ASSUME NEW m \in Nat, NEW t, Climbs(t, m), NEW a \in 0..m, NEW b \in 0..m, a <= b
  PROVE  Cardinality(GoesUp(t, a, b)) = t[b] - t[a]
<1> DEFINE Fits(d) == /\ IsFiniteSet(GoesUp(t, a, a + d))
                      /\ Cardinality(GoesUp(t, a, a + d)) = t[a + d] - t[a]
           S == {d \in Nat : a + d <= m => Fits(d)}
<1>1. \A i \in 0..m : t[i] \in Int
  BY DEF Climbs
<1>2. 0 \in S
  <2>1. GoesUp(t, a, a + 0) = {} /\ a + 0 = a
    BY DEF GoesUp
  <2>2. t[a] - t[a] = 0
    BY <1>1
  <2> QED  BY <2>1, <2>2, FS_EmptySet
<1>3. ASSUME NEW d \in Nat, d \in S
      PROVE  d + 1 \in S
  <2> SUFFICES ASSUME a + (d + 1) <= m PROVE Fits(d + 1)
    OBVIOUS
  <2> DEFINE e == a + (d + 1)
             R == GoesUp(t, a, a + d)
  <2>1. a + d \in 0..m /\ e \in 1..m /\ e \in 0..m /\ e - 1 = a + d /\ a + d <= m
    OBVIOUS
  <2>2. IsFiniteSet(R) /\ Cardinality(R) = t[a + d] - t[a]
    BY <1>3, <2>1
  <2>3. t[e - 1] <= t[e] /\ t[e] <= t[e - 1] + 1
    BY <2>1 DEF Climbs
  <2>4. t[a] \in Int /\ t[a + d] \in Int /\ t[e] \in Int
    BY <1>1, <2>1
  <2>5. e \notin R
    BY <2>1 DEF GoesUp
  <2>6. CASE t[e] = t[e - 1]
    <3>1. GoesUp(t, a, e) = R
      BY <2>1, <2>6 DEF GoesUp
    <3> QED  BY <2>1, <2>2, <2>6, <3>1
  <2>7. CASE t[e] # t[e - 1]
    <3>1. GoesUp(t, a, e) = R \cup {e}
      BY <2>1, <2>7 DEF GoesUp
    <3>2. IsFiniteSet(R \cup {e}) /\ Cardinality(R \cup {e}) = Cardinality(R) + 1
      BY <2>2, <2>5, FS_AddElement
    <3> HIDE DEF R, e
    <3>3. t[e] = t[a + d] + 1
      BY <2>1, <2>3, <2>4, <2>7
    <3>4. Cardinality(R \cup {e}) = t[e] - t[a]
      BY <2>2, <2>4, <3>2, <3>3
    <3> QED  BY <3>1, <3>2, <3>4 DEF e
  <2> QED  BY <2>6, <2>7
<1> HIDE DEF S
<1>4. Nat \subseteq S
  BY <1>2, <1>3, Induction
<1>5. b - a \in Nat /\ a + (b - a) = b /\ b <= m
  OBVIOUS
<1> QED  BY <1>4, <1>5 DEF S

(* The buckets of one group: the remainder counts from its first one.      *)
LEMMA Remainder ==
  ASSUME NEW b \in Nat, NEW d \in Nat \ {0}
  PROVE  b % d \in 0..d - 1 /\ b % d <= b
OBVIOUS

LEMMA Division ==
  ASSUME NEW b \in Nat, NEW d \in Nat \ {0}
  PROVE  b \div d \in Nat /\ b = d * (b \div d) + (b % d)
OBVIOUS

LEMMA RemainderIs ==
  ASSUME NEW d \in Nat \ {0}, NEW q \in Int, NEW p \in Int,
         NEW r \in 0..d - 1, NEW s \in 0..d - 1, d * q + r = d * p + s
  PROVE  r = s
<1>1. CASE q = p
  <2>1. d * q = d * p /\ d * q \in Int
    BY <1>1
  <2> QED  BY <2>1
<1>2. CASE q < p
  <2>1. q + 1 <= p /\ q + 1 \in Int /\ d \in Nat
    BY <1>2
  <2>2. d * (q + 1) <= d * p
    BY <2>1, ProductRises
  <2>3. d * (q + 1) = d * q + d /\ d * q \in Int /\ d * p \in Int
    OBVIOUS
  <2> DEFINE u == d * q
             v == d * p
             w == d * (q + 1)
  <2>4. u \in Int /\ v \in Int /\ w <= v /\ w = u + d /\ u + r = v + s
    BY <2>2, <2>3
  <2> HIDE DEF u, v, w
  <2> QED  BY <2>4
<1>3. CASE p < q
  <2>1. p + 1 <= q /\ p + 1 \in Int /\ d \in Nat
    BY <1>3
  <2>2. d * (p + 1) <= d * q
    BY <2>1, ProductRises
  <2>3. d * (p + 1) = d * p + d /\ d * q \in Int /\ d * p \in Int
    OBVIOUS
  <2> DEFINE u == d * q
             v == d * p
             w == d * (p + 1)
  <2>4. u \in Int /\ v \in Int /\ w <= u /\ w = v + d /\ u + r = v + s
    BY <2>2, <2>3
  <2> HIDE DEF u, v, w
  <2> QED  BY <2>4
<1> QED  BY <1>1, <1>2, <1>3

LEMMA RemainderInGroup ==
  ASSUME NEW b \in Nat, NEW d \in Nat \ {0}, NEW i \in b - (b % d)..b
  PROVE  i \in Nat /\ i % d = i - (b - (b % d))
<1> DEFINE s == b % d
<1>1. s \in 0..d - 1 /\ s <= b
  BY Remainder
<1>2. i \in b - s..b
  OBVIOUS
<1>3. b \div d \in Nat /\ b = d * (b \div d) + s
  BY Division
<1> HIDE DEF s
<1>4. i \in Nat /\ i - (b - s) \in 0..d - 1
  BY <1>1, <1>2
<1>5. i \div d \in Nat /\ i = d * (i \div d) + (i % d) /\ i % d \in 0..d - 1
  BY <1>4, Division, Remainder
<1> DEFINE q == i \div d
           p == b \div d
           r == i % d
<1>6. q \in Int /\ p \in Int /\ r \in 0..d - 1 /\ i = d * q + r /\ b = d * p + s
  BY <1>3, <1>5
<1> HIDE DEF q, p, r
<1>7. d * q \in Int /\ d * p \in Int
  BY <1>6
<1>8. d * q + r = d * p + (i - (b - s))
  BY <1>1, <1>2, <1>6, <1>7
<1>9. r = i - (b - s)
  BY <1>4, <1>6, <1>8, RemainderIs
<1> QED  BY <1>4, <1>9 DEF s, r

(* Unpacked the table is as it was.                                        *)
LEMMA DecodeIs ==
  ASSUME NEW m \in Nat, NEW t, Climbs(t, m), NEW b \in 0..m
  PROVE  Decode(Encode(t), b) = t[b]
<1> DEFINE s == b - (b % OffsetBits)
           marked == {i \in DOMAIN t : i % OffsetBits # 0 /\ t[i] # t[i - 1]}
<1>1. OffsetBits \in Nat \ {0}
  BY InnerModelsAssumption
<1>2. DOMAIN t = 0..m /\ b \in Nat /\ \A i \in 0..m : t[i] \in Int
  BY DEF Climbs
<1>3. b % OffsetBits \in 0..OffsetBits - 1 /\ b % OffsetBits <= b
  BY <1>1, <1>2, Remainder
<1>4. s \in 0..m /\ s <= b /\ s \in Nat
  BY <1>2, <1>3
<1>5. \A i \in s..b : i \in Nat /\ i % OffsetBits = i - s
  BY <1>1, <1>2, RemainderInGroup
<1>6. Decode(Encode(t), b) = t[s] + Cardinality(marked \cap s..b)
  BY <1>2 DEF Decode, Encode
<1> HIDE DEF s
<1>7. marked \cap s..b = GoesUp(t, s, b)
  <2>1. \A i \in s..b : i \in DOMAIN t
    BY <1>2, <1>4
  <2>2. \A i \in s..b : i % OffsetBits # 0 <=> i \in s + 1..b
    <3> TAKE i \in s..b
    <3>1. i \in Nat /\ i % OffsetBits = i - s
      BY <1>5
    <3> QED  BY <1>2, <1>4, <3>1
  <2>3. s + 1..b \subseteq s..b
    BY <1>2, <1>4
  <2> QED  BY <2>1, <2>2, <2>3 DEF GoesUp
<1> HIDE DEF marked
<1>8. Cardinality(GoesUp(t, s, b)) = t[b] - t[s]
  BY <1>2, <1>4, RisesCounted
<1>9. t[b] \in Int /\ t[s] \in Int
  BY <1>2, <1>4
<1> QED  BY <1>6, <1>7, <1>8, <1>9


(* Of every key, one that the histogram was not made from as well.         *)
LEMMA HistogramChild ==
  ASSUME NEW ks \in Seq(Int), Len(ks) > 0, Rising(ks), NEW c \in Nat \ {0}, NEW k \in Int
  PROVE  LET b == Bucket(ks[1], ks[Len(ks)] - ks[1], c, k)
         IN b \in 0..c - 1 /\ Decode(Encode(Table(ks, c)), b) = Table(ks, c)[b]
<1> DEFINE b == Bucket(ks[1], ks[Len(ks)] - ks[1], c, k)
<1>1. 1 \in 1..Len(ks) /\ Len(ks) \in 1..Len(ks) /\ 1 <= Len(ks)
  OBVIOUS
<1>2. ks[1] \in Int /\ ks[Len(ks)] \in Int /\ ks[1] <= ks[Len(ks)]
  BY <1>1 DEF Rising
<1>3. ks[Len(ks)] - ks[1] \in Nat
  BY <1>2
<1>4. b \in 0..c - 1
  BY <1>2, <1>3, BucketInRange
<1> HIDE DEF b
<1>5. Climbs(Table(ks, c), c - 1) /\ c - 1 \in Nat
  BY TableClimbs
<1>6. Decode(Encode(Table(ks, c)), b) = Table(ks, c)[b]
  BY <1>4, <1>5, DecodeIs
<1> QED  BY <1>4, <1>6 DEF b

LEMMA HistogramKeepsOrder ==
  ASSUME NEW ks \in Seq(Int), Len(ks) > 0, Rising(ks), NEW c \in Nat \ {0},
         NEW j \in Int, NEW k \in Int, j <= k
  PROVE  Table(ks, c)[Bucket(ks[1], ks[Len(ks)] - ks[1], c, j)]
           <= Table(ks, c)[Bucket(ks[1], ks[Len(ks)] - ks[1], c, k)]
<1>1. 1 \in 1..Len(ks) /\ Len(ks) \in 1..Len(ks) /\ 1 <= Len(ks)
  OBVIOUS
<1>2. ks[1] \in Int /\ ks[Len(ks)] \in Int /\ ks[1] <= ks[Len(ks)]
  BY <1>1 DEF Rising
<1>3. ks[Len(ks)] - ks[1] \in Nat
  BY <1>2
<1> DEFINE a == Bucket(ks[1], ks[Len(ks)] - ks[1], c, j)
           b == Bucket(ks[1], ks[Len(ks)] - ks[1], c, k)
<1>4. a \in 0..c - 1 /\ b \in 0..c - 1
  BY <1>2, <1>3, BucketInRange
<1>5. a <= b
  BY <1>2, <1>3, BucketKeepsOrder
<1> HIDE DEF a, b
<1>6. Climbs(Table(ks, c), c - 1) /\ c - 1 \in Nat
  BY TableClimbs
<1>7. Table(ks, c)[a] <= Table(ks, c)[b]
  BY <1>4, <1>5, <1>6, ClimbsInOrder
<1> QED  BY <1>7 DEF a, b

----------------------------------------------------------------------------
(* Piecewise linear regression.  The points between the segments rise.     *)
Knots(P) ==
  /\ Len(P) = 4
  /\ \A i \in 1..4 : P[i].key \in Int /\ P[i].index \in Int
  /\ \A i \in 2..4 : P[i - 1].key <= P[i].key /\ P[i - 1].index <= P[i].index
  /\ P[1].index = 0

LEMMA KnotsInOrder ==
  ASSUME NEW P, Knots(P), NEW a \in 1..4, NEW b \in 1..4, a <= b
  PROVE  P[a].index <= P[b].index
<1>1. /\ P[1].index \in Int /\ P[2].index \in Int /\ P[3].index \in Int /\ P[4].index \in Int
      /\ P[1].index <= P[2].index /\ P[2].index <= P[3].index /\ P[3].index <= P[4].index
  <2>1. \A i \in 2..4 : P[i - 1].index <= P[i].index
    BY DEF Knots
  <2>2. 2 - 1 = 1 /\ 3 - 1 = 2 /\ 4 - 1 = 3 /\ 2 \in 2..4 /\ 3 \in 2..4 /\ 4 \in 2..4
    OBVIOUS
  <2>3. P[1].index <= P[2].index /\ P[2].index <= P[3].index /\ P[3].index <= P[4].index
    BY <2>1, <2>2
  <2> QED  BY <2>3 DEF Knots
<1>2. a \in {1, 2, 3, 4} /\ b \in {1, 2, 3, 4}
  OBVIOUS
<1> QED  BY <1>1, <1>2

(* Where the segment of a key ends.                                        *)
NotBelow(P, x) == {i \in 1..Len(P) : P[i].key >= x}

KnotBehind(P, x) ==
  IF LeastOf(NotBelow(P, x)) = 0 THEN Len(P) ELSE LeastOf(NotBelow(P, x))

LEMMA PLRIs ==
  ASSUME NEW P, NEW x
  PROVE  PredictPLR(P, x)
           = IF KnotBehind(P, x) = 1 THEN 0
             ELSE IF P[KnotBehind(P, x) - 1].key = P[KnotBehind(P, x)].key
                  THEN P[KnotBehind(P, x) - 1].index
                  ELSE Interpolate(P[KnotBehind(P, x) - 1], P[KnotBehind(P, x)], x)
BY DEF PredictPLR, SelectInSeq, KnotBehind, LeastOf, NotBelow

LEMMA EndsRise ==
  ASSUME NEW P, Knots(P), NEW x \in Int, NEW z \in Int, x <= z
  PROVE  KnotBehind(P, x) \in 1..4 /\ KnotBehind(P, z) \in 1..4 /\ KnotBehind(P, x) <= KnotBehind(P, z)
<1> DEFINE I == NotBelow(P, x)
           J == NotBelow(P, z)
<1>1. Len(P) = 4 /\ \A i \in 1..4 : P[i].key \in Int
  BY DEF Knots
<1>2. I \subseteq 1..4 /\ J \subseteq 1..4 /\ J \subseteq I /\ 4 \in Nat
  BY <1>1 DEF NotBelow
<1>3. /\ KnotBehind(P, x) = IF LeastOf(I) = 0 THEN 4 ELSE LeastOf(I)
      /\ KnotBehind(P, z) = IF LeastOf(J) = 0 THEN 4 ELSE LeastOf(J)
  BY <1>1 DEF KnotBehind
<1> HIDE DEF I, J
<1>4. /\ LeastOf(I) \in 0..4 /\ LeastOf(J) \in 0..4
      /\ LeastOf(J) # 0 => LeastOf(J) \in J
      /\ LeastOf(I) = 0 => I = {}
      /\ \A i \in I : LeastOf(I) <= i
  BY <1>2, LeastOfIs
<1>5. LeastOf(J) # 0 => LeastOf(I) # 0 /\ LeastOf(I) <= LeastOf(J)
  BY <1>2, <1>4
<1> QED  BY <1>3, <1>4, <1>5

(* A value between two points is between their indexes.                    *)
KnotsAround(from, to) ==
  /\ from.key \in Int /\ to.key \in Int /\ from.key < to.key
  /\ from.index \in Int /\ to.index \in Int /\ from.index <= to.index

OnLine(from, to, x) ==
  ((to.index - from.index) * (x - to.key)) \div (to.key - from.key)

LEMMA InterpolateIs ==
  ASSUME NEW from, NEW to, KnotsAround(from, to), NEW x \in Int
  PROVE  /\ OnLine(from, to, x) \in Int
         /\ Interpolate(from, to, x)
              = LET p == to.index + OnLine(from, to, x)
                IN IF p < from.index THEN from.index
                   ELSE IF p > to.index THEN to.index ELSE p
<1> DEFINE p == to.index + OnLine(from, to, x)
           m == Min({p, to.index})
<1>1. /\ from.key \in Int /\ to.key \in Int /\ to.key - from.key \in Nat \ {0}
      /\ from.index \in Int /\ to.index \in Int /\ from.index <= to.index
  BY DEF KnotsAround
<1>2. (to.index - from.index) * (x - to.key) \in Int
  BY <1>1
<1>3. OnLine(from, to, x) \in Int
  BY <1>1, <1>2, Quotient DEF OnLine
<1>4. Interpolate(from, to, x) = Max({from.index, m})
  BY DEF Interpolate, OnLine
<1>5. p \in Int
  BY <1>1, <1>3
<1> HIDE DEF p
<1>6. m = IF p <= to.index THEN p ELSE to.index
  BY <1>1, <1>5, MinOfTwo
<1>7. m \in Int
  BY <1>1, <1>5, <1>6
<1> HIDE DEF m
<1>8. Max({from.index, m}) = IF from.index >= m THEN from.index ELSE m
  BY <1>1, <1>7, MaxOfTwo
<1>9. Interpolate(from, to, x) = IF p < from.index THEN from.index
                                 ELSE IF p > to.index THEN to.index ELSE p
  BY <1>1, <1>4, <1>5, <1>6, <1>8
<1> QED  BY <1>3, <1>9 DEF p

LEMMA InterpolateRises ==
  ASSUME NEW from, NEW to, KnotsAround(from, to), NEW x \in Int, NEW z \in Int, x <= z
  PROVE  /\ Interpolate(from, to, x) \in from.index..to.index
         /\ Interpolate(from, to, x) <= Interpolate(from, to, z)
<1>1. /\ from.key \in Int /\ to.key \in Int /\ to.key - from.key \in Nat \ {0}
      /\ from.index \in Int /\ to.index \in Int /\ from.index <= to.index
      /\ to.index - from.index \in Nat
  BY DEF KnotsAround
<1>2. OnLine(from, to, x) <= OnLine(from, to, z)
  <2> DEFINE u == (to.index - from.index) * (x - to.key)
             v == (to.index - from.index) * (z - to.key)
             d == to.key - from.key
  <2>1. x - to.key \in Int /\ z - to.key \in Int /\ x - to.key <= z - to.key
    BY <1>1
  <2>2. u \in Int /\ v \in Int /\ u <= v
    BY <1>1, <2>1, ProductRises
  <2>3. d \in Nat \ {0}
    BY <1>1
  <2>4. OnLine(from, to, x) = u \div d /\ OnLine(from, to, z) = v \div d
    BY DEF OnLine
  <2> HIDE DEF u, v, d
  <2> QED  BY <2>2, <2>3, <2>4, QuotientRises
<1> DEFINE f == from.index
           t == to.index
           p == OnLine(from, to, x)
           q == OnLine(from, to, z)
           a == Interpolate(from, to, x)
           b == Interpolate(from, to, z)
<1>3. /\ p \in Int /\ q \in Int
      /\ a = IF t + p < f THEN f ELSE IF t + p > t THEN t ELSE t + p
      /\ b = IF t + q < f THEN f ELSE IF t + q > t THEN t ELSE t + q
  BY InterpolateIs
<1>4. f \in Int /\ t \in Int /\ f <= t /\ p <= q
  BY <1>1, <1>2
<1>5. a \in f..t /\ a <= b
  <2> HIDE DEF f, t, p, q, a, b
  <2> QED  BY <1>3, <1>4
<1> QED  BY <1>5


(* A key's child is between the indexes of the points of its segment.      *)
LEMMA PLRBetween ==
  ASSUME NEW P, Knots(P), NEW x \in Int, NEW e \in 1..4, KnotBehind(P, x) = e
  PROVE  /\ PredictPLR(P, x) \in 0..P[e].index
         /\ e > 1 => PredictPLR(P, x) >= P[e - 1].index
<1>1. PredictPLR(P, x) = IF e = 1 THEN 0
                         ELSE IF P[e - 1].key = P[e].key THEN P[e - 1].index
                         ELSE Interpolate(P[e - 1], P[e], x)
  BY PLRIs
<1>2. P[e].index \in Int /\ P[e].key \in Int /\ P[1].index = 0 /\ 0 <= P[e].index
  <2>1. 1 \in 1..4 /\ 1 <= e
    OBVIOUS
  <2>2. P[1].index <= P[e].index
    BY <2>1, KnotsInOrder
  <2> QED  BY <2>2 DEF Knots
<1>3. CASE e = 1
  BY <1>1, <1>2, <1>3
<1>4. CASE e # 1
  <2>1. e - 1 \in 1..4 /\ e \in 2..4 /\ 1 \in 1..4 /\ 1 <= e - 1
    BY <1>4
  <2>2. /\ P[e - 1].key \in Int /\ P[e - 1].index \in Int
        /\ P[e - 1].key <= P[e].key /\ P[e - 1].index <= P[e].index
    BY <2>1 DEF Knots
  <2>3. P[1].index <= P[e - 1].index
    BY <2>1, KnotsInOrder
  <2>4. CASE P[e - 1].key = P[e].key
    BY <1>1, <1>2, <1>4, <2>2, <2>3, <2>4
  <2>5. CASE P[e - 1].key # P[e].key
    <3>1. KnotsAround(P[e - 1], P[e])
      BY <1>2, <2>2, <2>5 DEF KnotsAround
    <3>2. Interpolate(P[e - 1], P[e], x) \in P[e - 1].index..P[e].index
      BY <3>1, InterpolateRises
    <3> QED  BY <1>1, <1>2, <1>4, <2>2, <2>3, <2>5, <3>2
  <2> QED  BY <2>4, <2>5
<1> QED  BY <1>3, <1>4

LEMMA PLRInRange ==
  ASSUME NEW P, Knots(P), NEW x \in Int
  PROVE  PredictPLR(P, x) \in 0..P[4].index
<1> DEFINE e == KnotBehind(P, x)
<1>1. e \in 1..4
  BY EndsRise
<1> HIDE DEF e
<1>2. PredictPLR(P, x) \in 0..P[e].index
  BY <1>1, PLRBetween DEF e
<1>3. P[e].index <= P[4].index
  BY <1>1, KnotsInOrder
<1>4. P[e].index \in Int /\ P[4].index \in Int
  BY <1>1 DEF Knots
<1> QED  BY <1>2, <1>3, <1>4

LEMMA PLRKeepsOrder ==
  ASSUME NEW P, Knots(P), NEW x \in Int, NEW z \in Int, x <= z
  PROVE  PredictPLR(P, x) <= PredictPLR(P, z)
<1> DEFINE d == KnotBehind(P, x)
           e == KnotBehind(P, z)
<1>1. d \in 1..4 /\ e \in 1..4 /\ d <= e
  BY EndsRise
<1> HIDE DEF d, e
<1>2. /\ PredictPLR(P, x) \in 0..P[d].index
      /\ PredictPLR(P, z) \in 0..P[e].index
      /\ e > 1 => PredictPLR(P, z) >= P[e - 1].index
  BY <1>1, PLRBetween DEF d, e
<1>3. CASE d < e
  <2>1. e - 1 \in 1..4 /\ d <= e - 1 /\ e > 1
    BY <1>1, <1>3
  <2>2. P[d].index <= P[e - 1].index
    BY <1>1, <2>1, KnotsInOrder
  <2>3. P[d].index \in Int /\ P[e - 1].index \in Int
    BY <1>1, <2>1 DEF Knots
  <2> QED  BY <1>2, <2>1, <2>2, <2>3
<1>4. CASE d = e
  <2>1. /\ PredictPLR(P, x) = IF e = 1 THEN 0
                              ELSE IF P[e - 1].key = P[e].key THEN P[e - 1].index
                              ELSE Interpolate(P[e - 1], P[e], x)
        /\ PredictPLR(P, z) = IF e = 1 THEN 0
                              ELSE IF P[e - 1].key = P[e].key THEN P[e - 1].index
                              ELSE Interpolate(P[e - 1], P[e], z)
    BY <1>4, PLRIs DEF d, e
  <2>2. CASE e = 1 \/ P[e - 1].key = P[e].key
    BY <1>2, <2>1, <2>2
  <2>3. CASE e # 1 /\ P[e - 1].key # P[e].key
    <3>1. e \in 2..4 /\ e - 1 \in 1..4
      BY <1>1, <2>3
    <3>2. KnotsAround(P[e - 1], P[e])
      BY <2>3, <3>1 DEF Knots, KnotsAround
    <3>3. Interpolate(P[e - 1], P[e], x) <= Interpolate(P[e - 1], P[e], z)
      BY <3>2, InterpolateRises
    <3> QED  BY <2>1, <2>3, <3>3
  <2> QED  BY <2>2, <2>3
<1> QED  BY <1>1, <1>3, <1>4

(* The key of the first point goes to child 0, that of the last point to   *)
(* the child of the point where it is first reached.                       *)
LEMMA PLRAtEnds ==
  ASSUME NEW P, Knots(P)
  PROVE  /\ PredictPLR(P, P[1].key) = 0
         /\ P[3].key < P[4].key => PredictPLR(P, P[4].key) = P[4].index
         /\ P[2].key < P[3].key /\ P[3].key = P[4].key =>
              PredictPLR(P, P[4].key) = P[3].index
<1>1. /\ Len(P) = 4 /\ \A i \in 1..4 : P[i].key \in Int /\ P[i].index \in Int
      /\ P[1].key <= P[2].key /\ P[2].key <= P[3].key /\ P[3].key <= P[4].key
  <2>1. \A i \in 2..4 : P[i - 1].key <= P[i].key
    BY DEF Knots
  <2>2. 2 - 1 = 1 /\ 3 - 1 = 2 /\ 4 - 1 = 3 /\ 2 \in 2..4 /\ 3 \in 2..4 /\ 4 \in 2..4
    OBVIOUS
  <2>3. P[1].key <= P[2].key /\ P[2].key <= P[3].key /\ P[3].key <= P[4].key
    BY <2>1, <2>2
  <2> QED  BY <2>3 DEF Knots
<1>2. ASSUME NEW i \in 1..4, NotBelow(P, P[i].key) # {}
      PROVE  KnotBehind(P, P[i].key) \in NotBelow(P, P[i].key)
             /\ \A j \in NotBelow(P, P[i].key) : KnotBehind(P, P[i].key) <= j
  <2> DEFINE I == NotBelow(P, P[i].key)
  <2>1. I \subseteq 1..4 /\ I # {}
    BY <1>1, <1>2 DEF NotBelow
  <2>2. KnotBehind(P, P[i].key) = IF LeastOf(I) = 0 THEN 4 ELSE LeastOf(I)
    BY <1>1 DEF KnotBehind
  <2> HIDE DEF I
  <2>3. LeastOf(I) # 0 /\ LeastOf(I) \in I /\ \A j \in I : LeastOf(I) <= j
    <3>1. 4 \in Nat
      OBVIOUS
    <3> QED  BY <2>1, <3>1, LeastOfIs
  <2> QED  BY <2>2, <2>3 DEF I
<1>3. PredictPLR(P, P[1].key) = 0
  <2>1. 1 \in NotBelow(P, P[1].key) /\ 1 \in 1..4
    BY <1>1 DEF NotBelow
  <2>2. KnotBehind(P, P[1].key) \in 1..Len(P) /\ KnotBehind(P, P[1].key) <= 1
    BY <1>2, <2>1 DEF NotBelow
  <2>3. KnotBehind(P, P[1].key) = 1
    BY <1>1, <2>2
  <2> QED  BY <2>3, PLRIs
<1>4. ASSUME P[3].key < P[4].key
      PROVE  PredictPLR(P, P[4].key) = P[4].index
  <2>1. /\ P[1].key \in Int /\ P[2].key \in Int /\ P[3].key \in Int /\ P[4].key \in Int
        /\ P[3].index \in Int /\ P[4].index \in Int
    BY <1>1
  <2>2. 4 \in NotBelow(P, P[4].key) /\ 4 \in 1..4
    BY <1>1, <2>1 DEF NotBelow
  <2>3. KnotBehind(P, P[4].key) \in NotBelow(P, P[4].key)
    BY <1>2, <2>2
  <2>4. KnotBehind(P, P[4].key) \in 1..4
        /\ P[KnotBehind(P, P[4].key)].key >= P[4].key
    BY <1>1, <2>3 DEF NotBelow
  <2>5. KnotBehind(P, P[4].key) = 4
    <3>1. KnotBehind(P, P[4].key) \in {1, 2, 3, 4}
      BY <2>4
    <3> QED  BY <1>1, <1>4, <2>1, <2>4, <3>1
  <2>6. PredictPLR(P, P[4].key) = Interpolate(P[3], P[4], P[4].key)
    <3>1. 4 - 1 = 3 /\ 4 # 1 /\ P[3].key # P[4].key
      BY <1>4, <2>1
    <3> QED  BY <2>5, <3>1, PLRIs
  <2>7. KnotsAround(P[3], P[4])
    <3>1. 4 \in 2..4 /\ 4 - 1 = 3
      OBVIOUS
    <3>2. P[3].index <= P[4].index
      BY <3>1 DEF Knots
    <3> QED  BY <1>4, <2>1, <3>2 DEF KnotsAround
  <2>8. OnLine(P[3], P[4], P[4].key) = 0
    <3>1. P[4].key - P[4].key = 0 /\ P[4].key - P[3].key \in Nat \ {0}
      BY <1>4, <2>1
    <3>2. (P[4].index - P[3].index) * 0 = 0
      BY <2>1
    <3>3. \A d \in Nat \ {0} : 0 \div d = 0
      OBVIOUS
    <3> QED  BY <3>1, <3>2, <3>3 DEF OnLine
  <2>9. P[3].index <= P[4].index /\ P[4].index + 0 = P[4].index
    BY <2>1, <2>7 DEF KnotsAround
  <2> QED  BY <2>1, <2>6, <2>7, <2>8, <2>9, InterpolateIs
<1>5. ASSUME P[2].key < P[3].key, P[3].key = P[4].key
      PROVE  PredictPLR(P, P[4].key) = P[3].index
  <2>1. /\ P[1].key \in Int /\ P[2].key \in Int /\ P[3].key \in Int
        /\ P[2].index \in Int /\ P[3].index \in Int
    BY <1>1
  <2>2. 3 \in NotBelow(P, P[3].key) /\ 3 \in 1..4
    BY <1>1, <2>1 DEF NotBelow
  <2>3. /\ KnotBehind(P, P[3].key) \in NotBelow(P, P[3].key)
        /\ KnotBehind(P, P[3].key) <= 3
    BY <1>2, <2>2
  <2>4. KnotBehind(P, P[3].key) \in 1..4
        /\ P[KnotBehind(P, P[3].key)].key >= P[3].key
    BY <1>1, <2>3 DEF NotBelow
  <2>5. KnotBehind(P, P[3].key) = 3
    <3>1. KnotBehind(P, P[3].key) \in {1, 2, 3}
      BY <2>3, <2>4
    <3> QED  BY <1>1, <1>5, <2>1, <2>4, <3>1
  <2>6. PredictPLR(P, P[3].key) = Interpolate(P[2], P[3], P[3].key)
    <3>1. 3 - 1 = 2 /\ 3 # 1 /\ P[2].key # P[3].key
      BY <1>5, <2>1
    <3> QED  BY <2>5, <3>1, PLRIs
  <2>7. KnotsAround(P[2], P[3])
    <3>1. 3 \in 2..4 /\ 3 - 1 = 2
      OBVIOUS
    <3>2. P[2].index <= P[3].index
      BY <3>1 DEF Knots
    <3> QED  BY <1>5, <2>1, <3>2 DEF KnotsAround
  <2>8. OnLine(P[2], P[3], P[3].key) = 0
    <3>1. P[3].key - P[3].key = 0 /\ P[3].key - P[2].key \in Nat \ {0}
      BY <1>5, <2>1
    <3>2. (P[3].index - P[2].index) * 0 = 0
      BY <2>1
    <3>3. \A d \in Nat \ {0} : 0 \div d = 0
      OBVIOUS
    <3> QED  BY <3>1, <3>2, <3>3 DEF OnLine
  <2>9. P[2].index <= P[3].index /\ P[3].index + 0 = P[3].index
    BY <2>1, <2>7 DEF KnotsAround
  <2>10. PredictPLR(P, P[3].key) = P[3].index
    BY <2>1, <2>6, <2>7, <2>8, <2>9, InterpolateIs
  <2> QED  BY <1>5, <2>10
<1> QED  BY <1>3, <1>4, <1>5


(* What Train may take for the cuts.                                       *)
CutsFor(ks, cut) ==
  \/ cut = <<0, 0>>
  \/ /\ cut[1] \in 1..Len(ks) - 3 /\ cut[2] \in 3..Len(ks) - 2
     /\ cut[1] < cut[2]
     /\ ks[1] < ks[cut[1] + 1]
     /\ ks[cut[1] + 1] < ks[cut[2] + 1]

LEMMA CutsAre ==
  ASSUME NEW ks, NEW cut \in Cuts(ks)
  PROVE  CutsFor(ks, cut)
BY DEF Cuts, CutsFor

(* The share of the first i of n keys of c - 1 children.                   *)
LEMMA SharesInOrder ==
  ASSUME NEW n \in Nat \ {0}, NEW c \in Nat \ {0}, NEW i \in Nat, NEW j \in Nat,
         i <= j, j <= n
  PROVE  /\ (i * (c - 1)) \div n \in Nat /\ (j * (c - 1)) \div n \in Nat
         /\ (i * (c - 1)) \div n <= (j * (c - 1)) \div n
         /\ (j * (c - 1)) \div n <= c - 1
<1>1. c - 1 \in Nat /\ j - i \in Nat /\ n - j \in Nat
  OBVIOUS
<1>2. i * (c - 1) \in Nat /\ (j - i) * (c - 1) \in Nat /\ (n - j) * (c - 1) \in Nat
  BY <1>1, NotNegativeProduct
<1>3. /\ j * (c - 1) = i * (c - 1) + (j - i) * (c - 1)
      /\ n * (c - 1) = j * (c - 1) + (n - j) * (c - 1)
  BY <1>1
<1> DEFINE u == i * (c - 1)
           v == j * (c - 1)
           w == n * (c - 1)
<1>4. u \in Int /\ v \in Int /\ w \in Int /\ 0 \in Int /\ 0 <= u /\ u <= v /\ v <= w
  BY <1>2, <1>3
<1>5. w \div n = c - 1
  BY <1>1
<1> HIDE DEF u, v, w
<1>6. 0 \div n <= u \div n /\ u \div n <= v \div n /\ v \div n <= w \div n
  BY <1>4, QuotientRises
<1>7. 0 \div n = 0
  OBVIOUS
<1>8. u \div n \in Int /\ v \div n \in Int
  BY <1>4, Quotient
<1> QED  BY <1>5, <1>6, <1>7, <1>8 DEF u, v

LEMMA SegmentsAre ==
  ASSUME NEW ks \in Seq(Int), Len(ks) > 0, Rising(ks), NEW c \in Nat \ {0},
         NEW cut, CutsFor(ks, cut)
  PROVE  /\ Knots(Segments(ks, c, cut))
         /\ Segments(ks, c, cut)[1].key = 0
         /\ Segments(ks, c, cut)[4].key = ks[Len(ks)] - ks[1]
         /\ Segments(ks, c, cut)[4].index = c - 1
         /\ ks[1] # ks[Len(ks)] =>
              \/ Segments(ks, c, cut)[2].key < Segments(ks, c, cut)[3].key
              \/ Segments(ks, c, cut)[3].key < Segments(ks, c, cut)[4].key
<1> DEFINE n == Len(ks)
           P == Segments(ks, c, cut)
           a == cut[1]
           b == cut[2]
<1>1. n \in Nat \ {0} /\ \A i \in 1..n : ks[i] \in Int
  OBVIOUS
<1>2. /\ a \in Nat /\ b \in Nat /\ 0 <= a /\ a <= b /\ b <= n
      /\ a + 1 \in 1..n /\ b + 1 \in 1..n /\ 1 \in 1..n /\ n \in 1..n /\ a + 1 <= b + 1
  <2>1. CASE cut = <<0, 0>>
    <3>1. a = 0 /\ b = 0
      BY <2>1
    <3> QED  BY <1>1, <3>1
  <2>2. CASE cut # <<0, 0>>
    <3>1. a \in 1..n - 3 /\ b \in 3..n - 2 /\ a < b
      BY <2>2 DEF CutsFor
    <3> HIDE DEF a, b, n
    <3> QED  BY <1>1, <3>1
  <2> QED  BY <2>1, <2>2
<1>3. ks[a + 1] < ks[b + 1] \/ ks[b + 1] = ks[1]
  <2>1. CASE cut = <<0, 0>>
    <3>1. b = 0 /\ 0 + 1 = 1
      BY <2>1
    <3> QED  BY <3>1
  <2>2. CASE cut # <<0, 0>>
    BY <2>2 DEF CutsFor
  <2> QED  BY <2>1, <2>2
<1>4. /\ ks[1] \in Int /\ ks[a + 1] \in Int /\ ks[b + 1] \in Int /\ ks[n] \in Int
      /\ ks[1] <= ks[a + 1] /\ ks[a + 1] <= ks[b + 1] /\ ks[b + 1] <= ks[n]
  <2>1. 1 <= a + 1 /\ b + 1 <= n /\ a + 1 <= b + 1
    BY <1>2
  <2> QED  BY <1>1, <1>2, <2>1 DEF Rising
<1>5. /\ Len(P) = 4
      /\ P[1] = [key |-> ks[0 + 1] - ks[1], index |-> (0 * (c - 1)) \div n]
      /\ P[2] = [key |-> ks[a + 1] - ks[1], index |-> (a * (c - 1)) \div n]
      /\ P[3] = [key |-> ks[b + 1] - ks[1], index |-> (b * (c - 1)) \div n]
      /\ P[4] = [key |-> ks[n] - ks[1], index |-> c - 1]
  BY DEF Segments
<1> HIDE DEF n, P, a, b
<1>6. /\ (a * (c - 1)) \div n \in Nat /\ (b * (c - 1)) \div n \in Nat
      /\ (a * (c - 1)) \div n <= (b * (c - 1)) \div n
      /\ (b * (c - 1)) \div n <= c - 1
  BY <1>1, <1>2, SharesInOrder
<1>7. (0 * (c - 1)) \div n = 0 /\ 0 + 1 = 1 /\ ks[1] - ks[1] = 0
  <2>1. 0 * (c - 1) = 0
    OBVIOUS
  <2>2. 0 \div n = 0
    BY <1>1
  <2> QED  BY <1>4, <2>1, <2>2
<1> DEFINE I2 == (a * (c - 1)) \div n
           I3 == (b * (c - 1)) \div n
<1>8. /\ P[1].key = 0 /\ P[1].index = 0
      /\ P[2].key = ks[a + 1] - ks[1] /\ P[2].index = I2
      /\ P[3].key = ks[b + 1] - ks[1] /\ P[3].index = I3
      /\ P[4].key = ks[n] - ks[1] /\ P[4].index = c - 1
  BY <1>5, <1>7
<1>9. I2 \in Nat /\ I3 \in Nat /\ I2 <= I3 /\ I3 <= c - 1
  BY <1>6
<1> HIDE DEF I2, I3
<1>10. /\ P[1].key \in Int /\ P[2].key \in Int /\ P[3].key \in Int /\ P[4].key \in Int
       /\ P[1].index \in Int /\ P[2].index \in Int /\ P[3].index \in Int /\ P[4].index \in Int
  <2>1. ks[a + 1] - ks[1] \in Int /\ ks[b + 1] - ks[1] \in Int /\ ks[n] - ks[1] \in Int
    BY <1>4
  <2>2. I2 \in Int /\ I3 \in Int /\ c - 1 \in Int /\ 0 \in Int
    BY <1>9
  <2> QED  BY <1>8, <2>1, <2>2
<1>11. /\ P[1].key <= P[2].key /\ P[2].key <= P[3].key /\ P[3].key <= P[4].key
       /\ P[1].index <= P[2].index /\ P[2].index <= P[3].index /\ P[3].index <= P[4].index
  <2>1. /\ 0 <= ks[a + 1] - ks[1] /\ ks[a + 1] - ks[1] <= ks[b + 1] - ks[1]
        /\ ks[b + 1] - ks[1] <= ks[n] - ks[1]
    BY <1>4
  <2>2. 0 <= I2 /\ I2 <= I3 /\ I3 <= c - 1
    BY <1>9
  <2> QED  BY <1>8, <2>1, <2>2
<1>12. Knots(P)
  <2>1. \A i \in 1..4 : P[i].key \in Int /\ P[i].index \in Int
    <3>1. 1..4 = {1, 2, 3, 4}
      OBVIOUS
    <3> QED  BY <1>10, <3>1
  <2>2. \A i \in 2..4 : P[i - 1].key <= P[i].key /\ P[i - 1].index <= P[i].index
    <3>1. \A i \in 2..4 : (i = 2 /\ i - 1 = 1) \/ (i = 3 /\ i - 1 = 2) \/ (i = 4 /\ i - 1 = 3)
      OBVIOUS
    <3> QED  BY <1>11, <3>1
  <2> QED  BY <1>5, <1>8, <2>1, <2>2 DEF Knots
<1>13. ks[1] # ks[n] => P[2].key < P[3].key \/ P[3].key < P[4].key
  <2> SUFFICES ASSUME ks[1] # ks[n] PROVE P[2].key < P[3].key \/ P[3].key < P[4].key
    OBVIOUS
  <2>1. CASE ks[a + 1] < ks[b + 1]
    <3>1. ks[a + 1] - ks[1] < ks[b + 1] - ks[1]
      BY <1>4, <2>1
    <3> QED  BY <1>8, <3>1
  <2>2. CASE ks[b + 1] = ks[1]
    <3>1. ks[b + 1] - ks[1] < ks[n] - ks[1]
      BY <1>4, <2>2
    <3> QED  BY <1>8, <3>1
  <2> QED  BY <1>3, <2>1, <2>2
<1> QED  BY <1>8, <1>12, <1>13 DEF P, n

----------------------------------------------------------------------------
(* The last two points of a piecewise node are at one key and in child 0.  *)
FlatEnd(m) == m.points[3].key = m.points[4].key /\ m.points[3].index = 0

(* The ends of different keys go to different children, but for that.      *)
PartsEnds(m, s) ==
  s[1] # s[Len(s)] =>
    (ChildFor(m, s[1]) = ChildFor(m, s[Len(s)]) <=> m.type = "plr" /\ FlatEnd(m))

(* What is asked of a node that was trained with the sorted keys s.        *)
Fitted(m, s) ==
  /\ m.type \in Type
  /\ \A k \in Int : ChildFor(m, k) \in 0..m.children - 1
  /\ \A j, k \in Int : j <= k => ChildFor(m, j) <= ChildFor(m, k)
  /\ m.type = "his" =>
       \A k \in Int : ChildFor(m, k)
                        = Table(s, m.children)[Bucket(m.minValue, m.range, m.children, k)]
  /\ m.type \in {"lr", "plr"} => PartsEnds(m, s)

Trainable(s) == s \in Seq(Int) /\ Len(s) > 0 /\ Rising(s)

LEMMA PointsEnds ==
  ASSUME NEW s, Trainable(s)
  PROVE  s[1] \in Int /\ s[Len(s)] \in Int /\ s[1] <= s[Len(s)]
<1>1. s \in Seq(Int) /\ 1 \in 1..Len(s) /\ Len(s) \in 1..Len(s) /\ 1 <= Len(s)
  BY DEF Trainable
<1> QED  BY <1>1 DEF Trainable, Rising

LEMMA LRIsSound ==
  ASSUME NEW s, Trainable(s), NEW c \in Nat, c >= 2, NEW cut
  PROVE  Fitted(Fit("lr", s, c, cut), s)
<1> DEFINE m  == Fit("lr", s, c, cut)
           lr == Train(s, c)
<1>1. m = [type |-> "lr", children |-> c, lr |-> lr]
  BY DEF Fit
<1>2. s \in Seq(Int) /\ Len(s) > 0 /\ Rising(s) /\ c \in Nat \ {0} /\ c \in Int
  BY DEF Trainable
<1> HIDE DEF m, lr
<1>3. m.type = "lr" /\ m.children = c
  BY <1>1
<1>4. \A k : ChildFor(m, k) = Predict(lr, c, k)
  BY <1>1 DEF ChildFor
<1>5. lr \in Lines /\ lr.slope >= 0
  BY <1>2, TrainFits, TrainRises DEF lr
<1>6. \A k \in Int : Predict(lr, c, k) \in 0..c - 1
  BY <1>2, <1>5, PredictInRange
<1>7. \A j, k \in Int : j <= k => Predict(lr, c, j) <= Predict(lr, c, k)
  BY <1>2, <1>5, PredictKeepsOrder
<1>8. s[1] # s[Len(s)] => Predict(lr, c, s[1]) # Predict(lr, c, s[Len(s)])
  <2> SUFFICES ASSUME s[1] # s[Len(s)]
               PROVE  Predict(lr, c, s[1]) # Predict(lr, c, s[Len(s)])
    OBVIOUS
  <2>1. Predict(lr, c, s[1]) < Predict(lr, c, s[Len(s)])
    BY <1>2, TrainDivides DEF lr
  <2>2. Predict(lr, c, s[1]) \in Int
    <3>1. s[1] \in Int
      BY PointsEnds
    <3>2. Predict(lr, c, s[1]) \in 0..c - 1
      BY <1>6, <3>1
    <3> QED  BY <3>2
  <2> QED  BY <2>1, <2>2
<1>9. PartsEnds(m, s)
  BY <1>3, <1>4, <1>8 DEF PartsEnds
<1> QED  BY <1>3, <1>4, <1>6, <1>7, <1>9 DEF Fitted, Type, m

LEMMA BSIsSound ==
  ASSUME NEW s, Trainable(s), NEW c \in Nat, NEW cut
  PROVE  Fitted(Fit("bs", s, c, cut), s)
<1> DEFINE m == Fit("bs", s, c, cut)
           d == BSChildren(c)
           p == Separators(s, d)
<1>1. m = [type |-> "bs", children |-> d, separators |-> p]
  BY DEF Fit
<1>2. s \in Seq(Int) /\ Len(s) > 0
  BY DEF Trainable
<1>3. d \in Nat /\ d >= 2
  BY BSChildrenIs
<1> HIDE DEF m, d
<1>4. p \in Seq(Int) /\ Len(p) = d - 1
  BY <1>2, <1>3, SeparatorsAre
<1> HIDE DEF p
<1>5. m.type = "bs" /\ m.children = d
  BY <1>1
<1>6. \A k : ChildFor(m, k) = PredictBS(p, k)
  BY <1>1 DEF ChildFor
<1>7. \A k \in Int : PredictBS(p, k) \in 0..d - 1
  BY <1>4, BSInRange
<1>8. \A j, k \in Int : j <= k => PredictBS(p, j) <= PredictBS(p, k)
  BY <1>4, BSKeepsOrder
<1> QED  BY <1>5, <1>6, <1>7, <1>8 DEF Fitted, Type, m

LEMMA HistogramIsSound ==
  ASSUME NEW s, Trainable(s), NEW c \in Nat, c >= 2, NEW cut
  PROVE  Fitted(Fit("his", s, c, cut), s)
<1> DEFINE m == Fit("his", s, c, cut)
           t == Table(s, c)
           range == s[Len(s)] - s[1]
           b(k) == Bucket(s[1], range, c, k)
<1>1. m = [type |-> "his", children |-> c, minValue |-> s[1], range |-> range,
           code |-> Encode(t)]
  BY DEF Fit, Last
<1>2. s \in Seq(Int) /\ Len(s) > 0 /\ Rising(s) /\ c \in Nat \ {0}
  BY DEF Trainable
<1> HIDE DEF m
<1>3. /\ m.type = "his" /\ m.children = c /\ m.minValue = s[1] /\ m.range = range
      /\ m.code = Encode(t)
  BY <1>1
<1>4. ASSUME NEW k \in Int
      PROVE  b(k) \in 0..c - 1 /\ Decode(Encode(t), b(k)) = t[b(k)]
  BY <1>2, HistogramChild
<1>5. \A i \in 0..c - 1 : t[i] \in 0..c - 1
  BY <1>2, TableClimbs
<1>6. ASSUME NEW j \in Int, NEW k \in Int, j <= k
      PROVE  t[b(j)] <= t[b(k)]
  BY <1>2, <1>6, HistogramKeepsOrder
<1> HIDE DEF t, range
<1>7. ASSUME NEW k \in Int
      PROVE  ChildFor(m, k) = t[b(k)]
  <2>1. ChildFor(m, k) = Decode(Encode(t), b(k))
    BY <1>3 DEF ChildFor
  <2> QED  BY <1>4, <2>1
<1> HIDE DEF b
<1>8. \A k \in Int : ChildFor(m, k) \in 0..c - 1
  BY <1>4, <1>5, <1>7
<1>9. \A j, k \in Int : j <= k => ChildFor(m, j) <= ChildFor(m, k)
  BY <1>6, <1>7
<1>10. \A k \in Int : ChildFor(m, k)
                        = Table(s, m.children)[Bucket(m.minValue, m.range, m.children, k)]
  BY <1>3, <1>7 DEF t, b
<1> QED  BY <1>3, <1>8, <1>9, <1>10 DEF Fitted, Type, m

LEMMA PLRIsSound ==
  ASSUME NEW s, Trainable(s), NEW c \in Nat, c >= 2, NEW cut, CutsFor(s, cut)
  PROVE  Fitted(Fit("plr", s, c, cut), s)
<1> DEFINE m == Fit("plr", s, c, cut)
           P == Segments(s, c, cut)
           n == Len(s)
<1>1. m = [type |-> "plr", children |-> c, minValue |-> s[1], points |-> P]
  BY DEF Fit
<1>2. s \in Seq(Int) /\ Len(s) > 0 /\ Rising(s) /\ c \in Nat \ {0} /\ c - 1 # 0
  BY DEF Trainable
<1>3. /\ Knots(P) /\ P[1].key = 0 /\ P[4].key = s[n] - s[1] /\ P[4].index = c - 1
      /\ s[1] # s[n] => P[2].key < P[3].key \/ P[3].key < P[4].key
  BY <1>2, SegmentsAre
<1> HIDE DEF m, P
<1>4. m.type = "plr" /\ m.children = c
  BY <1>1
<1>5. \A k : ChildFor(m, k) = PredictPLR(P, k - s[1])
  BY <1>1 DEF ChildFor
<1>6. s[1] \in Int /\ s[n] \in Int
  BY PointsEnds
<1>7. \A k \in Int : ChildFor(m, k) \in 0..c - 1
  <2> TAKE k \in Int
  <2>1. k - s[1] \in Int
    BY <1>6
  <2>2. PredictPLR(P, k - s[1]) \in 0..P[4].index
    BY <1>3, <2>1, PLRInRange
  <2> QED  BY <1>3, <1>5, <2>2
<1>8. \A j, k \in Int : j <= k => ChildFor(m, j) <= ChildFor(m, k)
  <2> TAKE j, k \in Int
  <2> HAVE j <= k
  <2>1. j - s[1] \in Int /\ k - s[1] \in Int /\ j - s[1] <= k - s[1]
    BY <1>6
  <2>2. PredictPLR(P, j - s[1]) <= PredictPLR(P, k - s[1])
    BY <1>3, <2>1, PLRKeepsOrder
  <2> QED  BY <1>5, <2>2
<1>9. m.points = P
  BY <1>1
<1>10. PartsEnds(m, s)
  <2> SUFFICES ASSUME s[1] # s[n]
               PROVE  ChildFor(m, s[1]) = ChildFor(m, s[n]) <=> FlatEnd(m)
    BY <1>4 DEF PartsEnds, n
  <2>1. s[1] - s[1] = 0 /\ c - 1 \in Int
    BY <1>2, <1>6
  <2>2. ChildFor(m, s[1]) = 0 /\ ChildFor(m, s[n]) = PredictPLR(P, P[4].key)
    <3>1. PredictPLR(P, 0) = 0
      BY <1>3, PLRAtEnds
    <3> QED  BY <1>3, <1>5, <2>1, <3>1
  <2>3. P[3].key \in Int /\ P[4].key \in Int /\ P[3].key <= P[4].key
    <3>1. /\ 3 \in 1..4 /\ 4 \in 1..4 /\ 4 \in 2..4 /\ 4 - 1 = 3
          /\ \A i \in 1..4 : P[i].key \in Int
          /\ \A i \in 2..4 : P[i - 1].key <= P[i].key
      BY <1>3 DEF Knots
    <3> QED  BY <3>1
  <2>4. CASE P[3].key < P[4].key
    <3>1. PredictPLR(P, P[4].key) = c - 1
      BY <1>3, <2>4, PLRAtEnds
    <3>2. ~ FlatEnd(m)
      BY <1>9, <2>3, <2>4 DEF FlatEnd
    <3> QED  BY <1>2, <2>2, <3>1, <3>2
  <2>5. CASE P[3].key = P[4].key
    <3>1. P[2].key < P[3].key
      BY <1>3, <2>3, <2>5
    <3>2. PredictPLR(P, P[4].key) = P[3].index
      BY <1>3, <2>5, <3>1, PLRAtEnds
    <3>3. FlatEnd(m) <=> P[3].index = 0
      BY <1>9, <2>5 DEF FlatEnd
    <3> QED  BY <2>2, <3>2, <3>3
  <2> QED  BY <2>3, <2>4, <2>5
<1> QED  BY <1>4, <1>7, <1>8, <1>10 DEF Fitted, Type, m, n
=============================================================================
