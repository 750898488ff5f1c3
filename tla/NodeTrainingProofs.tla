------------------------- MODULE NodeTrainingProofs -------------------------
(***************************************************************************)
(* The models of the nodes keep the order of the keys and name a child for *)
(* every key, trained or not, whatever points they were trained with; a    *)
(* regression over different keys parts them; the packed histogram is the  *)
(* table it was made from.  The blocks that are fetched for the leaves     *)
(* below the root do not run into each other.                              *)
(***************************************************************************)
EXTENDS NodeTraining, NumberProofs

----------------------------------------------------------------------------
(* The root: each segment has a line, whatever the keys are.               *)
LinesUp == {l \in [slope : Nat, intercept : Int, den : Nat] : l.den # 0}

LEMMA NotZeroProduct ==
  ASSUME NEW a \in Int, NEW b \in Int, a # 0, b # 0
  PROVE  a * b # 0
<1>1. a \in Nat \ {0} \/ -a \in Nat \ {0}
  OBVIOUS
<1>2. b \in Nat \ {0} \/ -b \in Nat \ {0}
  OBVIOUS
<1>3. CASE a \in Nat \ {0} /\ b \in Nat \ {0}
  BY <1>3, PositiveProduct
<1>4. CASE -a \in Nat \ {0} /\ b \in Nat \ {0}
  <2>1. (-a) * b \in Nat \ {0}
    BY <1>4, PositiveProduct
  <2>2. (-a) * b = -(a * b)
    OBVIOUS
  <2> QED  BY <2>1, <2>2
<1>5. CASE a \in Nat \ {0} /\ -b \in Nat \ {0}
  <2>1. a * (-b) \in Nat \ {0}
    BY <1>5, PositiveProduct
  <2>2. a * (-b) = -(a * b)
    OBVIOUS
  <2> QED  BY <2>1, <2>2
<1>6. CASE -a \in Nat \ {0} /\ -b \in Nat \ {0}
  <2>1. (-a) * (-b) \in Nat \ {0}
    BY <1>6, PositiveProduct
  <2>2. (-a) * (-b) = a * b
    OBVIOUS
  <2> QED  BY <2>1, <2>2
<1> QED  BY <1>1, <1>2, <1>3, <1>4, <1>5, <1>6

(* The line is turned so that its denominator is positive.                 *)
Turned(slope, intercept, den) ==
  LET sign == IF den < 0 THEN -1 ELSE 1
      up   == sign * slope
  IN [slope     |-> IF up < 0 THEN -up ELSE up,
      intercept |-> sign * intercept, den |-> sign * den]

LEMMA TurnedIsLine ==
  ASSUME NEW s \in Int, NEW t \in Int, NEW d \in Int, d # 0
  PROVE  Turned(s, t, d) \in LinesUp
<1>1. CASE d < 0
  <2>1. (-1) * s = -s /\ (-1) * t = -t /\ (-1) * d = -d
    OBVIOUS
  <2>2. Turned(s, t, d) = [slope |-> IF -s < 0 THEN -(-s) ELSE -s,
                           intercept |-> -t, den |-> -d]
    BY <1>1, <2>1 DEF Turned
  <2>3. -d \in Nat /\ -d # 0 /\ -t \in Int /\ (IF -s < 0 THEN -(-s) ELSE -s) \in Nat
    BY <1>1
  <2> QED  BY <2>2, <2>3 DEF LinesUp
<1>2. CASE ~ (d < 0)
  <2>1. 1 * s = s /\ 1 * t = t /\ 1 * d = d
    OBVIOUS
  <2>2. Turned(s, t, d) = [slope |-> IF s < 0 THEN -s ELSE s,
                           intercept |-> t, den |-> d]
    BY <1>2, <2>1 DEF Turned
  <2>3. d \in Nat /\ (IF s < 0 THEN -s ELSE s) \in Nat
    BY <1>2
  <2> QED  BY <2>2, <2>3 DEF LinesUp
<1> QED  BY <1>1, <1>2

LEMMA SegmentIsLine ==
  ASSUME NEW ks \in Seq(Int), Len(ks) > 0, NEW M \in Nat,
         NEW i \in Nat, NEW j \in Nat, i <= j, j <= Len(ks) - 1
  PROVE  SegmentLine(ks, M, i, j) \in LinesUp
<1> DEFINE n    == Len(ks)
           X(p) == ks[p + 1] - ks[1]
           Y(p) == p * M
           size == j - i
           sums == IF j = n - 1 THEN size + 1 ELSE size
           own  == [q \in 1..sums |-> i + q - 1]
           f1   == [q \in 1..sums |-> X(own[q]) * X(own[q])]
           f2   == [q \in 1..sums |-> X(own[q])]
           f3   == [q \in 1..sums |-> X(own[q]) * Y(own[q])]
           f4   == [q \in 1..sums |-> Y(own[q])]
           t1   == SumOf(f1, sums)
           t2   == SumOf(f2, sums)
           t3   == SumOf(f3, sums)
           t4   == SumOf(f4, sums)
           det  == t1 * size - t2 * t2
<1>1. n \in Nat \ {0} /\ \A p \in 1..n : ks[p] \in Int
  OBVIOUS
<1>2. SegmentLine(ks, M, i, j)
        = IF det # 0 THEN Turned(t3 * size - t2 * t4, t1 * t4 - t2 * t3, det * n)
          ELSE IF X(i) = X(j) THEN Turned(0, Y(j), n)
          ELSE Turned(Y(j) - Y(i), Y(j) * (X(j) - X(i)) - (Y(j) - Y(i)) * X(j),
                      n * (X(j) - X(i)))
  BY DEF SegmentLine, Turned
<1>3. sums \in Nat /\ size \in Nat /\ i + sums <= n
  BY <1>1
<1>4. \A p \in 0..n - 1 : X(p) \in Int /\ Y(p) \in Int
  <2> TAKE p \in 0..n - 1
  <2>1. p + 1 \in 1..n /\ 1 \in 1..n /\ p \in Int
    BY <1>1
  <2> QED  BY <1>1, <2>1
<1> HIDE DEF n, X, Y, size, sums
<1>5. ASSUME NEW q \in 1..sums
      PROVE  /\ X(own[q]) \in Int /\ Y(own[q]) \in Int
             /\ X(own[q]) * X(own[q]) \in Int /\ X(own[q]) * Y(own[q]) \in Int
  <2>0. own[q] = i + q - 1
    OBVIOUS
  <2> HIDE DEF own
  <2>1. own[q] \in 0..n - 1
    BY <1>1, <1>3, <2>0
  <2>2. X(own[q]) \in Int /\ Y(own[q]) \in Int
    BY <1>4, <2>1
  <2> QED  BY <2>2
<1> HIDE DEF own
<1>6. /\ f1 \in [1..sums -> Int] /\ f2 \in [1..sums -> Int]
      /\ f3 \in [1..sums -> Int] /\ f4 \in [1..sums -> Int]
  BY <1>5
<1> HIDE DEF f1, f2, f3, f4
<1>7. t1 \in Int /\ t2 \in Int /\ t3 \in Int /\ t4 \in Int
  BY <1>3, <1>6, SumIsNumber
<1> HIDE DEF t1, t2, t3, t4
<1>8. /\ X(i) \in Int /\ X(j) \in Int /\ Y(i) \in Int /\ Y(j) \in Int
  <2>1. i \in 0..n - 1 /\ j \in 0..n - 1
    BY DEF n
  <2> QED  BY <1>4, <2>1
<1>9. /\ t3 * size - t2 * t4 \in Int /\ t1 * t4 - t2 * t3 \in Int /\ det \in Int
      /\ Y(j) - Y(i) \in Int /\ X(j) - X(i) \in Int
      /\ Y(j) * (X(j) - X(i)) - (Y(j) - Y(i)) * X(j) \in Int
  <2>1. t3 * size \in Int /\ t2 * t4 \in Int /\ t1 * t4 \in Int /\ t2 * t3 \in Int
    BY <1>3, <1>7
  <2>2. t1 * size \in Int /\ t2 * t2 \in Int
    BY <1>3, <1>7
  <2>3. Y(j) - Y(i) \in Int /\ X(j) - X(i) \in Int
    BY <1>8
  <2>4. Y(j) * (X(j) - X(i)) \in Int /\ (Y(j) - Y(i)) * X(j) \in Int
    <3> DEFINE xj == X(j)
               yj == Y(j)
               dx == X(j) - X(i)
               dy == Y(j) - Y(i)
    <3>1. xj \in Int /\ yj \in Int /\ dx \in Int /\ dy \in Int
      BY <1>8, <2>3
    <3> HIDE DEF xj, yj, dx, dy
    <3>2. yj * dx \in Int /\ dy * xj \in Int
      BY ONLY <3>1
    <3> QED  BY <3>2 DEF xj, yj, dx, dy
  <2>5. t3 * size - t2 * t4 \in Int /\ t1 * t4 - t2 * t3 \in Int
    BY <2>1
  <2>6. det \in Int
    BY <2>2
  <2>7. Y(j) * (X(j) - X(i)) - (Y(j) - Y(i)) * X(j) \in Int
    BY <2>4
  <2> QED  BY <2>3, <2>5, <2>6, <2>7
<1> HIDE DEF det
<1> DEFINE first  == Turned(t3 * size - t2 * t4, t1 * t4 - t2 * t3, det * n)
           second == Turned(0, Y(j), n)
           third  == Turned(Y(j) - Y(i), Y(j) * (X(j) - X(i)) - (Y(j) - Y(i)) * X(j),
                            n * (X(j) - X(i)))
<1>13. SegmentLine(ks, M, i, j) = IF det # 0 THEN first
                                  ELSE IF X(i) = X(j) THEN second ELSE third
  BY <1>2
<1>10. CASE det # 0
  <2>1. det * n \in Int /\ det * n # 0
    BY <1>1, <1>9, <1>10, NotZeroProduct
  <2>2. SegmentLine(ks, M, i, j) = Turned(t3 * size - t2 * t4, t1 * t4 - t2 * t3, det * n)
    BY <1>10, <1>13
  <2> QED  BY <1>9, <2>1, <2>2, TurnedIsLine
<1>11. CASE det = 0 /\ X(i) = X(j)
  <2>1. SegmentLine(ks, M, i, j) = Turned(0, Y(j), n)
    BY <1>11, <1>13
  <2>2. 0 \in Int /\ n \in Int /\ n # 0
    BY <1>1
  <2> QED  BY <1>8, <2>1, <2>2, TurnedIsLine
<1>12. CASE det = 0 /\ X(i) # X(j)
  <2>1. SegmentLine(ks, M, i, j)
          = Turned(Y(j) - Y(i), Y(j) * (X(j) - X(i)) - (Y(j) - Y(i)) * X(j),
                   n * (X(j) - X(i)))
    BY <1>12, <1>13
  <2>2. n \in Int /\ n # 0 /\ X(j) - X(i) # 0
    BY <1>1, <1>8, <1>12
  <2>3. n * (X(j) - X(i)) \in Int /\ n * (X(j) - X(i)) # 0
    BY <1>9, <2>2, NotZeroProduct
  <2> QED  BY <1>9, <2>1, <2>3, TurnedIsLine
<1> QED  BY <1>10, <1>11, <1>12


(* A root with M + 1 children.                                             *)
Rooted(root, M) ==
  /\ M \in Nat /\ root.children = M + 1 /\ root.minValue \in Int
  /\ Len(root.point) \in Nat /\ Len(root.theta) = Len(root.point) + 1
  /\ \A s \in 1..Len(root.theta) : root.theta[s] \in LinesUp
  /\ \A i \in 1..Len(root.point) :
       root.point[i].index \in Nat /\ root.point[i].index + 1 <= M
  /\ \A i \in 1..Len(root.point) : root.point[i].key \in Int
  /\ \A i, j \in 1..Len(root.point) :
       i <= j => root.point[i].index <= root.point[j].index

(* No index of a child is below 0 or above the last one.                   *)
LEMMA RootInRange ==
  ASSUME NEW root, NEW M, Rooted(root, M), NEW k \in Int
  PROVE  PredictRoot(root, k) \in 0..M * Unit
<1> DEFINE x     == k - root.minValue
           I     == {i \in 1..Len(root.point) : x <= root.point[i].key}
           found == LeastOf(I)
           s     == IF found = 0 THEN Len(root.theta) ELSE found
           low   == IF s = 1 THEN 0 ELSE (root.point[s - 1].index + 1) * Unit
           high  == (IF found = 0 THEN root.children - 1 ELSE root.point[s].index) * Unit
           line  == root.theta[s]
           p     == ((line.slope * x + line.intercept) * Unit) \div line.den
           m     == Len(root.point)
<1>1. PredictRoot(root, k) = IF p < low THEN low ELSE Min({p, high})
  BY DEF PredictRoot, SelectInSeq, LeastOf
<1>2. Unit \in Nat \ {0}
  BY RootModelsAssumption
<1>3. m \in Nat /\ Len(root.theta) = m + 1 /\ M \in Nat /\ root.children - 1 = M
  BY DEF Rooted
<1>4. found \in 0..m
  <2>1. I \subseteq 1..m
    OBVIOUS
  <2> HIDE DEF I, m
  <2> QED  BY <1>3, <2>1, LeastOfIs
<1> HIDE DEF I, found, m
<1>5. s \in 1..m + 1 /\ (s # 1 => s - 1 \in 1..m) /\ (found # 0 => s \in 1..m)
  BY <1>3, <1>4
<1>6. x \in Int
  BY DEF Rooted
<1> HIDE DEF s, x
<1>7. /\ \A i \in 1..m : root.point[i].index \in Nat /\ root.point[i].index + 1 <= M
      /\ \A i \in 1..m + 1 : root.theta[i] \in LinesUp
  BY <1>3 DEF Rooted, m
<1>8. line.slope \in Int /\ line.intercept \in Int /\ line.den \in Nat \ {0}
  <2>1. line \in LinesUp
    BY <1>5, <1>7
  <2> HIDE DEF line
  <2> QED  BY <2>1 DEF LinesUp
<1> HIDE DEF line
<1>9. p \in Int
  <2>1. line.slope * x \in Int
    BY <1>6, <1>8
  <2>2. line.slope * x + line.intercept \in Int
    BY <1>8, <2>1
  <2>3. (line.slope * x + line.intercept) * Unit \in Int
    BY <1>2, <2>2
  <2> QED  BY <1>8, <2>3, Quotient
<1> HIDE DEF p
<1>10. ASSUME NEW a \in Nat, a <= M
       PROVE  a * Unit \in 0..M * Unit
  <2>1. M - a \in Nat /\ Unit \in Nat
    BY <1>2, <1>3, <1>10
  <2>2. a * Unit \in Nat /\ (M - a) * Unit \in Nat
    BY <2>1, NotNegativeProduct
  <2>3. M * Unit = a * Unit + (M - a) * Unit
    BY <1>3, <2>1
  <2> QED  BY <2>2, <2>3
<1>11. low \in 0..M * Unit
  <2>1. CASE s = 1
    <3>1. 0 * Unit \in 0..M * Unit /\ 0 * Unit = 0
      BY <1>2, <1>3, <1>10
    <3> QED  BY <2>1, <3>1
  <2>2. CASE s # 1
    <3>1. root.point[s - 1].index + 1 \in Nat /\ root.point[s - 1].index + 1 <= M
      BY <1>5, <1>7, <2>2
    <3>2. (root.point[s - 1].index + 1) * Unit \in 0..M * Unit
      BY <1>10, <3>1
    <3> QED  BY <2>2, <3>2
  <2> QED  BY <2>1, <2>2
<1>12. high \in 0..M * Unit
  <2>1. CASE found = 0
    <3>1. M * Unit \in 0..M * Unit
      BY <1>3, <1>10
    <3> QED  BY <1>3, <2>1, <3>1
  <2>2. CASE found # 0
    <3>1. root.point[s].index \in Nat /\ root.point[s].index <= M
      BY <1>3, <1>5, <1>7, <2>2
    <3>2. root.point[s].index * Unit \in 0..M * Unit
      BY <1>10, <3>1
    <3> QED  BY <2>2, <3>2
  <2> QED  BY <2>1, <2>2
<1> DEFINE mu == M * Unit
<1>13. mu \in Nat /\ low \in 0..mu /\ high \in 0..mu
  BY <1>2, <1>3, <1>11, <1>12, NotNegativeProduct
<1> HIDE DEF low, high, mu
<1>14. Min({p, high}) = IF p <= high THEN p ELSE high
  BY <1>9, <1>13, MinOfTwo
<1>15. (IF p < low THEN low ELSE Min({p, high})) \in 0..mu
  BY <1>9, <1>13, <1>14
<1> QED  BY <1>1, <1>15 DEF mu

LEMMA RootChildInRange ==
  ASSUME NEW root, NEW M, Rooted(root, M), NEW k \in Int
  PROVE  PredictRoot(root, k) \div Unit \in 0..root.children - 1
<1> DEFINE p == PredictRoot(root, k)
<1>1. Unit \in Nat \ {0} /\ M \in Nat /\ root.children - 1 = M
  BY RootModelsAssumption DEF Rooted
<1>2. p \in 0..M * Unit
  BY RootInRange
<1> HIDE DEF p
<1>3. M * Unit \in Int
  BY <1>1
<1>4. p \in Int /\ 0 \in Int /\ 0 <= p /\ p <= M * Unit
  BY <1>2, <1>3
<1>5. 0 \div Unit <= p \div Unit /\ p \div Unit <= (M * Unit) \div Unit
  BY <1>1, <1>3, <1>4, QuotientRises
<1>6. 0 \div Unit = 0 /\ (M * Unit) \div Unit = M
  BY <1>1
<1>7. p \div Unit \in Int
  BY <1>1, <1>4, Quotient
<1> QED  BY <1>1, <1>5, <1>6, <1>7 DEF p

(* Train gives such a root.                                                *)
LEMMA RootCutsAre ==
  ASSUME NEW ks \in Seq(Int), Len(ks) > 0, NEW M, NEW cuts \in RootCuts(ks, M)
  PROVE  /\ cuts \in Seq(Nat) /\ DOMAIN cuts = 1..Len(cuts) /\ Ascending(cuts)
         /\ \A i \in 1..Len(cuts) : cuts[i] \in 1..Len(ks) - 2
<1>1. CASE cuts = <<>>
  BY <1>1 DEF Ascending
<1>2. CASE cuts # <<>>
  <2>1. PICK m \in 2..RootSegments - 1 : cuts \in [1..m -> 1..Len(ks) - 2] /\ Ascending(cuts)
    BY <1>2 DEF RootCuts
  <2>2. m \in Nat /\ 1..Len(ks) - 2 \subseteq Nat
    BY RootModelsAssumption
  <2>3. cuts \in Seq(Nat) /\ Len(cuts) = m /\ DOMAIN cuts = 1..m
    BY <2>1, <2>2
  <2> QED  BY <2>1, <2>3
<1> QED  BY <1>1, <1>2

LEMMA LinesAre ==
  ASSUME NEW ks \in Seq(Int), Len(ks) > 0, NEW M \in Nat, NEW cuts \in RootCuts(ks, M)
  PROVE  /\ Len(LinesOf(ks, M, cuts)) = Len(cuts) + 1
         /\ \A s \in 1..Len(cuts) + 1 : LinesOf(ks, M, cuts)[s] \in LinesUp
<1> DEFINE n == Len(ks)
           m == Len(cuts)
           ends == <<0>> \o cuts \o <<n - 1>>
<1>1. /\ cuts \in Seq(Nat) /\ Ascending(cuts) /\ m \in Nat /\ n \in Nat \ {0}
      /\ \A i \in 1..m : cuts[i] \in 1..n - 2
  BY RootCutsAre
<1>2. /\ ends[1] = 0 /\ ends[m + 2] = n - 1
      /\ \A i \in 1..m : ends[i + 1] = cuts[i]
  BY <1>1
<1> HIDE DEF ends
<1>3. LinesOf(ks, M, cuts) = [s \in 1..m + 1 |-> SegmentLine(ks, M, ends[s], ends[s + 1])]
  BY DEF LinesOf, ends
<1> HIDE DEF n, m
<1>4. ASSUME NEW s \in 1..m + 1
      PROVE  /\ ends[s] \in Nat /\ ends[s + 1] \in Nat
             /\ ends[s] <= ends[s + 1] /\ ends[s + 1] <= n - 1
  <2>1. CASE s = 1 /\ s = m + 1
    <3>1. s + 1 = m + 2
      BY <1>1, <2>1
    <3> QED  BY <1>1, <1>2, <2>1, <3>1
  <2>2. CASE s = 1 /\ s # m + 1
    <3>1. 1 \in 1..m
      BY <1>1, <2>2
    <3>2. ends[s] = 0 /\ ends[s + 1] = cuts[1] /\ cuts[1] \in 1..n - 2
      BY <1>1, <1>2, <2>2, <3>1
    <3> DEFINE u == cuts[1]
    <3>3. ends[s] = 0 /\ ends[s + 1] = u /\ u \in 1..n - 2
      BY <3>2
    <3> HIDE DEF u
    <3> QED  BY <1>1, <3>3
  <2>3. CASE s # 1 /\ s = m + 1
    <3>1. m \in 1..m /\ s = m + 1 /\ s + 1 = m + 2
      BY <1>1, <2>3
    <3>2. ends[s] = cuts[m] /\ ends[s + 1] = n - 1 /\ cuts[m] \in 1..n - 2
      BY <1>1, <1>2, <3>1
    <3> DEFINE u == cuts[m]
    <3>3. ends[s] = u /\ ends[s + 1] = n - 1 /\ u \in 1..n - 2
      BY <3>2
    <3> HIDE DEF u
    <3> QED  BY <1>1, <3>3
  <2>4. CASE s # 1 /\ s # m + 1
    <3>1. s - 1 \in 1..m /\ s \in 1..m /\ s - 1 \in 1..m - 1 /\ (s - 1) + 1 = s
      BY <1>1, <2>4
    <3>2. ends[s] = cuts[s - 1] /\ ends[s + 1] = cuts[s]
      BY <1>2, <3>1
    <3>3. cuts[s - 1] < cuts[s]
      BY <1>1, <3>1 DEF Ascending, m
    <3>4. cuts[s - 1] \in 1..n - 2 /\ cuts[s] \in 1..n - 2
      BY <1>1, <3>1
    <3> DEFINE u == cuts[s - 1]
               v == cuts[s]
    <3>5. u < v /\ u \in 1..n - 2 /\ v \in 1..n - 2 /\ ends[s] = u /\ ends[s + 1] = v
      BY <3>2, <3>3, <3>4
    <3> HIDE DEF u, v
    <3> QED  BY <1>1, <3>5
  <2> QED  BY <2>1, <2>2, <2>3, <2>4
<1>5. ASSUME NEW s \in 1..m + 1
      PROVE  LinesOf(ks, M, cuts)[s] \in LinesUp
  <2>1. SegmentLine(ks, M, ends[s], ends[s + 1]) \in LinesUp
    BY <1>4, SegmentIsLine DEF n
  <2> QED  BY <1>3, <2>1
<1>6. Len(LinesOf(ks, M, cuts)) = m + 1
  BY <1>1, <1>3
<1> QED  BY <1>5, <1>6 DEF m

LEMMA FitRootIs ==
  ASSUME NEW ks \in Seq(Int), Len(ks) > 0, NEW c \in Nat,
         NEW cuts \in RootCuts(ks, MaxChildIdx(c))
  PROVE  Rooted(FitRoot(ks, c, cuts), MaxChildIdx(c))
<1> DEFINE M == MaxChildIdx(c)
           n == Len(ks)
           root == FitRoot(ks, c, cuts)
<1>1. M \in Nat \ {0}
  <2>1. M = IF 2 >= c - 1 THEN 2 ELSE c - 1
    BY MaxOfTwo DEF MaxChildIdx
  <2> HIDE DEF M
  <2> QED  BY <2>1
<1> HIDE DEF M
<1>2. n \in Nat \ {0} /\ ks[1] \in Int
  OBVIOUS
<1>3. /\ Len(cuts) \in Nat /\ DOMAIN cuts = 1..Len(cuts)
      /\ \A i \in 1..Len(cuts) : cuts[i] \in 1..n - 2
  BY <1>1, RootCutsAre DEF M
<1>4. /\ Len(LinesOf(ks, M, cuts)) = Len(cuts) + 1
      /\ \A s \in 1..Len(cuts) + 1 : LinesOf(ks, M, cuts)[s] \in LinesUp
  BY <1>1, LinesAre DEF M
<1>5. /\ root.children = M + 1 /\ root.minValue = ks[1]
      /\ root.theta = LinesOf(ks, M, cuts)
      /\ root.point = [i \in 1..Len(cuts) |->
                         [key   |-> ks[cuts[i] + 1] - ks[1],
                          index |-> (cuts[i] * M) \div n]]
  BY <1>3 DEF FitRoot, M
<1> HIDE DEF root, n
<1>6. Len(root.point) = Len(cuts)
  BY <1>3, <1>5
<1>7. ASSUME NEW i \in 1..Len(cuts)
      PROVE  (cuts[i] * M) \div n \in Nat /\ (cuts[i] * M) \div n + 1 <= M
  <2> DEFINE a == cuts[i]
             v == (a * M) \div n
  <2>1. a \in Nat /\ (n - 1) - a \in Nat /\ M \in Nat
    BY <1>1, <1>2, <1>3
  <2> HIDE DEF a
  <2>2. a * M \in Nat /\ ((n - 1) - a) * M \in Nat
    BY <2>1, NotNegativeProduct
  <2>3. n * M = a * M + ((n - 1) - a) * M + M
    BY <1>2, <2>1
  <2>4. v \in Int /\ v * n <= a * M /\ a * M < v * n + n
    <3> DEFINE am == a * M
    <3>1. am \in Int
      BY <2>2
    <3> HIDE DEF am
    <3>2. am \div n \in Int /\ (am \div n) * n <= am /\ am < (am \div n) * n + n
      BY <1>2, <3>1, Quotient
    <3> QED  BY <3>2 DEF am
  <2> HIDE DEF v
  <2>5. v < M
    <3> SUFFICES ASSUME M <= v PROVE FALSE
      BY <1>1, <2>4
    <3>1. n * M <= n * v /\ n * v = v * n /\ n * M \in Int /\ v * n \in Int
      BY <1>1, <1>2, <2>4, ProductRises
    <3> DEFINE am == a * M
               bm == ((n - 1) - a) * M
               nm == n * M
               vn == v * n
    <3>2. /\ am \in Nat /\ bm \in Nat /\ nm = am + bm + M /\ vn <= am /\ nm <= vn
          /\ M \in Nat \ {0} /\ vn \in Int
      BY <1>1, <2>2, <2>3, <2>4, <3>1
    <3> HIDE DEF am, bm, nm, vn
    <3> QED  BY ONLY <3>2
  <2>6. v >= 0
    <3> SUFFICES ASSUME v + 1 <= 0 PROVE FALSE
      BY <2>4
    <3>1. n * (v + 1) <= n * 0 /\ n * (v + 1) = v * n + n /\ n * 0 = 0 /\ v * n \in Int
      BY <1>2, <2>4, ProductRises
    <3> DEFINE am == a * M
               vn == v * n
               nv == n * (v + 1)
    <3>2. am \in Nat /\ am < vn + n /\ nv <= 0 /\ nv = vn + n /\ vn \in Int /\ n \in Nat
      BY <1>2, <2>2, <2>4, <3>1
    <3> HIDE DEF am, vn, nv
    <3> QED  BY ONLY <3>2
  <2>7. v \in Nat /\ v + 1 <= M
    BY <1>1, <2>4, <2>5, <2>6
  <2> QED  BY <2>7 DEF v, a
<1>8. \A i \in 1..Len(root.point) :
        root.point[i].index \in Nat /\ root.point[i].index + 1 <= M
  BY <1>5, <1>6, <1>7
<1>9. ASSUME NEW i \in 1..Len(root.point), NEW j \in 1..Len(root.point), i <= j
      PROVE  root.point[i].index <= root.point[j].index
  <2>1. cuts[i] \in Nat /\ cuts[j] \in Nat /\ cuts[i] <= cuts[j]
    <3>1. cuts \in Seq(Nat) /\ Ascending(cuts)
      BY RootCutsAre DEF M
    <3>2. cuts \in Seq(Int) /\ \A m \in 1..Len(cuts) - 1 : cuts[m] <= cuts[m + 1]
      BY <3>1 DEF Ascending
    <3>3. Rising(cuts)
      BY <3>2, AdjacentRise
    <3> QED  BY <1>6, <1>9, <3>1, <3>3 DEF Rising
  <2> DEFINE a == cuts[i]
             b == cuts[j]
  <2>2. a \in Nat /\ b \in Nat /\ a <= b
    BY <2>1
  <2> HIDE DEF a, b
  <2>3. M * a <= M * b /\ M * a = a * M /\ M * b = b * M /\ a * M \in Int /\ b * M \in Int
    BY <1>1, <2>2, ProductRises
  <2>4. (a * M) \div n <= (b * M) \div n
    BY <1>2, <2>3, QuotientRises
  <2> QED  BY <1>5, <1>6, <2>4 DEF a, b
<1>10. ASSUME NEW i \in 1..Len(root.point)
       PROVE  root.point[i].key \in Int
  <2> DEFINE u == cuts[i]
  <2>1. u \in 1..n - 2
    BY <1>3, <1>6
  <2> HIDE DEF u
  <2>2. u + 1 \in 1..n
    BY <1>2, <2>1
  <2>3. ks[u + 1] \in Int
    BY <2>2 DEF n
  <2>4. root.point[i].key = ks[u + 1] - ks[1]
    BY <1>5, <1>6 DEF u
  <2> QED  BY <1>2, <2>3, <2>4
<1>11. Rooted(root, M)
  BY <1>1, <1>2, <1>3, <1>4, <1>5, <1>6, <1>8, <1>9, <1>10 DEF Rooted
<1> QED  BY <1>11 DEF root, M

(* The indices that a root predicts, in steps of one Unit.                 *)
LEMMA UnitsInOrder ==
  ASSUME NEW a \in Int, NEW b \in Int, a <= b
  PROVE  a * Unit <= b * Unit /\ a * Unit \in Int /\ b * Unit \in Int
<1>1. Unit \in Nat
  BY RootModelsAssumption
<1>2. Unit * a <= Unit * b /\ Unit * a = a * Unit /\ Unit * b = b * Unit
  BY <1>1, ProductRises
<1> QED  BY <1>1, <1>2

(* The segment of a key, and the children between which it is kept: in a   *)
(* segment between two points of the same index the first is the higher.   *)
SegmentFor(root, k) ==
  LET found == LeastOf({i \in 1..Len(root.point) : k - root.minValue <= root.point[i].key})
  IN IF found = 0 THEN Len(root.theta) ELSE found

FromChild(root, s) == IF s = 1 THEN 0 ELSE root.point[s - 1].index + 1

ToChild(root, s) ==
  IF s = Len(root.theta) THEN root.children - 1 ELSE root.point[s].index

OnRootLine(root, s, k) ==
  ((root.theta[s].slope * (k - root.minValue) + root.theta[s].intercept) * Unit)
    \div root.theta[s].den

LEMMA SegmentIs ==
  ASSUME NEW root, NEW M, Rooted(root, M), NEW k \in Int
  PROVE  /\ SegmentFor(root, k) \in 1..Len(root.point) + 1
         /\ \A i \in 1..Len(root.point) :
              k - root.minValue <= root.point[i].key => SegmentFor(root, k) <= i
         /\ SegmentFor(root, k) # Len(root.point) + 1 =>
              k - root.minValue <= root.point[SegmentFor(root, k)].key
         /\ PredictRoot(root, k)
              = LET s == SegmentFor(root, k)
                IN IF OnRootLine(root, s, k) < FromChild(root, s) * Unit
                   THEN FromChild(root, s) * Unit
                   ELSE Min({OnRootLine(root, s, k), ToChild(root, s) * Unit})
<1> DEFINE I     == {i \in 1..Len(root.point) : k - root.minValue <= root.point[i].key}
           found == LeastOf(I)
           m     == Len(root.point)
           s     == IF found = 0 THEN Len(root.theta) ELSE found
           p     == OnRootLine(root, s, k)
<1>1. m \in Nat /\ Len(root.theta) = m + 1
  BY DEF Rooted
<1>2. I \subseteq 1..m
  OBVIOUS
<1>3. SegmentFor(root, k) = s
  BY DEF SegmentFor
<1>4. PredictRoot(root, k)
        = IF p < (IF s = 1 THEN 0 ELSE (root.point[s - 1].index + 1) * Unit)
          THEN (IF s = 1 THEN 0 ELSE (root.point[s - 1].index + 1) * Unit)
          ELSE Min({p, (IF found = 0 THEN root.children - 1 ELSE root.point[s].index) * Unit})
  BY DEF PredictRoot, SelectInSeq, LeastOf, OnRootLine
<1>5. \A i \in I : k - root.minValue <= root.point[i].key
  OBVIOUS
<1>6. \A i \in 1..m : k - root.minValue <= root.point[i].key => i \in I
  OBVIOUS
<1> HIDE DEF I, m, p
<1>7. /\ found \in 0..m /\ (found = 0 <=> I = {})
      /\ I # {} => found \in I /\ \A i \in I : found <= i
  BY <1>1, <1>2, LeastOfIs
<1> HIDE DEF found
<1>8. s \in 1..m + 1 /\ (found = 0 <=> s = m + 1)
  BY <1>1, <1>7
<1>9. ASSUME NEW i \in 1..m, k - root.minValue <= root.point[i].key
      PROVE  s <= i
  BY <1>1, <1>6, <1>7, <1>9
<1>10. s # m + 1 => k - root.minValue <= root.point[s].key
  BY <1>1, <1>5, <1>7, <1>8
<1>11. FromChild(root, s) * Unit = IF s = 1 THEN 0 ELSE (root.point[s - 1].index + 1) * Unit
  <2>1. Unit \in Nat
    BY RootModelsAssumption
  <2>2. 0 * Unit = 0
    BY <2>1
  <2> HIDE DEF s
  <2> QED  BY <2>2 DEF FromChild
<1>12. ToChild(root, s) = IF found = 0 THEN root.children - 1 ELSE root.point[s].index
  BY <1>1, <1>8 DEF ToChild
<1> HIDE DEF s
<1>13. PredictRoot(root, k) = IF p < FromChild(root, s) * Unit
                              THEN FromChild(root, s) * Unit
                              ELSE Min({p, ToChild(root, s) * Unit})
  BY <1>4, <1>11, <1>12
<1> QED  BY <1>3, <1>8, <1>9, <1>10, <1>13 DEF m, p

(* The lines do not fall.                                                  *)
LEMMA RootLineRises ==
  ASSUME NEW root, NEW M, Rooted(root, M), NEW s \in 1..Len(root.point) + 1,
         NEW j \in Int, NEW k \in Int, j <= k
  PROVE  /\ OnRootLine(root, s, j) \in Int /\ OnRootLine(root, s, k) \in Int
         /\ OnRootLine(root, s, j) <= OnRootLine(root, s, k)
<1> DEFINE a == root.theta[s].slope
           b == root.theta[s].intercept
           d == root.theta[s].den
           x == j - root.minValue
           y == k - root.minValue
<1>1. x \in Int /\ y \in Int /\ x <= y
  BY DEF Rooted
<1>2. a \in Nat /\ b \in Int /\ d \in Nat \ {0}
  <2>1. root.theta[s] \in LinesUp
    BY DEF Rooted
  <2> DEFINE line == root.theta[s]
  <2>2. line \in LinesUp
    BY <2>1
  <2> HIDE DEF line
  <2>3. line.slope \in Nat /\ line.intercept \in Int /\ line.den \in Nat \ {0}
    BY <2>2 DEF LinesUp
  <2> QED  BY <2>3 DEF line
<1>3. /\ OnRootLine(root, s, j) = ((a * x + b) * Unit) \div d
      /\ OnRootLine(root, s, k) = ((a * y + b) * Unit) \div d
  BY DEF OnRootLine
<1> HIDE DEF a, b, d, x, y
<1>4. a * x <= a * y /\ a * x \in Int /\ a * y \in Int
  BY <1>1, <1>2, ProductRises
<1>5. a * x + b \in Int /\ a * y + b \in Int /\ a * x + b <= a * y + b
  BY <1>2, <1>4
<1>6. /\ (a * x + b) * Unit \in Int /\ (a * y + b) * Unit \in Int
      /\ (a * x + b) * Unit <= (a * y + b) * Unit
  BY <1>5, UnitsInOrder
<1> QED  BY <1>2, <1>3, <1>6, Quotient, QuotientRises

LEMMA BoundsOfSegments ==
  ASSUME NEW root, NEW M, Rooted(root, M), NEW s \in 1..Len(root.point) + 1
  PROVE  /\ FromChild(root, s) \in 0..M /\ ToChild(root, s) \in 0..M
         /\ FromChild(root, s) <= ToChild(root, s) + 1
         /\ \A t \in 1..Len(root.point) + 1 :
              s < t => /\ ToChild(root, s) + 1 <= FromChild(root, t)
                       /\ ToChild(root, s) <= ToChild(root, t)
<1> DEFINE m == Len(root.point)
           ix(i) == root.point[i].index
<1>1. /\ m \in Nat /\ Len(root.theta) = m + 1 /\ M \in Nat /\ root.children - 1 = M
      /\ \A i \in 1..m : ix(i) \in Nat /\ ix(i) + 1 <= M
      /\ \A i, j \in 1..m : i <= j => ix(i) <= ix(j)
  <2>1. /\ m \in Nat /\ Len(root.theta) = m + 1 /\ M \in Nat
        /\ root.children = M + 1
    BY DEF Rooted
  <2>2. \A i \in 1..m : ix(i) \in Nat /\ ix(i) + 1 <= M
    BY DEF Rooted
  <2>3. \A i, j \in 1..m : i <= j => ix(i) <= ix(j)
    BY DEF Rooted
  <2> HIDE DEF m, ix
  <2>4. root.children - 1 = M
    BY <2>1
  <2> QED  BY <2>1, <2>2, <2>3, <2>4
<1>2. /\ \A t : FromChild(root, t) = IF t = 1 THEN 0 ELSE ix(t - 1) + 1
      /\ \A t : ToChild(root, t) = IF t = m + 1 THEN M ELSE ix(t)
  BY <1>1 DEF FromChild, ToChild
<1> HIDE DEF m, ix
<1>3. s \in 1..m + 1
  BY DEF m
<1>4. ASSUME NEW t \in 1..m + 1
      PROVE  /\ t # 1 => t - 1 \in 1..m
             /\ t # m + 1 => t \in 1..m
  BY <1>1
<1>5. ASSUME NEW t \in 1..m + 1
      PROVE  FromChild(root, t) \in 0..M /\ ToChild(root, t) \in 0..M
  <2>1. FromChild(root, t) \in 0..M
    <3>1. CASE t = 1
      BY <1>1, <1>2, <3>1
    <3>2. CASE t # 1
      <4>1. t - 1 \in 1..m
        BY <1>4, <3>2
      <4>2. ix(t - 1) \in Nat /\ ix(t - 1) + 1 <= M
        BY <1>1, <4>1
      <4>3. FromChild(root, t) = ix(t - 1) + 1
        BY <1>2, <3>2
      <4> QED  BY <1>1, <4>2, <4>3
    <3> QED  BY <3>1, <3>2
  <2>2. ToChild(root, t) \in 0..M
    <3>1. CASE t = m + 1
      BY <1>1, <1>2, <3>1
    <3>2. CASE t # m + 1
      <4>1. t \in 1..m
        BY <1>4, <3>2
      <4>2. ix(t) \in Nat /\ ix(t) + 1 <= M
        BY <1>1, <4>1
      <4>3. ToChild(root, t) = ix(t)
        BY <1>2, <3>2
      <4> QED  BY <1>1, <4>2, <4>3
    <3> QED  BY <3>1, <3>2
  <2> QED  BY <2>1, <2>2
<1>6. FromChild(root, s) <= ToChild(root, s) + 1
  <2>1. CASE s = 1
    <3>1. FromChild(root, s) = 0 /\ ToChild(root, s) \in 0..M
      BY <1>2, <1>3, <1>5, <2>1
    <3> QED  BY <1>1, <3>1
  <2>2. CASE s = m + 1
    <3>1. FromChild(root, s) \in 0..M /\ ToChild(root, s) = M
      BY <1>2, <1>3, <1>5, <2>2
    <3> QED  BY <1>1, <3>1
  <2>3. CASE s # 1 /\ s # m + 1
    <3>1. s - 1 \in 1..m /\ s \in 1..m /\ s - 1 <= s
      BY <1>3, <1>4, <2>3
    <3>2. FromChild(root, s) = ix(s - 1) + 1 /\ ToChild(root, s) = ix(s)
      BY <1>2, <2>3
    <3>3. ix(s - 1) <= ix(s) /\ ix(s - 1) \in Nat /\ ix(s) \in Nat
      BY <1>1, <3>1
    <3> QED  BY <3>2, <3>3
  <2> QED  BY <2>1, <2>2, <2>3
<1>7. ASSUME NEW t \in 1..m + 1, s < t
      PROVE  ToChild(root, s) + 1 <= FromChild(root, t) /\ ToChild(root, s) <= ToChild(root, t)
  <2>1. t # 1 /\ s # m + 1 /\ t - 1 \in 1..m /\ s \in 1..m /\ s <= t - 1
    BY <1>1, <1>3, <1>7
  <2>2. FromChild(root, t) = ix(t - 1) + 1 /\ ToChild(root, s) = ix(s)
    BY <1>2, <2>1
  <2>3. ix(s) <= ix(t - 1) /\ ix(s) \in Nat /\ ix(t - 1) \in Nat
    BY <1>1, <2>1
  <2>4. CASE t = m + 1
    <3>1. ToChild(root, t) = M /\ ToChild(root, s) \in 0..M
      BY <1>2, <1>3, <1>5, <2>4
    <3> QED  BY <1>1, <2>2, <2>3, <3>1
  <2>5. CASE t # m + 1
    <3>1. t \in 1..m /\ ToChild(root, t) = ix(t) /\ s <= t
      BY <1>2, <1>4, <1>7, <2>1, <2>5
    <3>2. ix(s) <= ix(t) /\ ix(t) \in Nat
      BY <1>1, <2>1, <3>1
    <3> QED  BY <2>2, <2>3, <3>1, <3>2
  <2> QED  BY <2>4, <2>5
<1> QED  BY <1>3, <1>5, <1>6, <1>7 DEF m

(* The indices of keys are in their order as far as their children are.    *)
LEMMA RootKeepsOrder ==
  ASSUME NEW root, NEW M, Rooted(root, M), NEW j \in Int, NEW k \in Int, j <= k,
         PredictRoot(root, j) \div Unit <= PredictRoot(root, k) \div Unit
  PROVE  PredictRoot(root, j) <= PredictRoot(root, k)
<1> DEFINE m == Len(root.point)
           s == SegmentFor(root, j)
           t == SegmentFor(root, k)
           p == OnRootLine(root, s, j)
           q == OnRootLine(root, t, k)
           v == PredictRoot(root, j)
           w == PredictRoot(root, k)
           a == FromChild(root, s)
           b == ToChild(root, s)
           c == FromChild(root, t)
           d == ToChild(root, t)
<1>1. m \in Nat /\ root.minValue \in Int /\ Unit \in Nat \ {0} /\ M \in Nat
  BY RootModelsAssumption DEF Rooted
<1>2. /\ s \in 1..m + 1 /\ t \in 1..m + 1
      /\ v = IF p < a * Unit THEN a * Unit ELSE Min({p, b * Unit})
      /\ w = IF q < c * Unit THEN c * Unit ELSE Min({q, d * Unit})
  BY SegmentIs
<1>3. s <= t
  <2>1. CASE t = m + 1
    BY <1>1, <1>2, <2>1
  <2>2. CASE t # m + 1
    <3>1. t \in 1..m
      BY <1>1, <1>2, <2>2
    <3>2. k - root.minValue <= root.point[t].key
      BY <2>2, SegmentIs
    <3> DEFINE y == root.point[t].key
    <3>3. \A i \in 1..m : j - root.minValue <= root.point[i].key => s <= i
      BY SegmentIs
    <3>4. j - root.minValue <= y => s <= t
      BY <3>1, <3>3
    <3>5. y \in Int => j - root.minValue <= y
      BY <1>1, <3>2
    <3>6. y \in Int
      BY <3>1 DEF Rooted
    <3> QED  BY <3>4, <3>5, <3>6
  <2> QED  BY <2>1, <2>2
<1>4. a \in 0..M /\ b \in 0..M /\ c \in 0..M /\ d \in 0..M
  BY <1>2, BoundsOfSegments
<1>5. a <= b + 1 /\ c <= d + 1 /\ (s < t => b + 1 <= c /\ b <= d)
  BY <1>2, BoundsOfSegments
<1>6. p \in Int /\ q \in Int /\ (s = t => p <= q)
  <2>1. j <= j /\ k <= k
    OBVIOUS
  <2>2. p \in Int /\ q \in Int
    BY <1>2, <2>1, RootLineRises
  <2>3. s = t => p <= q
    BY <1>2, RootLineRises
  <2> QED  BY <2>2, <2>3
<1>7. s = t => a = c /\ b = d
  OBVIOUS
<1>8. v \div Unit <= w \div Unit
  OBVIOUS
<1> HIDE DEF m, s, t, p, q, v, w, a, b, c, d
<1> DEFINE A == a * Unit
           B == b * Unit
           C == c * Unit
           D == d * Unit
<1>9. a \in Int /\ b \in Int /\ c \in Int /\ d \in Int
  BY <1>1, <1>4
<1>10. /\ A \in Int /\ B \in Int /\ C \in Int /\ D \in Int
       /\ A \div Unit = a /\ B \div Unit = b /\ C \div Unit = c /\ D \div Unit = d
  BY <1>1, <1>9
<1>11. /\ (a <= b => A <= B) /\ (c <= d => C <= D) /\ (a <= c => A <= C) /\ (b <= c => B <= C)
       /\ (a <= d => A <= D) /\ (b <= d => B <= D)
  BY <1>9, UnitsInOrder
<1>12. (s = t => A = C /\ B = D)
  BY <1>7
<1>13. /\ v = IF p < A THEN A ELSE IF p <= B THEN p ELSE B
       /\ w = IF q < C THEN C ELSE IF q <= D THEN q ELSE D
  <2>1. Min({p, B}) = IF p <= B THEN p ELSE B
    BY <1>6, <1>10, MinOfTwo
  <2>2. Min({q, D}) = IF q <= D THEN q ELSE D
    BY <1>6, <1>10, MinOfTwo
  <2> QED  BY <1>2, <2>1, <2>2
<1> HIDE DEF A, B, C, D
<1>14. s \in Int /\ t \in Int
  BY <1>1, <1>2
<1>15. CASE s = t /\ a <= b
  <2>1. A = C /\ B = D /\ A <= B /\ p <= q
    BY <1>6, <1>11, <1>12, <1>15
  <2> QED  BY ONLY <2>1, <1>6, <1>10, <1>13 DEF v, w
<1>16. CASE s = t /\ ~ (a <= b)
  <2>1. a = b + 1 /\ c = a /\ d = b
    BY <1>5, <1>7, <1>9, <1>16
  <2>2. B <= A /\ A = C /\ B = D
    BY <1>9, <1>12, <1>16, <2>1, UnitsInOrder DEF A, B
  <2>3. (v = A \/ v = B) /\ (w = A \/ w = B)
    BY <1>6, <1>10, <1>13, <2>2
  <2>4. ~ (v = A /\ w = B /\ A # B)
    BY <1>8, <1>9, <1>10, <2>1
  <2> QED  BY <1>10, <2>2, <2>3, <2>4 DEF v, w
<1>17. CASE s < t
  <2>1. b + 1 <= c /\ b <= d /\ b <= c /\ a <= c
    BY <1>5, <1>9, <1>17
  <2>2. B <= C /\ B <= D /\ A <= C
    BY <1>11, <2>1
  <2>3. v <= B \/ v = A
    BY <1>6, <1>10, <1>13
  <2>4. w >= C \/ w = D
    BY <1>6, <1>10, <1>13
  <2>5. v \in Int /\ w \in Int
    BY <1>6, <1>10, <1>13
  <2>6. CASE v = A /\ w = D
    <3>1. a <= d
      BY <1>8, <1>10, <2>6
    <3> QED  BY <1>11, <2>6, <3>1 DEF v, w
  <2>7. CASE v <= B \/ w >= C
    BY <1>10, <2>2, <2>3, <2>4, <2>5, <2>7 DEF v, w
  <2> QED  BY <2>3, <2>4, <2>6, <2>7
<1> QED  BY <1>3, <1>14, <1>15, <1>16, <1>17

----------------------------------------------------------------------------
(* Blocks and steps.                                                       *)
LEMMA WholeUnits ==
  ASSUME NEW q \in Int, NEW a \in Int, q * Unit <= a, a < q * Unit + Unit
  PROVE  a \div Unit = q
<1> DEFINE r == a \div Unit
<1>1. Unit \in Nat \ {0}
  BY RootModelsAssumption
<1>2. r \in Int /\ r * Unit <= a /\ a < r * Unit + Unit
  BY <1>1, Quotient
<1> HIDE DEF r
<1>3. q * Unit \in Int /\ r * Unit \in Int
  BY <1>1, <1>2
<1>4. ~ (r + 1 <= q)
  <2> SUFFICES ASSUME r + 1 <= q PROVE FALSE
    OBVIOUS
  <2>1. (r + 1) * Unit <= q * Unit
    BY <1>2, UnitsInOrder
  <2>2. (r + 1) * Unit = r * Unit + Unit
    BY <1>1, <1>2
  <2> DEFINE qu == q * Unit
             ru == r * Unit
  <2>3. qu \in Int /\ ru \in Int /\ Unit \in Nat /\ ru + Unit <= qu /\ qu <= a /\ a < ru + Unit
    BY <1>1, <1>2, <1>3, <2>1, <2>2
  <2> HIDE DEF qu, ru
  <2> QED  BY ONLY <2>3, a \in Int
<1>5. ~ (q + 1 <= r)
  <2> SUFFICES ASSUME q + 1 <= r PROVE FALSE
    OBVIOUS
  <2>1. (q + 1) * Unit <= r * Unit
    BY <1>2, UnitsInOrder
  <2>2. (q + 1) * Unit = q * Unit + Unit
    BY <1>1
  <2> DEFINE qu == q * Unit
             ru == r * Unit
  <2>3. qu \in Int /\ ru \in Int /\ Unit \in Nat /\ qu + Unit <= ru /\ ru <= a /\ a < qu + Unit
    BY <1>1, <1>2, <1>3, <2>1, <2>2
  <2> HIDE DEF qu, ru
  <2> QED  BY ONLY <2>3, a \in Int
<1>6. r = q
  BY <1>2, <1>4, <1>5
<1> QED  BY <1>6 DEF r

LEMMA UnitsAdded ==
  ASSUME NEW a \in Int, NEW i \in Int
  PROVE  (a + i * Unit) \div Unit = a \div Unit + i
<1> DEFINE q == a \div Unit
           iu == i * Unit
           qu == q * Unit
<1>1. Unit \in Nat \ {0}
  BY RootModelsAssumption
<1>2. q \in Int /\ q * Unit <= a /\ a < q * Unit + Unit
  BY <1>1, Quotient
<1>3. q + i \in Int /\ a + iu \in Int /\ iu \in Int
  BY <1>1, <1>2
<1>4. (q + i) * Unit = qu + iu /\ qu \in Int
  BY <1>1, <1>2
<1> HIDE DEF q
<1>5. (q + i) * Unit <= a + iu /\ a + iu < (q + i) * Unit + Unit
  <2>1. qu \in Int /\ iu \in Int /\ qu <= a /\ a < qu + Unit /\ Unit \in Nat
    BY <1>1, <1>2, <1>3, <1>4
  <2> HIDE DEF qu, iu
  <2> QED  BY <1>4, <2>1
<1> HIDE DEF iu
<1>6. (a + iu) \div Unit = q + i
  BY <1>3, <1>2, <1>5, WholeUnits
<1> QED  BY <1>6 DEF iu, q

(* Of b blocks to a child, a key has one of those of its child.            *)
LEMMA BlockOfChild ==
  ASSUME NEW b \in Nat \ {0}, NEW x \in Int
  PROVE  /\ (b * x) \div Unit \in Int /\ x \div Unit \in Int
         /\ b * (x \div Unit) \in Int
         /\ b * (x \div Unit) <= (b * x) \div Unit
         /\ (b * x) \div Unit < b * (x \div Unit) + b
<1> DEFINE c == x \div Unit
           bx == b * x
           q == bx \div Unit
           cu == c * Unit
           bc == b * c
<1>1. Unit \in Nat \ {0}
  BY RootModelsAssumption
<1>2. c \in Int /\ cu <= x /\ x < cu + Unit
  BY <1>1, Quotient
<1> HIDE DEF c
<1>3. bx \in Int /\ cu \in Int /\ bc \in Int
  BY <1>1, <1>2
<1>4. bc * Unit <= bx /\ bx < (bc + b) * Unit
  <2>1. b * cu <= bx /\ b * cu = bc * Unit
    <3>1. b * cu = bc * Unit
      BY <1>1, <1>2
    <3> HIDE DEF cu
    <3> QED  BY <1>2, <1>3, <3>1, ProductRises
  <2>2. b * x <= b * (cu + Unit - 1) /\ b * (cu + Unit - 1) = (bc + b) * Unit - b
    <3>1. b * (cu + Unit - 1) = (bc + b) * Unit - b
      BY <1>1, <1>2
    <3> HIDE DEF cu
    <3>2. cu + Unit - 1 \in Int /\ x <= cu + Unit - 1
      BY <1>1, <1>2, <1>3
    <3> QED  BY <3>1, <3>2, ProductRises
  <2>3. (bc + b) * Unit \in Int
    BY <1>1, <1>3
  <2> QED  BY <1>3, <2>1, <2>2, <2>3
<1> HIDE DEF bx
<1>5. q \in Int /\ q * Unit <= bx /\ bx < q * Unit + Unit
  BY <1>1, <1>3, Quotient
<1> HIDE DEF q, bc
<1>6. bc <= q
  <2> SUFFICES ASSUME q + 1 <= bc PROVE FALSE
    BY <1>3, <1>5
  <2>1. (q + 1) * Unit <= bc * Unit /\ (q + 1) * Unit = q * Unit + Unit
    BY <1>1, <1>3, <1>5, UnitsInOrder
  <2>2. q * Unit \in Int /\ bc * Unit \in Int
    BY <1>1, <1>3, <1>5
  <2> QED  BY <1>1, <1>3, <1>4, <1>5, <2>1, <2>2
<1>7. q < bc + b
  <2> SUFFICES ASSUME bc + b <= q PROVE FALSE
    BY <1>3, <1>5
  <2>1. (bc + b) * Unit <= q * Unit /\ (bc + b) * Unit \in Int /\ q * Unit \in Int
    BY <1>1, <1>3, <1>5, UnitsInOrder
  <2> QED  BY <1>3, <1>4, <1>5, <2>1
<1> QED  BY <1>2, <1>3, <1>5, <1>6, <1>7 DEF q, bx, bc, c

(* Conversion to int of what is not below 0.                               *)
LEMMA BlockIs ==
  ASSUME NEW a \in Int, NEW i \in Int, a \div Unit + i >= 0
  PROVE  Truncated(a + i * Unit) = a \div Unit + i
<1> DEFINE v == a + i * Unit
           q == a \div Unit
<1>1. Unit \in Nat \ {0}
  BY RootModelsAssumption
<1>2. v \div Unit = q + i
  BY UnitsAdded
<1>3. v \in Int /\ q \in Int
  BY <1>1, Quotient
<1> HIDE DEF v, q
<1>4. (v \div Unit) * Unit <= v
  BY <1>1, <1>3, Quotient
<1>5. q + i >= 0
  BY DEF q
<1>6. 0 * Unit <= (q + i) * Unit /\ 0 * Unit = 0 /\ (q + i) * Unit \in Int
  BY <1>1, <1>3, <1>5, UnitsInOrder
<1>7. ~ (v < 0)
  BY <1>2, <1>3, <1>4, <1>6
<1>8. Truncated(v) = v \div Unit
  BY <1>7 DEF Truncated
<1> QED  BY <1>2, <1>8 DEF v, q

----------------------------------------------------------------------------
(* What training makes of points whose indices are from a to z.            *)
Even(f) ==
  /\ \A s \in 1..FetchSegments - 1 : f.leaf[s] = 0
  /\ \A s \in 1..FetchSegments : f.slope[s] = 1

Fetches(f, a, z) ==
  /\ a \in Nat /\ z \in Nat /\ a <= z
  /\ Len(f.leaf) = FetchSegments - 1
  /\ \A s \in 1..FetchSegments - 1 :
       /\ f.leaf[s] \in Nat /\ f.leaf[s] <= z \div Unit
       /\ f.block[s] \in Int
       /\ f.block[s] = f.slope[s] * f.leaf[s] + f.intercept[s]
  /\ \A s \in 1..FetchSegments : f.slope[s] \in Nat \ {0} /\ f.intercept[s] \in Int
  /\ \A s, t \in 1..FetchSegments - 1 :
       s <= t => f.leaf[s] <= f.leaf[t] /\ f.block[s] <= f.block[t]
  /\ f.intercept[1] = -((f.slope[1] * a) \div Unit)
  /\ \A s \in 2..FetchSegments :
       f.intercept[s] = f.block[s - 1] - f.slope[s] * f.leaf[s - 1]
  /\ f.blockNumber = Truncated(f.slope[FetchSegments] * z
                               + (f.intercept[FetchSegments] + 1) * Unit)
  /\ Even(f) \/ f.leaf[1] >= a \div Unit

(* The segment of a child.                                                 *)
ChildSegment(f, c) ==
  LET found == LeastOf({i \in 1..Len(f.leaf) : c < f.leaf[i]})
  IN IF found = 0 THEN FetchSegments ELSE found

LEMMA ChildSegmentIs ==
  ASSUME NEW f, Len(f.leaf) = FetchSegments - 1,
         \A s \in 1..FetchSegments - 1 : f.leaf[s] \in Nat,
         NEW c \in Int
  PROVE  /\ ChildSegment(f, c) \in 1..FetchSegments
         /\ ChildSegment(f, c) # FetchSegments => c < f.leaf[ChildSegment(f, c)]
         /\ \A i \in 1..FetchSegments - 1 :
              i < ChildSegment(f, c) => f.leaf[i] <= c
<1> DEFINE n     == FetchSegments - 1
           I     == {i \in 1..Len(f.leaf) : c < f.leaf[i]}
           found == LeastOf(I)
           s     == ChildSegment(f, c)
<1>1. FetchSegments \in Nat \ {0, 1} /\ n \in Nat /\ FetchSegments = n + 1
  BY RootModelsAssumption
<1>2. I \subseteq 1..n
  OBVIOUS
<1>3. s = IF found = 0 THEN FetchSegments ELSE found
  BY DEF ChildSegment
<1>4. /\ \A i \in I : c < f.leaf[i]
      /\ \A i \in 1..n : i \notin I => f.leaf[i] <= c
  OBVIOUS
<1> HIDE DEF I, s, n
<1>5. /\ found \in 0..n /\ (found = 0 <=> I = {})
      /\ I # {} => found \in I /\ \A i \in I : found <= i
  BY <1>1, <1>2, LeastOfIs
<1> HIDE DEF found
<1>6. s \in 1..FetchSegments
  BY <1>1, <1>3, <1>5
<1>7. s # FetchSegments => c < f.leaf[s]
  BY <1>3, <1>4, <1>5
<1>8. ASSUME NEW i \in 1..n, i < s
      PROVE  f.leaf[i] <= c
  <2>1. i \notin I
    BY <1>1, <1>3, <1>5, <1>8
  <2> QED  BY <1>4, <2>1
<1> QED  BY <1>6, <1>7, <1>8 DEF s, n

LEMMA SegmentsInOrder ==
  ASSUME NEW f, Len(f.leaf) = FetchSegments - 1,
         \A s \in 1..FetchSegments - 1 : f.leaf[s] \in Nat,
         NEW c \in Int, NEW d \in Int, c <= d
  PROVE  ChildSegment(f, c) <= ChildSegment(f, d)
<1> DEFINE s == ChildSegment(f, c)
           t == ChildSegment(f, d)
           n == FetchSegments
<1>1. /\ s \in 1..n /\ t \in 1..n /\ n \in Nat
      /\ t # n => d < f.leaf[t]
      /\ \A i \in 1..n - 1 : i < s => f.leaf[i] <= c
  BY RootModelsAssumption, ChildSegmentIs
<1> HIDE DEF s, t
<1>2. CASE t = n
  BY <1>1, <1>2 DEF s, t
<1>3. CASE t # n
  <2>1. t \in 1..n - 1 /\ d < f.leaf[t] /\ f.leaf[t] \in Nat
    BY <1>1, <1>3
  <2>2. ~ (t < s)
    BY <1>1, <2>1
  <2> QED  BY <1>1, <2>2 DEF s, t
<1> QED  BY <1>1, <1>2, <1>3

(* An index and its child are in the same segment.                         *)
LEMMA SegmentOfChild ==
  ASSUME NEW f, Len(f.leaf) = FetchSegments - 1,
         \A s \in 1..FetchSegments - 1 : f.leaf[s] \in Nat,
         NEW x \in Int
  PROVE  /\ SegmentOf(f, x) = ChildSegment(f, x \div Unit)
         /\ PrefetchNum(f, x \div Unit) = f.slope[ChildSegment(f, x \div Unit)]
<1> DEFINE c == x \div Unit
<1>1. Unit \in Nat \ {0}
  BY RootModelsAssumption
<1>2. c \in Int /\ c * Unit <= x /\ x < c * Unit + Unit
  BY <1>1, Quotient
<1> HIDE DEF c
<1>3. ASSUME NEW i \in 1..Len(f.leaf)
      PROVE  x < f.leaf[i] * Unit <=> c < f.leaf[i]
  <2> DEFINE l == f.leaf[i]
  <2>1. l \in Int
    OBVIOUS
  <2> HIDE DEF l
  <2>2. l * Unit \in Int /\ c * Unit \in Int
    BY <1>1, <1>2, <2>1
  <2>3. CASE c < l
    <3>1. (c + 1) * Unit <= l * Unit /\ (c + 1) * Unit = c * Unit + Unit
      BY <1>1, <1>2, <2>1, <2>3, UnitsInOrder
    <3> QED  BY <1>1, <1>2, <2>2, <2>3, <3>1 DEF l
  <2>4. CASE l <= c
    <3>1. l * Unit <= c * Unit
      BY <1>2, <2>1, <2>4, UnitsInOrder
    <3>2. ~ (x < l * Unit) /\ ~ (c < l)
      BY <1>2, <2>1, <2>2, <2>4, <3>1
    <3> QED  BY <3>2 DEF l
  <2> QED  BY <1>2, <2>1, <2>3, <2>4
<1>4. {i \in 1..Len(f.leaf) : x < f.leaf[i] * Unit} = {i \in 1..Len(f.leaf) : c < f.leaf[i]}
  BY <1>3
<1>5. SegmentOf(f, x)
        = LET found == LeastOf({i \in 1..Len(f.leaf) : x < f.leaf[i] * Unit})
          IN IF found = 0 THEN FetchSegments ELSE found
  BY DEF SegmentOf, SelectInSeq, LeastOf
<1>6. SegmentOf(f, x) = ChildSegment(f, c)
  BY <1>4, <1>5 DEF ChildSegment
<1>7. PrefetchNum(f, c) = f.slope[ChildSegment(f, c)]
  BY DEF PrefetchNum, ChildSegment, SelectInSeq, LeastOf
<1> QED  BY <1>6, <1>7 DEF c

(* The block that is predicted for an index from a to z is that of its     *)
(* segment's line, and none of another segment.                            *)
FromBlock(f, s) == IF s = 1 THEN 0 ELSE f.block[s - 1]

ToBlock(f, s) == IF s = FetchSegments THEN f.blockNumber ELSE f.block[s]

BlockAt(f, s, x) == (f.slope[s] * x) \div Unit + f.intercept[s]

LEMMA PredictedBlock ==
  ASSUME NEW f, NEW s, NEW x, SegmentOf(f, x) = s,
         f.slope[s] \in Nat \ {0}, f.intercept[s] \in Int, x \in Int,
         FromBlock(f, s) \in Int, ToBlock(f, s) \in Int,
         0 <= BlockAt(f, s, x), FromBlock(f, s) <= BlockAt(f, s, x),
         BlockAt(f, s, x) < ToBlock(f, s)
  PROVE  PrefetchPredict(f, x) = BlockAt(f, s, x)
<1> DEFINE v    == f.slope[s] * x
           p    == Truncated(f.slope[s] * x + f.intercept[s] * Unit)
           low  == FromBlock(f, s)
           high == ToBlock(f, s) - 1
           b    == BlockAt(f, s, x)
<1>1. PrefetchPredict(f, x) = IF p < low THEN low ELSE Min({p, high})
  BY DEF PrefetchPredict, FromBlock, ToBlock
<1>2. v \in Int
  BY f.slope[s] \in Int
<1>3. b = v \div Unit + f.intercept[s]
  BY DEF BlockAt
<1>4. Unit \in Nat \ {0}
  BY RootModelsAssumption
<1>5. p = b
  <2> HIDE DEF v
  <2>1. Truncated(v + f.intercept[s] * Unit) = v \div Unit + f.intercept[s]
    BY <1>2, <1>3, BlockIs
  <2> QED  BY <1>3, <2>1 DEF v
<1>6. b \in Int
  <2> HIDE DEF v
  <2> QED  BY <1>2, <1>3, <1>4, Quotient
<1>7. low \in Int /\ high \in Int /\ low <= b /\ b <= high
  <2>1. low \in Int /\ ToBlock(f, s) \in Int /\ low <= b /\ b < ToBlock(f, s)
    OBVIOUS
  <2> HIDE DEF low, b
  <2> QED  BY <1>6, <2>1
<1> HIDE DEF p, low, high, b
<1>8. Min({b, high}) = b
  BY <1>6, <1>7, MinOfTwo
<1> QED  BY <1>1, <1>5, <1>6, <1>7, <1>8 DEF b

(* The first block of a segment is not before that of the points.          *)
LEMMA FirstBlock ==
  ASSUME NEW f, NEW a, NEW z, Fetches(f, a, z), ~ Even(f),
         ~ (f.leaf[1] = a \div Unit /\ f.block[1] < 0)
  PROVE  \A s \in 1..FetchSegments - 1 : f.block[s] >= 0
<1> DEFINE b == f.slope[1]
           l == f.leaf[1]
           c == a \div Unit
           ba == (b * a) \div Unit
<1>1. FetchSegments \in Nat \ {0, 1} /\ 1 \in 1..FetchSegments - 1 /\ 1 \in 1..FetchSegments
  BY RootModelsAssumption
<1>2. /\ b \in Nat \ {0} /\ a \in Int /\ l \in Nat
      /\ f.block[1] = b * l + f.intercept[1] /\ f.intercept[1] = -ba
      /\ l >= c
  BY <1>1 DEF Fetches
<1>3. /\ f.block[1] \in Int
      /\ \A s \in 1..FetchSegments - 1 : f.block[1] <= f.block[s] /\ f.block[s] \in Int
  <2>1. ASSUME NEW s \in 1..FetchSegments - 1
        PROVE  f.block[1] <= f.block[s] /\ f.block[s] \in Int
    <3>1. 1 <= s
      OBVIOUS
    <3> QED  BY <1>1, <3>1 DEF Fetches
  <2> QED  BY <1>1, <2>1
<1>4. ~ (l = c /\ f.block[1] < 0)
  OBVIOUS
<1> HIDE DEF b, l
<1>5. ba \in Int /\ c \in Int /\ b * c \in Int /\ ba < b * c + b
  BY <1>2, BlockOfChild
<1> HIDE DEF c, ba
<1>6. f.block[1] >= 0
  <2>1. CASE l = c
    BY <1>3, <1>4, <2>1
  <2>2. CASE l # c
    <3>1. c + 1 <= l
      BY <1>2, <1>5, <2>2
    <3>2. b * (c + 1) <= b * l /\ b * (c + 1) = b * c + b /\ b * l \in Int
      BY <1>2, <1>5, <3>1, ProductRises
    <3> QED  BY <1>2, <1>3, <1>5, <3>2
  <2> QED  BY <2>1, <2>2
<1> QED  BY <1>3, <1>6

(* So predicted, within its segment and among the blocks that there are.   *)
Apart(f, x) ==
  LET s == ChildSegment(f, x \div Unit)
  IN /\ PrefetchPredict(f, x) = BlockAt(f, s, x)
     /\ 0 <= BlockAt(f, s, x) /\ BlockAt(f, s, x) < f.blockNumber
     /\ FromBlock(f, s) <= BlockAt(f, s, x) /\ BlockAt(f, s, x) < ToBlock(f, s)

(* Without cuts the blocks are those of one line through all children.     *)
LEMMA EvenIsApart ==
  ASSUME NEW f, NEW a, NEW z, Fetches(f, a, z), Even(f),
         NEW x \in Int, a <= x, x <= z
  PROVE  Apart(f, x)
<1> DEFINE n == FetchSegments
           s == ChildSegment(f, x \div Unit)
           e == -(a \div Unit)
<1>1. n \in Nat \ {0, 1} /\ Unit \in Nat \ {0}
  BY RootModelsAssumption
<1>2. a \in Nat /\ z \in Nat /\ x \in Int /\ x \in Nat
  BY DEF Fetches
<1>3. /\ \A i \in 1..n - 1 : f.leaf[i] = 0
      /\ \A i \in 1..n : f.slope[i] = 1
  BY DEF Even
<1>4. \A i \in 1..n - 1 : f.block[i] = f.intercept[i] /\ f.block[i] \in Int
  <2> TAKE i \in 1..n - 1
  <2>1. f.leaf[i] = 0 /\ f.slope[i] = 1
    BY <1>1, <1>3
  <2>2. f.block[i] = f.slope[i] * f.leaf[i] + f.intercept[i] /\ f.block[i] \in Int
        /\ f.intercept[i] \in Int
    <3>1. i \in 1..n
      BY <1>1
    <3>2. f.intercept[i] \in Int
      BY <3>1 DEF Fetches
    <3>3. f.block[i] = f.slope[i] * f.leaf[i] + f.intercept[i] /\ f.block[i] \in Int
      BY DEF Fetches
    <3> QED  BY <3>2, <3>3
  <2> DEFINE b == f.block[i]
             j == f.intercept[i]
  <2>3. b = 1 * 0 + j /\ b \in Int /\ j \in Int
    BY <2>1, <2>2
  <2> HIDE DEF b, j
  <2>4. b = j
    BY <2>3
  <2> QED  BY <2>3, <2>4 DEF b, j
<1>5. f.intercept[1] = e
  <2>1. f.slope[1] = 1 /\ f.intercept[1] = -((f.slope[1] * a) \div Unit)
    BY <1>1, <1>3 DEF Fetches
  <2>2. 1 * a = a
    BY <1>2
  <2> QED  BY <2>1, <2>2
<1>6. e \in Int /\ x \div Unit \in Int /\ z \div Unit \in Int /\ 0 <= a \div Unit
      /\ a \div Unit <= x \div Unit /\ x \div Unit <= z \div Unit /\ a \div Unit \in Int
  <2>1. 0 \div Unit = 0 /\ 0 \in Int
    BY <1>1
  <2>2. 0 \div Unit <= a \div Unit /\ a \div Unit <= x \div Unit /\ x \div Unit <= z \div Unit
    BY <1>1, <1>2, QuotientRises
  <2>3. a \div Unit \in Int /\ x \div Unit \in Int /\ z \div Unit \in Int
    BY <1>1, <1>2, Quotient
  <2> QED  BY <2>1, <2>2, <2>3
<1>7. ASSUME NEW i \in 2..n
      PROVE  f.intercept[i] = f.block[i - 1]
  <2>1. i \in 1..n /\ i - 1 \in 1..n - 1
    BY <1>1
  <2>2. f.intercept[i] = f.block[i - 1] - f.slope[i] * f.leaf[i - 1]
    BY DEF Fetches
  <2>3. f.leaf[i - 1] = 0 /\ f.slope[i] = 1 /\ f.block[i - 1] \in Int
    BY <1>3, <1>4, <2>1
  <2> DEFINE b == f.block[i - 1]
             j == f.intercept[i]
  <2>4. j = b - 1 * 0 /\ b \in Int
    BY <2>2, <2>3
  <2> HIDE DEF b, j
  <2>5. j = b
    BY <2>4
  <2> QED  BY <2>5 DEF b, j
<1>8. \A i \in 1..n - 1 : f.block[i] = e
  <2> DEFINE S == {d \in Nat : d + 1 <= n - 1 => f.block[d + 1] = e}
  <2>1. 0 \in S
    <3>1. 1 \in 1..n - 1 /\ 0 + 1 = 1
      BY <1>1
    <3> QED  BY <1>4, <1>5, <3>1
  <2>2. ASSUME NEW d \in Nat, d \in S
        PROVE  d + 1 \in S
    <3> SUFFICES ASSUME (d + 1) + 1 <= n - 1
                 PROVE  f.block[(d + 1) + 1] = e
      OBVIOUS
    <3>1. d + 1 <= n - 1 /\ (d + 1) + 1 \in 1..n - 1 /\ (d + 1) + 1 \in 2..n
          /\ ((d + 1) + 1) - 1 = d + 1
      BY <1>1
    <3>2. f.block[d + 1] = e
      BY <2>2, <3>1
    <3> QED  BY <1>4, <1>7, <3>1, <3>2
  <2> HIDE DEF S
  <2>3. Nat \subseteq S
    BY <2>1, <2>2, Induction
  <2>4. ASSUME NEW i \in 1..n - 1
        PROVE  f.block[i] = e
    <3>1. i - 1 \in S /\ (i - 1) + 1 = i /\ i <= n - 1
      BY <1>1, <2>3
    <3> QED  BY <3>1 DEF S
  <2> QED  BY <2>4
<1>9. s = n
  <2>1. /\ s \in 1..n
        /\ s # n => x \div Unit < f.leaf[s]
    BY <1>6, ChildSegmentIs DEF Fetches
  <2>2. CASE s # n
    <3>1. s \in 1..n - 1
      BY <1>1, <2>1, <2>2
    <3>2. f.leaf[s] = 0 /\ x \div Unit < f.leaf[s]
      BY <1>3, <2>1, <2>2, <3>1
    <3> QED  BY <1>6, <3>2
  <2> QED  BY <2>2
<1>10. n \in 2..n /\ n \in 1..n /\ n - 1 \in 1..n - 1 /\ n # 1
  BY <1>1
<1>11. f.slope[n] = 1 /\ f.intercept[n] = e /\ f.block[n - 1] = e
  BY <1>3, <1>7, <1>8, <1>10
<1>12. f.blockNumber = z \div Unit + (e + 1)
  <2>1. f.blockNumber = Truncated(f.slope[n] * z + (f.intercept[n] + 1) * Unit)
    BY DEF Fetches
  <2>2. 1 * z = z /\ z \in Int /\ e + 1 \in Int /\ z \div Unit + (e + 1) >= 0
    BY <1>2, <1>6
  <2> HIDE DEF e
  <2>3. Truncated(z + (e + 1) * Unit) = z \div Unit + (e + 1)
    BY <2>2, BlockIs
  <2> QED  BY <1>11, <2>1, <2>2, <2>3
<1>13. BlockAt(f, n, x) = x \div Unit + e
  <2>1. 1 * x = x
    BY <1>2
  <2> QED  BY <1>11, <2>1 DEF BlockAt
<1>14. FromBlock(f, n) = e /\ ToBlock(f, n) = f.blockNumber
  BY <1>10, <1>11 DEF FromBlock, ToBlock
<1> DEFINE b == BlockAt(f, n, x)
<1>15. /\ 0 <= b /\ e <= b /\ b < z \div Unit + (e + 1)
       /\ e \in Int /\ z \div Unit + (e + 1) \in Int
  <2>1. b = x \div Unit + e
    BY <1>13
  <2> HIDE DEF b
  <2> QED  BY <1>6, <2>1
<1>16. PrefetchPredict(f, x) = b
  <2>1. SegmentOf(f, x) = n
    <3>1. SegmentOf(f, x) = s
      BY SegmentOfChild DEF Fetches
    <3> QED  BY <1>9, <3>1
  <2>2. f.slope[n] \in Nat \ {0} /\ f.intercept[n] \in Int
    BY <1>6, <1>11
  <2> HIDE DEF e
  <2> QED  BY <1>12, <1>14, <1>15, <2>1, <2>2, PredictedBlock
<1> HIDE DEF s
<1>17. /\ PrefetchPredict(f, x) = BlockAt(f, s, x)
       /\ 0 <= BlockAt(f, s, x) /\ BlockAt(f, s, x) < f.blockNumber
       /\ FromBlock(f, s) <= BlockAt(f, s, x) /\ BlockAt(f, s, x) < ToBlock(f, s)
  BY <1>9, <1>12, <1>14, <1>15, <1>16
<1> QED  BY <1>17 DEF Apart, s

(* The line of the last segment goes on up to the last of the blocks.      *)
LEMMA LastBlock ==
  ASSUME NEW f, NEW a, NEW z, Fetches(f, a, z),
         \A s \in 1..FetchSegments - 1 : f.block[s] >= 0
  PROVE  /\ f.blockNumber = BlockAt(f, FetchSegments, z) + 1
         /\ f.blockNumber \in Int
         /\ \A s \in 1..FetchSegments - 1 : f.block[s] < f.blockNumber
<1> DEFINE n == FetchSegments
           b == f.slope[n]
           i == f.intercept[n]
           l == f.leaf[n - 1]
           k == f.block[n - 1]
           q == (b * z) \div Unit
           c == z \div Unit
<1>1. n \in Nat \ {0, 1} /\ n - 1 \in 1..n - 1 /\ n \in 1..n /\ n \in 2..n
  BY RootModelsAssumption
<1>2. /\ b \in Nat \ {0} /\ i \in Int /\ l \in Nat /\ k \in Int /\ l <= c
      /\ i = k - b * l /\ k >= 0 /\ z \in Int
  <2>1. b \in Nat \ {0} /\ i \in Int /\ z \in Int
    BY <1>1 DEF Fetches
  <2>2. l \in Nat /\ k \in Int /\ l <= c
    BY <1>1 DEF Fetches
  <2>3. i = k - b * l
    BY <1>1 DEF Fetches
  <2>4. k >= 0
    BY <1>1
  <2> QED  BY <2>1, <2>2, <2>3, <2>4
<1>3. f.blockNumber = Truncated(b * z + (i + 1) * Unit)
  BY DEF Fetches
<1>4. BlockAt(f, n, z) = q + i
  BY DEF BlockAt
<1>5. \A s \in 1..n - 1 : f.block[s] \in Int /\ f.block[s] <= k
  <2>1. ASSUME NEW s \in 1..n - 1
        PROVE  f.block[s] \in Int /\ f.block[s] <= k
    <3>1. s <= n - 1
      BY <1>1
    <3> QED  BY <1>1, <3>1 DEF Fetches
  <2> QED  BY <2>1
<1> HIDE DEF n, b, i, l, k
<1>6. q \in Int /\ c \in Int /\ b * c \in Int /\ b * c <= q
  BY <1>2, BlockOfChild
<1>7. b * l <= b * c /\ b * l \in Int
  BY <1>2, <1>6, ProductRises
<1> DEFINE v == b * z
<1>8. v \in Int /\ v \div Unit = q
  BY <1>2
<1> HIDE DEF q, c
<1>9. k <= q + i
  BY <1>2, <1>6, <1>7
<1>10. f.blockNumber = q + (i + 1)
  <2>1. f.blockNumber = Truncated(v + (i + 1) * Unit)
    BY <1>3
  <2> HIDE DEF v
  <2>2. v \div Unit + (i + 1) >= 0 /\ i + 1 \in Int
    BY <1>2, <1>6, <1>8, <1>9
  <2> QED  BY <1>8, <2>1, <2>2, BlockIs
<1>11. f.blockNumber \in Int /\ f.blockNumber = (q + i) + 1
  BY <1>2, <1>6, <1>10
<1>12. ASSUME NEW s \in 1..n - 1
       PROVE  f.block[s] < f.blockNumber
  <2> DEFINE u == f.block[s]
  <2>1. u \in Int /\ u <= k
    BY <1>5
  <2> HIDE DEF u
  <2>2. u < f.blockNumber
    BY <1>2, <1>6, <1>9, <1>11, <2>1
  <2> QED  BY <2>2 DEF u
<1> QED  BY <1>4, <1>11, <1>12 DEF n

LEMMA LinesAreApart ==
  ASSUME NEW f, NEW a, NEW z, Fetches(f, a, z), ~ Even(f),
         ~ (f.leaf[1] = a \div Unit /\ f.block[1] < 0),
         NEW x \in Int, a <= x, x <= z
  PROVE  Apart(f, x)
<1> DEFINE n == FetchSegments
           c == x \div Unit
           s == ChildSegment(f, c)
           b == f.slope[s]
           i == f.intercept[s]
           q == (b * x) \div Unit
           p == BlockAt(f, s, x)
<1>1. n \in Nat \ {0, 1} /\ Unit \in Nat \ {0}
  BY RootModelsAssumption
<1>2. a \in Nat /\ z \in Nat /\ c \in Int
  BY <1>1, Quotient DEF Fetches
<1>3. /\ s \in 1..n
      /\ s # n => c < f.leaf[s]
      /\ \A t \in 1..n - 1 : t < s => f.leaf[t] <= c
  BY <1>2, ChildSegmentIs DEF Fetches
<1>4. SegmentOf(f, x) = s
  BY SegmentOfChild DEF Fetches
<1>5. \A t \in 1..n - 1 : f.block[t] >= 0 /\ f.block[t] \in Int
  BY FirstBlock DEF Fetches
<1>6. /\ f.blockNumber = BlockAt(f, n, z) + 1 /\ f.blockNumber \in Int
      /\ \A t \in 1..n - 1 : f.block[t] < f.blockNumber
  BY <1>5, LastBlock
<1> HIDE DEF c, s
<1>7. b \in Nat \ {0} /\ i \in Int
  BY <1>3 DEF Fetches
<1>8. p = q + i
  BY DEF BlockAt
<1> HIDE DEF b, i, p
<1>9. q \in Int /\ b * c \in Int /\ b * c <= q /\ q < b * c + b
  BY <1>7, BlockOfChild DEF c
<1>10. FromBlock(f, s) \in Int /\ 0 <= FromBlock(f, s) /\ FromBlock(f, s) <= p
  <2>1. CASE s = 1
    <3>1. FromBlock(f, s) = 0
      BY <2>1 DEF FromBlock
    <3>2. i = -((b * a) \div Unit)
      BY <2>1 DEF Fetches, b, i
    <3> DEFINE d == (b * a) \div Unit
    <3>3. b * a \in Int /\ b * x \in Int /\ b * a <= b * x
      BY <1>2, <1>7, ProductRises
    <3>4. d <= q /\ d \in Int
      BY <1>1, <3>3, QuotientRises, Quotient
    <3>5. i = -d
      BY <3>2
    <3> HIDE DEF d, q
    <3>6. 0 <= p
      BY <1>8, <1>9, <3>4, <3>5
    <3> QED  BY <3>1, <3>6
  <2>2. CASE s # 1
    <3> DEFINE l == f.leaf[s - 1]
               k == f.block[s - 1]
    <3>1. s - 1 \in 1..n - 1 /\ s - 1 < s /\ s \in 2..n
      BY <1>1, <1>3, <2>2
    <3>2. l \in Nat /\ k \in Int /\ k >= 0 /\ i = k - b * l /\ l <= c
      BY <1>3, <1>5, <3>1 DEF Fetches, b, i
    <3>3. FromBlock(f, s) = k
      BY <2>2 DEF FromBlock
    <3> HIDE DEF l, k, q
    <3>4. b * l <= b * c /\ b * l \in Int
      BY <1>2, <1>7, <3>2, ProductRises
    <3>5. k <= p
      BY <1>8, <1>9, <3>2, <3>4
    <3> QED  BY <3>2, <3>3, <3>5
  <2> QED  BY <2>1, <2>2
<1>11. /\ ToBlock(f, s) \in Int /\ p < ToBlock(f, s)
       /\ ToBlock(f, s) <= f.blockNumber
  <2>1. CASE s = n
    <3>1. ToBlock(f, s) = f.blockNumber
      BY <2>1 DEF ToBlock
    <3> DEFINE r == (b * z) \div Unit
    <3>2. f.blockNumber = (r + i) + 1
      BY <1>6, <2>1 DEF BlockAt, b, i
    <3>3. b * z \in Int /\ b * x \in Int /\ b * x <= b * z
      BY <1>2, <1>7, ProductRises
    <3>4. q <= r /\ r \in Int
      BY <1>1, <3>3, QuotientRises, Quotient
    <3> HIDE DEF r, q
    <3>5. p < f.blockNumber
      BY <1>7, <1>8, <1>9, <3>2, <3>4
    <3> QED  BY <1>6, <3>1, <3>5
  <2>2. CASE s # n
    <3> DEFINE l == f.leaf[s]
               k == f.block[s]
    <3>1. s \in 1..n - 1
      BY <1>1, <1>3, <2>2
    <3>2. l \in Nat /\ k \in Int /\ k = b * l + i /\ c < l /\ k < f.blockNumber
      BY <1>3, <1>6, <2>2, <3>1 DEF Fetches, b, i
    <3>3. ToBlock(f, s) = k
      BY <2>2 DEF ToBlock
    <3> HIDE DEF l, k, q
    <3>4. b * (c + 1) <= b * l /\ b * (c + 1) = b * c + b /\ b * l \in Int
      BY <1>2, <1>7, <3>2, ProductRises
    <3>5. p < k
      BY <1>7, <1>8, <1>9, <3>2, <3>4
    <3> QED  BY <1>6, <3>2, <3>3, <3>5
  <2> QED  BY <2>1, <2>2
<1>12. p \in Int /\ 0 <= p /\ p < f.blockNumber
  <2>1. p \in Int
    BY <1>7, <1>8, <1>9
  <2> QED  BY <1>6, <1>10, <1>11, <2>1
<1>13. PrefetchPredict(f, x) = p
  BY <1>4, <1>7, <1>10, <1>11, <1>12, PredictedBlock DEF p, b, i
<1> QED  BY <1>10, <1>11, <1>12, <1>13 DEF Apart, p, s, c

(* The blocks of two indices.                                              *)
LEMMA BlocksApart ==
  ASSUME NEW f, NEW a, NEW z, Fetches(f, a, z),
         ~ (f.leaf[1] = a \div Unit /\ f.block[1] < 0),
         NEW x \in Int, NEW y \in Int, a <= x, x <= y, y <= z
  PROVE  /\ PrefetchPredict(f, x) \in 0..f.blockNumber - 1
         /\ PrefetchPredict(f, y) \in 0..f.blockNumber - 1
         /\ PrefetchPredict(f, x) <= PrefetchPredict(f, y)
         /\ x \div Unit # y \div Unit => PrefetchPredict(f, x) < PrefetchPredict(f, y)
         /\ x \div Unit = y \div Unit =>
              /\ PrefetchPredict(f, y) - PrefetchPredict(f, x) < PrefetchNum(f, y \div Unit)
              /\ PrefetchPredict(f, x) - PrefetchPredict(f, y) < PrefetchNum(f, y \div Unit)
<1> DEFINE n == FetchSegments
           c == x \div Unit
           d == y \div Unit
           s == ChildSegment(f, c)
           t == ChildSegment(f, d)
           p == BlockAt(f, s, x)
           q == BlockAt(f, t, y)
           b == f.slope[s]
           i == f.intercept[s]
<1>1. n \in Nat \ {0, 1} /\ Unit \in Nat \ {0}
  BY RootModelsAssumption
<1>2. c \in Int /\ d \in Int /\ c <= d
  BY <1>1, Quotient, QuotientRises
<1>3. Apart(f, x) /\ Apart(f, y)
  <2>1. a <= y /\ x <= z
    BY DEF Fetches
  <2> QED  BY <2>1, EvenIsApart, LinesAreApart
<1>4. /\ PrefetchPredict(f, x) = p /\ 0 <= p /\ p < f.blockNumber
      /\ p < ToBlock(f, s)
      /\ PrefetchPredict(f, y) = q /\ 0 <= q /\ q < f.blockNumber
      /\ FromBlock(f, t) <= q
  BY <1>3 DEF Apart
<1>5. s \in 1..n /\ t \in 1..n /\ s <= t
  BY <1>2, ChildSegmentIs, SegmentsInOrder DEF Fetches
<1>6. PrefetchNum(f, d) = f.slope[t]
  BY SegmentOfChild DEF Fetches
<1>7. s = t => q = (b * y) \div Unit + i
  BY DEF BlockAt
<1>8. p = (b * x) \div Unit + i
  BY DEF BlockAt
<1>9. c = d => s = t
  OBVIOUS
<1> HIDE DEF s, t
<1>10. b \in Nat \ {0} /\ i \in Int
  BY <1>5 DEF Fetches
<1>11. f.slope[t] \in Nat \ {0} /\ f.intercept[t] \in Int
  BY <1>5 DEF Fetches
<1> HIDE DEF p
<1> DEFINE u == (b * x) \div Unit
           v == (b * y) \div Unit
<1>12. u \in Int /\ v \in Int /\ u <= v
  <2>1. b * x \in Int /\ b * y \in Int /\ b * x <= b * y
    BY <1>10, ProductRises
  <2> QED  BY <1>1, <2>1, Quotient, QuotientRises
<1>13. /\ b * c \in Int /\ b * c <= u /\ u < b * c + b
       /\ b * d \in Int /\ b * d <= v /\ v < b * d + b
  BY <1>10, BlockOfChild DEF c, d
<1>14. p \in Int /\ q \in Int /\ f.blockNumber \in Int
  <2>1. p \in Int
    BY <1>8, <1>10, <1>12
  <2>2. q \in Int
    <3>1. f.slope[t] * y \in Int
      BY <1>11
    <3>2. (f.slope[t] * y) \div Unit \in Int
      BY <1>1, <3>1, Quotient
    <3> QED  BY <1>11, <3>2 DEF BlockAt
  <2>3. f.blockNumber \in Int
    <3> DEFINE w == f.slope[n] * z + (f.intercept[n] + 1) * Unit
    <3>1. f.slope[n] \in Nat /\ f.intercept[n] \in Int /\ z \in Int
      BY <1>1 DEF Fetches
    <3>2. f.slope[n] * z \in Int /\ (f.intercept[n] + 1) * Unit \in Int
      BY <1>1, <3>1
    <3>3. w \in Int
      BY <3>2
    <3>4. f.blockNumber = Truncated(w)
      BY DEF Fetches
    <3> HIDE DEF w
    <3>5. Truncated(w) \in Int
      <4>1. w \div Unit \in Int /\ (-w) \div Unit \in Int
        BY <1>1, <3>3, Quotient
      <4> QED  BY <4>1 DEF Truncated
    <3> QED  BY <3>4, <3>5
  <2> QED  BY <2>1, <2>2, <2>3
<1> HIDE DEF q, b, i
<1>15. CASE s = t
  <2>1. p = u + i /\ q = v + i /\ f.slope[t] = b
    BY <1>7, <1>8, <1>15 DEF b
  <2>2. p <= q
    BY <1>10, <1>12, <2>1
  <2>3. c # d => p < q
    <3> SUFFICES ASSUME c # d PROVE p < q
      OBVIOUS
    <3>1. c + 1 <= d
      BY <1>2
    <3>2. b * (c + 1) <= b * d /\ b * (c + 1) = b * c + b
      BY <1>2, <1>10, <3>1, ProductRises
    <3> HIDE DEF u, v, c, d
    <3> QED  BY <1>10, <1>12, <1>13, <2>1, <3>2
  <2>4. c = d => q - p < b /\ p - q < b
    <3> SUFFICES ASSUME c = d PROVE q - p < b /\ p - q < b
      OBVIOUS
    <3> HIDE DEF u, v, c, d
    <3> QED  BY <1>10, <1>12, <1>13, <2>1
  <2> QED  BY <1>4, <1>6, <1>14, <2>1, <2>2, <2>3, <2>4
<1>16. CASE s # t
  <2>1. s < t /\ s \in 1..n - 1 /\ t - 1 \in 1..n - 1 /\ s <= t - 1 /\ s # n /\ t # 1
    BY <1>1, <1>5, <1>16
  <2>2. f.block[s] <= f.block[t - 1] /\ f.block[s] \in Int /\ f.block[t - 1] \in Int
    BY <2>1 DEF Fetches
  <2>3. p < f.block[s] /\ f.block[t - 1] <= q
    BY <1>4, <2>1 DEF FromBlock, ToBlock
  <2>4. p < q
    BY <1>14, <2>2, <2>3
  <2> QED  BY <1>4, <1>9, <1>14, <1>16, <2>4
<1> QED  BY <1>15, <1>16

----------------------------------------------------------------------------
(* Training.                                                               *)
Blocks(block, leaf, blocks, start) ==
  block = [s \in 1..FetchSegments - 1 |->
             IF s = 1 THEN blocks[1] * leaf[1] + start
             ELSE block[s - 1] + blocks[s] * (leaf[s] - leaf[s - 1])]

LEMMA BlocksExist ==
  ASSUME NEW leaf, \A s \in 1..FetchSegments - 1 : leaf[s] \in Nat,
         NEW blocks, \A s \in 1..FetchSegments : blocks[s] \in Nat,
         NEW start \in Int
  PROVE  \E block : Blocks(block, leaf, blocks, start)
<1> DEFINE n == FetchSegments
           step(k) == IF k \in 2..n - 1 THEN blocks[k] * (leaf[k] - leaf[k - 1]) ELSE 0
           g == [p \in Nat \X Int |-> p[2] + step(p[1] + 1)]
           first == blocks[1] * leaf[1] + start
<1>1. n \in Nat \ {0, 1} /\ 1 \in 1..n - 1 /\ 1 \in 1..n
  BY RootModelsAssumption
<1>2. first \in Int
  <2>1. blocks[1] \in Nat /\ leaf[1] \in Nat
    BY <1>1
  <2> QED  BY <2>1
<1>3. \A k \in Nat : step(k) \in Int
  <2> TAKE k \in Nat
  <2>1. CASE k \in 2..n - 1
    <3>1. k \in 1..n /\ k \in 1..n - 1 /\ k - 1 \in 1..n - 1
      BY <1>1, <2>1
    <3>2. blocks[k] \in Nat /\ leaf[k] \in Nat /\ leaf[k - 1] \in Nat
      BY <3>1
    <3>3. blocks[k] * (leaf[k] - leaf[k - 1]) \in Int
      BY <3>2
    <3> QED  BY <2>1, <3>3
  <2>2. CASE k \notin 2..n - 1
    BY <2>2
  <2> QED  BY <2>1, <2>2
<1>4. \A k \in 2..n - 1 : step(k) = blocks[k] * (leaf[k] - leaf[k - 1])
  OBVIOUS
<1> HIDE DEF step, first
<1>5. g \in [Nat \X Int -> Int]
  <2>1. ASSUME NEW p \in Nat \X Int
        PROVE  p[2] + step(p[1] + 1) \in Int
    <3>1. p[1] + 1 \in Nat /\ p[2] \in Int
      OBVIOUS
    <3> QED  BY <1>3, <3>1
  <2> QED  BY <2>1
<1>6. ASSUME NEW a \in Nat, NEW v \in Int
      PROVE  g[<<a, v>>] = v + step(a + 1)
  OBVIOUS
<1> HIDE DEF g
<1>7. \E h : Recurs(h, Int, first, g)
  BY <1>2, <1>5, Recursion
<1>8. PICK h : /\ h \in [Nat -> Int] /\ h[0] = first
               /\ \A i \in Nat : h[i + 1] = g[<<i + 1, h[i]>>]
  BY <1>7 DEF Recurs
<1> DEFINE block == [s \in 1..n - 1 |-> h[s - 1]]
<1>9. ASSUME NEW s \in 1..n - 1
      PROVE  block[s] = IF s = 1 THEN blocks[1] * leaf[1] + start
                        ELSE block[s - 1] + blocks[s] * (leaf[s] - leaf[s - 1])
  <2>1. CASE s = 1
    <3>1. block[s] = h[0]
      BY <1>1, <2>1
    <3> QED  BY <1>8, <2>1, <3>1 DEF first
  <2>2. CASE s # 1
    <3>1. s - 2 \in Nat /\ (s - 2) + 1 = s - 1 /\ s - 1 \in 1..n - 1 /\ s \in 2..n - 1
          /\ (s - 1) - 1 = s - 2 /\ (s - 1) + 1 = s /\ s - 1 \in Nat
      BY <1>1, <2>2
    <3>2. block[s] = h[s - 1] /\ block[s - 1] = h[s - 2]
      BY <3>1
    <3>3. h[s - 1] = g[<<s - 1, h[s - 2]>>] /\ h[s - 2] \in Int
      BY <1>8, <3>1
    <3>4. g[<<s - 1, h[s - 2]>>] = h[s - 2] + step((s - 1) + 1)
      BY <1>6, <3>1, <3>3
    <3> QED  BY <1>4, <2>2, <3>1, <3>2, <3>3, <3>4
  <2> QED  BY <2>1, <2>2
<1>10. block = [s \in 1..n - 1 |-> block[s]]
  OBVIOUS
<1> HIDE DEF block
<1>11. Blocks(block, leaf, blocks, start)
  BY <1>9, <1>10 DEF Blocks
<1> QED  BY <1>11

LEMMA FitFetchIs ==
  ASSUME NEW data, NEW cuts, NEW blocks,
         \A s \in 1..FetchSegments : blocks[s] \in Nat,
         data[1] \in Nat,
         cuts # <<>> => \A s \in 1..FetchSegments - 1 :
                          FetchPoints(data)[cuts[s] + 1] \div Unit \in Nat
  PROVE  LET f     == FitFetch(data, cuts, blocks)
             start == -((blocks[1] * data[1]) \div Unit)
         IN /\ f.leaf = [s \in 1..FetchSegments - 1 |->
                           IF cuts = <<>> THEN 0 ELSE FetchPoints(data)[cuts[s] + 1] \div Unit]
            /\ Blocks(f.block, f.leaf, blocks, start)
            /\ f.slope = blocks
            /\ f.intercept = [s \in 1..FetchSegments |->
                      IF s = 1 THEN start ELSE f.block[s - 1] - blocks[s] * f.leaf[s - 1]]
            /\ f.blockNumber = Truncated(blocks[FetchSegments] * Last(data)
                                         + (f.intercept[FetchSegments] + 1) * Unit)
<1> DEFINE f     == FitFetch(data, cuts, blocks)
           start == -((blocks[1] * data[1]) \div Unit)
           leaf  == [s \in 1..FetchSegments - 1 |->
                       IF cuts = <<>> THEN 0 ELSE FetchPoints(data)[cuts[s] + 1] \div Unit]
           Is(b) == b = [s \in 1..FetchSegments - 1 |->
                           IF s = 1 THEN blocks[1] * leaf[1] + start
                           ELSE b[s - 1] + blocks[s] * (leaf[s] - leaf[s - 1])]
           block == CHOOSE b : Is(b)
           intercept == [s \in 1..FetchSegments |->
                      IF s = 1 THEN start ELSE block[s - 1] - blocks[s] * leaf[s - 1]]
<1>1. f = [leaf |-> leaf, block |-> block, slope |-> blocks, intercept |-> intercept,
           blockNumber |-> Truncated(blocks[FetchSegments] * Last(data)
                                     + (intercept[FetchSegments] + 1) * Unit)]
  BY DEF FitFetch
<1>2. \A b : Is(b) <=> Blocks(b, leaf, blocks, start)
  BY DEF Blocks
<1>3. \A s \in 1..FetchSegments - 1 : leaf[s] \in Nat
  OBVIOUS
<1>4. start \in Int
  <2>1. Unit \in Nat \ {0} /\ 1 \in 1..FetchSegments
    BY RootModelsAssumption
  <2>2. blocks[1] * data[1] \in Int
    BY <2>1
  <2> DEFINE d == blocks[1] * data[1]
  <2>3. d \in Int
    BY <2>2
  <2> HIDE DEF d
  <2>4. d \div Unit \in Int
    BY <2>1, <2>3, Quotient
  <2> QED  BY <2>4 DEF d
<1> HIDE DEF f, leaf, start, Is
<1>5. \E b : Blocks(b, leaf, blocks, start)
  BY <1>3, <1>4, BlocksExist
<1>6. Blocks(block, leaf, blocks, start)
  BY <1>2, <1>5
<1> HIDE DEF block
<1>7. f.leaf = leaf /\ f.block = block /\ f.slope = blocks /\ f.intercept = intercept
      /\ f.blockNumber = Truncated(blocks[FetchSegments] * Last(data)
                                   + (intercept[FetchSegments] + 1) * Unit)
  BY <1>1
<1> QED  BY <1>6, <1>7 DEF f, leaf, start

(* The points, the last one twice.                                         *)
LEMMA FetchPointsAre ==
  ASSUME NEW data \in Seq(Nat), Len(data) > 0, Rising(data)
  PROVE  /\ FetchPoints(data) \in Seq(Int) /\ Len(FetchPoints(data)) = Len(data) + 1
         /\ Rising(FetchPoints(data))
         /\ \A i \in 1..Len(data) + 1 :
              /\ FetchPoints(data)[i] \in Nat
              /\ data[1] <= FetchPoints(data)[i] /\ FetchPoints(data)[i] <= data[Len(data)]
<1> DEFINE n == Len(data)
           P == FetchPoints(data)
<1>1. n \in Nat \ {0} /\ \A i \in 1..n : data[i] \in Nat
  OBVIOUS
<1>2. \A i, j \in 1..n : i <= j => data[i] <= data[j]
  BY DEF Rising
<1>3. P = Append(data, data[n])
  BY DEF FetchPoints, Last
<1>4. /\ Len(P) = n + 1 /\ P \in Seq(Nat)
      /\ \A i \in 1..n : P[i] = data[i]
      /\ P[n + 1] = data[n]
  BY <1>1, <1>3
<1> HIDE DEF P, n
<1>5. P \in Seq(Int)
  <2>1. P \in [1..n + 1 -> Nat] /\ n + 1 \in Nat
    BY <1>1, <1>4
  <2>2. P \in [1..n + 1 -> Int]
    BY <2>1
  <2> QED  BY <2>1, <2>2
<1>6. ASSUME NEW i \in 1..n + 1
      PROVE  P[i] \in Nat /\ data[1] <= P[i] /\ P[i] <= data[n]
  <2>1. 1 \in 1..n /\ n \in 1..n
    BY <1>1
  <2>2. CASE i = n + 1
    <3>1. P[i] = data[n] /\ data[1] <= data[n] /\ data[n] \in Nat
      BY <1>1, <1>2, <1>4, <2>1, <2>2
    <3> QED  BY <3>1
  <2>3. CASE i # n + 1
    <3>1. i \in 1..n /\ 1 <= i /\ i <= n
      BY <1>1, <2>3
    <3>2. P[i] = data[i] /\ data[1] <= data[i] /\ data[i] <= data[n] /\ data[i] \in Nat
      BY <1>1, <1>2, <1>4, <2>1, <3>1
    <3> QED  BY <3>2
  <2> QED  BY <2>2, <2>3
<1>7. ASSUME NEW i \in 1..n + 1, NEW j \in 1..n + 1, i <= j
      PROVE  P[i] <= P[j]
  <2>1. CASE j = n + 1
    BY <1>4, <1>6, <2>1
  <2>2. CASE j # n + 1
    <3>1. i \in 1..n /\ j \in 1..n
      BY <1>1, <1>7, <2>2
    <3> QED  BY <1>2, <1>4, <1>7, <3>1
  <2> QED  BY <2>1, <2>2
<1>8. Rising(P)
  BY <1>4, <1>7 DEF Rising
<1> QED  BY <1>4, <1>5, <1>6, <1>8 DEF P, n

LEMMA FetchChoices ==
  ASSUME NEW data \in Seq(Nat), Len(data) > 0,
         NEW cuts \in FetchCuts(data), NEW blocks \in FetchBlocks(data)
  PROVE  /\ \A s \in 1..FetchSegments : blocks[s] \in Nat \ {0}
         /\ cuts = <<>> => \A s \in 1..FetchSegments : blocks[s] = 1
         /\ cuts # <<>> =>
              /\ \A s \in 1..FetchSegments - 1 : cuts[s] \in 1..Len(data)
              /\ \A s, t \in 1..FetchSegments - 1 : s <= t => cuts[s] <= cuts[t]
<1> DEFINE n == FetchSegments
           C == {c \in [1..n - 1 -> 1..Len(data)] : Ascending(c)}
<1>1. n \in Nat \ {0, 1} /\ MaxBlocks \in Nat \ {0} /\ n - 1 \in Nat
  BY RootModelsAssumption
<1>2. FetchCuts(data) = IF C = {} THEN {<<>>} ELSE C
  BY DEF FetchCuts
<1>3. \A c \in C : c \in [1..n - 1 -> 1..Len(data)] /\ Ascending(c)
  OBVIOUS
<1>4. <<>> \notin C
  <2> SUFFICES ASSUME <<>> \in C PROVE FALSE
    OBVIOUS
  <2>1. DOMAIN <<>> = 1..n - 1 /\ 1 \in 1..n - 1
    BY <1>1, <1>3
  <2>2. 1 \in DOMAIN <<>>
    BY <2>1
  <2> QED  BY <2>2
<1> HIDE DEF C
<1>5. CASE C = {}
  <2>1. cuts = <<>> /\ FetchCuts(data) = {<<>>}
    BY <1>2, <1>5
  <2>2. blocks = [s \in 1..n |-> 1]
    BY <2>1 DEF FetchBlocks
  <2> QED  BY <2>1, <2>2
<1>6. CASE C # {}
  <2>1. cuts \in C /\ FetchCuts(data) # {<<>>} /\ cuts # <<>>
    BY <1>2, <1>4, <1>6
  <2>2. blocks \in [1..n -> 1..MaxBlocks]
    BY <2>1 DEF FetchBlocks
  <2>3. \A s \in 1..n : blocks[s] \in Nat \ {0}
    BY <1>1, <2>2
  <2>4. cuts \in [1..n - 1 -> 1..Len(data)] /\ Ascending(cuts)
    BY <1>3, <2>1
  <2>5. Len(cuts) = n - 1 /\ cuts \in Seq(Int)
    <3>1. cuts \in [1..n - 1 -> Int]
      BY <2>4
    <3> QED  BY <1>1, <3>1
  <2>6. \A s \in 1..Len(cuts) - 1 : cuts[s] <= cuts[s + 1]
    <3>1. ASSUME NEW s \in 1..Len(cuts) - 1
          PROVE  cuts[s] <= cuts[s + 1]
      <4>1. cuts[s] < cuts[s + 1]
        BY <2>4 DEF Ascending
      <4>2. s \in 1..n - 1 /\ s + 1 \in 1..n - 1
        BY <1>1, <2>5
      <4>3. \A i \in 1..n - 1 : cuts[i] \in Int
        <5>1. cuts \in [1..n - 1 -> Int]
          BY <2>4
        <5> QED  BY <5>1
      <4> QED  BY <4>1, <4>2, <4>3
    <3> QED  BY <3>1
  <2>7. Rising(cuts)
    BY <2>5, <2>6, AdjacentRise
  <2>8. \A s, t \in 1..n - 1 : s <= t => cuts[s] <= cuts[t]
    BY <2>5, <2>7 DEF Rising
  <2>9. \A s \in 1..n - 1 : cuts[s] \in 1..Len(data)
    BY <2>4
  <2> QED  BY <2>1, <2>3, <2>8, <2>9
<1> QED  BY <1>5, <1>6

LEMMA FitFetches ==
  ASSUME NEW data \in Seq(Nat), Len(data) > 0, Rising(data),
         NEW cuts \in FetchCuts(data), NEW blocks \in FetchBlocks(data)
  PROVE  Fetches(FitFetch(data, cuts, blocks), data[1], data[Len(data)])
<1> DEFINE n == FetchSegments
           f == FitFetch(data, cuts, blocks)
           P == FetchPoints(data)
           a == data[1]
           z == data[Len(data)]
           start == -((blocks[1] * a) \div Unit)
<1>1. n \in Nat \ {0, 1} /\ Unit \in Nat \ {0} /\ 1 \in 1..n - 1 /\ 1 \in 1..n
      /\ n \in 1..n /\ n \in 2..n
  BY RootModelsAssumption
<1>2. /\ \A s \in 1..n : blocks[s] \in Nat \ {0}
      /\ cuts = <<>> => \A s \in 1..n : blocks[s] = 1
      /\ cuts # <<>> =>
           /\ \A s \in 1..n - 1 : cuts[s] \in 1..Len(data)
           /\ \A s, t \in 1..n - 1 : s <= t => cuts[s] <= cuts[t]
  BY FetchChoices
<1>3. /\ Len(P) = Len(data) + 1 /\ Rising(P)
      /\ \A i \in 1..Len(data) + 1 : P[i] \in Nat /\ a <= P[i] /\ P[i] <= z
  BY FetchPointsAre
<1>4. a \in Nat /\ z \in Nat /\ a <= z
  <2>1. 1 \in 1..Len(data) /\ Len(data) \in 1..Len(data) /\ 1 <= Len(data)
    OBVIOUS
  <2> QED  BY <2>1 DEF Rising
<1>5. Last(data) = z
  BY DEF Last
<1> HIDE DEF P, a, z
<1>6. ASSUME NEW v \in Nat
      PROVE  v \div Unit \in Nat
  <2>1. 0 \div Unit <= v \div Unit /\ 0 \div Unit = 0 /\ v \div Unit \in Int
    BY <1>1, Quotient, QuotientRises
  <2> QED  BY <2>1
<1>7. cuts # <<>> => \A s \in 1..n - 1 :
                       /\ cuts[s] + 1 \in 1..Len(data) + 1
                       /\ P[cuts[s] + 1] \in Nat /\ a <= P[cuts[s] + 1] /\ P[cuts[s] + 1] <= z
  <2> SUFFICES ASSUME cuts # <<>>, NEW s \in 1..n - 1
               PROVE  /\ cuts[s] + 1 \in 1..Len(data) + 1
                      /\ P[cuts[s] + 1] \in Nat /\ a <= P[cuts[s] + 1] /\ P[cuts[s] + 1] <= z
    OBVIOUS
  <2> DEFINE u == cuts[s]
  <2>1. u \in 1..Len(data)
    BY <1>2
  <2> HIDE DEF u
  <2>2. u + 1 \in 1..Len(data) + 1
    BY <2>1
  <2>3. P[u + 1] \in Nat /\ a <= P[u + 1] /\ P[u + 1] <= z
    BY <1>3, <2>2
  <2> QED  BY <2>2, <2>3 DEF u
<1>8. /\ f.leaf = [s \in 1..n - 1 |-> IF cuts = <<>> THEN 0 ELSE P[cuts[s] + 1] \div Unit]
      /\ Blocks(f.block, f.leaf, blocks, start)
      /\ f.slope = blocks
      /\ f.intercept = [s \in 1..n |->
                IF s = 1 THEN start ELSE f.block[s - 1] - blocks[s] * f.leaf[s - 1]]
      /\ f.blockNumber = Truncated(blocks[n] * z + (f.intercept[n] + 1) * Unit)
  <2>1. \A s \in 1..FetchSegments : blocks[s] \in Nat
    BY <1>2
  <2>2. data[1] \in Nat
    BY <1>4 DEF a
  <2>3. cuts # <<>> => \A s \in 1..FetchSegments - 1 :
                         FetchPoints(data)[cuts[s] + 1] \div Unit \in Nat
    <3> SUFFICES ASSUME cuts # <<>>, NEW s \in 1..n - 1
                 PROVE  P[cuts[s] + 1] \div Unit \in Nat
      BY DEF P
    <3>1. P[cuts[s] + 1] \in Nat
      BY <1>7
    <3> QED  BY <1>6, <3>1
  <2> QED  BY <1>5, <2>1, <2>2, <2>3, FitFetchIs DEF P, a
<1> HIDE DEF f
<1>9. start \in Int
  <2>1. blocks[1] \in Nat
    BY <1>1, <1>2
  <2> DEFINE v == blocks[1] * a
  <2>2. v \in Int
    BY <1>4, <2>1
  <2> HIDE DEF v
  <2>3. v \div Unit \in Int
    BY <1>1, <2>2, Quotient
  <2> QED  BY <2>3 DEF v
<1>10. ASSUME NEW s \in 1..n - 1
       PROVE  /\ f.leaf[s] \in Nat /\ f.leaf[s] <= z \div Unit
              /\ cuts = <<>> => f.leaf[s] = 0
              /\ cuts # <<>> => /\ f.leaf[s] = P[cuts[s] + 1] \div Unit
                                /\ a \div Unit <= f.leaf[s]
  <2>1. CASE cuts = <<>>
    <3>1. f.leaf[s] = 0
      BY <1>8, <2>1
    <3> QED  BY <1>4, <1>6, <2>1, <3>1
  <2>2. CASE cuts # <<>>
    <3> DEFINE v == P[cuts[s] + 1]
    <3>1. f.leaf[s] = v \div Unit
      BY <1>8, <2>2
    <3>2. v \in Nat /\ a <= v /\ v <= z
      BY <1>7, <2>2
    <3> HIDE DEF v
    <3>3. v \div Unit \in Nat /\ a \div Unit <= v \div Unit /\ v \div Unit <= z \div Unit
      <4>1. v \in Int /\ a \in Int /\ z \in Int
        BY <1>4, <3>2
      <4> QED  BY <1>1, <1>6, <3>2, <4>1, QuotientRises
    <3> QED  BY <2>2, <3>1, <3>3 DEF v
  <2> QED  BY <2>1, <2>2
<1>11. ASSUME NEW s \in 1..n - 1, NEW t \in 1..n - 1, s <= t
       PROVE  f.leaf[s] <= f.leaf[t]
  <2>1. CASE cuts = <<>>
    BY <1>10, <2>1
  <2>2. CASE cuts # <<>>
    <3>1. cuts[s] + 1 \in 1..Len(P) /\ cuts[t] + 1 \in 1..Len(P) /\ cuts[s] + 1 <= cuts[t] + 1
      <4>1. cuts[s] <= cuts[t] /\ cuts[s] \in 1..Len(data) /\ cuts[t] \in 1..Len(data)
        BY <1>2, <1>11, <2>2
      <4> DEFINE u == cuts[s]
                 w == cuts[t]
      <4>2. u <= w /\ u \in 1..Len(data) /\ w \in 1..Len(data)
        BY <4>1
      <4> HIDE DEF u, w
      <4>3. u + 1 \in 1..Len(P) /\ w + 1 \in 1..Len(P) /\ u + 1 <= w + 1
        BY <1>3, <4>2
      <4> QED  BY <4>3 DEF u, w
    <3> DEFINE v == P[cuts[s] + 1]
               y == P[cuts[t] + 1]
    <3>2. v <= y
      BY <1>3, <3>1 DEF Rising
    <3>3. v \in Nat /\ y \in Nat /\ f.leaf[s] = v \div Unit /\ f.leaf[t] = y \div Unit
      BY <1>7, <1>10, <2>2
    <3> HIDE DEF v, y
    <3>4. v \div Unit <= y \div Unit
      <4>1. v \in Int /\ y \in Int
        BY <3>3
      <4> QED  BY <1>1, <3>2, <4>1, QuotientRises
    <3> QED  BY <3>3, <3>4
  <2> QED  BY <2>1, <2>2
<1>12. \A s \in 1..n - 1 :
         f.block[s] = IF s = 1 THEN blocks[1] * f.leaf[1] + start
                      ELSE f.block[s - 1] + blocks[s] * (f.leaf[s] - f.leaf[s - 1])
  BY <1>8 DEF Blocks
<1>13. ASSUME NEW s \in 2..n - 1
       PROVE  /\ s \in 1..n - 1 /\ s - 1 \in 1..n - 1
              /\ f.block[s] = f.block[s - 1] + blocks[s] * (f.leaf[s] - f.leaf[s - 1])
              /\ blocks[s] * (f.leaf[s] - f.leaf[s - 1]) \in Nat
  <2>1. s \in 1..n - 1 /\ s - 1 \in 1..n - 1 /\ s \in 1..n /\ s # 1 /\ s - 1 <= s
    BY <1>1
  <2>2. f.leaf[s] \in Nat /\ f.leaf[s - 1] \in Nat /\ f.leaf[s - 1] <= f.leaf[s]
    BY <1>10, <1>11, <2>1
  <2>3. f.leaf[s] - f.leaf[s - 1] \in Nat /\ blocks[s] \in Nat
    BY <1>2, <2>1, <2>2
  <2>4. blocks[s] * (f.leaf[s] - f.leaf[s - 1]) \in Nat
    BY <2>3, NotNegativeProduct
  <2> QED  BY <1>12, <2>1, <2>4
<1>14. \A s \in 1..n - 1 : f.block[s] \in Int
  <2> DEFINE S == {d \in Nat : d + 1 <= n - 1 => f.block[d + 1] \in Int}
  <2>1. 0 \in S
    <3>1. f.block[1] = blocks[1] * f.leaf[1] + start
      BY <1>1, <1>12
    <3>2. blocks[1] \in Nat /\ f.leaf[1] \in Nat
      BY <1>1, <1>2, <1>10
    <3>3. blocks[1] * f.leaf[1] + start \in Int
      <4> HIDE DEF start
      <4> QED  BY <1>9, <3>2
    <3> QED  BY <3>1, <3>3
  <2>2. ASSUME NEW d \in Nat, d \in S
        PROVE  d + 1 \in S
    <3> SUFFICES ASSUME (d + 1) + 1 <= n - 1
                 PROVE  f.block[(d + 1) + 1] \in Int
      OBVIOUS
    <3> DEFINE s == (d + 1) + 1
    <3>1. s \in 2..n - 1 /\ s - 1 = d + 1 /\ d + 1 <= n - 1
      BY <1>1
    <3>2. f.block[d + 1] \in Int
      BY <2>2, <3>1
    <3> HIDE DEF s
    <3>3. /\ f.block[s] = f.block[s - 1] + blocks[s] * (f.leaf[s] - f.leaf[s - 1])
          /\ blocks[s] * (f.leaf[s] - f.leaf[s - 1]) \in Nat
      BY <1>13, <3>1
    <3> DEFINE w == blocks[s] * (f.leaf[s] - f.leaf[s - 1])
    <3>4. f.block[s] = f.block[d + 1] + w /\ w \in Nat
      BY <3>1, <3>3
    <3> HIDE DEF w
    <3> QED  BY <3>2, <3>4 DEF s
  <2> HIDE DEF S
  <2>3. Nat \subseteq S
    BY <2>1, <2>2, Induction
  <2>4. ASSUME NEW s \in 1..n - 1
        PROVE  f.block[s] \in Int
    <3>1. s - 1 \in S /\ (s - 1) + 1 = s /\ s <= n - 1
      BY <1>1, <2>3
    <3> QED  BY <3>1 DEF S
  <2> QED  BY <2>4
<1>15. /\ f.intercept[1] = start
       /\ \A s \in 2..n : f.intercept[s] = f.block[s - 1] - blocks[s] * f.leaf[s - 1]
  <2>1. \A s \in 2..n : s \in 1..n /\ s # 1
    BY <1>1
  <2> QED  BY <1>1, <1>8, <2>1
<1>16. \A s \in 1..n : f.intercept[s] \in Int
  <2>1. ASSUME NEW s \in 2..n
        PROVE  f.intercept[s] \in Int
    <3>1. s \in 1..n /\ s - 1 \in 1..n - 1
      BY <1>1
    <3>2. f.block[s - 1] \in Int /\ blocks[s] \in Nat /\ f.leaf[s - 1] \in Nat
      BY <1>2, <1>10, <1>14, <3>1
    <3>3. f.block[s - 1] - blocks[s] * f.leaf[s - 1] \in Int
      BY <3>2
    <3> QED  BY <1>15, <3>3
  <2>2. \A s \in 1..n : s = 1 \/ s \in 2..n
    BY <1>1
  <2> HIDE DEF start
  <2> QED  BY <1>9, <1>15, <2>1, <2>2
<1>17. ASSUME NEW s \in 1..n - 1
       PROVE  f.block[s] = blocks[s] * f.leaf[s] + f.intercept[s]
  <2>1. CASE s = 1
    BY <1>12, <1>15, <2>1
  <2>2. CASE s # 1
    <3>1. s \in 2..n /\ s \in 2..n - 1 /\ s \in 1..n /\ s - 1 \in 1..n - 1
      BY <1>1, <2>2
    <3>2. /\ f.block[s] = f.block[s - 1] + blocks[s] * (f.leaf[s] - f.leaf[s - 1])
          /\ f.intercept[s] = f.block[s - 1] - blocks[s] * f.leaf[s - 1]
      BY <1>13, <1>15, <3>1
    <3> DEFINE k == f.block[s - 1]
               b == blocks[s]
               l == f.leaf[s]
               m == f.leaf[s - 1]
    <3>3. k \in Int /\ b \in Nat /\ l \in Nat /\ m \in Nat
      BY <1>2, <1>10, <1>14, <3>1
    <3>4. f.block[s] = k + b * (l - m) /\ f.intercept[s] = k - b * m
      BY <3>2
    <3> HIDE DEF k, b, l, m
    <3>5. b * (l - m) = b * l - b * m /\ b * l \in Int /\ b * m \in Int
      BY <3>3
    <3>6. f.block[s] = b * l + f.intercept[s]
      BY <3>3, <3>4, <3>5
    <3> QED  BY <3>6 DEF b, l
  <2> QED  BY <2>1, <2>2
<1>18. ASSUME NEW s \in 1..n - 1, NEW t \in 1..n - 1, s <= t
       PROVE  f.block[s] <= f.block[t]
  <2>1. f.block \in Seq(Int) /\ Len(f.block) = n - 1
    <3>1. \E F : f.block = [i \in 1..n - 1 |-> F[i]]
      <4> DEFINE F == [i \in 1..n - 1 |->
                         IF i = 1 THEN blocks[1] * f.leaf[1] + start
                         ELSE f.block[i - 1] + blocks[i] * (f.leaf[i] - f.leaf[i - 1])]
      <4>1. f.block = F
        BY <1>8 DEF Blocks
      <4>2. F = [i \in 1..n - 1 |-> F[i]]
        OBVIOUS
      <4> HIDE DEF F
      <4> QED  BY <4>1, <4>2
    <3>2. PICK F : f.block = [i \in 1..n - 1 |-> F[i]]
      BY <3>1
    <3>3. f.block \in [1..n - 1 -> Int]
      BY <1>14, <3>2
    <3>4. n - 1 \in Nat
      BY <1>1
    <3> QED  BY <3>3, <3>4
  <2>2. \A i \in 1..Len(f.block) - 1 : f.block[i] <= f.block[i + 1]
    <3>1. ASSUME NEW i \in 1..Len(f.block) - 1
          PROVE  f.block[i] <= f.block[i + 1]
      <4> DEFINE j == i + 1
      <4>1. j \in 2..n - 1 /\ j - 1 = i /\ i \in 1..n - 1
        BY <1>1, <2>1
      <4> HIDE DEF j
      <4>2. /\ f.block[j] = f.block[j - 1] + blocks[j] * (f.leaf[j] - f.leaf[j - 1])
            /\ blocks[j] * (f.leaf[j] - f.leaf[j - 1]) \in Nat
        BY <1>13, <4>1
      <4> DEFINE w == blocks[j] * (f.leaf[j] - f.leaf[j - 1])
      <4>3. f.block[j] = f.block[i] + w /\ w \in Nat /\ f.block[i] \in Int
        BY <1>14, <4>1, <4>2
      <4> HIDE DEF w
      <4> QED  BY <4>3 DEF j
    <3> QED  BY <3>1
  <2>3. Rising(f.block)
    BY <2>1, <2>2, AdjacentRise
  <2> QED  BY <1>18, <2>1, <2>3 DEF Rising
<1>19. Even(f) \/ f.leaf[1] >= a \div Unit
  <2>1. CASE cuts = <<>>
    <3>1. /\ \A s \in 1..n - 1 : f.leaf[s] = 0
          /\ \A s \in 1..n : f.slope[s] = 1
      BY <1>2, <1>8, <1>10, <2>1
    <3> QED  BY <3>1 DEF Even
  <2>2. CASE cuts # <<>>
    <3>1. a \div Unit <= f.leaf[1] /\ f.leaf[1] \in Nat
      BY <1>1, <1>10, <2>2
    <3>2. a \div Unit \in Nat
      BY <1>4, <1>6
    <3> QED  BY <3>1, <3>2
  <2> QED  BY <2>1, <2>2
<1>20. Len(f.leaf) = n - 1
  BY <1>1, <1>8
<1>21. Fetches(f, a, z)
  BY <1>2, <1>4, <1>8, <1>10, <1>11, <1>14, <1>15, <1>16, <1>17, <1>18, <1>19, <1>20
     DEF Fetches, start
<1> QED  BY <1>21 DEF f, a, z

----------------------------------------------------------------------------
(* What is asked of a node that was trained with the sorted keys s.        *)
ChildOf(m, k) == IF m.type = "linear" THEN PredictLinear(m, k) ELSE ChildFor(m, k)

Sound(m, s) ==
  /\ m.type \in Type \cup {"linear"}
  /\ \A k \in Int : ChildOf(m, k) \in 0..m.children - 1
  /\ \A j, k \in Int : j <= k => ChildOf(m, j) <= ChildOf(m, k)
  /\ m.type = "his" =>
       \A k \in Int : ChildOf(m, k)
                        = Table(s, m.children)[Bucket(m.minValue, m.range, m.children, k)]
  /\ m.type \in {"lr", "plr"} => PartsEnds(m, s)

LEMMA FittedIsSound ==
  ASSUME NEW m, NEW s, Fitted(m, s)
  PROVE  Sound(m, s)
<1>1. m.type \in Type /\ m.type # "linear"
  BY DEF Fitted, Type
<1>2. \A k : ChildOf(m, k) = ChildFor(m, k)
  BY <1>1 DEF ChildOf
<1> QED  BY <1>1, <1>2 DEF Fitted, Sound

LEMMA LinearIsSound ==
  ASSUME NEW s, Trainable(s), NEW c \in Nat, c >= 2
  PROVE  Sound(FitLinear(s, c), s)
<1> DEFINE m  == FitLinear(s, c)
           lr == IF s[1] # s[Len(s)] THEN Train(s, c - 1)
                 ELSE [minValue |-> s[1], slope |-> 1, intercept |-> 1, den |-> 1]
<1>1. m = [type |-> "linear", children |-> c, lr |-> lr]
  BY DEF FitLinear, Last
<1>2. s \in Seq(Int) /\ Len(s) > 0 /\ Rising(s) /\ c \in Nat \ {0} /\ c - 1 \in Nat
      /\ c - 1 \in Int
  BY DEF Trainable
<1>3. lr \in Lines /\ lr.slope >= 0
  <2>1. CASE s[1] # s[Len(s)]
    <3>1. lr = Train(s, c - 1)
      BY <2>1
    <3> QED  BY <1>2, <3>1, TrainFits, TrainRises
  <2>2. CASE s[1] = s[Len(s)]
    <3>1. lr = [minValue |-> s[1], slope |-> 1, intercept |-> 1, den |-> 1]
      BY <2>2
    <3> HIDE DEF lr
    <3>2. s[1] \in Int
      BY PointsEnds
    <3> QED  BY <3>1, <3>2 DEF Lines
  <2> QED  BY <2>1, <2>2
<1> HIDE DEF m, lr
<1>4. m.type = "linear" /\ m.children = c /\ m.lr = lr
  BY <1>1
<1>5. \A k : ChildOf(m, k) = Predict(lr, c, k)
  BY <1>4 DEF ChildOf, PredictLinear
<1>6. \A k \in Int : Predict(lr, c, k) \in 0..c - 1
  BY <1>2, <1>3, PredictInRange
<1>7. \A j, k \in Int : j <= k => Predict(lr, c, j) <= Predict(lr, c, k)
  BY <1>2, <1>3, PredictKeepsOrder
<1> QED  BY <1>4, <1>5, <1>6, <1>7 DEF Sound, Type, m

----------------------------------------------------------------------------
(* The points that a behavior begins with are sorted.                      *)
LEMMA KeysArePoints ==
  ASSUME NEW s \in InnerSets \cup RootSets
  PROVE  Trainable(s)
<1>1. s \in Seq(Key) \ {<<>>} /\ \A i \in 1..Len(s) - 1 : s[i] <= s[i + 1]
  BY TrainingAssumption
<1>2. Key \subseteq Int
  BY TrainingAssumption
<1>3. s \in Seq(Int)
  <2>1. Len(s) \in Nat /\ s \in [1..Len(s) -> Key]
    BY <1>1
  <2>2. s \in [1..Len(s) -> Int]
    BY <1>2, <2>1
  <2> QED  BY <2>1, <2>2
<1>4. Len(s) > 0
  BY <1>1
<1> QED  BY <1>1, <1>3, <1>4, AdjacentRise DEF Trainable


----------------------------------------------------------------------------
(* Nothing but what the constructors and Train make is ever tried.         *)
ModelIsTrained ==
  \/ model = Untrained
  \/ \E c \in Childs :
       \/ model = FitLinear(keys, c)
       \/ \E type \in {"lr", "his", "bs"} : model = Fit(type, keys, c, <<0, 0>>)
       \/ \E cut \in Cuts(keys) : model = Fit("plr", keys, c, cut)
  \/ \E c \in RootChilds : \E cuts \in RootCuts(keys, MaxChildIdx(c)) :
       model = FitRoot(keys, c, cuts)

TrainingInvariant == keys \in InnerSets \cup RootSets /\ ModelIsTrained

LEMMA TrainingInvariantHolds == Spec => []TrainingInvariant
<1>1. Init => TrainingInvariant
  BY DEF Init, TrainingInvariant, ModelIsTrained
<1>2. TrainingInvariant /\ [Next]_vars => TrainingInvariant'
  <2> SUFFICES ASSUME TrainingInvariant, [Next]_vars
               PROVE  TrainingInvariant'
    OBVIOUS
  <2>0. keys \in InnerSets \cup RootSets
    BY DEF TrainingInvariant
  <2>1. CASE TrainLR
    BY <2>0, <2>1 DEF TrainLR, Try, TrainingInvariant, ModelIsTrained
  <2>2. CASE TrainPLR
    BY <2>0, <2>2 DEF TrainPLR, Try, TrainingInvariant, ModelIsTrained
  <2>3. CASE TrainHis
    BY <2>0, <2>3 DEF TrainHis, Try, TrainingInvariant, ModelIsTrained
  <2>4. CASE TrainBS
    BY <2>0, <2>4 DEF TrainBS, Try, TrainingInvariant, ModelIsTrained
  <2>5. CASE TrainLinear
    BY <2>0, <2>5 DEF TrainLinear, Try, TrainingInvariant, ModelIsTrained
  <2>6. CASE TrainRoot
    BY <2>0, <2>6 DEF TrainRoot, Try, TrainingInvariant, ModelIsTrained
  <2>7. CASE TrainFetch
    <3>1. keys' = keys /\ model' = model
      BY <2>7 DEF TrainFetch
    <3> QED  BY <3>1 DEF TrainingInvariant, ModelIsTrained
  <2>8. CASE UNCHANGED vars
    <3>1. keys' = keys /\ model' = model
      BY <2>8 DEF vars
    <3> QED  BY <3>1 DEF TrainingInvariant, ModelIsTrained
  <2> QED  BY <2>1, <2>2, <2>3, <2>4, <2>5, <2>6, <2>7, <2>8 DEF Next
<1> QED  BY <1>1, <1>2, PTL DEF Spec

(* The model is the root's, or sound.                                      *)
LEMMA TrainedIsSound ==
  ASSUME TrainingInvariant
  PROVE  /\ Trainable(keys)
         /\ Trained => Sound(model, keys)
         /\ IsRoot => \E M : Rooted(model, M)
<1>1. Trainable(keys)
  BY KeysArePoints DEF TrainingInvariant
<1>2. CASE model = Untrained
  <2>1. ~ Trained /\ ~ IsRoot
    BY <1>2 DEF Trained, IsRoot, Untrained
  <2> QED  BY <1>1, <2>1
<1>3. ASSUME Sound(model, keys)
      PROVE  ~ IsRoot
  BY <1>3 DEF Sound, IsRoot, Type
<1>4. ASSUME NEW c \in Childs,
             \/ model = FitLinear(keys, c)
             \/ \E type \in {"lr", "his", "bs"} : model = Fit(type, keys, c, <<0, 0>>)
             \/ \E cut \in Cuts(keys) : model = Fit("plr", keys, c, cut)
      PROVE  Sound(model, keys)
  <2>1. c \in Nat /\ c >= 2
    BY TrainingAssumption
  <2>2. CASE model = FitLinear(keys, c)
    BY <1>1, <2>1, <2>2, LinearIsSound
  <2>3. ASSUME NEW type \in {"lr", "his", "bs"}, model = Fit(type, keys, c, <<0, 0>>)
        PROVE  Sound(model, keys)
    BY <1>1, <2>1, <2>3, LRIsSound, HistogramIsSound, BSIsSound, FittedIsSound
  <2>4. ASSUME NEW cut \in Cuts(keys), model = Fit("plr", keys, c, cut)
        PROVE  Sound(model, keys)
    <3>1. CutsFor(keys, cut)
      BY CutsAre
    <3> QED  BY <1>1, <2>1, <2>4, <3>1, PLRIsSound, FittedIsSound
  <2> QED  BY <1>4, <2>2, <2>3, <2>4
<1>5. ASSUME NEW c \in RootChilds, NEW cuts \in RootCuts(keys, MaxChildIdx(c)),
             model = FitRoot(keys, c, cuts)
      PROVE  IsRoot /\ Rooted(model, MaxChildIdx(c))
  <2>1. c \in Nat
    BY TrainingAssumption
  <2>2. keys \in Seq(Int) /\ Len(keys) > 0
    BY <1>1 DEF Trainable
  <2>3. Rooted(model, MaxChildIdx(c))
    BY <1>5, <2>1, <2>2, FitRootIs
  <2> QED  BY <1>5, <2>3 DEF IsRoot, FitRoot
<1> QED  BY <1>1, <1>2, <1>3, <1>4, <1>5 DEF TrainingInvariant, ModelIsTrained, Trained

LEMMA ChildIs == \A k : Child(k) = ChildOf(model, k)
BY DEF Child, ChildOf

(* Every key, one that the node was not trained with as well, has a child, *)
(* whatever was sampled or cut: Find and Insert index the node array with  *)
(* it unchecked.                                                           *)
THEOREM TrainedModelsNameAChild == Spec => []TypeOK
<1>1. TrainingInvariant => TypeOK
  <2> SUFFICES ASSUME TrainingInvariant PROVE TypeOK
    OBVIOUS
  <2>1. Key \subseteq Int
    BY TrainingAssumption
  <2>2. ASSUME Trained, NEW k \in Key
        PROVE  Child(k) \in 0..model.children - 1
    <3>1. Sound(model, keys) /\ k \in Int
      BY <2>1, <2>2, TrainedIsSound
    <3> QED  BY <3>1, ChildIs DEF Sound
  <2>3. ASSUME IsRoot, NEW k \in Key
        PROVE  RootChild(k) \in 0..model.children - 1
    <3>1. k \in Int /\ \E M : Rooted(model, M)
      BY <2>1, <2>3, TrainedIsSound
    <3> QED  BY <3>1, RootChildInRange DEF RootChild
  <2> QED  BY <2>2, <2>3 DEF TypeOK
<1> QED  BY <1>1, TrainingInvariantHolds, PTL

(* The children of an inner node follow each other in the order of the     *)
(* keys, with each of the models, trained with whatever points.            *)
THEOREM TrainedModelsKeepOrder == Spec => []ChildrenInKeyOrder
<1>1. TrainingInvariant => ChildrenInKeyOrder
  <2> SUFFICES ASSUME TrainingInvariant, Trained, NEW j \in Key, NEW k \in Key, j < k
               PROVE  Child(j) <= Child(k)
    BY DEF ChildrenInKeyOrder
  <2>1. Key \subseteq Int
    BY TrainingAssumption
  <2>2. Sound(model, keys) /\ j \in Int /\ k \in Int /\ j <= k
    BY <2>1, TrainedIsSound
  <2> QED  BY <2>2, ChildIs DEF Sound
<1> QED  BY <1>1, TrainingInvariantHolds, PTL

(* What the bases and the bits of a histogram say of a bucket is what the  *)
(* table said, with every number of buckets to a base.                     *)
THEOREM HistogramKeepsItsTable == Spec => []HistogramKeepsTable
<1>1. TrainingInvariant => HistogramKeepsTable
  <2> SUFFICES ASSUME TrainingInvariant, Trained, model.type = "his", NEW k \in Range0(keys)
               PROVE  Child(k) = Table(keys, model.children)[
                        Bucket(model.minValue, model.range, model.children, k)]
    BY DEF HistogramKeepsTable
  <2>1. Trainable(keys) /\ Sound(model, keys)
    BY TrainedIsSound
  <2>2. k \in Int
    BY <2>1 DEF Trainable, Range0
  <2> QED  BY <2>1, <2>2, ChildIs DEF Sound
<1> QED  BY <1>1, TrainingInvariantHolds, PTL

(* A regression over points that are not all equal never sends all of them *)
(* to one child, but for the one case in which it does: a piecewise one    *)
(* whose last two points are at the greatest key, the first of them in     *)
(* child 0.  Only there may the construction not get on.                   *)
THEOREM RegressionDividesPoints == Spec => []RegressionDivides
<1>1. TrainingInvariant => RegressionDivides
  <2> SUFFICES ASSUME TrainingInvariant, Trained, model.type \in {"lr", "plr"},
                      Cardinality(Range0(keys)) > 1
               PROVE  EndsFlat <=> \A j, k \in Range0(keys) : Child(j) = Child(k)
    BY DEF RegressionDivides
  <2> DEFINE n     == Len(keys)
             first == keys[1]
             last  == keys[n]
  <2>1. Trainable(keys) /\ Sound(model, keys)
    BY TrainedIsSound
  <2>2. keys \in Seq(Int) /\ 1 \in 1..n /\ n \in 1..n /\ Rising(keys) /\ DOMAIN keys = 1..n
    BY <2>1 DEF Trainable
  <2>3. first \in Range0(keys) /\ last \in Range0(keys)
    BY <2>2 DEF Range0
  <2>4. ASSUME NEW k \in Range0(keys)
        PROVE  k \in Int /\ first <= k /\ k <= last
    <3>1. PICK i \in 1..n : k = keys[i]
      BY <2>2, <2>4 DEF Range0
    <3>2. 1 <= i /\ i <= n
      OBVIOUS
    <3>3. keys[1] <= keys[i] /\ keys[i] <= keys[n]
      BY <2>2, <3>2 DEF Rising
    <3> QED  BY <2>2, <3>1, <3>3
  <2> HIDE DEF first, last
  <2>5. first # last
    <3> SUFFICES ASSUME first = last PROVE FALSE
      OBVIOUS
    <3>1. Range0(keys) = {first}
      <4>1. ASSUME NEW k \in Range0(keys) PROVE k = first
        BY <2>3, <2>4
      <4> QED  BY <2>3, <4>1
    <3>2. Cardinality({first}) = 1
      BY FS_Singleton
    <3> QED  BY <3>1, <3>2
  <2>6. Child(first) = Child(last) <=> EndsFlat
    <3>1. PartsEnds(model, keys)
      BY <2>1 DEF Sound
    <3>2. ChildFor(model, first) = ChildFor(model, last) <=> EndsFlat
      BY <2>5, <3>1 DEF PartsEnds, EndsFlat, FlatEnd, first, last
    <3>3. \A k : Child(k) = ChildFor(model, k)
      BY DEF Child
    <3> QED  BY <3>2, <3>3
  <2>7. ASSUME NEW k \in Range0(keys)
        PROVE  Child(k) \in Int /\ Child(first) <= Child(k) /\ Child(k) <= Child(last)
    <3>1. k \in Int /\ first \in Int /\ last \in Int /\ first <= k /\ k <= last
      BY <2>3, <2>4
    <3>2. /\ \A i \in Int : ChildOf(model, i) \in 0..model.children - 1
          /\ \A i, j \in Int : i <= j => ChildOf(model, i) <= ChildOf(model, j)
      BY <2>1 DEF Sound
    <3>3. ChildOf(model, k) \in Int
      BY <3>1, <3>2
    <3> QED  BY <3>1, <3>2, <3>3, ChildIs
  <2>8. ASSUME Child(first) = Child(last), NEW k \in Range0(keys)
        PROVE  Child(k) = Child(first)
    <3>1. Child(first) \in Int
      BY <2>3, <2>7
    <3> QED  BY <2>7, <2>8, <3>1
  <2> QED  BY <2>3, <2>6, <2>8
<1> QED  BY <1>1, TrainingInvariantHolds, PTL

----------------------------------------------------------------------------
(* In an order of finitely many there is a first, a second and so on.      *)
Ordered(S, R) ==
  /\ \A i \in S : <<i, i>> \notin R
  /\ \A i, j \in S : i # j => <<i, j>> \in R \/ <<j, i>> \in R
  /\ \A i, j, k \in S : <<i, j>> \in R /\ <<j, k>> \in R => <<i, k>> \in R

Earlier(S, R, i) == {j \in S : <<j, i>> \in R}

LEMMA RanksRise ==
  ASSUME NEW S, IsFiniteSet(S), NEW R, Ordered(S, R), NEW i \in S
  PROVE  /\ IsFiniteSet(Earlier(S, R, i))
         /\ Cardinality(Earlier(S, R, i)) \in Nat
         /\ Cardinality(Earlier(S, R, i)) < Cardinality(S)
         /\ \A j \in S : <<j, i>> \in R =>
              Cardinality(Earlier(S, R, j)) < Cardinality(Earlier(S, R, i))
<1> DEFINE E == Earlier(S, R, i)
<1>1. E \in SUBSET S /\ i \notin E
  BY DEF Earlier, Ordered
<1>3. Cardinality(E) \in Nat /\ Cardinality(S) \in Nat
  <2>1. IsFiniteSet(E)
    BY <1>1, FS_Subset
  <2> HIDE DEF E
  <2> QED  BY <2>1, FS_CardinalityType
<1>4. Cardinality(E) < Cardinality(S)
  <2>1. Cardinality(E) <= Cardinality(S) /\ Cardinality(S) # Cardinality(E)
    BY <1>1, FS_Subset
  <2> HIDE DEF E
  <2> QED  BY <1>3, <2>1
<1>5. ASSUME NEW j \in S, <<j, i>> \in R
      PROVE  Cardinality(Earlier(S, R, j)) < Cardinality(E)
  <2> DEFINE F == Earlier(S, R, j)
  <2>1. F \in SUBSET E /\ j \notin F /\ j \in E
    BY <1>5 DEF Earlier, Ordered
  <2>2. IsFiniteSet(E)
    BY <1>1, FS_Subset
  <2> HIDE DEF E, F
  <2>3. Cardinality(F) <= Cardinality(E) /\ Cardinality(F) # Cardinality(E) /\ IsFiniteSet(F)
    BY <2>1, <2>2, FS_Subset
  <2>4. Cardinality(F) \in Nat
    BY <2>3, FS_CardinalityType
  <2>5. Cardinality(F) < Cardinality(E)
    BY <1>3, <2>3, <2>4
  <2> QED  BY <2>5 DEF F
<1>6. IsFiniteSet(E)
  BY <1>1, FS_Subset
<1> QED  BY <1>3, <1>4, <1>5, <1>6

LEMMA RanksReached ==
  ASSUME NEW S, IsFiniteSet(S), NEW R, Ordered(S, R), NEW m \in 1..Cardinality(S)
  PROVE  \E i \in S : Cardinality(Earlier(S, R, i)) = m - 1
<1> DEFINE n == Cardinality(S)
           T == (0..n - 1) \ {m - 1}
           rank == [i \in S |-> Cardinality(Earlier(S, R, i))]
<1> SUFFICES ASSUME \A i \in S : Cardinality(Earlier(S, R, i)) # m - 1
             PROVE  FALSE
  OBVIOUS
<1>1. n \in Nat
  BY FS_CardinalityType
<1>2. \A i \in S : Cardinality(Earlier(S, R, i)) \in Nat /\ Cardinality(Earlier(S, R, i)) < n
  BY RanksRise
<1>3. rank \in [S -> T]
  <2> HIDE DEF n
  <2>1. \A i \in S : Cardinality(Earlier(S, R, i)) \in T
    BY <1>1, <1>2
  <2> HIDE DEF T
  <2> QED  BY <2>1
<1>4. IsFiniteSet(T) /\ Cardinality(T) < n
  <2>1. IsFiniteSet(0..n - 1) /\ Cardinality(0..n - 1) = n
    <3>1. 0 \in Int /\ n - 1 \in Int
      BY <1>1
    <3> HIDE DEF n
    <3> QED  BY <1>1, <3>1, FS_Interval
  <2>2. m - 1 \in 0..n - 1
    <3>1. m \in 1..n
      OBVIOUS
    <3> HIDE DEF n
    <3> QED  BY <1>1, <3>1
  <2>3. IsFiniteSet(T) /\ Cardinality(T) = Cardinality(0..n - 1) - 1
    BY <2>1, <2>2, FS_RemoveElement
  <2> HIDE DEF n, T
  <2> QED  BY <1>1, <2>1, <2>3
<1> HIDE DEF T
<1>5. \A i, j \in S : rank[i] = rank[j] => i = j
  <2> SUFFICES ASSUME NEW i \in S, NEW j \in S, i # j
               PROVE  rank[i] # rank[j]
    OBVIOUS
  <2>1. <<i, j>> \in R \/ <<j, i>> \in R
    BY DEF Ordered
  <2>2. \/ Cardinality(Earlier(S, R, i)) < Cardinality(Earlier(S, R, j))
        \/ Cardinality(Earlier(S, R, j)) < Cardinality(Earlier(S, R, i))
    BY <2>1, RanksRise
  <2>3. rank[i] = Cardinality(Earlier(S, R, i)) /\ rank[j] = Cardinality(Earlier(S, R, j))
    OBVIOUS
  <2>4. rank[i] \in Nat /\ rank[j] \in Nat
    BY <1>2
  <2> HIDE DEF rank
  <2>5. rank[i] < rank[j] \/ rank[j] < rank[i]
    BY <2>2, <2>3
  <2> QED  BY <2>4, <2>5
<1> HIDE DEF rank, n
<1>6. \E i, j \in S : i # j /\ rank[i] = rank[j]
  BY <1>3, <1>4, FS_PigeonHole DEF n
<1> QED  BY <1>5, <1>6

----------------------------------------------------------------------------
(* The points of the leaves below the root.                                *)
Own(leaves) == {i \in DOMAIN keys : RootChild(keys[i]) \in leaves}

LeafOrder ==
  {p \in (DOMAIN keys) \X (DOMAIN keys) :
     \/ RootChild(keys[p[1]]) < RootChild(keys[p[2]])
     \/ RootChild(keys[p[1]]) = RootChild(keys[p[2]]) /\ p[1] < p[2]}

Index(i) == PredictRoot(model, keys[i])

LEMMA IndexIs ==
  ASSUME Trainable(keys), NEW M, Rooted(model, M), NEW i \in DOMAIN keys
  PROVE  /\ Index(i) \in Nat /\ RootChild(keys[i]) = Index(i) \div Unit
         /\ RootChild(keys[i]) \in Nat /\ i \in Nat /\ keys[i] \in Int
<1>1. keys[i] \in Int /\ i \in Nat
  BY DEF Trainable
<1>2. Index(i) \in 0..M * Unit
  BY <1>1, RootInRange DEF Index
<1>3. RootChild(keys[i]) \in 0..model.children - 1
  BY <1>1, RootChildInRange DEF RootChild
<1> QED  BY <1>1, <1>2, <1>3 DEF RootChild, Index

LEMMA LeafOrderIs ==
  ASSUME Trainable(keys), NEW M, Rooted(model, M), NEW leaves
  PROVE  /\ IsFiniteSet(Own(leaves)) /\ Ordered(Own(leaves), LeafOrder)
         /\ \A i, j \in Own(leaves) : <<i, j>> \in LeafOrder => Index(i) <= Index(j)
<1> DEFINE S == Own(leaves)
           D == DOMAIN keys
           c(i) == RootChild(keys[i])
<1>1. D = 1..Len(keys) /\ Len(keys) \in Nat /\ \A i, j \in D : i <= j => keys[i] <= keys[j]
  BY DEF Trainable, Rising
<1>2. S \subseteq D
  BY DEF Own
<1>3. IsFiniteSet(S)
  <2>1. IsFiniteSet(1..Len(keys))
    BY <1>1, FS_Interval
  <2> HIDE DEF D, S
  <2> QED  BY <1>1, <1>2, <2>1, FS_Subset
<1>4. \A i \in D : c(i) \in Nat /\ i \in Nat
  BY IndexIs
<1>5. \A i, j \in D : <<i, j>> \in LeafOrder <=> c(i) < c(j) \/ (c(i) = c(j) /\ i < j)
  BY DEF LeafOrder
<1> HIDE DEF S, D, c
<1>6. Ordered(S, LeafOrder)
  <2>1. \A i \in S : <<i, i>> \notin LeafOrder
    BY <1>2, <1>4, <1>5
  <2>2. \A i, j \in S : i # j => <<i, j>> \in LeafOrder \/ <<j, i>> \in LeafOrder
    BY <1>2, <1>4, <1>5
  <2>3. \A i, j, k \in S :
          <<i, j>> \in LeafOrder /\ <<j, k>> \in LeafOrder => <<i, k>> \in LeafOrder
    BY <1>2, <1>4, <1>5
  <2> QED  BY <2>1, <2>2, <2>3 DEF Ordered
<1>7. ASSUME NEW i \in S, NEW j \in S, <<i, j>> \in LeafOrder
      PROVE  Index(i) <= Index(j)
  <2>0. i \in DOMAIN keys /\ j \in DOMAIN keys
    BY <1>2 DEF D
  <2>1. /\ Index(i) \in Nat /\ c(i) = Index(i) \div Unit /\ i \in Nat /\ keys[i] \in Int
        /\ Index(j) \in Nat /\ c(j) = Index(j) \div Unit /\ j \in Nat /\ keys[j] \in Int
    BY <2>0, IndexIs DEF c
  <2>2. Unit \in Nat \ {0}
    BY RootModelsAssumption
  <2>3. CASE c(i) < c(j)
    <3> SUFFICES ASSUME Index(j) < Index(i) PROVE FALSE
      BY <2>1
    <3>1. Index(j) \in Int /\ Index(i) \in Int /\ Index(j) <= Index(i)
      BY <2>1
    <3>2. Index(j) \div Unit <= Index(i) \div Unit
      BY <2>2, <3>1, QuotientRises
    <3>3. c(i) \in Nat /\ c(j) \in Nat
      BY <1>2, <1>4
    <3> QED  BY <2>1, <2>3, <3>2, <3>3
  <2>4. CASE c(i) = c(j) /\ i < j
    <3>1. keys[i] <= keys[j]
      BY <1>1, <1>2, <2>1, <2>4
    <3>2. c(i) \in Nat
      BY <1>2, <1>4
    <3>3. PredictRoot(model, keys[i]) \div Unit <= PredictRoot(model, keys[j]) \div Unit
      BY <2>1, <2>4, <3>2 DEF Index
    <3>4. PredictRoot(model, keys[i]) <= PredictRoot(model, keys[j])
      BY <2>1, <3>1, <3>3, RootKeepsOrder
    <3> QED  BY <3>4 DEF Index
  <2> QED  BY <1>2, <1>5, <1>7, <2>3, <2>4
<1> QED  BY <1>3, <1>6, <1>7 DEF S

LEMMA FetchDataIs ==
  ASSUME Trainable(keys), NEW M, Rooted(model, M), NEW leaves, Own(leaves) # {}
  PROVE  /\ FetchData(leaves) \in Seq(Nat) /\ Len(FetchData(leaves)) > 0
         /\ Rising(FetchData(leaves))
         /\ \E i \in Own(leaves) : FetchData(leaves)[1] = Index(i)
         /\ \A i \in Own(leaves) :
              /\ FetchData(leaves)[1] <= Index(i)
              /\ Index(i) <= FetchData(leaves)[Len(FetchData(leaves))]
<1> DEFINE S == Own(leaves)
           n == Cardinality(S)
           R == LeafOrder
           rank(i) == Cardinality(Earlier(S, R, i))
           data == FetchData(leaves)
           Is(m, i) == i \in S /\ rank(i) = m - 1
<1>1. /\ IsFiniteSet(S) /\ Ordered(S, R)
      /\ \A i, j \in S : <<i, j>> \in R => Index(i) <= Index(j)
  BY LeafOrderIs
<1>2. n \in Nat \ {0}
  <2>1. n \in Nat /\ n # 0
    BY <1>1, FS_CardinalityType, FS_EmptySet
  <2> QED  BY <2>1
<1>3. \A i \in S : Index(i) \in Nat
  BY IndexIs DEF Own
<1>4. \A i \in S : rank(i) \in Nat /\ rank(i) < n
  BY <1>1, RanksRise
<1>5. \A i, j \in S : <<i, j>> \in R => rank(i) < rank(j)
  BY <1>1, RanksRise
<1>6. \A m \in 1..n : \E i \in S : rank(i) = m - 1
  BY <1>1, RanksReached
<1>7. /\ data = [m \in 1..n |-> data[m]]
      /\ \A m \in 1..n : data[m] = Index(CHOOSE i \in S : rank(i) = m - 1)
  <2> DEFINE before(i) == {j \in S : \/ RootChild(keys[j]) < RootChild(keys[i])
                                     \/ RootChild(keys[j]) = RootChild(keys[i]) /\ j < i}
  <2>1. data = [m \in 1..n |-> Index(CHOOSE i \in S : Cardinality(before(i)) = m - 1)]
    BY DEF FetchData, Own, Index
  <2>2. \A i \in S : before(i) = Earlier(S, R, i)
    BY DEF Earlier, LeafOrder, Own
  <2> HIDE DEF before, data, S, n
  <2>3. /\ data = [m \in 1..n |-> data[m]]
        /\ \A m \in 1..n : data[m] = Index(CHOOSE i \in S : Cardinality(before(i)) = m - 1)
    BY <2>1
  <2>4. ASSUME NEW m
        PROVE  (CHOOSE i \in S : Cardinality(before(i)) = m - 1)
                 = (CHOOSE i \in S : rank(i) = m - 1)
    <3>1. \A i : (i \in S /\ Cardinality(before(i)) = m - 1) <=> (i \in S /\ rank(i) = m - 1)
      BY <2>2
    <3> QED  BY <3>1
  <2>5. ASSUME NEW m \in 1..n
        PROVE  data[m] = Index(CHOOSE i \in S : rank(i) = m - 1)
    <3>1. data[m] = Index(CHOOSE i \in S : Cardinality(before(i)) = m - 1)
      BY <2>3
    <3>2. (CHOOSE i \in S : Cardinality(before(i)) = m - 1) = (CHOOSE i \in S : rank(i) = m - 1)
      BY <2>4
    <3> HIDE DEF rank
    <3> QED  BY <3>1, <3>2
  <2> QED  BY <2>3, <2>5
<1> HIDE DEF S, R, data, rank, n
<1>8. ASSUME NEW m \in 1..n
      PROVE  \E i \in S : data[m] = Index(i) /\ rank(i) = m - 1
  <2>1. \E i \in S : rank(i) = m - 1
    BY <1>6
  <2> DEFINE i == CHOOSE i \in S : rank(i) = m - 1
  <2>2. i \in S /\ rank(i) = m - 1
    BY <2>1
  <2>3. data[m] = Index(i)
    BY <1>7
  <2> HIDE DEF i
  <2> QED  BY <2>2, <2>3
<1>9. ASSUME NEW i \in S, NEW j \in S, rank(i) <= rank(j)
      PROVE  Index(i) <= Index(j)
  <2>1. i = j \/ <<i, j>> \in R \/ <<j, i>> \in R
    BY <1>1 DEF Ordered
  <2>2. ~ (<<j, i>> \in R)
    BY <1>4, <1>5, <1>9
  <2> QED  BY <1>1, <1>3, <2>1, <2>2
<1>10. \A m \in 1..n : data[m] \in Nat
  BY <1>3, <1>8
<1>11. DOMAIN data = 1..n /\ data \in Seq(Nat) /\ Len(data) = n
  <2>1. data = [m \in 1..n |-> data[m]]
    BY <1>7
  <2>2. data \in [1..n -> Nat]
    BY <1>10, <2>1
  <2> QED  BY <1>2, <2>2
<1>12. ASSUME NEW m \in 1..n, NEW o \in 1..n, m <= o
       PROVE  data[m] <= data[o]
  <2>1. PICK i \in S : data[m] = Index(i) /\ rank(i) = m - 1
    BY <1>8
  <2>2. PICK j \in S : data[o] = Index(j) /\ rank(j) = o - 1
    BY <1>8
  <2>3. rank(i) <= rank(j)
    BY <1>2, <1>12, <2>1, <2>2
  <2> QED  BY <1>9, <2>1, <2>2, <2>3
<1>13. ASSUME NEW i \in S
       PROVE  data[1] <= Index(i) /\ Index(i) <= data[n]
  <2>1. 1 \in 1..n /\ n \in 1..n
    BY <1>2
  <2>2. PICK j \in S : data[1] = Index(j) /\ rank(j) = 1 - 1
    BY <1>8, <2>1
  <2>3. PICK k \in S : data[n] = Index(k) /\ rank(k) = n - 1
    BY <1>8, <2>1
  <2>4. rank(i) \in Nat /\ rank(i) < n
    BY <1>4
  <2>5. rank(j) <= rank(i) /\ rank(i) <= rank(k)
    BY <1>2, <2>2, <2>3, <2>4
  <2> QED  BY <1>9, <2>2, <2>3, <2>5
<1>14. \E i \in S : data[1] = Index(i)
  <2>1. 1 \in 1..n
    BY <1>2
  <2> QED  BY <1>8, <2>1
<1>15. Rising(data)
  BY <1>11, <1>12 DEF Rising
<1>16. Len(data) > 0
  BY <1>2, <1>11
<1> QED  BY <1>11, <1>13, <1>14, <1>15, <1>16 DEF S, data

(* The prefetch model was trained with the points of leaves below the root.*)
FetchIsTrained ==
  fetch # Untrained =>
    /\ IsRoot
    /\ \E leaves \in (SUBSET {RootChild(keys[i]) : i \in DOMAIN keys}) \ {{}} :
         \E cuts \in FetchCuts(FetchData(leaves)), blocks \in FetchBlocks(FetchData(leaves)) :
           fetch = [type |-> "fetch", leaves |-> leaves,
                    plr |-> FitFetch(FetchData(leaves), cuts, blocks)]

LEMMA FetchIsTrainedHolds == Spec => []FetchIsTrained
<1>1. Init => FetchIsTrained
  BY DEF Init, FetchIsTrained
<1>2. FetchIsTrained /\ [Next]_vars => FetchIsTrained'
  <2> SUFFICES ASSUME FetchIsTrained, [Next]_vars
               PROVE  FetchIsTrained'
    OBVIOUS
  <2>1. ASSUME model = Untrained, fetch' = fetch
        PROVE  FetchIsTrained'
    <3>1. ~ IsRoot
      BY <2>1 DEF IsRoot, Untrained
    <3>2. fetch' = Untrained
      BY <2>1, <3>1 DEF FetchIsTrained
    <3> QED  BY <3>2 DEF FetchIsTrained, Untrained
  <2>2. CASE TrainLR
    BY <2>1, <2>2 DEF TrainLR, IsInner, Try
  <2>3. CASE TrainPLR
    BY <2>1, <2>3 DEF TrainPLR, IsInner, Try
  <2>4. CASE TrainHis
    BY <2>1, <2>4 DEF TrainHis, IsInner, Try
  <2>5. CASE TrainBS
    BY <2>1, <2>5 DEF TrainBS, IsInner, Try
  <2>6. CASE TrainLinear
    BY <2>1, <2>6 DEF TrainLinear, IsInner, Try
  <2>7. CASE TrainRoot
    BY <2>1, <2>7 DEF TrainRoot, Try
  <2>8. CASE TrainFetch
    <3>1. keys' = keys /\ model' = model /\ IsRoot
      BY <2>8 DEF TrainFetch
    <3>2. PICK leaves \in (SUBSET {RootChild(keys[i]) : i \in DOMAIN keys}) \ {{}} :
            \E cuts \in FetchCuts(FetchData(leaves)), blocks \in FetchBlocks(FetchData(leaves)) :
              fetch' = [type |-> "fetch", leaves |-> leaves,
                        plr |-> FitFetch(FetchData(leaves), cuts, blocks)]
      BY <2>8 DEF TrainFetch
    <3>3. /\ IsRoot' /\ \A k : RootChild(k)' = RootChild(k)
          /\ FetchData(leaves)' = FetchData(leaves)
      BY <3>1 DEF IsRoot, RootChild, FetchData
    <3> QED  BY <3>1, <3>2, <3>3 DEF FetchIsTrained
  <2>9. CASE UNCHANGED vars
    <3>1. keys' = keys /\ model' = model /\ fetch' = fetch
      BY <2>9 DEF vars
    <3>2. /\ IsRoot' = IsRoot /\ Untrained' = Untrained
          /\ \A k : RootChild(k)' = RootChild(k)
          /\ \A leaves : FetchData(leaves)' = FetchData(leaves)
      BY <3>1 DEF IsRoot, RootChild, FetchData, Untrained
    <3> QED  BY <3>1, <3>2 DEF FetchIsTrained
  <2> QED  BY <2>2, <2>3, <2>4, <2>5, <2>6, <2>7, <2>8, <2>9 DEF Next
<1> QED  BY <1>1, <1>2, PTL DEF Spec

(* Where the root keeps the keys in order, what is fetched for them is in  *)
(* their order as well: each leaf has blocks of its own, and no more of    *)
(* them than PrefetchNum says - for every sample of cuts and every choice  *)
(* of the costs, but for a first segment that begins before its leaf ends. *)
THEOREM LeavesAreFetchedApart == Spec => []LeavesFetchedApart
<1>1. TrainingInvariant /\ FetchIsTrained => LeavesFetchedApart
  <2> DEFINE fetched == {k \in Range0(keys) : RootChild(k) \in fetch.leaves}
             block(k) == PrefetchPredict(fetch.plr, PredictRoot(model, k))
  <2> SUFFICES ASSUME TrainingInvariant, FetchIsTrained,
                      fetch # Untrained, ~ StartsBelowZero, RootInKeyOrder,
                      NEW j \in fetched, NEW k \in fetched
               PROVE  /\ block(k) \in 0..fetch.plr.blockNumber - 1
                      /\ j < k => block(j) <= block(k)
                      /\ j < k /\ RootChild(j) # RootChild(k) => block(j) < block(k)
                      /\ RootChild(j) = RootChild(k) =>
                           block(k) - block(j) < PrefetchNum(fetch.plr, RootChild(k))
    BY DEF LeavesFetchedApart
  <2>1. Trainable(keys) /\ IsRoot /\ \E M : Rooted(model, M)
    BY TrainedIsSound DEF FetchIsTrained
  <2>2. PICK M : Rooted(model, M)
    BY <2>1
  <2>3. PICK leaves \in (SUBSET {RootChild(keys[i]) : i \in DOMAIN keys}) \ {{}} :
          \E cuts \in FetchCuts(FetchData(leaves)), blocks \in FetchBlocks(FetchData(leaves)) :
            fetch = [type |-> "fetch", leaves |-> leaves,
                     plr |-> FitFetch(FetchData(leaves), cuts, blocks)]
    BY DEF FetchIsTrained
  <2> DEFINE data == FetchData(leaves)
             a == data[1]
             z == data[Len(data)]
             f == fetch.plr
  <2>4. PICK cuts \in FetchCuts(data), blocks \in FetchBlocks(data) :
          fetch.leaves = leaves /\ f = FitFetch(data, cuts, blocks)
    BY <2>3
  <2>5. Own(leaves) # {}
    BY DEF Own
  <2>6. /\ data \in Seq(Nat) /\ Len(data) > 0 /\ Rising(data)
        /\ \E i \in Own(leaves) : a = Index(i)
        /\ \A i \in Own(leaves) : a <= Index(i) /\ Index(i) <= z
    BY <2>1, <2>2, <2>5, FetchDataIs
  <2> HIDE DEF data
  <2>7. Fetches(f, a, z)
    BY <2>4, <2>6, FitFetches
  <2>8. Min(leaves) = a \div Unit
    <3>1. \A i \in Own(leaves) : /\ Index(i) \in Nat /\ RootChild(keys[i]) = Index(i) \div Unit
                                 /\ RootChild(keys[i]) \in Nat /\ RootChild(keys[i]) \in leaves
      BY <2>1, <2>2, IndexIs DEF Own
    <3>2. \A l \in leaves : \E i \in Own(leaves) : l = RootChild(keys[i])
      BY DEF Own
    <3>3. leaves \subseteq Nat /\ leaves # {}
      BY <3>1, <3>2
    <3>4. Min(leaves) \in leaves /\ \A l \in leaves : Min(leaves) <= l
      BY <3>3, MinOfNumbers
    <3>5. a \div Unit \in leaves
      BY <2>6, <3>1
    <3>6. PICK i \in Own(leaves) : Min(leaves) = RootChild(keys[i])
      BY <3>2, <3>4
    <3>7. a \div Unit <= Index(i) \div Unit
      <4>1. a <= Index(i) /\ Index(i) \in Int /\ a \in Int /\ Unit \in Nat \ {0}
        BY <2>6, <3>1, RootModelsAssumption
      <4> QED  BY <4>1, QuotientRises
    <3>8. Min(leaves) \in Nat /\ a \div Unit \in Nat /\ Min(leaves) <= a \div Unit
          /\ a \div Unit <= Min(leaves)
      BY <3>1, <3>3, <3>4, <3>5, <3>6, <3>7
    <3> QED  BY <3>8
  <2>9. ~ (f.leaf[1] = a \div Unit /\ f.block[1] < 0)
    BY <2>4, <2>8 DEF StartsBelowZero
  <2>10. ASSUME NEW x \in fetched
         PROVE  /\ x \in Int /\ x \in Key /\ PredictRoot(model, x) \in Nat
                /\ a <= PredictRoot(model, x) /\ PredictRoot(model, x) <= z
                /\ RootChild(x) = PredictRoot(model, x) \div Unit /\ RootChild(x) \in Nat
    <3>1. PICK i \in DOMAIN keys : x = keys[i]
      BY <2>10 DEF Range0
    <3>2. i \in Own(leaves)
      BY <2>4, <3>1 DEF Own
    <3>3. keys \in Seq(Key)
      BY TrainingAssumption DEF TrainingInvariant
    <3>4. x \in Key
      BY <3>1, <3>3
    <3>5. /\ Index(i) \in Nat /\ RootChild(keys[i]) = Index(i) \div Unit
          /\ RootChild(keys[i]) \in Nat /\ keys[i] \in Int
      BY <2>1, <2>2, IndexIs
    <3> QED  BY <2>6, <3>1, <3>2, <3>4, <3>5 DEF Index
  <2>11. ASSUME NEW x \in fetched, NEW y \in fetched, PredictRoot(model, x) <= PredictRoot(model, y)
         PROVE  /\ block(x) \in 0..f.blockNumber - 1 /\ block(y) \in 0..f.blockNumber - 1
                /\ block(x) <= block(y)
                /\ RootChild(x) # RootChild(y) => block(x) < block(y)
                /\ RootChild(x) = RootChild(y) =>
                     /\ block(y) - block(x) < PrefetchNum(f, RootChild(y))
                     /\ block(x) - block(y) < PrefetchNum(f, RootChild(y))
    <3> DEFINE u == PredictRoot(model, x)
               v == PredictRoot(model, y)
    <3>1. /\ u \in Int /\ v \in Int /\ a <= u /\ u <= v /\ v <= z
          /\ RootChild(x) = u \div Unit /\ RootChild(y) = v \div Unit
      BY <2>10, <2>11
    <3> HIDE DEF u, v
    <3>2. /\ PrefetchPredict(f, u) \in 0..f.blockNumber - 1
          /\ PrefetchPredict(f, v) \in 0..f.blockNumber - 1
          /\ PrefetchPredict(f, u) <= PrefetchPredict(f, v)
          /\ u \div Unit # v \div Unit => PrefetchPredict(f, u) < PrefetchPredict(f, v)
          /\ u \div Unit = v \div Unit =>
               /\ PrefetchPredict(f, v) - PrefetchPredict(f, u) < PrefetchNum(f, v \div Unit)
               /\ PrefetchPredict(f, u) - PrefetchPredict(f, v) < PrefetchNum(f, v \div Unit)
      BY <2>7, <2>9, <3>1, BlocksApart
    <3> QED  BY <3>1, <3>2 DEF u, v
  <2>12. j < k => PredictRoot(model, j) <= PredictRoot(model, k)
    <3> SUFFICES ASSUME j < k PROVE PredictRoot(model, j) <= PredictRoot(model, k)
      OBVIOUS
    <3>1. j \in Int /\ k \in Int /\ j \in Key /\ k \in Key /\ j <= k
      BY <2>10
    <3>2. RootChild(j) <= RootChild(k)
      BY <2>1, <3>1 DEF RootInKeyOrder
    <3> QED  BY <2>2, <3>1, <3>2, RootKeepsOrder DEF RootChild
  <2>13. \/ PredictRoot(model, j) <= PredictRoot(model, k)
         \/ PredictRoot(model, k) <= PredictRoot(model, j)
    BY <2>10
  <2>14. block(j) \in Int /\ block(k) \in Int /\ block(k) \in 0..f.blockNumber - 1
    BY <2>11, <2>13
  <2>15. RootChild(j) = RootChild(k) => block(k) - block(j) < PrefetchNum(f, RootChild(k))
    <3>1. CASE PredictRoot(model, j) <= PredictRoot(model, k)
      BY <2>11, <3>1
    <3>2. CASE PredictRoot(model, k) <= PredictRoot(model, j)
      BY <2>11, <3>2
    <3> QED  BY <2>13, <3>1, <3>2
  <2> QED  BY <2>11, <2>12, <2>14, <2>15
<1> QED  BY <1>1, TrainingInvariantHolds, FetchIsTrainedHolds, PTL
=============================================================================
