---------------------------- MODULE InnerModels -----------------------------
(***************************************************************************)
(* The models of the inner nodes (nodes/innerNode): linear regression      *)
(* (module LRModel), piecewise linear regression (plr_model.h), histogram  *)
(* (his_model.h) and binary search (bs_model.h).  Train fits one of them to*)
(* sorted keys, Predict maps any key to a child.                           *)
(*                                                                         *)
(* Children are numbered from 0.  Keys are integers and the arithmetic is  *)
(* exact, where the code rounds to float and double.                       *)
(***************************************************************************)
EXTENDS LRModel

CONSTANTS
  MaxKeyNum,   \* BSModel::kMaxKeyNum, the separators of a binary search node
  OffsetBits   \* the buckets of a histogram that share a base: 16

ASSUME InnerModelsAssumption == {MaxKeyNum, OffsetBits} \subseteq Nat \ {0}

----------------------------------------------------------------------------
(* Binary search: the first key of each further child.  Fewer keys than    *)
(* children: the step is cut to 0 and every separator is the first key.    *)
BSChildren(c) == Max({2, Min({c, MaxKeyNum + 1})})

(* keys of BSModel.                                                        *)
Separators(keys, c) ==
  LET value == Len(keys) \div c IN [i \in 1..c - 1 |-> keys[1 + i * value]]

(* The child of a separator that is not less than the key; the last child  *)
(* when there is none.                                                     *)
PredictBS(separators, k) ==
  LET first == SelectInSeq(separators, LAMBDA s : s >= k)
  IN IF first = 0 THEN Len(separators) ELSE first - 1

----------------------------------------------------------------------------
(* Mutation: the difference of unsigned keys wraps around.                 *)
BucketUnsigned(minValue, range, c, k) ==
  IF range = 0 THEN 0
  ELSE IF k < minValue THEN c - 1
  ELSE Min({c - 1, ((k - minValue) * c) \div range})

(* Histogram.  The bucket of a key; keys that are all equal make the code  *)
(* divide by zero and convert the result, which the build takes to be 0.   *)
Bucket(minValue, range, c, k) ==
  IF range = 0 THEN 0 ELSE Max({0, Min({c - 1, ((k - minValue) * c) \div range})})

(* Mutation: the child of a bucket is not held back.                       *)
TableUnchecked(keys, c) ==
  LET n      == Len(keys)
      range  == keys[n] - keys[1]
      upTo(b) == Cardinality({i \in 1..n : Bucket(keys[1], range, c, keys[i]) <= b})
  IN [b \in 0..c - 1 |-> (2 * upTo(b) * (c - 1) + n) \div (2 * n)]

(* The child of each bucket: the rounded share of the keys up to there, but*)
(* at most one more than the child of the bucket before.                   *)
Table(keys, c) ==
  LET n        == Len(keys)
      range    == keys[n] - keys[1]
      upTo(b)  == Cardinality({i \in 1..n : Bucket(keys[1], range, c, keys[i]) <= b})
      round(b) == (2 * upTo(b) * (c - 1) + n) \div (2 * n)
      table[b \in 0..c - 1] ==
        IF b = 0 THEN round(b) ELSE Min({round(b), table[b - 1] + 1})
  IN table

(* How the table is kept: a base for each OffsetBits buckets, and one bit  *)
(* for each bucket in which the child is another than in the one before.   *)
Encode(table) ==
  [base   |-> [b \in DOMAIN table |-> table[b - (b % OffsetBits)]],
   offset |-> {b \in DOMAIN table : b % OffsetBits # 0 /\ table[b] # table[b - 1]}]

(* Predict adds up the bits of the bucket and of those before it.          *)
Decode(code, b) ==
  code.base[b] + Cardinality(code.offset \cap (b - (b % OffsetBits))..b)

----------------------------------------------------------------------------
(* CandidateCost::StoreTheta for the positions i..j - 1, the last position *)
(* being added where j is the last one: the sums count it, the size does   *)
(* not.  A falling line is turned round, its intercept stays.              *)
SegmentLine(keys, maxChildIdx, i, j) ==
  LET n    == Len(keys)
      x(p) == keys[p + 1] - keys[1]
      y(p) == p * maxChildIdx      \* n times the index
      size == j - i
      sums == IF j = n - 1 THEN size + 1 ELSE size
      own == [q \in 1..sums |-> i + q - 1]
      t1  == SumOf([q \in 1..sums |-> x(own[q]) * x(own[q])], sums)
      t2  == SumOf([q \in 1..sums |-> x(own[q])], sums)
      t3  == SumOf([q \in 1..sums |-> x(own[q]) * y(own[q])], sums)
      t4  == SumOf([q \in 1..sums |-> y(own[q])], sums)
      det == t1 * size - t2 * t2
      Line(slope, intercept, den) ==
        LET sign == IF den < 0 THEN -1 ELSE 1
            up   == sign * slope
        IN [slope     |-> IF up < 0 THEN -up ELSE up,
            intercept |-> sign * intercept, den |-> sign * den]
  IN IF det # 0 THEN Line(t3 * size - t2 * t4, t1 * t4 - t2 * t3, det * n)
     ELSE IF x(i) = x(j) THEN Line(0, y(j), n)
     ELSE Line(y(j) - y(i), y(j) * (x(j) - x(i)) - (y(j) - y(i)) * x(j),
               n * (x(j) - x(i)))

(* Piecewise linear regression with three segments, as for keys of eight   *)
(* bytes.  Train takes the two inner cuts of least cost, the second not    *)
(* among the first three keys; which of those that have a cost is left     *)
(* open.  Only segments whose line rises have one.  The first two rise     *)
(* where they have a width; the last may without one, because of the point *)
(* that its size leaves out.  Where no cuts have a cost, both are the      *)
(* first key.  (Of more than a hundred keys the code looks at a hundred.)  *)
Cuts(keys) ==
  LET n    == Len(keys)
      cuts == {cut \in (1..n - 3) \X (3..n - 2) :
                 /\ cut[1] < cut[2]
                 /\ keys[1] < keys[cut[1] + 1]
                 /\ keys[cut[1] + 1] < keys[cut[2] + 1]
                 /\ SegmentLine(keys, 1, cut[2], n - 1).slope > 0}
  IN IF cuts = {} THEN {<<0, 0>>} ELSE cuts

(* Mutation: the last segment ends where the last key was to be put.       *)
SegmentsOfData(keys, c, cut) ==
  LET n == Len(keys)
      at(i) == [key |-> keys[i + 1] - keys[1], index |-> (i * (c - 1)) \div n]
  IN <<at(0), at(cut[1]), at(cut[2]), at(n - 1)>>

(* keys and index: the two ends of the keys, and the cuts between them.    *)
(* Without cuts both of these are at the first key.                        *)
Segments(keys, c, cut) ==
  LET n == Len(keys)
      at(i) == [key |-> keys[i + 1] - keys[1], index |-> (i * (c - 1)) \div n]
  IN <<at(0), at(cut[1]), at(cut[2]),
       [key |-> keys[n] - keys[1], index |-> c - 1]>>

(* A value on the line through two points, kept between these.             *)
Interpolate(from, to, x) ==
  LET p == to.index
           + ((to.index - from.index) * (x - to.key)) \div (to.key - from.key)
  IN Max({from.index, Min({p, to.index})})

(* The first of the points that is not below the key ends its segment; the *)
(* last segment goes on.                                                   *)
PredictPLR(points, x) ==
  LET found == SelectInSeq(points, LAMBDA p : p.key >= x)
      e     == IF found = 0 THEN Len(points) ELSE found
  IN IF e = 1 THEN 0
     ELSE IF points[e - 1].key = points[e].key THEN points[e - 1].index
     ELSE Interpolate(points[e - 1], points[e], x)

----------------------------------------------------------------------------
Type == {"lr", "plr", "his", "bs"}

(* The constructor with c children, and Train.                             *)
Fit(type, keys, c, cut) ==
  LET minValue == keys[1] IN
  CASE type = "lr"  -> [type |-> type, children |-> c, lr |-> Train(keys, c)]
    [] type = "plr" -> [type |-> type, children |-> c, minValue |-> minValue,
                        points |-> Segments(keys, c, cut)]
    [] type = "his" -> [type |-> type, children |-> c, minValue |-> minValue,
                        range |-> Last(keys) - minValue,
                        code |-> Encode(Table(keys, c))]
    [] type = "bs"  -> [type |-> type, children |-> BSChildren(c),
                        separators |-> Separators(keys, BSChildren(c))]

(* Predict.                                                                *)
ChildFor(model, k) ==
  CASE model.type = "lr"  -> Predict(model.lr, model.children, k)
    [] model.type = "plr" -> PredictPLR(model.points, k - model.minValue)
    [] model.type = "his" ->
         Decode(model.code, Bucket(model.minValue, model.range, model.children, k))
    [] model.type = "bs"  -> PredictBS(model.separators, k)
=============================================================================
