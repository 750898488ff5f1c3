----------------------------- MODULE RootModels -----------------------------
(***************************************************************************)
(* The two models of the root (nodes/rootNode): a piecewise linear         *)
(* regression of up to five segments maps a key to an unrounded index of a *)
(* child (trainModel/piecewiseLR.h), and the prefetch model maps this index*)
(* to the block of the data array to fetch (trainModel/prefetch_plr.h).  A *)
(* third one, a single line (trainModel/linear_regression.h), is used by   *)
(* its unit test only.                                                     *)
(*                                                                         *)
(* Both choose their segments by a dynamic program over costs; which of the*)
(* possible segments it takes is left open, and given here as `cuts', the  *)
(* positions where further segments begin.  Positions of keys count from 0 *)
(* as in the code.  The index of a child is kept in steps of 1 / Unit.     *)
(***************************************************************************)
EXTENDS InnerModels

CONSTANTS
  RootSegments,   \* PiecewiseLR::SegmentNumber: 5
  FetchSegments,  \* PrefetchPLR::SegmentNumber: 10
  MaxBlocks,      \* the costs of a leaf that PrefetchTrain compares
  Unit            \* the steps between two children

ASSUME RootModelsAssumption ==
  /\ RootSegments \in Nat \ {0} /\ {MaxBlocks, Unit} \subseteq Nat \ {0}
  /\ FetchSegments \in Nat \ {0, 1}

Ascending(s) == \A i \in 1..Len(s) - 1 : s[i] < s[i + 1]

----------------------------------------------------------------------------
(* The lines of the segments that begin at the first key and at cuts.      *)
LinesOf(keys, maxChildIdx, cuts) ==
  LET ends == <<0>> \o cuts \o <<Len(keys) - 1>>
  IN [s \in 1..Len(cuts) + 1 |-> SegmentLine(keys, maxChildIdx, ends[s], ends[s + 1])]

(* PiecewiseLR::Train: one segment, or three and more, each of them rising.*)
(* A model of two segments has no cost and is never taken.  (Of more than a*)
(* thousand keys the code looks at a thousand.)                            *)
RootCuts(keys, maxChildIdx) ==
  {<<>>} \cup
  {cuts \in UNION {[1..m -> 1..Len(keys) - 2] : m \in 2..RootSegments - 1} :
     /\ Ascending(cuts) /\ Last(cuts) > Len(cuts)
     /\ \A s \in 1..Len(cuts) + 1 : LinesOf(keys, maxChildIdx, cuts)[s].slope > 0}

MaxChildIdx(c) == Max({2, c - 1})

(* PLRType with c children.  point: where a further segment begins.        *)
FitRoot(keys, c, cuts) ==
  [type     |-> "root",
   children |-> MaxChildIdx(c) + 1,
   minValue |-> keys[1],
   point    |-> [i \in DOMAIN cuts |->
                   [key   |-> keys[cuts[i] + 1] - keys[1],
                    index |-> (cuts[i] * MaxChildIdx(c)) \div Len(keys)]],
   theta    |-> LinesOf(keys, MaxChildIdx(c), cuts)]

(* PiecewiseLR::Predict.  A key of a segment is kept above the index of the*)
(* point where it begins, and not above that where it ends: with two points*)
(* of the same index the first of these bounds is the higher one.          *)
PredictRoot(root, k) ==
  LET x     == k - root.minValue
      found == SelectInSeq(root.point, LAMBDA p : x <= p.key)
      s     == IF found = 0 THEN Len(root.theta) ELSE found
      low   == IF s = 1 THEN 0 ELSE (root.point[s - 1].index + 1) * Unit
      high  == (IF found = 0 THEN root.children - 1 ELSE root.point[s].index) * Unit
      line  == root.theta[s]
      p     == ((line.slope * x + line.intercept) * Unit) \div line.den
  IN IF p < low THEN low ELSE Min({p, high})

----------------------------------------------------------------------------
(* LinearRegression::Train, with maxChildIdx set to c - 1.                 *)
FitLinear(keys, c) ==
  [type     |-> "linear",
   children |-> c,
   lr       |-> IF keys[1] # Last(keys) THEN Train(keys, c - 1)
                ELSE [minValue |-> keys[1], slope |-> 1, intercept |-> 1, den |-> 1]]

(* LinearRegression::Predict, and the conversion to int.                   *)
PredictLinear(linear, k) == Predict(linear.lr, linear.children, k)

----------------------------------------------------------------------------
(* The conversion of a fraction to int.                                    *)
Truncated(a) == IF a < 0 THEN -((-a) \div Unit) ELSE a \div Unit

(* PrefetchPLR::PrefetchTrain: the unrounded indexes of the points of the  *)
(* leaves below the root, in their order, and the last of them again.  (Of *)
(* more than fifty points the code looks at about as many.)                *)
FetchPoints(data) == Append(data, Last(data))

(* With less candidates than segments none is found, and the positions are *)
(* the zeros that SegmentPoint is initialized with.                        *)
FetchCuts(data) ==
  LET cuts == {c \in [1..FetchSegments - 1 -> 1..Len(data)] : Ascending(c)}
  IN IF cuts = {} THEN {<<>>} ELSE cuts

(* The numbers of blocks for the leaves of each segment (GetCost).         *)
FetchBlocks(data) ==
  IF FetchCuts(data) = {<<>>} THEN {[s \in 1..FetchSegments |-> 1]}
  ELSE [1..FetchSegments -> 1..MaxBlocks]

(* leaf, block: the first leaf of the next segment, the first block of it. *)
FitFetch(data, cuts, blocks) ==
  LET leaf == [s \in 1..FetchSegments - 1 |->
                 IF cuts = <<>> THEN 0 ELSE FetchPoints(data)[cuts[s] + 1] \div Unit]
      start == -((blocks[1] * data[1]) \div Unit)
      block[s \in 1..FetchSegments - 1] ==
        IF s = 1 THEN blocks[1] * leaf[1] + start
        ELSE block[s - 1] + blocks[s] * (leaf[s] - leaf[s - 1])
      intercept == [s \in 1..FetchSegments |->
                      IF s = 1 THEN start ELSE block[s - 1] - blocks[s] * leaf[s - 1]]
  IN [leaf |-> leaf, block |-> block, slope |-> blocks, intercept |-> intercept,
      blockNumber |-> Truncated(blocks[FetchSegments] * Last(data)
                                + (intercept[FetchSegments] + 1) * Unit)]

(* Mutation: the leaf at which a segment begins is left to the one before. *)
SegmentUpTo(fetch, x) ==
  LET found == SelectInSeq(fetch.leaf, LAMBDA first : x <= first * Unit)
  IN IF found = 0 THEN FetchSegments ELSE found

(* The binary search of PrefetchPredict.                                   *)
SegmentOf(fetch, x) ==
  LET found == SelectInSeq(fetch.leaf, LAMBDA first : x < first * Unit)
  IN IF found = 0 THEN FetchSegments ELSE found

PrefetchPredict(fetch, x) ==
  LET s    == SegmentOf(fetch, x)
      low  == IF s = 1 THEN 0 ELSE fetch.block[s - 1]
      high == (IF s = FetchSegments THEN fetch.blockNumber ELSE fetch.block[s]) - 1
      p    == Truncated(fetch.slope[s] * x + fetch.intercept[s] * Unit)
  IN IF p < low THEN low ELSE Min({p, high})

(* PrefetchNum asks for a leaf, by its rounded index.                      *)
PrefetchNum(fetch, child) ==
  LET found == SelectInSeq(fetch.leaf, LAMBDA first : child < first)
  IN fetch.slope[IF found = 0 THEN FetchSegments ELSE found]
=============================================================================
