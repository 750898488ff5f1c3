---------------------------- MODULE NodeTraining ----------------------------
(***************************************************************************)
(* What the tree relies on in its nodes.  For one range of points the      *)
(* construction (ChooseRoot, DPInner, GreedyAlgorithm) trains candidates   *)
(* with each of the models of modules InnerModels and RootModels and       *)
(* several numbers of children, and Split trains one more; none depends on *)
(* those before, so that a behavior is about one of them.  The root is     *)
(* given a prefetch model, once it is known which of its children are      *)
(* leaves.                                                                 *)
(***************************************************************************)
EXTENDS RootModels

CONSTANTS
  Key,         \* the keys
  InnerSets,   \* the sorted points that an inner node is trained with
  RootSets,    \* the sorted points that a root is trained with
  RootBreaks,  \* bound: the cuts of the root that are looked at
  Childs,      \* the numbers of children of an inner node
  RootChilds   \* the numbers of children of the root

ASSUME TrainingAssumption ==
  /\ Key \subseteq Nat /\ Childs \subseteq Nat \ {0, 1}
  /\ RootChilds \subseteq Nat \ 0..2
  /\ \A s \in InnerSets \cup RootSets :
       s \in Seq(Key) \ {<<>>} /\ \A i \in 1..Len(s) - 1 : s[i] <= s[i + 1]

VARIABLES
  keys,   \* the points of the range, sorted
  model,  \* the node that is tried on it
  fetch   \* fetch_model, of a root

vars == <<keys, model, fetch>>

Untrained == [type |-> "none"]

Init ==
  /\ keys \in InnerSets \cup RootSets
  /\ model = Untrained /\ fetch = Untrained

Try(new) == model' = new /\ UNCHANGED <<keys, fetch>>

IsInner == model = Untrained /\ keys \in InnerSets

TrainLR ==
  IsInner /\ \E c \in Childs : Try(Fit("lr", keys, c, <<0, 0>>))

TrainPLR ==
  IsInner /\ \E c \in Childs, cut \in Cuts(keys) : Try(Fit("plr", keys, c, cut))

TrainHis ==
  IsInner /\ \E c \in Childs : Try(Fit("his", keys, c, <<0, 0>>))

TrainBS ==
  IsInner /\ \E c \in Childs : Try(Fit("bs", keys, c, <<0, 0>>))

(* The unit test of LinearRegression.                                      *)
TrainLinear == IsInner /\ \E c \in Childs : Try(FitLinear(keys, c))

IsRoot == model.type = "root"

TrainRoot ==
  /\ model = Untrained /\ keys \in RootSets
  /\ \E c \in RootChilds :
       \E cuts \in RootCuts(keys, MaxChildIdx(c)) \cap RootBreaks :
         Try(FitRoot(keys, c, cuts))

RootChild(k) == PredictRoot(model, k) \div Unit

(* ConstructSubTree: the points of those children that are leaves, in the  *)
(* order of the children; of a child's points in the order of the keys.    *)
FetchData(leaves) ==
  LET own == {i \in DOMAIN keys : RootChild(keys[i]) \in leaves}
      before(i) == {j \in own : \/ RootChild(keys[j]) < RootChild(keys[i])
                                \/ RootChild(keys[j]) = RootChild(keys[i]) /\ j < i}
      nth(m) == CHOOSE i \in own : Cardinality(before(i)) = m - 1
  IN [m \in 1..Cardinality(own) |-> PredictRoot(model, keys[nth(m)])]

TrainFetch ==
  /\ IsRoot /\ fetch = Untrained
  /\ \E leaves \in (SUBSET {RootChild(keys[i]) : i \in DOMAIN keys}) \ {{}} :
       LET data == FetchData(leaves)
       IN \E cuts \in FetchCuts(data), blocks \in FetchBlocks(data) :
            fetch' = [type |-> "fetch", leaves |-> leaves, plr |-> FitFetch(data, cuts, blocks)]
  /\ UNCHANGED <<keys, model>>

Next == TrainLR \/ TrainPLR \/ TrainHis \/ TrainBS \/ TrainLinear \/ TrainRoot \/ TrainFetch

Spec == Init /\ [][Next]_vars

----------------------------------------------------------------------------
Range0(s) == {s[i] : i \in DOMAIN s}

Trained == model # Untrained /\ ~ IsRoot

Child(k) == IF model.type = "linear" THEN PredictLinear(model, k) ELSE ChildFor(model, k)

(* Every key, one that the node was not trained with as well, has a child: *)
(* NodePartition throws otherwise, Find and Insert do not even look.       *)
TypeOK ==
  /\ Trained => \A k \in Key : Child(k) \in 0..model.children - 1
  /\ IsRoot => \A k \in Key : RootChild(k) \in 0..model.children - 1

(* Children follow each other in the order of the keys: the points of a    *)
(* child are kept as one range of the sorted points, and the iterators walk*)
(* the children from left to right.                                        *)
ChildrenInKeyOrder ==
  Trained => \A j, k \in Key :
               j < k => Child(j) <= Child(k)

(* The base and the bits of a histogram say for each bucket what the table *)
(* said that they were made from.                                          *)
HistogramKeepsTable ==
  Trained /\ model.type = "his" =>
    \A k \in Range0(keys) :
      Child(k) = Table(keys, model.children)[
        Bucket(model.minValue, model.range, model.children, k)]

(* The second cut is at a key as great as the last one, the last segment   *)
(* has no width, and what is left rises by less than a child.              *)
EndsFlat ==
  /\ model.type = "plr"
  /\ model.points[3].key = model.points[4].key /\ model.points[3].index = 0

(* A regression over different keys sends them to different children, or   *)
(* the construction and Insert could go on dividing the same points for    *)
(* ever.  Only the piecewise one may fail to, and only where it ends flat. *)
RegressionDivides ==
  Trained /\ model.type \in {"lr", "plr"} /\ Cardinality(Range0(keys)) > 1 =>
    (EndsFlat <=> \A j, k \in Range0(keys) : Child(j) = Child(k))

(* The same of the root: violated.                                         *)
RootInKeyOrder ==
  IsRoot => \A j, k \in Key : j < k => RootChild(j) <= RootChild(k)

(* The first segment ends in the leaf in which it begins, and late enough  *)
(* in it to have the blocks counted from below 0.                          *)
StartsBelowZero == fetch.plr.leaf[1] = Min(fetch.leaves) /\ fetch.plr.block[1] < 0

(* Otherwise the keys of the leaves are predicted into blocks in their     *)
(* order, each leaf into blocks of its own, and into no more than          *)
(* PrefetchNum has for it.                                                 *)
LeavesFetchedApart ==
  LET fetched == {k \in Range0(keys) : RootChild(k) \in fetch.leaves}
      block(k) == PrefetchPredict(fetch.plr, PredictRoot(model, k))
  IN fetch # Untrained /\ ~ StartsBelowZero /\ RootInKeyOrder =>
       \A j, k \in fetched :
         /\ block(k) \in 0..fetch.plr.blockNumber - 1
         /\ j < k => block(j) <= block(k)
         /\ j < k /\ RootChild(j) # RootChild(k) => block(j) < block(k)
         /\ RootChild(j) = RootChild(k) =>
              block(k) - block(j) < PrefetchNum(fetch.plr, RootChild(k))
=============================================================================
