----------------------------- MODULE CarmiTree -----------------------------
(***************************************************************************)
(* The tree of CARMI (carmi.h, class CARMI): a root model over leaves, the *)
(* loops of Insert and Delete down to a leaf, Split, which turns a leaf    *)
(* that refused a point into an inner node over new leaves, and the doubly *)
(* linked chain of leaves that the iterators of carmi_map.h walk.          *)
(*                                                                         *)
(* A leaf is the sorted sequence of its keys: how it keeps them in blocks, *)
(* and what goes wrong there when it erases, is the matter of module       *)
(* CFArrayLeaf.  Nodes and children are numbered from 1, 0 is the code's   *)
(* -1; the nodes below the root are created in Init and by Split only.     *)
(***************************************************************************)
EXTENDS LRModel

CONSTANTS
  Key,          \* the keys, a set of positive integers
  MAX,          \* DBL_MAX
  RootLeaves,   \* the number of leaves below the root
  Children,     \* kInsertNewChildNumber
  LeafMin,      \* the fewest points a leaf has when it refuses another one
  LeafCap,      \* kMaxLeafCapacity, the most points of a leaf
  DataSizes,    \* the sizes data.dataArray may have while a leaf is split
  Copies,       \* bound: points of one key in the tree
  MaxNodes      \* bound: no point is inserted with more nodes than these

ASSUME KeyAssumption == Key # {} /\ Key \subseteq 1..MAX - 1 /\ MAX \in Nat
(* UpdateLeaf reads scanLeaf[1]: a constructed tree has two leaves or more.*)
ASSUME SizesAssumption ==
  /\ RootLeaves \in Nat \ {0, 1} /\ Children \in Nat \ {0, 1}
  /\ LeafMin \in 1..LeafCap /\ LeafCap \in Nat /\ DataSizes \subseteq Nat
  /\ {Copies, MaxNodes} \subseteq Nat

VARIABLES
  root,       \* root.model.Predict: the node below the root for a key
  node,       \* node.nodeArray
  firstLeaf, lastLeaf,   \* where the iterators start
  firstKey, lastKey,     \* the least and the greatest key ever held
  inserting,  \* the key that Insert is on its way with, or 0
  at,         \* idx, the node that Insert has come to
  failed      \* an exception has left the tree as it was at this point

vars == <<root, node, firstLeaf, lastLeaf, firstKey, lastKey, inserting, at,
          failed>>

----------------------------------------------------------------------------
Leaf(points, prev, next) ==
  [kind |-> "leaf", points |-> points, previousLeaf |-> prev, nextLeaf |-> next]

(* An element of nodeArray that has been allocated and not yet written.    *)
Raw == [kind |-> "raw"]

IsLeaf(i) == node[i].kind = "leaf"

ChildOf(inner, k) == inner.childLeft + Predict(inner.lr, Children, k)

(* Where the loop down from node i ends for the key k.                     *)
LeafFor(k) ==
  LET below[i \in DOMAIN node] ==
        IF node[i].kind = "inner" THEN below[ChildOf(node[i], k)] ELSE i
  IN below[root[k]]

(* The points of a key, and the points before them, in a leaf.             *)
Count(points, k) == Cardinality({i \in DOMAIN points : points[i] = k})

Below(points, k) == Cardinality({i \in DOMAIN points : points[i] < k})

Held(k) == IF IsLeaf(LeafFor(k)) THEN Count(node[LeafFor(k)].points, k) ELSE 0

Sorted(points) == \A i \in 1..Len(points) - 1 : points[i] <= points[i + 1]

(* The default constructor leaves empty leaves below an untrained model;   *)
(* the construction stores sorted points below a model that is monotone in *)
(* the key, and UpdateLeaf chains the leaves in the order of the children. *)
Init ==
  /\ root \in {r \in [Key -> 1..RootLeaves] :
                 \A j, k \in Key : j < k => r[j] <= r[k]}
  /\ \E under \in [1..RootLeaves -> BoundedSeq(Key, LeafCap)] :
       LET used   == {i \in 1..RootLeaves : under[i] # <<>>}
           points == {k \in Key : \E i \in used : \E q \in DOMAIN under[i] : under[i][q] = k}
       IN /\ \A i \in 1..RootLeaves :
               Sorted(under[i]) /\ \A q \in DOMAIN under[i] : root[under[i][q]] = i
          /\ node = [i \in 1..RootLeaves |->
                       Leaf(under[i], i - 1, (i + 1) % (RootLeaves + 1))]
          /\ firstLeaf = IF used = {} THEN 1 ELSE Min(used)
          /\ lastLeaf = IF used = {} THEN RootLeaves ELSE Max(used)
          /\ firstKey = IF used = {} THEN MAX ELSE Min(points)
          /\ lastKey = IF used = {} THEN 0 ELSE Max(points)
  /\ \A k \in Key : Held(k) <= Copies
  /\ inserting = 0
  /\ at = 0
  /\ failed = FALSE

----------------------------------------------------------------------------
(* Insert: the root node.                                                  *)
BeginInsert(k) ==
  /\ ~ failed /\ inserting = 0
  /\ Held(k) < Copies /\ Len(node) <= MaxNodes
  /\ inserting' = k
  /\ at' = root[k]
  /\ UNCHANGED <<root, node, firstLeaf, lastLeaf, firstKey, lastKey, failed>>

(* Mutation: idx is not advanced.                                          *)
DescendNowhere == inserting # 0 /\ node[at].kind = "inner" /\ UNCHANGED vars

(* Insert: an inner node.                                                  *)
Descend ==
  /\ inserting # 0 /\ node[at].kind = "inner"
  /\ at' = ChildOf(node[at], inserting)
  /\ UNCHANGED <<root, node, firstLeaf, lastLeaf, firstKey, lastKey, inserting,
                 failed>>

(* Insert: a leaf that takes the point.                                    *)
InsertIntoLeaf ==
  LET k      == inserting
      points == node[at].points
  IN /\ inserting # 0 /\ IsLeaf(at) /\ Len(points) < LeafCap
     /\ node' = [node EXCEPT ![at].points = InsertAt(points, Below(points, k) + 1, k)]
     /\ lastLeaf' = IF k > lastKey THEN at ELSE lastLeaf
     /\ lastKey' = Max({k, lastKey})
     /\ firstLeaf' = IF k < firstKey THEN at ELSE firstLeaf
     /\ firstKey' = Min({k, firstKey})
     /\ inserting' = 0
     /\ at' = 0
     /\ UNCHANGED <<root, failed>>

(* Insert: a leaf that does not.                                           *)
Refuses == inserting # 0 /\ IsLeaf(at) /\ Len(node[at].points) >= LeafMin

Inner == [kind      |-> "inner",
          lr        |-> Train(node[at].points, Children),
          childLeft |-> Len(node) + 1]

(* NodePartition: where the points of the child c are, which the code takes*)
(* to follow one another, keeping the first place and the number.          *)
Own(c) ==
  {i \in DOMAIN node[at].points : ChildOf(Inner, node[at].points[i]) = Inner.childLeft + c}

(* Mutation: the last point of the child is left out.                      *)
PartShort(c) ==
  IF Own(c) = {} THEN <<>>
  ELSE SubSeq(node[at].points, Min(Own(c)), Min(Own(c)) + Cardinality(Own(c)) - 2)

Part(c) ==
  IF Own(c) = {} THEN <<>>
  ELSE SubSeq(node[at].points, Min(Own(c)), Min(Own(c)) + Cardinality(Own(c)) - 1)

(* Init of the child c throws: the position of its first point in the      *)
(* points of the leaf, counted from 0, is held against the number of data  *)
(* blocks.                                                                 *)
OutOfRange(c, dataSize) == Own(c) # {} /\ Min(Own(c)) - 1 >= dataSize

(* Mutation: the leaf before still points to the one that is split.        *)
RelinkedNoPrevious(i, childLeft, end) ==
  IF i = node[at].nextLeaf THEN [node[i] EXCEPT !.previousLeaf = end]
  ELSE node[i]

(* Mutation: the leaf behind still points to the one that is split.        *)
RelinkedNoNext(i, childLeft, end) ==
  IF i = node[at].previousLeaf THEN [node[i] EXCEPT !.nextLeaf = childLeft]
  ELSE node[i]

(* The leaves before and behind are linked to the first and last new one.  *)
Relinked(i, childLeft, end) ==
  IF IsLeaf(i)
  THEN [node[i] EXCEPT
          !.nextLeaf     = IF i = node[at].previousLeaf THEN childLeft ELSE @,
          !.previousLeaf = IF i = node[at].nextLeaf THEN end ELSE @]
  ELSE node[i]

(* Split, and the chain around the new leaves.                             *)
Split ==
  LET old       == node[at]
      childLeft == Inner.childLeft
      end       == childLeft + Children - 1
      Child(i)  == Leaf(Part(i - childLeft),
                        IF i = childLeft THEN old.previousLeaf ELSE i - 1,
                        IF i = end THEN old.nextLeaf ELSE i + 1)
  IN /\ Refuses
     /\ \E dataSize \in DataSizes :
          \A c \in 0..Children - 1 : ~ OutOfRange(c, dataSize)
     /\ node' = [i \in 1..end |-> IF i = at THEN Inner
                                  ELSE IF i >= childLeft THEN Child(i)
                                  ELSE Relinked(i, childLeft, end)]
     /\ lastLeaf' = IF at = lastLeaf THEN end ELSE lastLeaf
     /\ firstLeaf' = IF at = firstLeaf THEN childLeft ELSE firstLeaf
     /\ UNCHANGED <<root, firstKey, lastKey, inserting, at, failed>>

(* Split, left by the exception: the inner node is in place, the children  *)
(* before the one that failed are stored, nothing is linked.               *)
SplitThrows ==
  LET childLeft == Inner.childLeft
      end       == childLeft + Children - 1
  IN /\ Refuses
     /\ \E dataSize \in DataSizes, c \in 0..Children - 1 :
          /\ OutOfRange(c, dataSize)
          /\ \A b \in 0..c - 1 : ~ OutOfRange(b, dataSize)
          /\ node' = [i \in 1..end |->
                        IF i = at THEN Inner
                        ELSE IF i < childLeft THEN node[i]
                        ELSE IF i < childLeft + c
                        THEN Leaf(Part(i - childLeft), 0, 0) ELSE Raw]
     /\ inserting' = 0
     /\ at' = 0
     /\ failed' = TRUE
     /\ UNCHANGED <<root, firstLeaf, lastLeaf, firstKey, lastKey>>

(* Delete: the loop down to a leaf, and what the leaf promises.  Nothing   *)
(* else is told of it: size(), which only Insert changes, is left out here.*)
Delete(k) ==
  /\ ~ failed /\ inserting = 0
  /\ Held(k) > 0
  /\ node' = [node EXCEPT ![LeafFor(k)].points =
                SubSeq(@, 1, Below(@, k))
                \o SubSeq(@, Below(@, k) + Count(@, k) + 1, Len(@))]
  /\ UNCHANGED <<root, firstLeaf, lastLeaf, firstKey, lastKey, inserting,
                 at, failed>>

Next ==
  \/ \E k \in Key : BeginInsert(k) \/ Delete(k)
  \/ Descend
  \/ InsertIntoLeaf
  \/ Split
  \/ SplitThrows

(* One thread runs Insert to its end: its loop goes on as long as it can.  *)
Fairness ==
  WF_vars(Descend \/ InsertIntoLeaf \/ Split \/ SplitThrows)

Spec == Init /\ [][Next]_vars /\ Fairness

----------------------------------------------------------------------------
TypeOK ==
  /\ root \in [Key -> 1..RootLeaves]
  /\ \A i \in DOMAIN node :
       \/ node[i].kind = "leaf" /\ {node[i].previousLeaf, node[i].nextLeaf}
                                     \subseteq 0..Len(node)
       \/ node[i].kind = "inner" /\ node[i].childLeft \in 1..Len(node)
       \/ node[i] = Raw
  /\ {firstLeaf, lastLeaf} \subseteq 1..Len(node)
  /\ {firstKey, lastKey} \subseteq 0..MAX
  /\ inserting \in Key \cup {0}
  /\ at \in 0..Len(node)
  /\ failed \in BOOLEAN

(* Every point that a lookup finds, in order.                              *)
AllPoints ==
  FlattenSeq([k \in 1..MAX |->
                IF k \in Key THEN [i \in 1..Held(k) |-> k] ELSE <<>>])

PointsOf(i) == IF i # 0 /\ IsLeaf(i) THEN node[i].points ELSE <<>>

(* The links that the iterators follow, and the leaves that a walk along   *)
(* them comes by, 0 from where it ends.                                    *)
NextLeaves ==
  [i \in 0..Len(node) |-> IF i # 0 /\ IsLeaf(i) THEN node[i].nextLeaf ELSE 0]

PreviousLeaves ==
  [i \in 0..Len(node) |-> IF i # 0 /\ IsLeaf(i) THEN node[i].previousLeaf ELSE 0]

Walk(from, links) ==
  LET after[s \in 1..Len(node) + 1] ==
        IF s = 1 THEN from ELSE links[after[s - 1]]
  IN after

PointsAlong(walk) == FlattenSeq([s \in DOMAIN walk |-> PointsOf(walk[s])])

(* An iterator from firstLeaf along nextLeaf comes by every point that is  *)
(* found by its key, in order, and comes to an end: neither a split nor a  *)
(* point before the first or into an empty leaf breaks the chain.          *)
ForwardScan ==
  LET walk == Walk(firstLeaf, NextLeaves)
  IN ~ failed => PointsAlong(walk) = AllPoints /\ Last(walk) = 0

(* The same for a reverse iterator, from lastLeaf along previousLeaf.      *)
BackwardScan ==
  LET walk == Walk(lastLeaf, PreviousLeaves)
  IN ~ failed => PointsAlong(Reverse(walk)) = AllPoints /\ Last(walk) = 0

HeldKeys == [k \in Key |-> Held(k)]
Keys == INSTANCE KeyStore WITH held <- HeldKeys

(* A lookup finds what was inserted and not erased, whatever leaves have   *)
(* been split since: an Insert that returns has added its point, a Delete  *)
(* has taken those of one key away, and nothing is added, lost or hidden   *)
(* on the way down or by a split, unless it throws.                        *)
KeepsItsKeys ==
  [][\/ failed'
     \/ inserting # 0 /\ inserting' = 0 /\ Keys!Insert(inserting)
     \/ inserting = 0 /\ inserting' = 0 /\ \E k \in Key : Keys!Erase(k)
     \/ inserting' # 0 /\ UNCHANGED HeldKeys]_vars

(* A call of insert comes back: it splits no leaf forever.                 *)
InsertReturns == inserting # 0 ~> inserting = 0
============================================================================
