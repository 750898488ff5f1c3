----------------------------- MODULE DataLayout -----------------------------
(***************************************************************************)
(* How the initial construction lays the leaves out in the data array      *)
(* (construct/construction.h, CARMI::ConstructSubTree and Construction;    *)
(* CFArrayType::StoreData in init mode), followed by the life of the index *)
(* on the array this leaves behind (module DataArray).                     *)
(*                                                                         *)
(* Leaves 1, 2, ... are the prefetched leaves below the root, in key order.*)
(* The prefetch model of the root (nodes/rootNode/trainModel/              *)
(* prefetch_plr.h) gives leaf i the cells base[i] .. base[i] + own[i] - 1: *)
(* its keys are predicted into these cells, in key order.  The children of *)
(* the root that lie between two of these leaves and are inner nodes, or   *)
(* have no keys, have cells of their own.  A leaf is stored                *)
(* from the cell predicted for its first key on; when its points do not    *)
(* fit the cells predicted for them, StorePrevious and StoreSubsequent     *)
(* push them to the neighbouring cells of the leaf.                        *)
(***************************************************************************)
EXTENDS DataArray

CONSTANTS
  Prefetched,   \* the number of leaves of the prefetch phase
  Between,      \* the cells there may be between the cells of two of them
  Reserved,     \* reservedSpace, from the number of expected insertions
  Inserts,      \* TRUE if expected insertions are placed with the data
  Spill,        \* TRUE if a leaf may be pushed beyond its predicted cells
  Border,       \* TRUE if a segment of the model may end inside of a leaf
  MaxServed     \* bound: calls of leaves after the construction

ASSUME PrefetchedAssumption == Prefetched \in Nat \ {0} /\ 1..Prefetched \subseteq Leaf
ASSUME BetweenAssumption == Between \subseteq Nat
ASSUME ReservedAssumption == {Reserved, MaxServed} \subseteq Nat
ASSUME ModeAssumption == {Inserts, Spill, Border} \subseteq BOOLEAN

VARIABLES
  phase,        \* "prefetch", "remaining" or "serve"
  turn,         \* the next leaf of the prefetch phase
  base, own,    \* leaf i is predicted to own[i] cells from base[i] on
  prefetchEnd,  \* prefetchEnd: the last cell of the last prefetched leaf
  occupied,     \* the cells whose slots[0] holds a data point
  remaining,    \* remainingNode: the leaves to be stored after the others
  served        \* the calls of leaves after the construction

layoutVars ==
  <<vars, phase, turn, base, own, prefetchEnd, occupied, remaining, served>>

Cells(left, n) == left..left + n - 1

(* Where ranges of the given widths begin that follow one another from cell*)
(* 0 on, and where the last of them ends.                                  *)
Starts(width) ==
  LET start[i \in 1..Prefetched + 1] ==
        IF i = 1 THEN 0 ELSE start[i - 1] + width[i - 1]
  IN start

(* The last leaf may be predicted into less cells than PrefetchNum gives it*)
(* (its keys end before those that the last segment reaches): predictions  *)
(* are cut to blockNumber, base[Prefetched + 1], which is also what        *)
(* PrefetchTrain returns, the first size of the array.                     *)
LayoutInit ==
  /\ own \in [1..Prefetched -> 1..MaxBlockNum]
  /\ \E between \in [1..Prefetched -> Between], last \in 1..own[Prefetched] :
       base = Starts([i \in 1..Prefetched |->
                        IF i < Prefetched THEN own[i] + between[i] ELSE last])
  /\ dataSize = base[Prefetched + 1]
  /\ emptyBlocks = {}
  /\ usedDatasize = 0
  /\ leaf = [l \in Leaf |-> NoBlocks]
  /\ phase = "prefetch"
  /\ turn = 1
  /\ prefetchEnd = -1
  /\ occupied = {}
  /\ remaining = Leaf \ 1..Prefetched
  /\ served = 0

(* What follows a write to dataArray[-1] is undefined and not modelled.    *)
During(p) == phase = p /\ AllocationSucceeds

(* The leaf needs more blocks than PrefetchNum gives it, or StoreData cannot*)
(* push its points apart in the predicted cells: it is left for the second *)
(* loop.                                                                   *)
Postpone ==
  /\ During("prefetch") /\ turn <= Prefetched
  /\ remaining' = remaining \cup {turn}
  /\ turn' = turn + 1
  /\ UNCHANGED <<vars, phase, base, own, prefetchEnd, occupied, served>>

(* CheckIsPrefetch: the range is inside the array, and the first slot of   *)
(* every cell that a key is predicted into is empty.                       *)
CheckIsPrefetch(first, last, needed) ==
  /\ first + needed <= dataSize
  /\ \A x \in first..last : x <= first + needed - 1 => x \notin occupied

(* A leaf is written to n cells from `left' on.  No point may be predicted *)
(* into one of the middle; and a block that holds nothing but expected     *)
(* insertions is cleared again at the end of StoreData.                    *)
Occupy(left, n) ==
  LET cells == Cells(left, n)
  IN \E hollow \in SUBSET cells :
       /\ hollow \cap {left, left + n - 1} # {} => Inserts
       /\ occupied' = (occupied \cup cells) \ hollow

(* Mutation: the first cell of the leaf is taken for a part of the gap.    *)
GapTooWide(first) == EmptyTiles(prefetchEnd + 1, first - prefetchEnd)

(* What lies between the last prefetched leaf and this one becomes empty.  *)
Gap(first) ==
  IF first - prefetchEnd > 1
  THEN EmptyTiles(prefetchEnd + 1, first - prefetchEnd - 1) ELSE {}

(* The points of the leaf reach the last of the cells they are predicted   *)
(* into, and if need be the cells up to the end of the needed ones.        *)
PlacePrefetched(i, first, last, needed, actual) ==
  /\ CheckIsPrefetch(first, last, needed)
  /\ actual <= needed
  /\ first + actual > last \/ actual = needed
  /\ first + actual > last + 1 => Spill
  /\ leaf' = [leaf EXCEPT ![i] = [left |-> first, num |-> actual]]
  /\ usedDatasize' = Larger(usedDatasize, first + actual)
  /\ emptyBlocks' = emptyBlocks \cup Gap(first)
  /\ prefetchEnd' = first + actual - 1
  /\ Occupy(first, actual)
  /\ UNCHANGED dataSize

(* A leaf that is not stored where the model predicts takes any range.  If *)
(* there is none, the points go to dataArray[-1].                          *)
PlaceElsewhere(l, needed, actual) ==
  /\ actual <= needed
  /\ Take(l, emptyBlocks, needed, actual)
  /\ UNCHANGED prefetchEnd

(* One turn of the prefetch loop of ConstructSubTree.  The number of blocks*)
(* asked for is PrefetchNum, the slope of the segment of the model at leaf *)
(* i: own[i], unless the segment ends inside of the leaf.                  *)
PrefetchTurn(first, last, needed) ==
  /\ During("prefetch") /\ turn <= Prefetched
  /\ needed # own[turn] => Border
  /\ base[turn] <= first /\ first <= last
  /\ last < base[turn] + own[turn] /\ last < base[Prefetched + 1]
  /\ turn' = turn + 1
  /\ UNCHANGED <<phase, base, own, remaining, served>>

PrefetchInPlace(first, last, needed, actual) ==
  /\ PrefetchTurn(first, last, needed)
  /\ PlacePrefetched(turn, first, last, needed, actual)

PrefetchElsewhere(first, last, needed, actual) ==
  /\ PrefetchTurn(first, last, needed)
  /\ ~ CheckIsPrefetch(first, last, needed)
  /\ PlaceElsewhere(turn, needed, actual)
  /\ Occupy(leaf'[turn].left, actual)

EndPrefetch ==
  /\ During("prefetch") /\ turn > Prefetched
  /\ phase' = "remaining"
  /\ base' = <<>>              \* what was predicted is of no consequence
  /\ own' = <<>>               \* from here on
  /\ occupied' = {}
  /\ UNCHANGED <<vars, turn, prefetchEnd, remaining, served>>

(* The loop over remainingNode; the leaf may have no data at all.          *)
StoreRemaining(l, needed) ==
  /\ During("remaining") /\ l \in remaining
  /\ remaining' = remaining \ {l}
  /\ PlaceElsewhere(l, needed, needed)
  /\ UNCHANGED <<phase, turn, base, own, occupied, served>>

StoreNoData(l) ==
  /\ During("remaining") /\ l \in remaining
  /\ remaining' = remaining \ {l}
  /\ UNCHANGED <<vars, phase, turn, base, own, prefetchEnd, occupied, served>>

(* The end of Construction: the array is cut off behind the last used cell *)
(* and the reserved space, and the index is open for operations.           *)
EndConstruction ==
  LET cut == ReleaseUselessMemory(emptyBlocks, dataSize, usedDatasize + Reserved)
  IN /\ During("remaining") /\ remaining = {}
     /\ dataSize' = cut.size
     /\ emptyBlocks' = cut.blocks
     /\ phase' = "serve"
     /\ prefetchEnd' = -1
     /\ UNCHANGED <<usedDatasize, leaf, turn, base, own, occupied, remaining,
                    served>>

Serve ==
  /\ During("serve") /\ served < MaxServed
  /\ served' = served + 1
  /\ Next
  /\ UNCHANGED <<phase, turn, base, own, prefetchEnd, occupied, remaining>>

LayoutNext ==
  \/ Postpone
  \/ \E first, last \in 0..dataSize, needed, actual \in 1..MaxBlockNum :
       \/ PrefetchInPlace(first, last, needed, actual)
       \/ PrefetchElsewhere(first, last, needed, actual)
  \/ EndPrefetch
  \/ \E l \in Leaf :
       \/ \E needed \in 1..MaxBlockNum : StoreRemaining(l, needed)
       \/ StoreNoData(l)
  \/ EndConstruction
  \/ Serve

LayoutSpec == LayoutInit /\ [][LayoutNext]_layoutVars

----------------------------------------------------------------------------
LayoutTypeOK ==
  /\ TypeOK
  /\ phase \in {"prefetch", "remaining", "serve"}
  /\ turn \in 1..Prefetched + 1
  /\ prefetchEnd \in Nat \cup {-1}
  /\ occupied \subseteq Nat \cup {-1}
  /\ remaining \subseteq Leaf
  /\ served \in 0..MaxServed

(* Cutting the array at the end of the construction takes no block away    *)
(* from a leaf, and every index on the list of empty blocks can be handed  *)
(* out (ReleaseUselessMemory with usedDatasize + reservedSpace).           *)
NothingCutOff ==
  /\ \A l \in Leaf : HasRange(l) => leaf[l].left + leaf[l].num <= dataSize
  /\ \A b \in emptyBlocks : b.left + b.width <= dataSize
============================================================================
