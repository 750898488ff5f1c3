---------------------------- MODULE Construction ----------------------------
(***************************************************************************)
(* The cost-based construction of the tree (directory construct): which    *)
(* node manages which range of the sorted points is decided by a dynamic   *)
(* program (DP, DPInner, DPLeaf), or greedily for many points, once for    *)
(* each child of the root; then the nodes are stored, the leaves filled    *)
(* and chained.  The recursion of the code is a stack of frames here.      *)
(*                                                                         *)
(* The points of a node are two ranges: of initDataset, and of insertQuery,*)
(* the keys that are expected to be inserted later.  (The find queries are *)
(* the points themselves.)  Costs are in one unit, the space is weighed by *)
(* lambda already.  Positions and nodes count from 1, and 0 is the code's  *)
(* -1; children count from 0.                                              *)
(***************************************************************************)
EXTENDS InnerModels

CONSTANTS
  Key,           \* the keys
  InitSets,      \* the points there may be, as the caller has them
  InsertSets,    \* the keys there may be to insert, the same
  RootChildren,  \* the children of the root
  MinChild,      \* kMinChildNumber
  PerChild,      \* the points for each child of an inner node: 16
  HisMaxChild,   \* kHisMaxChildNumber
  BSMaxChild,    \* kBSMaxChildNumber
  BlockCap,      \* kMaxBlockCapacity
  MaxBlockNum,   \* kMaxBlockNum
  Threshold,     \* kAlgorithmThreshold
  InnerTime,     \* kTimeCost of the inner nodes
  NodeSpace,     \* kBaseNodeSpace
  SearchTime,    \* the time to find a key among the points of a block
  MoveTime,      \* the time to make room for a key, for each point
  BlockSpace,    \* the space of a block
  DBLMAX,        \* DBL_MAX, more than any cost
  StackSize      \* bound: the calls that may be open

ASSUME DataAssumption ==
  /\ Key \subseteq Nat \ {0}
  /\ InitSets \cup InsertSets \subseteq Seq(Key)
  /\ \A s \in InitSets : s # <<>>
ASSUME SizesAssumption ==
  /\ {RootChildren, MinChild} \subseteq Nat \ {0, 1}
  /\ {PerChild, BlockCap, MaxBlockNum} \subseteq Nat \ {0}
  /\ {HisMaxChild, BSMaxChild, Threshold, StackSize, NodeSpace, MoveTime,
      BlockSpace, DBLMAX} \subseteq Nat
  /\ InnerTime \in [Type -> Nat] /\ SearchTime \in [1..BlockCap -> Nat]

VARIABLES
  initDataset, insertQuery,  \* the keys of the points, sorted
  root,         \* root.model.Predict
  phase,        \* what is going on, or how it ended
  child,        \* i, the child of the root that has come to its turn
  call,         \* the call of DP, DPLeaf or GreedyAlgorithm that is made
  returned,     \* the cost that the last of these calls has returned
  frames,       \* the calls that are open, the innermost last
  COST, structMap,  \* the solved ranges of points: cost and node
  toStore,      \* the calls of StoreOptimalNode to be made
  node,         \* node.nodeArray
  scanLeaf,     \* the leaves in the order in which they were stored
  prefetched,   \* prefetchNode and prefetchRange
  remaining,    \* remainingNode and remainingRange
  firstLeaf, lastLeaf

dataset == <<initDataset, insertQuery, root>>
search == <<call, returned, frames, COST, structMap>>
stored == <<toStore, node, scanLeaf, prefetched, remaining, firstLeaf, lastLeaf>>
vars == <<dataset, phase, child, search, stored>>

----------------------------------------------------------------------------
(* IndexPair and DataRange.                                                *)
Pair(left, size) == [left |-> left, size |-> size]
emptyRange == Pair(0, 0)
Positions(pair) == pair.left..pair.left + pair.size - 1
Points(range) == range.init.size + range.insert.size

(* Mutation: the position is set for each point.                           *)
LastOf(own) == Max(own)

(* NodePartition sets the position when it is not set yet.                 *)
FirstOf(own) == Min(own)

(* NodePartition: where the first point of the child is, and how many.     *)
PartOf(childOf, keys, pair, c) ==
  LET own == {i \in Positions(pair) : childOf[keys[i]] = c}
  IN IF own = {} THEN emptyRange ELSE Pair(FirstOf(own), Cardinality(own))

Divide(childOf, range, c) ==
  [i \in 0..c - 1 |-> [init   |-> PartOf(childOf, initDataset, range.init, i),
                       insert |-> PartOf(childOf, insertQuery, range.insert, i)]]

(* The points of a range and those expected, in order; of one key, those   *)
(* expected come last.                                                     *)
Own(range, i)      == initDataset[range.init.left + i - 1]
Expected(range, j) == insertQuery[range.insert.left + j - 1]

(* Behind i of the points and j of those expected comes a point.           *)
OwnIsNext(range, i, j) ==
  /\ i < range.init.size
  /\ j < range.insert.size => Own(range, i + 1) <= Expected(range, j + 1)

(* How many of the first n are points.                                     *)
Taken(range) ==
  LET taken[n \in 0..Points(range)] ==
        IF n = 0 THEN 0
        ELSE LET before == taken[n - 1]
             IN IF OwnIsNext(range, before, n - 1 - before) THEN before + 1 ELSE before
  IN taken

Merged(range) ==
  LET taken == Taken(range)
  IN [n \in 1..Points(range) |->
        IF taken[n] > taken[n - 1]
        THEN [key |-> Own(range, taken[n]), expected |-> FALSE]
        ELSE [key |-> Expected(range, n - taken[n]), expected |-> TRUE]]

KeysOf(range) == LET points == Merged(range) IN [i \in DOMAIN points |-> points[i].key]

(* InnerDivideAll: the node that is tried, and the ranges of its children. *)
InnerNode(range, type, c) ==
  LET keys == KeysOf(range) IN Fit(type, keys, c, CHOOSE cut \in Cuts(keys) : TRUE)

ChildrenOf(model, range, c) == Divide([k \in Key |-> ChildFor(model, k)], range, c)

RootRanges ==
  Divide(root,
         [init   |-> Pair(1, Len(initDataset)), insert |-> Pair(1, Len(insertQuery))],
         RootChildren)

----------------------------------------------------------------------------
LeafCap == BlockCap * MaxBlockNum

CeilDiv(m, n) == (m + n - 1) \div n

CalNeededBlockNum(size) == Min({MaxBlockNum, CeilDiv(size, BlockCap)})

(* The points of a block when they are spread evenly.                      *)
AvgSlotNum(size) ==
  IF size = 0 THEN 1 ELSE Min({BlockCap, CeilDiv(size, CalNeededBlockNum(size))})

(* DPLeaf's estimate.                                                      *)
LeafCost(range) ==
  LET n == Points(range) IN
    n * SearchTime[AvgSlotNum(n)]
    + range.insert.size * MoveTime * (1 + AvgSlotNum(n))
    + BlockSpace * CalNeededBlockNum(n)

(* What an inner node costs itself, without its children.                  *)
InnerCost(range, type, c) == InnerTime[type] * Points(range) + NodeSpace * c

(* Mutation: a leaf is small when it has enough blocks.                    *)
HasBlocks(range) == CalNeededBlockNum(Points(range)) <= MaxBlockNum

(* Case 3 of DP: minRatio of the capacity of a leaf is not exceeded.       *)
IsSmall(range) == 20 * Points(range) <= 19 * LeafCap

LeafSetting == [type |-> "leaf"]
NoSetting == [type |-> "none"]

(* The children that DPInner and GreedyAlgorithm try: c is doubled i times.*)
Doubled(i) ==
  LET c[j \in 0..i] == IF j = 0 THEN MinChild ELSE 2 * c[j - 1] IN c[i]

(* Their loops: with each c the nodes of each type.                        *)
Candidates(range) ==
  LET limit == Max({MinChild, range.init.size \div PerChild})
      turns == Cardinality({i \in 0..limit : Doubled(i) <= limit})
  IN [n \in 1..4 * turns |->
        [type |-> <<"lr", "plr", "his", "bs">>[((n - 1) % 4) + 1],
         c    |-> Doubled((n - 1) \div 4)]]

(* The loops leave out a histogram or a binary search of many children.    *)
Permitted(candidate) ==
  /\ candidate.type = "his" => candidate.c <= HisMaxChild
  /\ candidate.type = "bs" => candidate.c <= BSMaxChild

With(map, k, v) == [p \in DOMAIN map \cup {k} |-> IF p = k THEN v ELSE map[p]]

(* std::map::insert does not replace.                                      *)
Inserted(map, k, v) == IF k \in DOMAIN map THEN map ELSE With(map, k, v)

----------------------------------------------------------------------------
NoCall == [alg |-> "none"]
Call(alg, range) == [alg |-> alg, range |-> range]
NoCost == -1

Frame(alg, range) ==
  [alg |-> alg, range |-> range, candidates |-> Candidates(range),
   cost |-> 0, model |-> NoSetting, parts |-> <<>>, next |-> 0,
   optimalCost |-> DBLMAX, optimal |-> LeafSetting]

top == Last(frames)
WithTop(frame) == [frames EXCEPT ![Len(frames)] = frame]

(* The construction goes on in the innermost call: none is being made, and *)
(* none has returned.                                                      *)
Working(alg) ==
  /\ phase = "search" /\ call = NoCall /\ returned = NoCost
  /\ frames # <<>> /\ top.alg = alg

Return(cost) == returned' = cost /\ call' = NoCall

(* PreprocessInput: the points are copied and sorted.                      *)
NotAbove(s, k) == Cardinality({i \in 1..Len(s) : s[i] <= k})

Placed(s, k) ==
  [i \in 1..Len(s) + 1 |->
     IF i <= NotAbove(s, k) THEN s[i]
     ELSE IF i = NotAbove(s, k) + 1 THEN k ELSE s[i - 1]]

PreprocessInput(points) ==
  LET sorted[n \in 0..Len(points)] ==
        IF n = 0 THEN <<>> ELSE Placed(sorted[n - 1], points[n])
  IN sorted[Len(points)]

(* The constructors of CARMI.                                              *)
NewTree(points, expected) == initDataset = points /\ insertQuery = expected

(* The constructors of CARMIMap, and its Init.                             *)
Init ==
  /\ \E points \in InitSets, expected \in InsertSets :
       NewTree(PreprocessInput(points), PreprocessInput(expected))
  /\ root \in {r \in [Key -> 0..RootChildren - 1] :
                 \A j, k \in Key : j < k => r[j] <= r[k]}
  /\ phase = "children" /\ child = 0
  /\ call = NoCall /\ returned = NoCost /\ frames = <<>>
  /\ COST = <<>> /\ structMap = <<>>
  /\ toStore = <<>>
  /\ node = [i \in 1..RootChildren |-> NoSetting]
  /\ scanLeaf = <<>> /\ prefetched = <<>> /\ remaining = <<>>
  /\ firstLeaf = 0 /\ lastLeaf = 0

(* ConstructSubTree: the next child of the root.                           *)
StartChild ==
  /\ phase = "children" /\ child < RootChildren
  /\ LET range == RootRanges[child]
     IN call' = Call(IF Points(range) > Threshold THEN "greedy" ELSE "dp", range)
  /\ COST' = With(<<>>, emptyRange, 0)
  /\ phase' = "search"
  /\ UNCHANGED <<dataset, child, returned, frames, structMap, stored>>

Unsolved(range) == range.init.size > 0 /\ range.init \notin DOMAIN COST

(* DP, case 1: no points, whatever is expected to be inserted.             *)
DPEmpty ==
  /\ call.alg = "dp" /\ call.range.init.size = 0
  /\ structMap' = Inserted(structMap, call.range.init, LeafSetting)
  /\ Return(0)
  /\ UNCHANGED <<dataset, phase, child, frames, COST, stored>>

(* DP, case 2: the points have been dealt with.                            *)
DPSolved ==
  /\ call.alg = "dp" /\ call.range.init.size > 0
  /\ call.range.init \in DOMAIN COST
  /\ Return(COST[call.range.init])
  /\ UNCHANGED <<dataset, phase, child, frames, COST, structMap, stored>>

(* DPLeaf.  A cheaper inner node stays.                                    *)
DPLeaf(range, cost, struct) ==
  LET known == range.init \in DOMAIN cost IN
  IF known /\ cost[range.init] < LeafCost(range)
  THEN COST' = cost /\ structMap' = struct
  ELSE /\ COST' = With(cost, range.init, LeafCost(range))
       /\ structMap' = IF known THEN With(struct, range.init, LeafSetting)
                       ELSE Inserted(struct, range.init, LeafSetting)

(* DP, case 3, and the call that GreedyAlgorithm makes.                    *)
DPSmall ==
  /\ \/ call.alg = "leaf"
     \/ call.alg = "dp" /\ Unsolved(call.range) /\ IsSmall(call.range)
  /\ DPLeaf(call.range, COST, structMap)
  /\ Return(LeafCost(call.range))
  /\ UNCHANGED <<dataset, phase, child, frames, stored>>

(* DP, cases 4 and 5: DPInner.                                             *)
BeginInner ==
  /\ call.alg = "dp" /\ Unsolved(call.range) /\ ~ IsSmall(call.range)
  /\ Len(frames) < StackSize
  /\ frames' = Append(frames, Frame("dp", call.range))
  /\ call' = NoCall
  /\ UNCHANGED <<dataset, phase, child, returned, COST, structMap, stored>>

StackOverflow ==
  /\ call # NoCall /\ call.alg # "leaf" /\ Len(frames) = StackSize
  /\ call.alg = "dp" => Unsolved(call.range) /\ ~ IsSmall(call.range)
  /\ phase' = "crashed"
  /\ call' = NoCall
  /\ UNCHANGED <<dataset, child, returned, frames, COST, structMap, stored>>

NextCandidate(frame) ==
  [frame EXCEPT !.candidates = Tail(frame.candidates), !.model = NoSetting, !.parts = <<>>]

(* UpdateDPOptSetting, up to the first child.                              *)
TryCandidate ==
  /\ Working("dp") /\ top.model = NoSetting /\ top.candidates # <<>>
  /\ LET candidate == Head(top.candidates)
         cost      == InnerCost(top.range, candidate.type, candidate.c)
         model     == InnerNode(top.range, candidate.type, candidate.c)
     IN frames' = WithTop(
          IF ~ Permitted(candidate) \/ cost > top.optimalCost THEN NextCandidate(top)
          ELSE [top EXCEPT !.cost = cost, !.model = model, !.next = 0,
                           !.parts = ChildrenOf(model, top.range, candidate.c)])
  /\ UNCHANGED <<dataset, phase, child, call, returned, COST, structMap, stored>>

(* Case 2.1 of UpdateDPOptSetting, as the code has it.                     *)
FailsToDivide(range, part) == part.init.size + part.init.size = Points(range)

(* UpdateDPOptSetting: the next child.                                     *)
TryChild ==
  /\ Working("dp") /\ top.model # NoSetting /\ top.next \in DOMAIN top.parts
  /\ IF FailsToDivide(top.range, top.parts[top.next])
     THEN frames' = WithTop(NextCandidate(top)) /\ UNCHANGED call
     ELSE call' = Call("dp", top.parts[top.next]) /\ UNCHANGED frames
  /\ UNCHANGED <<dataset, phase, child, returned, COST, structMap, stored>>

(* A call has come back to the loop over the children.  DBL_MAX stays what *)
(* it is when something is added.                                          *)
AddChild ==
  /\ phase = "search" /\ returned # NoCost /\ frames # <<>>
  /\ frames' = WithTop([top EXCEPT !.cost = Min({DBLMAX, top.cost + returned}),
                              !.next = top.next + 1])
  /\ returned' = NoCost
  /\ UNCHANGED <<dataset, phase, child, call, COST, structMap, stored>>

(* UpdateDPOptSetting, behind the last child.                              *)
Compare ==
  /\ Working("dp") /\ top.model # NoSetting /\ top.next \notin DOMAIN top.parts
  /\ frames' = WithTop(NextCandidate(
       IF top.cost <= top.optimalCost
       THEN [top EXCEPT !.optimalCost = top.cost, !.optimal = top.model]
       ELSE top))
  /\ UNCHANGED <<dataset, phase, child, call, returned, COST, structMap, stored>>

(* DPInner, when all have been tried, and in case 5 of DP the leaf as well.*)
EndInner ==
  /\ Working("dp") /\ top.model = NoSetting /\ top.candidates = <<>>
  /\ LET range  == top.range
         cost   == Inserted(COST, range.init, top.optimalCost)
         struct == Inserted(structMap, range.init, top.optimal)
     IN IF Points(range) > LeafCap
        THEN COST' = cost /\ structMap' = struct /\ Return(top.optimalCost)
        ELSE DPLeaf(range, cost, struct) /\ Return(Min({top.optimalCost, LeafCost(range)}))
  /\ frames' = Front(frames)
  /\ UNCHANGED <<dataset, phase, child, stored>>

(* UpdateGreedyOptSetting: no child takes all of the points, nor, for then *)
(* the entropy is zero, all of those that there are.                       *)
Viable(range, candidate) ==
  LET parts == ChildrenOf(InnerNode(range, candidate.type, candidate.c),
                          range, candidate.c)
  IN /\ Permitted(candidate)
     /\ \A i \in DOMAIN parts :
          /\ Points(parts[i]) # Points(range)
          /\ range.init.size > 0 => parts[i].init.size # range.init.size

(* GreedyAlgorithm takes one of them, by a cost that looks at the children *)
(* only: any of them here.                                                 *)
Greedy ==
  /\ call.alg = "greedy" /\ Len(frames) < StackSize
  /\ \E i \in DOMAIN Candidates(call.range) :
       LET candidate == Candidates(call.range)[i]
           model     == InnerNode(call.range, candidate.type, candidate.c)
       IN /\ Viable(call.range, candidate)
          /\ frames' = Append(frames,
               [Frame("greedy", call.range) EXCEPT
                  !.model = model, !.optimal = model, !.optimalCost = 0,
                  !.parts = ChildrenOf(model, call.range, model.children)])
  /\ call' = NoCall
  /\ UNCHANGED <<dataset, phase, child, returned, COST, structMap, stored>>

(* Without any, the node that is taken has never been written.             *)
GreedyFails ==
  /\ call.alg = "greedy" /\ Len(frames) < StackSize
  /\ \A i \in DOMAIN Candidates(call.range) :
       ~ Viable(call.range, Candidates(call.range)[i])
  /\ phase' = "crashed" /\ call' = NoCall
  /\ UNCHANGED <<dataset, child, returned, frames, COST, structMap, stored>>

(* GreedyAlgorithm: the next child.                                        *)
GreedyChild ==
  /\ Working("greedy") /\ top.next \in DOMAIN top.parts
  /\ LET part == top.parts[top.next]
     IN call' = Call(IF IsSmall(part) THEN "leaf"
                     ELSE IF Points(part) > Threshold THEN "greedy"
                     ELSE "dp", part)
  /\ UNCHANGED <<dataset, phase, child, returned, frames, COST, structMap, stored>>

EndGreedy ==
  /\ Working("greedy") /\ top.next \notin DOMAIN top.parts
  /\ structMap' = Inserted(structMap, top.range.init, top.optimal)
  /\ COST' = Inserted(COST, top.range.init, top.cost)
  /\ Return(top.cost)
  /\ frames' = Front(frames)
  /\ UNCHANGED <<dataset, phase, child, stored>>

----------------------------------------------------------------------------
Leaf(range, blocks) ==
  [type |-> "leaf", range |-> range, blocks |-> blocks,
   previousLeaf |-> 0, nextLeaf |-> 0]

(* firstLeaf and lastLeaf take in the leaf i of the range.                 *)
Ends(range, i) ==
  IF range.init.size = 0 THEN UNCHANGED <<firstLeaf, lastLeaf>>
  ELSE lastLeaf' = i /\ firstLeaf' = IF firstLeaf = 0 THEN i ELSE firstLeaf

(* ConstructSubTree: the child of the root is a leaf, which is stored      *)
(* later, or what is below it is stored now.                               *)
PlaceChild ==
  /\ phase = "search" /\ returned # NoCost /\ frames = <<>>
  /\ returned' = NoCost /\ phase' = "store"
  /\ LET range == RootRanges[child] IN
     IF range.init \in DOMAIN structMap /\ structMap[range.init] = LeafSetting
        /\ range.init # emptyRange
     THEN /\ scanLeaf' = Append(scanLeaf, child + 1)
          /\ prefetched' = Append(prefetched, [at |-> child + 1, range |-> range])
          /\ Ends(range, child + 1)
          /\ UNCHANGED <<toStore, node, remaining>>
     ELSE /\ toStore' = <<[at |-> child + 1, range |-> range]>>
          /\ UNCHANGED <<node, scanLeaf, prefetched, remaining, firstLeaf, lastLeaf>>
  /\ UNCHANGED <<dataset, child, call, frames, COST, structMap>>

(* StoreOptimalNode of a range without a setting: the code goes on with    *)
(* the end of the map.                                                     *)
NothingToStore ==
  /\ phase = "store" /\ toStore # <<>>
  /\ Head(toStore).range.init \notin DOMAIN structMap
  /\ phase' = "crashed"
  /\ UNCHANGED <<dataset, child, search, stored>>

(* StoreOptimalNode: a leaf, which is filled later.                        *)
StoreLeaf ==
  /\ phase = "store" /\ toStore # <<>>
  /\ LET new == Head(toStore) IN
       /\ new.range.init \in DOMAIN structMap
       /\ structMap[new.range.init] = LeafSetting
       /\ scanLeaf' = Append(scanLeaf, new.at)
       /\ remaining' = Append(remaining, new)
       /\ Ends(new.range, new.at)
  /\ toStore' = Tail(toStore)
  /\ UNCHANGED <<dataset, phase, child, search, node, prefetched>>

(* Mutation: the children are placed over the last node.                   *)
StoredOverLast(model) == [type |-> "inner", model |-> model, childLeft |-> Len(node)]

(* The node, and its children in a block at the end of the node array.     *)
StoredNode(model) == [type |-> "inner", model |-> model, childLeft |-> Len(node) + 1]

(* StoreInnerNode, and its calls for the children.                         *)
StoreInner ==
  /\ phase = "store" /\ toStore # <<>>
  /\ LET new   == Head(toStore)
         model == structMap[new.range.init]
         parts == ChildrenOf(model, new.range, model.children)
     IN /\ new.range.init \in DOMAIN structMap /\ model # LeafSetting
        /\ node' = [node EXCEPT ![new.at] = StoredNode(model)]
                   \o [i \in 1..model.children |-> NoSetting]
        /\ toStore' = [i \in 1..model.children |->
                         [at    |-> StoredNode(model).childLeft + i - 1,
                          range |-> parts[i - 1]]]
                      \o Tail(toStore)
  /\ UNCHANGED <<dataset, phase, child, search, scanLeaf, prefetched, remaining,
                 firstLeaf, lastLeaf>>

(* ConstructSubTree: the end of the loop body.                             *)
EndChild ==
  /\ phase = "store" /\ toStore = <<>>
  /\ COST' = <<>> /\ structMap' = <<>>
  /\ child' = child + 1 /\ phase' = "children"
  /\ UNCHANGED <<dataset, call, returned, frames, stored>>

----------------------------------------------------------------------------
Chunks(points, size) ==
  [b \in 1..CeilDiv(Len(points), size) |->
     SubSeq(points, (b - 1) * size + 1, Min({b * size, Len(points)}))]

(* Mutation: the first of them is skipped.                                 *)
WithoutExpectedButFirst(block) ==
  IF block = <<>> THEN block
  ELSE <<Head(block)>> \o SelectSeq(Tail(block), LAMBDA p : ~ p.expected)

(* StoreData's last loop takes the points that are only expected out of the*)
(* block again.  It looks at the points as they were, and removes what has *)
(* moved to the place meanwhile.                                           *)
WithoutExpected(block) ==
  LET slots[j \in 0..Len(block)] ==
        IF j = 0 THEN block
        ELSE LET before == slots[j - 1]
             IN IF ~ block[j].expected THEN before
                ELSE RemoveAt(before, Min({j, Len(before)}))
  IN slots[Len(block)]

FilledLeaf(new, blocks) ==
  Leaf(new.range, [b \in DOMAIN blocks |-> WithoutExpected(blocks[b])])

(* Consecutive parts of the points, of the given sizes.                    *)
Parts(points, sizes) ==
  [b \in DOMAIN sizes |->
     SubSeq(points, SumOf(sizes, b - 1) + 1, SumOf(sizes, b))]

(* ConstructSubTree, behind the loop: the prefetch model is trained with   *)
(* the points of the leaves below the root (module RootModels).  Without   *)
(* any of them PrefetchTrain divides by their number.                      *)
TrainFetch ==
  /\ phase = "children" /\ child = RootChildren
  /\ phase' = IF prefetched = <<>> THEN "crashed" ELSE "fill"
  /\ UNCHANGED <<dataset, child, search, stored>>

(* A leaf of the prefetch phase whose points go to the blocks predicted for*)
(* them (module DataLayout): consecutive ones to each of them.             *)
FillPrefetched ==
  /\ phase = "fill" /\ prefetched # <<>>
  /\ LET new    == Head(prefetched)
         points == Merged(new.range)
     IN \E sizes \in UNION {[1..n -> 1..BlockCap] : n \in 1..MaxBlockNum} :
          /\ SumOf(sizes, Len(sizes)) = Len(points)
          /\ node' = [node EXCEPT ![new.at] = FilledLeaf(new, Parts(points, sizes))]
  /\ prefetched' = Tail(prefetched)
  /\ UNCHANGED <<dataset, phase, child, search, toStore, scanLeaf, remaining,
                 firstLeaf, lastLeaf>>

(* A leaf of the prefetch phase that is predicted too few blocks.          *)
PutOff ==
  /\ phase = "fill" /\ prefetched # <<>>
  /\ remaining' = Append(remaining, Head(prefetched))
  /\ prefetched' = Tail(prefetched)
  /\ UNCHANGED <<dataset, phase, child, search, toStore, node, scanLeaf,
                 firstLeaf, lastLeaf>>

(* A leaf of the others: its points are spread evenly.                     *)
FillRemaining ==
  /\ phase = "fill" /\ prefetched = <<>> /\ remaining # <<>>
  /\ LET new    == Head(remaining)
         points == Merged(new.range)
     IN node' = [node EXCEPT ![new.at] =
                   FilledLeaf(new, Chunks(points, AvgSlotNum(Len(points))))]
  /\ remaining' = Tail(remaining)
  /\ UNCHANGED <<dataset, phase, child, search, toStore, scanLeaf, prefetched,
                 firstLeaf, lastLeaf>>

(* Mutation: the last leaf is not given its predecessor.                   *)
ChainedForward(i) ==
  [node[scanLeaf[i]] EXCEPT
     !.nextLeaf = IF i = Len(scanLeaf) THEN 0 ELSE scanLeaf[i + 1],
     !.previousLeaf = IF i = 1 \/ i = Len(scanLeaf) THEN 0 ELSE scanLeaf[i - 1]]

Chained(i) ==
  [node[scanLeaf[i]] EXCEPT
     !.nextLeaf = IF i = Len(scanLeaf) THEN 0 ELSE scanLeaf[i + 1],
     !.previousLeaf = IF i = 1 THEN 0 ELSE scanLeaf[i - 1]]

(* UpdateLeaf, and the end of Construction.                                *)
UpdateLeaf ==
  /\ phase = "fill" /\ prefetched = <<>> /\ remaining = <<>>
  /\ node' = [n \in DOMAIN node |->
                LET i == SelectInSeq(scanLeaf, LAMBDA leaf : leaf = n)
                IN IF i = 0 THEN node[n] ELSE Chained(i)]
  /\ phase' = "done"
  /\ scanLeaf' = <<>>
  /\ UNCHANGED <<dataset, child, search, toStore, prefetched, remaining,
                 firstLeaf, lastLeaf>>

Over == phase \in {"done", "crashed"} /\ UNCHANGED vars

Next ==
  \/ StartChild \/ DPEmpty \/ DPSolved \/ DPSmall \/ BeginInner \/ StackOverflow
  \/ TryCandidate \/ TryChild \/ AddChild \/ Compare \/ EndInner
  \/ Greedy \/ GreedyFails \/ GreedyChild \/ EndGreedy
  \/ PlaceChild \/ NothingToStore \/ StoreLeaf \/ StoreInner \/ EndChild
  \/ TrainFetch \/ FillPrefetched \/ PutOff \/ FillRemaining \/ UpdateLeaf
  \/ Over

Spec == Init /\ [][Next]_vars

----------------------------------------------------------------------------
IsPair(pair, keys) ==
  pair = emptyRange \/ /\ pair.left \in DOMAIN keys /\ pair.size > 0
                       /\ pair.left + pair.size - 1 \in DOMAIN keys

IsRange(range) == IsPair(range.init, initDataset) /\ IsPair(range.insert, insertQuery)

IsLeaf(i) == node[i].type = "leaf"

TypeOK ==
  /\ phase \in {"children", "search", "store", "fill", "done", "crashed"}
  /\ child \in 0..RootChildren
  /\ call # NoCall => call.alg \in {"dp", "leaf", "greedy"} /\ IsRange(call.range)
  /\ returned \in Nat \cup {NoCost}
  /\ Len(frames) <= StackSize
  /\ \A i \in DOMAIN frames : IsRange(frames[i].range)
  /\ \A pair \in DOMAIN COST : IsPair(pair, initDataset) /\ COST[pair] \in Nat
  /\ \A pair \in DOMAIN structMap : IsPair(pair, initDataset)
  /\ {firstLeaf, lastLeaf} \subseteq 0..Len(node)

(* Where the loop of Find comes to.                                        *)
LeafFor(k) ==
  LET below[i \in DOMAIN node] ==
        IF node[i].type = "inner"
        THEN below[node[i].childLeft + ChildFor(node[i].model, k)] ELSE i
  IN below[root[k] + 1]

(* Find and Insert come to the leaf for each point, and to the one that is *)
(* prepared for each key expected.                                         *)
PointsAreBelow ==
  phase = "done" =>
    /\ \A i \in DOMAIN initDataset :
         LET l == LeafFor(initDataset[i])
         IN IsLeaf(l) /\ i \in Positions(node[l].range.init)
    /\ \A i \in DOMAIN insertQuery :
         LET l == LeafFor(insertQuery[i])
         IN IsLeaf(l) /\ i \in Positions(node[l].range.insert)

Kept(leaf) == LET points == FlattenSeq(leaf.blocks)
              IN [i \in DOMAIN points |-> points[i].key]

(* Taking the expected keys out of a leaf again leaves it as many points as*)
(* it has to store; with one expected key at most it leaves these.         *)
PointsKept ==
  phase = "done" =>
    \A i \in DOMAIN node : IsLeaf(i) =>
      LET range == node[i].range IN
        /\ Len(Kept(node[i])) = range.init.size
        /\ range.insert.size <= 1 =>
             Kept(node[i]) = SubSeq(initDataset, range.init.left,
                                    range.init.left + range.init.size - 1)

(* In every one of the nodes that are tried a child has, as the code puts  *)
(* it, all of the points.                                                  *)
Undividable(range) ==
  \A i \in DOMAIN Candidates(range) :
    LET candidate == Candidates(range)[i]
        parts == ChildrenOf(InnerNode(range, candidate.type, candidate.c),
                            range, candidate.c)
    IN Permitted(candidate) => \E c \in DOMAIN parts : FailsToDivide(range, parts[c])

(* Unless keys are expected, only points that cannot be divided are left in*)
(* a leaf that has not the blocks for them.                                *)
LeavesFit ==
  phase = "done" /\ insertQuery = <<>> =>
    \A i \in DOMAIN node :
      IsLeaf(i) => Points(node[i].range) <= LeafCap \/ Undividable(node[i].range)

(* What the map is built from is in it: violated.                          *)
InitPointsKept ==
  phase = "done" =>
    \A i \in DOMAIN initDataset :
      initDataset[i] \in {Kept(node[LeafFor(initDataset[i])])[j] :
                          j \in DOMAIN Kept(node[LeafFor(initDataset[i])])}

(* No range is divided in order to divide it: violated.                    *)
DividesItsRange ==
  \A i, j \in DOMAIN frames : i # j => frames[i].range # frames[j].range

(* The positions of the points in the leaves that nextLeaf leads to.       *)
ScanFrom(first) ==
  LET PositionsIn(l) ==
        [p \in 1..node[l].range.init.size |-> node[l].range.init.left + p - 1]
      scan[n \in 0..Len(node)] ==
        IF n = 0 THEN [at |-> first, seen |-> <<>>]
        ELSE LET before == scan[n - 1]
             IN IF before.at = 0 THEN before
                ELSE [at   |-> node[before.at].nextLeaf,
                      seen |-> before.seen \o PositionsIn(before.at)]
  IN scan[Len(node)].seen

(* nextLeaf leads from the first leaf through the points of all of them in *)
(* order to the last one, previousLeaf back.                               *)
LeavesInOrder ==
  phase = "done" =>
    /\ ScanFrom(firstLeaf) = [i \in DOMAIN initDataset |-> i]
    /\ \A i, j \in DOMAIN node :
         IsLeaf(i) /\ IsLeaf(j) => (node[i].nextLeaf = j <=> node[j].previousLeaf = i)
    /\ Len(initDataset) \in Positions(node[lastLeaf].range.init)
=============================================================================
