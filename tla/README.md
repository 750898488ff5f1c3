# CARMI in TLA+

CARMI is an in-memory ordered map built on a learned index: a tree whose inner
nodes predict a child, and whose leaves keep their points in fixed-size data
blocks of one shared array. The library is single-threaded, header-only and
persists nothing. What is hard about it is not concurrency but *long legal
histories*: blocks that pass from leaf to leaf, slots that outlive their size
field, separators and chain links that several operations rewrite, a loop in
`insert` that only ends if a regression parts the points of a leaf, an exception
thrown from the middle of a restructuring, and a construction whose parts (a dynamic
program, trained models, a layout by prediction) rely on one another's order.

All paths below are relative to `src/src/include/` unless they start with `src/`.

## 1. Inventory

| component | code | state | operations | what makes it correct |
|---|---|---|---|---|
| data array | `memoryLayout/data_array.h`, `empty_block.h` | `dataArray`, `emptyBlocks` (a `std::set` per width), `usedDatasize` | `AllocateMemory`, `ReleaseMemory`, `AddEmptyMemoryBlock`, `ReleaseUselessMemory` | no block has two owners; nothing is lost off the end; an allocation succeeds |
| layout of the leaves at construction | `construct/construction.h`, `store_node.h`, `CFArrayType::StoreData` in init mode, `CheckIsPrefetch` | `prefetchEnd`, `remainingNode`, the predicted cells | one turn per child of the root, then the postponed children, then the cut | the same, while leaves are placed at *predicted* places |
| cache-friendly array leaf | `nodes/leafNode/cfarray_type.h` | `slotkeys`, `perSize`, `m_left`, `flagNumber`, and its blocks | `Init`, `StoreData`, `Insert` (6 cases), `Rebalance`, `Expand`, `Delete`, `Find` | keys in order, every key is looked up in the block it is in, nothing is lost or comes back |
| tree | `func/*.h`, `carmi.h` | `node.nodeArray`, `root`, `firstLeaf`, `lastLeaf`, first and last key, `currsize` | `Insert`, `Split`, `Delete`, `UpdateLeaf` | a lookup leads to every point, the leaf chain is the order of the keys, `insert` returns |
| linear regression inner node | `nodes/innerNode/lr_model.h`, `linear_regression.h` | `slope`, `intercept`, `minValue`, `childLeft` | `Train`, `Predict`, `NodePartition` | a monotone map to the children that parts different keys |
| other inner nodes | `plr_model.h`, `candidate_plr.h`, `his_model.h`, `bs_model.h` | three segments, a packed table, separators | `Train`, `Predict` | monotone and in range for every key; the packed table is the table; a piecewise line parts different keys, but where it ends flat |
| node array | `memoryLayout/node_array.h` | `nodeArray`, `nowNodeNumber` | `AllocateNodeMemory` | fresh nodes, growth that ends |
| iterators and map interface | `carmi_map.h` | `currnode`, `currblock`, `currslot` | `begin`, `end`, `++`, `--`, conversions between four classes, bounds, `insert`, `erase`, `clear`, `size` | an iteration visits the points of the map, once, in order, and stops |
| external array leaf and external map | `external_array_type.h`, `carmi_external_map.h` | `m_left`, a size, a line and its `error`, over the caller's array | `Train`, `Find`, `Insert` with its split, bounds, iterators | the leaves share out the records; `Find` gives the place in the sorted records |
| root node and its models | `nodes/rootNode/**` | a piecewise line choosing a child, `prefetch_plr` choosing a block | `Train`, `Predict`, `PrefetchTrain`, `PrefetchNum` | monotone; each leaf is predicted into blocks of its own |
| cost-based construction | `construct/*.h` | the memo `COST` and `structMap`, the nodes stored so far, leaves put off | `DP`, `DPInner`, `DPLeaf`, `GreedyAlgorithm`, `StoreOptimalNode`, `UpdateLeaf` | the search ends; every point is below the root where `Find` looks for it; the leaves are chained in order and keep their points |
| parameters, statistics | `params.h`, `func/calculate_*.h` | constants, counters | | |
| experiments, profiler, examples, baselines | `src/experiments`, `src/example`, ... | | | outside of the library |

**Interactions.** `carmi_map` and `CARMI` hold the arrays; a leaf gets a pointer
to `CarmiTree::data` in each call and takes, exchanges or abandons block ranges
(`DataArray`). `Insert` descends to a leaf; when the leaf returns `false`,
`Split` extracts its points, trains an LR node in its place, stores the points
into new leaves, relinks the chain, and `Insert` loops (`CarmiTree`).
Construction trains a root, runs the dynamic program or the greedy choice for each
of the root's children, stores the nodes chosen, trains the prefetch model with the
leaves below the root, fills these and then the others, and chains all of them
(`Construction`, with the models of `NodeTraining`). It is the only caller of the
init mode of `StoreData`, in which the prefetch model dictates the place
(`DataLayout`); from then on the array is as in `DataArray`. The external map has
the same tree over leaves that are ranges of the caller's array (`ExternalMap`). Iterators
follow `nextLeaf` and `previousLeaf` and read blocks and `perSize` directly.

**Hard behaviours**: see `hazards` in `PROJECT.json`, each at its line.

## 2. The modules

| module | models | extends | checked by |
|---|---|---|---|
| `KeyStore` | what the map promises: a bag of keys | | refined by `CFArrayLeaf`, `CarmiTree` |
| `EmptyBlocks` | the allocator as pure operators | | `DataArray`, `DataLayout` |
| `DataArray` | leaves taking and giving up ranges | `EmptyBlocks` | `data_array` |
| `NumberProofs` | induction, recursive functions, sums, least and greatest elements, counting in sequences, for the other proofs; least squares over sorted keys and the models of inner nodes | `InnerModels` | TLAPS |
| `DataLayout` | construction of the layout, then the life of the index | `DataArray` | `data_layout` |
| `DataLayoutProofs` | proofs about the allocator, `DataArray` and `DataLayout` | `DataLayout`, `NumberProofs` | TLAPS |
| `CFArrayLeaf` | one leaf with its slots, sizes and separators | `FiniteSetsExt` | `leaf`, `leaf_erase` |
| `CFArrayLeafProofs` | proofs about `CFArrayLeaf` | `CFArrayLeaf`, `NumberProofs` | TLAPS |
| `LRModel` | training and prediction of an LR node | `SequencesExt` | `tree`, `external`, `models` |
| `CarmiTree` | descent, split, delete, chain of leaves | `LRModel` | `tree` |
| `CarmiTreeProofs` | proofs about `CarmiTree` | `CarmiTree`, `NumberProofs` | TLAPS |
| `SortedCursor` | what the iterators promise: a cursor over a sorted sequence | | refined by `Iterators`, `ExternalMap` |
| `Iterators` | the four iterator classes, bounds, `find`, `count` over the chain of leaves | `SequencesExt` | `iterators` |
| `IteratorsProofs` | proofs about `Iterators` | `Iterators`, `NumberProofs` | TLAPS |
| `ExternalLeaf` | the leaf over the caller's array: training, error, search, insert | `LRModel` | `external` |
| `ExternalMap` | the external map: insert, split, find, bounds, iterators | `ExternalLeaf` | `external` |
| `ExternalMapProofs` | proofs about `ExternalMap` and its leaves | `ExternalMap`, `NumberProofs` | TLAPS |
| `InnerModels` | the four models of inner nodes | `LRModel` | `models`, `construction` |
| `RootModels` | the root's piecewise line and the prefetch model | `InnerModels` | `models`, `root_order` |
| `NodeTraining` | one node trained and asked | `RootModels` | `models`, `root_order` |
| `NodeTrainingProofs` | proofs about `NodeTraining`, the root and the prefetch model | `NodeTraining`, `NumberProofs` | TLAPS |
| `Construction` | search, storing, filling and chaining of a tree | `InnerModels` | `construction`, `construct_endless`, `construct_expected` |
| `ConstructionProofs` | proofs about `Construction` | `Construction`, `NumberProofs` | TLAPS |
| `MC*` | constants for TLC | one each | |

### EmptyBlocks and DataArray

`emptyBlocks` is one set of records `[left, width]`: the vector index of the code
(the width) is a field. `AllocateSingleMemory` picks *the first* range of a
`std::set<EmptyBlock>` of the first width that has one; the model picks by the
same rule. `EmptyTiles` is the loop of `AddEmptyMemoryBlock` that cuts a region
into pieces no wider than `kMaxBlockNum`; `ReleaseMemory` merges with neighbours
in the same order of attempts; `AllocateMemory` grows the array by a quarter and
tries once more. In `DataArray` each action is one call of a leaf: the first
insert, `StoreData` for a child of a split, `Expand` (release *then* allocate),
`Rebalance` and the overwriting of a split leaf, whose blocks nobody gets back.
`Expand` and `Rebalance` may record fewer blocks than they hold (the points are
dealt out `ceil(size / needed)` to a block).

### DataLayout

A turn of the prefetch loop places leaf `turn` at the cell predicted for its first
key if `CheckIsPrefetch` says the cells are unused, else anywhere, or postpones
it. What `CheckIsPrefetch` really reads, `slots[0]` of each cell, is `occupied`; a
block of nothing but expected insertions is cleared again (`hollow` in
`Occupy`). `Spill` lets a leaf be pushed beyond its predicted cells, under which a
property fails (section 5); with `Spill` off, as in `data_layout`, the remaining question
can be asked without it. `Border` lets a segment of the prefetch model end inside of a leaf
(on in `data_layout`). `Starts` adds up the widths that the model gives the leaves and
what lies between them; its last value is the block number `PrefetchTrain` returns, the
first size of the array. The last leaf may be predicted into fewer cells than it has been
given: predictions are cut at that number.

### CFArrayLeaf

State and operators keep the code's names. Slots behind `perSize` are kept,
because `ExtractDataset` reads them. `Search` is `std::lower_bound` by halving,
not "the first such block": on unsorted separators it ends where the code's does.
`Insert` is an action per case: first block (which is taken over *unclean*, see
`Recycled`), the block found, the next block, rebalance, expand, refused; each
includes the retry that follows. `EraseInBlock` is the closed form of a loop that
shrinks its own bound; `EraseAtEnd` is what that loop does when it passes the last
slot of a full block. `Init` has every leaf construction can produce: `StoreData`
for a split's child, and for a prefetched leaf every legal prediction. The loops of
`ExtractDataset`, `StoreData`, `GetDataNum` and `lower_bound` are recursive functions
(`Extracted`, `Filled`), which proofs can unfold.

### Iterators

An iterator is its class, the node (a leaf, numbered along the chain), the block and the
slot, as in the code. `advanceSlot`, `advanceBlock` and `advanceNode`, tried in turn, are
`Up`; their counterparts backwards are `Down`; a reverse iterator has the same two with its
slot counted from 1, so that `++` of one is like `--` of the other. The const classes repeat
that code, and each class has actions of its own. `Convert` makes an iterator of one class
from one of another, which takes the node, block and slot over as they are. The loops over
emptied blocks and leaves without blocks are "the nearest block with points behind /
ahead". `Begin` and `RBegin` start at `firstLeaf` and `lastLeaf`, `End` and `REnd` are
made of the other one's, as in the code. `call` is a history variable: without it, a
`lower_bound` that gives `end()` would look like a call of `end`. Blocks and separators
start as `StoreData` leaves them (`LeafOf`) and change by `Erase`, at the positions at
which `CFArrayLeaf` finds the loop of `Delete` sound; inserts are in `CFArrayLeaf` and
`CarmiTree`, which show the order that `Iterators` starts from. `Odd` admits the three
cases in which the properties fail (section 5) and is empty in the run.

The refinement maps an iterator to the number of points before its place *and* to the key
it refers to, so that an iterator at the right place that reads the wrong slot is seen.

### ExternalLeaf and ExternalMap

A record is its key, the caller's array a sequence; what lies behind it is `Junk`, since
the search may read there. `Train` keeps the code's two steps: a line over the ranks, then
`FindOptError` with its cost in thousandths of `log2` (the constant `Log2`, any table of
natural numbers). `Search` is the binary search of the
code in the window around the guess or beside it. `Insert` goes down step by step
(`BeginInsert`, `Descend`, `InsertIntoLeaf` or `Split`), like `CarmiTree`'s, and the
caller's write of the record, which the tests make after the call, is part of the step in
which `insert` returns. `ExternalMap` refines `SortedCursor` with inserts: the iterators
of the code are slot numbers, kept by the caller while records are appended. `Odd` again
names the two cases that fail (section 5).

### InnerModels, RootModels, NodeTraining

Each model is a record that `Fit` makes of sorted keys, and `ChildFor` asks. The
arithmetic is exact, with numerators kept over common denominators where the code has
floats. Where the code chooses by a sum of squares or a cost (the breakpoint of a
piecewise linear node, the segments of the root and of the prefetch model, the blocks per
leaf), the choice is left open: `cut`, `cuts` and `blocks` range over all it may choose. So
what holds here holds however the costs come out. A segment has a cost if its line rises, and
`SegmentLine` is that line as `StoreTheta` makes it for both kinds of piecewise models: the
sums of the last segment are over one point more than its size. So a last segment of no
width, at keys that are all equal, has a slope too, and `Cuts` has the cuts that lead to it.
`Table`, `base` and `offset` of a histogram are made and read as in `his_model.h`, with
`OffsetBits` buckets for its 16. In `NodeTraining` a behavior trains one candidate, and a root
then gets its prefetch model: nothing carries over between candidates.

### Construction

The recursion of `DP`, `DPInner`, `DPLeaf` and `GreedyAlgorithm` is a stack of frames, one
action per turn of a loop: `TryCandidate` (the model is trained and the range divided),
`TryChild` (the test for a model that does not divide, then the call), `AddChild` (a cost
comes back), `Compare`, `EndInner`. `COST` and `structMap` are functions over ranges of
*initial* points, as in the code; `std::map::insert` does not replace, `DPLeaf` erases
first. Costs are integers with the code's shape (time of the node for each point, space for
each child, searching and moving in blocks); the tests in the code only compare them.
Of the cuts that a piecewise linear node may have, `InnerNode` takes one by CHOOSE, always the
same for the same keys, as the code does; the proofs use no more of it than that it is in `Cuts`.
Then `PlaceChild`, `StoreInner`, `StoreLeaf` and `NothingToStore` are `StoreOptimalNode`,
`FillPrefetched`, `PutOff` and `FillRemaining` the two loops that fill the leaves, and
`UpdateLeaf` the chain. What the code sorts or merges (`PreprocessInput`, `Merged`) is put in order
by recursive functions, one point after another, which proofs can unfold. A prefetched leaf's points may go to its blocks in any way that
keeps their order. `WithoutExpected` is the loop that takes placeholders of expected
insertions out again. A search without a candidate, a range without an entry, and no leaf
below the root end in phase "crashed", a recursion deeper than `StackSize` too: what the
code does then is undefined, or its stack ends.

### LRModel and CarmiTree

Nodes below the root are records in a sequence (`nodeArray`). `Insert` is split
into `BeginInsert` (root), `Descend`, `InsertIntoLeaf` and `Split`/`SplitThrows`,
one step per turn of its `while (1)`. `Split` does what the code does in one go:
trains the model, partitions, stores the children, links them, moves the chain's
neighbours and `firstLeaf`/`lastLeaf`. A leaf is the sorted sequence of its
points, and refuses when it holds `LeafMin` or more (may) and when it holds
`LeafCap` (must): which of these happens is the leaf's own business and is exact in
`CFArrayLeaf`. `SplitThrows` is `Init` throwing `out_of_range` at child `c`.
`LRModel` computes exactly; the code rounds to `float`.

## 3. The runs

| run | question | answer |
|---|---|---|
| `data_array` | does any history of leaf calls share, lose or double a block | no; also proved |
| `data_layout` | does construction by prediction, then the cut, then operation | no, without spilling and with room for one growth; also proved |
| `leaf` | do inserts, overflows, rebalances, expansions, and erases where the erase loop is sound, keep order, separators, lookups and the bag of keys | yes; also proved |
| `leaf_erase` | "Erases all the data points of the given key", and no other | **violated** |
| `tree` | lookups, chain in both directions, and `insert` returning, over splits of splits | yes; lookups and the chain also proved |
| `iterators` | is an iterator of any class, however come by, moved and converted, where a cursor over the sorted points is, and does it read that point; does a loop to `end()` stop; does `count` count | yes, if the last leaf has blocks and no key is in two blocks |
| `external` | do the leaves of the external map share out the records through inserts and splits; are bounds, `find` and iterators those of a sorted sequence; does one split make room | yes, if no record comes to an empty leaf; also proved |
| `models` | do the models keep the order of keys and reach existing children, for keys they were not trained with too; is the packed histogram its table; do regressions part different keys, and in which case not; does the prefetch model give each leaf blocks of its own | yes, the last over roots that keep the order |
| `root_order` | "the index is used as the index boundary of each segment": does the root keep the order | **violated**: the bounds of a segment turn round |
| `construction` | is every point, and every expected key, below the root where it is looked for; is the chain in order; does each leaf keep as many points as it has to | yes; all but the last also proved |
| `construct_endless` | "if this inner node fails to divide dataset evenly, return directly" | **violated**: the recursion for a range calls itself for the same range |
| `construct_expected` | is every initial point in the map that was built | **violated** with two adjacent expected keys |

### Bounds

- `data_array`: 3 interchangeable leaves of up to 3 blocks, 12 blocks that may grow
  twice (12, 15, 18 and 22 blocks): all widths, merging with one and both
  neighbours, a growth that merges with the last empty block, and exhaustion occur.
  The proofs remove these bounds.
- `data_layout`: 3 prefetched leaves of up to 2 blocks, with none or 3 cells predicted
  for other children of the root in between (`Between`), one reserved block, three
  calls of leaves after the construction (`MaxServed`), growth to 15 blocks: all orders
  of placed, misplaced and postponed leaves, a gap before each leaf, a growth by
  three blocks (from 12 on) that leaves an empty block *across* the cut, then
  operation. With arrays below 12 blocks nothing is ever empty behind the last leaf.
- `leaf`: blocks of 4, up to 3 blocks, 7 keys, each up to twice, from every leaf that
  `StoreData` can produce: every case of `Insert` fires, including overflow from a
  middle block, duplicates across blocks, rebalancing with an emptied block, and
  refusal. Erases happen where the loop of `Delete` is sound (`ClearToErase`: one
  point with the key; the last one of its block, or two or more behind it in a block
  that is not full); `leaf_erase` asks the same of any position.
- `iterators`: 3 leaves, blocks of 2, up to 3 blocks, 3 keys each up to twice, 3 points
  (`MaxPoints`: a full block and a point beside it, or three blocks of one point), and every
  way the root may send keys to leaves: a leaf without blocks at either edge and in the
  middle, an empty block between others, leaves emptied by erases in a row, and the
  edges in both directions occur.
- `tree`: 2 leaves below the root, splits into 3 children, leaves of at most 3 points
  that may refuse a third one; the keys 1, 2, 3, 9 are unevenly spaced, so a fitted
  line crowds some children and leaves others empty. Splits of children of splits
  occur, and insertion stops when more than 8 nodes exist.
- `external`: 6 unevenly spaced keys, of which any are in the array at first, 2 leaves
  of at most 3 records below the root, splits into 2: leaves are split, children of
  splits too, and the line misses the place of some of the keys.
- `models`: every sorted sequence of up to 6 out of 5 unevenly spaced keys, 2, 3 and 5
  children, every breakpoint: histograms with more children than bits of an offset, equal
  keys, fewer keys than children or segments. The root: 4 sets of keys with 3 and 4
  children, all segments (`RootBreaks` bounds the positions), 3 segments of the
  prefetch model instead of 10 (`FetchSegments`) and up to 2 blocks per leaf.
- `construction`: 7 keys; every set of 5, 6 and 7 of them and some sequences with
  duplicates, up to 8 points, unsorted ones too, none to 3 expected keys, every monotone
  root with 3 children, leaves of 2 blocks of 2 points: leaves, inner nodes of each type
  and greedy choices (`Threshold`) occur below one another, children without points,
  leaves that are put off. `StackSize` is 6, deeper than any recursion of the run
  that ends.
- `Copies` bounds the points of one key, `MaxNodes` the nodes, `MaxDataSize` the
  array. Each is a guard on starting an operation, never on finishing one (except
  `MaxDataSize`, which disables a growth beyond it).

Deadlock checking is off where the bounds end a history (a refused leaf, a full
tree, a failed tree, a trained node): the program waits for its caller there. `Construction`
ends in `Over`, a step that changes nothing, so that a search that gets stuck is a deadlock.

### Fairness

Only `CarmiTree` has a liveness property, `InsertReturns`. Its fairness is weak
fairness of the steps of the loop of `Insert` together: one thread runs the call
to its end, nothing else can intervene, and the loop takes a step whenever one is
possible. No fairness is assumed of callers (`BeginInsert`, `Delete`). The property
is not trivial: each `Split` could put all points into one child that refuses
again. It does not, for different keys: a least-squares line over ranks scaled to
`C` children parts the least from the greatest key, so the children are smaller.
More than `LeafCap` points of *one* key defeat that (slope 0), and `insert` then
splits forever; this case makes the tree infinite and is listed as a hazard.

## 4. What is proved

Each theorem holds for every value of the constants that satisfies the assumptions of the
modules and those named with it. The run of the same properties shows that the hypotheses
are met and the properties not vacuous.

| theorems | property of | assumed beyond the module |
|---|---|---|
| `TypeCorrect`, `NoBlockShared`, `NoBlockHandedOutTwice`, `EmptyListsApart`, `StaysWithinArray`, `GrowthSuffices` | `DataArray` | |
| `LayoutTypeCorrect`, `LayoutLeavesApart`, `LayoutLeafBlocksNotEmpty`, `LayoutEmptyBlocksApart`, `LayoutNothingCutOff` | `DataLayout` | `~ Spill` |
| `LeafTypeCorrect`, `LeafKeysInOrder`, `LeafSeparatorsSorted`, `LeafStoredIsFound` | `CFArrayLeaf` | `KeysApart`, `Erasing # "any"` |
| `LeafRefusedOnlyAtLimit` | `CFArrayLeaf` | the same, `MaxBlockNum <= Cap` |
| `LeafKeepsItsKeys` (refinement of `KeyStore`) | `CFArrayLeaf` | `KeysApart`, `Erasing # "any"` |
| `TrainDivides` | `LRModel`, for any sorted keys, not all equal, and 2 or more children | |
| `TreeIsSound`, `TreeKeepsItsKeys` (the steps of `KeyStore`), `TreeScansForward`, `TreeScansBackward` | `CarmiTree` | |
| `ExternalTypeCorrect`, `ExternalLeavesShare`, `ExternalSplitMakesRoom` | `ExternalMap` | `NoOddInsert` |
| `ExternalWalks` (refinement of `SortedCursor`) | `ExternalMap` | `NothingOdd` |
| `IteratorsTypeCorrect` | `Iterators` | `NoBareLeaf` |
| `IteratorsKnowTheirEnd` | `Iterators` | `NoBareLeaf`, `NoEdgeConverted` |
| `IteratorsCountRight` | `Iterators` | `NoBareLeaf`, `NoKeyInTwo` |
| `IteratorsWalk` (refinement of `SortedCursor`) | `Iterators` | all three |
| `TrainedModelsNameAChild`, `TrainedModelsKeepOrder`, `HistogramKeepsItsTable`, `RegressionDividesPoints`, `LeavesAreFetchedApart` | `NodeTraining` | |
| `TypeCorrect`, `PointsFound`, `LeavesChained` | `Construction` | |

### Assumptions

- `InitSize \div 4 >= MaxBlockNum` (`DataArray`): the constructor justifies it (at least 64
  blocks and `kMaxBlockNum` at most 10 to 16, depending on the key); the array after a
  construction from data need not satisfy it (section 5), which is why
  `AllocationSucceeds` is proved of `DataArray` only: in `DataLayout` its failure ends the
  behavior (`During`).
- `~ Spill` (`DataLayout`): with `Spill` the properties fail (section 5).
- `KeysApart` (`CFArrayLeaf`): different keys differ by `One` at least, as integer keys do.
  With keys closer than 1 the separators fail (section 5).
- `Erasing # "any"` (`CFArrayLeaf`): only erases at which the loop of `Delete` is sound;
  with the others `KeepsItsKeys` fails (run `leaf_erase`).
- `NoOddInsert`, `NothingOdd` (`ExternalMap`): `Odd` does not have "insert into an empty
  leaf", or is empty. With these cases the properties fail (section 5).
- `NoBareLeaf`, `NoEdgeConverted`, `NoKeyInTwo` (`Iterators`): `Odd` does not have "bare last
  leaf", "converted at a block's edge" or "key in two blocks". Each theorem assumes only the
  cases with which its property fails (section 5).
- `MaxBlockNum <= Cap`: a leaf that has a point less than `Cap` to a block on the average
  has room in each block after `Rebalance`, and `Expand` leaves room, only if a block holds as many
  points as a leaf has blocks. Blocks of 512 bytes hold 32 points of 8-byte keys and values,
  `kMaxBlockNum` is at most 16.

### Arguments

**`DataArray`.** None of the six is inductive: that leaves are apart after an allocation
needs that empty blocks are apart from leaves *and* from one another, that both lie inside
the array (a growth adds new cells behind all of them), that the array never shrinks below
`InitSize`, and that every empty block has a positive width. `IInv` is that conjunction.
Each allocator operator has a lemma that says what it gives back in
terms of *cells* (the range returned and the blocks left are apart, cover no new cell, and
stay in the array); an action then is the composition of one or two lemmas.

**`DataLayout`.** `LInv` adds to the part of `IInv` that is true here (`Sound`; the array may be
small) what is known while leaves are being placed: `Predicted`, the predicted cells follow
one another and lie in the array, and `Ahead`, everything from the cell behind the last
placed leaf to the end of the predicted cells is untouched: neither a leaf's nor empty. A leaf
that is placed, and the gap before it, are carved out of that region, whatever leaves before it were
postponed; the second loop then is made of calls of `DataArray`, whose lemmas
apply. `NothingCutOff` needs that `usedDatasize` bounds every leaf and that an empty block
across the cut is cut with it.

**`CFArrayLeaf`.** The invariant is `Sound`: slots in order up to `perSize`; blank slots
behind it (as soon as there are two blocks: the first block alone may be recycled); and
`Routed`, which is about the sets of keys `K[b]` of the blocks and the separators only:
`Ascending` separators; `Between`, every key of a block between its separators (both
inclusive, since points of one key may lie on both sides of a separator); `Reached`, if
the separators lead a key of any block to block `s`, then block `s` has it; and `Spaced`,
below a separator there is room for `One`. That `StoredIsFound` alone is not inductive shows in
the overflow: points of one key that fill a block leave it for the next, and it is `Reached`
that says the block they are looked up in keeps one. Each case of `Insert` and the
erase has a lemma in terms of `Routed` (`PutIntoBlock` and those that follow it); `StoreData` is
an induction over the points (`Filled`), `Rebalance` and `Expand` are `StoreData` of what
`ExtractDataset` collects, which is sorted because blocks and slots are.

**`KeepsItsKeys`.** The points of a key are counted block by block (`CountTo`) and, in the
sequence of points that is extracted and stored anew, by position (`Occurs`); both are recursive
functions, and each action changes the counts of one block, or of two next to one another. The
restructuring cases come out as: the count of what is extracted is the count of the leaf, and
the count of what is stored is that of the points.

**`LRModel`.** `Train` is four sums over the keys. That the divisor is not negative and the
slope is not either are two cases of one lemma (`RiseTogether`): if two sequences rise
together, `n` times the sum of their products is at least the product of their sums. It is
shown by induction over `n` with the sums taken around the last element (`AroundGrows`,
`ProductsAround`), since the inequality itself is not inductive. `Predict` then keeps the order
of the keys, because rounding down does (`QuotientRises`). `TrainDivides` needs more: of the
line at the first and at the last key, with `X` the width of the keys, `c` the children and `d`
the divisor, the rise `slope * X` is at least `c * d / 2`, the value at the first key is below
`c * d / 2` and that at the last is not (`LineParts`). For this the products of
the keys with their ranks are estimated from both sides (`GainIsNotNegative`), and the
divisor is positive because two keys differ (`VariancePositive`). With two
children or more the line rises by a child at least, and since the middle of the children lies
between the two values, cutting them to `0..c - 1` leaves them apart.

**`NodeTraining`.** The invariant is that the model is one that `Fit`, `FitLinear` or `FitRoot`
makes of the points of this behavior (`TrainingInvariant`, checked with TLC as well); the
content is in the lemmas that each of these is `Sound`: it names a child of its own for
*every* integer and never sends a greater key to a lower child. Linear nodes: `LRModel`.
Binary search: the first separator not below a key rises with the key. Histograms: buckets
rise with keys, the share of a bucket rises with the bucket, the table follows the shares in steps of
0 or 1 (`CappedRises`), and the bits counted since the last base are as many as the table has
risen (`RisesCounted`), which gives `DecodeIs`. Piecewise linear nodes: the points between the
segments rise in key and index (`SegmentsAre`, for any cut that `Cuts` allows), the value
on a segment stays between the indexes of its ends, and at the greatest key it is the index of
the first of the points at that key (`PLRAtEnds`). This is the last child, or where the last
segment has no width the child of the second cut. As the smallest key goes to child 0 and order
is kept, all points go to one child exactly when the greatest key goes to child 0, which is
`EndsFlat` (`PartsEnds`, `RegressionDividesPoints`). The root: only the range is proved (`RootInRange`), from a positive divisor
(`SegmentIsLine`) and points below the last child; its order fails (`root_order`).

**The prefetch model.** `LeavesFetchedApart` is about two roundings of one index, the root's
to a child and the prefetch model's to a block. Where the root sends no greater key to a
lower *child*, it has no lower *index* for it either (`RootKeepsOrder`): within a child both keys
are on segments that rise. The indexes of the points in the leaves, which `FetchData` puts in the order
of the leaves, are therefore sorted (`FetchDataIs`), and every choice of segments makes a model of
which `Fetches` is true (`FitFetches`): segments in the order of their leaves, a
positive whole number of blocks to a leaf, each segment begun where the one before it ends.
A line of `b` blocks to a leaf sends whole leaves to whole ranges of `b` blocks
(`WholeUnits`, `BlockOfChild`), so the block of an index lies between the bounds of its segment
and nothing is cut off at either end (`LinesAreApart`, `LastBlock`), unless the first
segment begins below block 0; without cuts, the leaves share one number of blocks
(`EvenIsApart`). The invariant is that the prefetch model is one that `FitFetch`
makes of the root and of some leaves (`FetchIsTrained`).

**`CarmiTree`.** `KeepsItsKeys` is about where lookups come to, so the way down is the
heart of it: `Way` maps each node to the end of the loop from there for one key. It exists
because children are appended behind their parent (`Tree`, `EndsExist`), and when a leaf
becomes an inner node, exactly the ways that ended at the leaf go on behind it
(`EndsGoOn`, `WaysGoOn`). The inductive invariant is `Tree(node)` (record types, sorted leaves,
children behind their parents and inside the array) and `OnItsWay`: the node that an insertion
has come to lies on the way of its key, also when a split has just turned that node into an
inner one. A split loses no point because `NodePartition`'s first place and number stand for
*all* points of a child: the points are sorted and the trained line does not fall
(`TrainRises`), so they follow one another (`PartIs`). Insertion and erasure of
a leaf are lemmas about sorted sequences (`AddedIs`, `WithoutIs`). After a split that throws,
`TreeIsSound` still holds, the keys need not: that is the disjunct `failed'`.

**The chain of `CarmiTree`.** `ForwardScan` and `BackwardScan` compare two ways through the
same nodes, so neither is inductive: what a scan comes by changes with the links, what
lookups find with the ways down. `ChainInv` ties them together. There is a list `ch` of
the leaves, each linked to its two neighbours (`Linked`); each key has a `home`, the place in `ch` where
its lookup ends, greater keys have no earlier homes, and no other leaf has points of the key
(`AtHome`). `firstLeaf` need not be `ch[1]`, since leaves before the first point may be
empty: the points are of keys from `firstKey` to `lastKey` (`Spanned`), and `firstLeaf` and
`lastLeaf` are at places between which all these keys have their homes (`Bounds`). The last
is what an insertion before `firstKey` or a split of `firstLeaf` could break: `Split`
moves `firstLeaf` to the first child, which may have no points. A split widens `ch` at one
place by its children (`Widened`), and the homes there move to the child that the trained
line names, in the order of the keys (`Moved`, `ChildrenInOrder`). From `ChainInv` the
properties follow by two inductions: a walk is at `ch[f + s - 1]` in step `s`
(`ForwardWalk`), and sorted points whose keys are all at home, joined in the order of the
chain, are sorted and have as many points of each key as `Held` says (`JoinedSorted`,
`ScanIs`), which determines them (`SortedAlike`).

**`ExternalMap`.** Where a key is looked up changes with each split, so `LeavesShareRecords`
alone says too little: the inductive invariant `ExternalInv` has for every key its home
(`Home`, the end of its way down), no key between two of one leaf has another home
(`Convex`), and the range of a leaf holds the records at home there (`SharedOut`). An
inserted record goes behind all others; that its leaf ends there follows from `Convex`, since the
greatest record and the new key would otherwise have a leaf between them (`LastLeafEnds`).
`InsertInv` says of the insertion under way that the node it has come to is on the way of its
key, and that the leaf, or the child of the split that is due, has records. A split cuts
the range in the order of the children since the trained line does not fall, and no
child has all records since the line parts the least from the greatest (`TrainDivides`):
hence `SplitMakesRoom`. For the refinement, `BinarySearchIs` says what the loop returns on any
range, by induction over its turns; `SearchIs` composes it with the window, whatever the guess
and the error are: the three comparisons at its ends leave the part that has the place. With
`LeavesShareRecords` the place in the leaf is the place among all records
(`FoundInLeaf`), and a leaf without records gives `-1` (`FoundInNoLeaf`), which is right
for `find`, and for a bound only if no later leaf has records: the odd case.
The bounds then are numbers of records before a key (`BoundsInLeaf`), as in `SortedCursor`.

**`Iterators`.** An iterator is a leaf, a block and a slot, and the properties speak of places in
one sequence, so the proofs are in terms of `PlaceOf`, the number of points before it.
`Before(lf, i, b)`, the points before a block, is a sum of two lengths; it rises along the
chain, and by exactly the points of a block if those behind it are empty (`Rises`), whatever leaves have
no blocks. So the nearest block with points, which `Up` and `Down` go to, is where the next
point is (`PlaceBehind`, `PlaceAhead`), and each of the two moves the place by one or comes to the
end (`UpIs`, `DownIs`); a walk of `Up` is an induction over that (`WalkIs`). The invariants
are `MapInv` (shapes of the leaves; blocks with points only from `firstLeaf` to `lastLeaf`,
which has blocks) and `Held`: an iterator refers to a point or is *the* end of its
direction. `Held` is stronger than `EndIsRecognized` needs for one step, but a
place alone does not say which block an iterator is in, and `==` compares blocks and
slots. For the lookups `OrderInv` says that points are in the leaf their key leads to,
blocks are sorted, and separators rise and lie between the blocks; then the place that `Find`
comes to splits the points into those less than the key and the others
(`PositionSplits`), and the points of the key are in its block (`PositionInBlock`), so that
the walks of `upper_bound` and `count` stop where they should (`UpperBoundIs`, `CountIs`). At the start
this follows from how the points are dealt to blocks (`DealtIsOrdered`): here a key in two
blocks would break it. An erase is a chain with one point cut out of a block; its
sequence of points is the one before without that point (`CutPoints`).

**`Construction`.** The inductive invariant `Inv` has three parts beside the two results. `Data`: the
points and the expected keys are sorted, since `PreprocessInput` puts each key behind those
not above it (`PlacedIsOrdered`). `SearchOK` is about the search alone: every call, every
frame, every entry of `COST` and every setting in `structMap` is about a range of the points
(`IsPair`), and every inner setting is a model that sends no greater key to a lower child.
It is enough that *any* such model divides *any* such range, because the memo is
keyed by the initial points only: the node that is stored for a range may have been trained
with other expected keys. `NodePartition`'s first place and number are *all* points of a child for
a model like that, and the parts of the children follow one another. `StoreOK` says
that there is a `D`, the range that each node was made for, with which: what is stored
is a tree (`TreeIs`: children behind their parent, which has its range divided by its own model; the
children of the root have theirs from the root); each scanned leaf is filled or
waiting in one of the two lists (`LeavesAre`); and, what the chain rests on, the leaves
scanned so far, the calls to be made and the children of the root still to come are
a *row*: ranges with points that follow one another without a gap, from the first point to
the last (`OrderIs`). `StoreOptimalNode` goes down to the first child first, so that a node's
turn is replaced, in place, by the turns of its children, whose ranges are a row again with the
same ends. `EndsAre` has `firstLeaf` and `lastLeaf` at the first and last scanned leaf *with
points*. When `UpdateLeaf` is due nothing is waiting, so the scanned leaves are the row of all points: a
scan along `nextLeaf` is an induction over it (`ScanGoesThrough`), links back agree since
no leaf is scanned twice (`LinksAgree`), and the way down of a point keeps to the nodes whose
ranges have it (`WaysDown`), by induction from the last node to the first.

**Induction.** The library's induction theorems take an operator as parameter; here
induction is by the least element of a set of numbers (`LeastNumber`, `Induction`,
`StrongInduction` in `NumberProofs`), and that a recursive function over `0..n` obeys its
definition is proved there too (`Recursion`), with a theory of chains (`Chain*`) and sums.

### Model-checked only

Two properties of `Construction`, `PointsKept` and `LeavesFit`; and liveness
(`InsertReturns`), which is out of the prover's reach.

## 5. Divergences found

With a run, each quoted under `findings` in `PROJECT.json`: `leaf_erase`, `root_order`,
`construct_endless`, `construct_expected`. The models carry further ones, behind a
constant that the passing runs set so that they do not happen:

- `DataLayout`, `Spill`: `CheckIsPrefetch` (`cfarray_type.h:1036`) takes a used block whose
  first slot is empty, one that held nothing but expected insertions, for unused ("if the
  predicted data blocks have been used before, return false"): with `Spill = TRUE`
  `LeavesApart` fails.
- `DataArray`, `InitSize`: after a construction the array may have fewer than
  `4 * kMaxBlockNum` blocks (`construction.h:231-234`); one growth by a quarter is then too
  little, `AllocateMemory` returns -1 and the leaf uses it as an index. The assumption on
  `InitSize` excludes these arrays.
- `CFArrayLeaf`, `One`: the separator of an empty block is `lastKey + 1`
  (`cfarray_type.h:1356`). With keys closer than 1 (`One = 2` on integers) the separators are
  unsorted (`SeparatorsSorted` fails) in a leaf as constructed.
- `CarmiTree`, `SplitThrows`: `Init` compares a position among points with a number of
  blocks (`cfarray_type.h:645`) and throws from the middle of a split. `KeepsItsKeys` and
  the scans are stated of trees in which none has thrown (`failed`): behind an exception
  children are unwritten memory and the chain is not linked.
- `Iterators`, `Odd`: "bare last leaf" (a split's last child without blocks: `rbegin` is
  in block -1 and reads `perSize[-1]`; `TypeOK` fails), "key in two blocks" (points
  of a key that have overflowed into the next block; `CountIsRight` fails), "converted at
  a block's edge" (a conversion takes the slot over unnormalised: `key()` of an iterator
  made at the first or behind the last slot of a block reads outside of it;
  `EndIsRecognized` fails).
- `ExternalMap`, `Odd`: "insert into an empty leaf" (`external_array_type.h:355` counts the
  first record twice; `LeavesShareRecords` fails), "bound in an empty leaf" (`Find` returns
  -1, which the bounds take for the end of the map; `Walks` fails).
- `NodeTraining`, `EndsFlat`: the second cut of a piecewise linear node may be at a key equal
  to the last one (`candidate_plr.h:105-141` counts the last point in the sums only, so line
  165 gives the segment a cost). Of 1, 2, 3, 20, 20 with 2 children all go to child 0.
  `RegressionDivides` says that a regression fails to divide in this case and in no other;
  the node of a split, a linear regression, is not concerned.
- `NodeTraining`, `StartsBelowZero`: the first segment of the prefetch model may start
  below block 0. `LeavesFetchedApart` excludes it, and roots that lose the order.
- `Construction`, phase "crashed": no leaf below the root (`prefetch_plr.h:155` divides by
  0), greedy without a candidate (`opt_struct` is never written), no entry in `structMap`
  (the entry that a cheaper inner node should have was replaced or never made).

Seen in the source, in no module:

- `size()` is never lowered by an erase (`func/delete_function.h`), `README.md:75` of
  the repository says it returns the number of data points.
- `carmi.h` documents that `DeleteSingleData` returns false for an invalid
  position; it returns true. `CFArrayType::DeleteSingleData` has a loop that
  does not advance; the iterator form of `erase` does not compile.
- The const members `lower_bound`, `upper_bound`, `find` and `equal_range` do not compile
  when used.
- `begin()` of a map without points does not return.
- `clear()` keeps the root and leaves nodes unwritten.
- The constructors set the caller's comparator and then assign a new tree over it
  (`carmi_map.h:2115`, `carmi_external_map.h:156`).

## 6. Not modelled, and the plan

Not modelled, and why:

- values (never inspected), statistics, the experiments, profiler and examples, the
  directories `alex`, `rs` and `stx_btree` (indexes CARMI is compared with);
- what follows undefined behaviour (a write to `dataArray[-1]`, a read of nodes never
  written, a pointer into a vector that was resized): the models stop there. For that
  reason `clear`, and the iterators that `insert` returns, are not actions;
- `swap`, copying, `at`, `operator[]`, `size` and the constructors' argument forms, which
  add no state to what is modelled;
- the costs by which segments and the root are chosen (`CandidateCost`, `ChooseRoot`):
  sums of squares and measured times, replaced by any choice;
- the rounding of `float` and `double`; the `char` width of `perSize`; unsigned keys except
  in the mutant `BucketUnsigned`;
- the capacity of the node vector (`memoryLayout/node_array.h`): it grows by a quarter until
  there is room, which ends from 4 nodes on, and the least the code makes is 16;
- `DPLeaf` for external leaves.

Next: proofs of `PointsKept` and `LeavesFit` in `Construction`.
