---------------------------- MODULE CFArrayLeaf ----------------------------
(***************************************************************************)
(* A cache-friendly array leaf (nodes/leafNode/cfarray_type.h, class       *)
(* CFArrayType) and the data blocks it manages: where a key is put, how    *)
(* full blocks overflow into the next one, are rebalanced or joined by one *)
(* more, how keys are found and erased.                                    *)
(*                                                                         *)
(* Where in the data array the blocks are is the matter of module DataArray*)
(* and left out: an allocation succeeds.  Values are left out as well.     *)
(* Blocks, slots and slot keys are numbered from 1: slotkeys[b] separates  *)
(* block b from block b + 1.                                               *)
(***************************************************************************)
EXTENDS Integers, Sequences, FiniteSetsExt

CONSTANTS
  Key,          \* the keys, integers in the finest unit keys differ by
  One,          \* the 1 that is added to a key here and there, in that unit
  MAX,          \* (KeyType)DBL_MAX, the key of an empty slot
  Cap,          \* kMaxBlockCapacity, data points in a block
  MaxBlockNum,  \* kMaxBlockNum, blocks of a leaf
  Recycled,     \* what a block may hold that another leaf has given back
  Copies,       \* bound: points of one key stored at a time
  Erasing       \* the keys that are erased: "none", "clear" ones, or "any"

ASSUME KeyAssumption == Key \subseteq Nat \ {0} /\ \A k \in Key : k + One < MAX
ASSUME SizesAssumption ==
  /\ {One, MAX, Cap} \subseteq Nat \ {0}
  /\ MaxBlockNum \in Nat \ {0, 1}
ASSUME ErasingAssumption == Erasing \in {"none", "clear", "any"}
ASSUME RecycledAssumption == Recycled \subseteq [1..Cap -> Key \cup {MAX}]

VARIABLES
  leaf,      \* num: the block count of flagNumber; slotkeys; perSize; slots
  refused    \* Insert has returned false: CARMI::Split takes the leaf away

vars == <<leaf, refused>>

EmptyBlock == [i \in 1..Cap |-> MAX]

(* The default constructor.  Blocks that are not the leaf's are empty here.*)
NewLeaf ==
  [num      |-> 0,
   slotkeys |-> [b \in 1..MaxBlockNum - 1 |-> MAX],
   perSize  |-> [b \in 1..MaxBlockNum |-> 0],
   slots    |-> [b \in 1..MaxBlockNum |-> EmptyBlock]]

----------------------------------------------------------------------------
(* The helpers, as functions of the leaf.                                  *)

CeilDiv(m, n) == (m + n - 1) \div n

(* std::lower_bound over positions 1..n: the one behind those `before' the *)
(* value, if these come first; where the halving ends up in any case.      *)
LowerBound(n, before) ==
  LET bound[range \in (1..n + 1) \X (0..n)] ==
        LET first  == range[1]
            len    == range[2]
            middle == first + len \div 2
        IN IF len = 0 THEN first
           ELSE IF middle \in before THEN bound[<<middle + 1, (len - 1) \div 2>>]
           ELSE bound[<<first, len \div 2>>]
  IN bound[<<1, n>>]

(* Search: the first block whose separator is larger than the key.         *)
Search(l, k) ==
  LET n == Max({0, l.num - 1})
  IN LowerBound(n, {b \in 1..n : l.slotkeys[b] <= k})

(* Mutation: the last of the slots is not compared.                        *)
SearchAllButLast(block, k, size) ==
  LET n == Max({0, size - 1}) IN LowerBound(n, {i \in 1..n : block[i] < k})

(* SearchDataBlock: the first of `size' slots that does not precede k.     *)
SearchDataBlock(block, k, size) ==
  LowerBound(size, {i \in 1..size : block[i] < k})

(* Find: the position after the last point stands for not found.           *)
Found(l, k) ==
  /\ l.num > 0
  /\ LET b == Search(l, k)
         i == SearchDataBlock(l.slots[b], k, l.perSize[b])
     IN i <= l.perSize[b] /\ l.slots[b][i] = k

(* Mutation: a key that is not the least of its block becomes its separator*)
SlotkeysLast(l, k, b) ==
  [l.slotkeys EXCEPT ![Max({1, b - 1})] = IF b > 1 THEN k ELSE k + One]

(* The separator before the block, or behind it if it is the first, takes  *)
(* a key that is put into the block into account.                          *)
SlotkeysWith(l, k, b) ==
  IF b > 1
  THEN [l.slotkeys EXCEPT ![b - 1] =
          IF l.perSize[b] = 0 THEN k ELSE Min({@, k})]
  ELSE [l.slotkeys EXCEPT ![1] =
          IF l.perSize[b] = 0 \/ k > @ THEN k + One ELSE @]

(* InsertDataBlock, for a block that is not full: the later points move up *)
(* by one.                                                                 *)
InsertDataBlock(l, k, b) ==
  LET size  == l.perSize[b]
      block == l.slots[b]
      at    == SearchDataBlock(block, k, size)
      moved == [i \in 1..Cap |->
                  IF i = at THEN k
                  ELSE IF at < i /\ i <= size + 1 THEN block[i - 1]
                  ELSE block[i]]
  IN [l EXCEPT !.slots[b] = moved, !.perSize[b] = size + 1,
               !.slotkeys = SlotkeysWith(l, k, b)]

(* Mutation: a block is full when it holds more than it can.               *)
IsOverfull(l, b) == l.perSize[b] > Cap

IsFull(l, b) == l.perSize[b] = Cap

(* The slots of a block that are not empty are appended to points.         *)
Extracted(points, block) ==
  LET upTo[i \in 0..Cap] ==
        IF i = 0 THEN points
        ELSE IF block[i] = MAX THEN upTo[i - 1] ELSE Append(upTo[i - 1], block[i])
  IN upTo[Cap]

(* ExtractDataset: every slot that is not empty, whatever perSize says.    *)
ExtractDataset(l) ==
  LET upTo[b \in 0..l.num] ==
        IF b = 0 THEN <<>> ELSE Extracted(upTo[b - 1], l.slots[b])
  IN upTo[l.num]

LastBefore(points, at, b) ==
  points[Max({j \in 1..Len(points) : at[j] <= b})]

(* Mutation: nothing separates an empty block from the one before it.      *)
FreshUnseparated(points, at, filled) ==
  [b \in 1..MaxBlockNum - 1 |->
     IF b < at[Len(points)] /\ filled.perSize[b + 1] > 0
     THEN filled.slots[b + 1][1] ELSE MAX]

(* The separators are made anew: the first key of the block behind, or, if *)
(* that block is empty, one more than the last key before it.              *)
FreshSlotkeys(points, at, filled) ==
  LET used == at[Len(points)]
  IN [b \in 1..MaxBlockNum - 1 |->
        IF b < used /\ filled.perSize[b + 1] > 0 THEN filled.slots[b + 1][1]
        ELSE IF b < used \/ b = 1 THEN LastBefore(points, at, b) + One
        ELSE MAX]

(* The j-th point is put into block at[j], of fresh blocks.                *)
Filled(points, at) ==
  LET filled[j \in 0..Len(points)] ==
        IF j = 0 THEN NewLeaf ELSE InsertDataBlock(filled[j - 1], points[j], at[j])
  IN filled[Len(points)]

(* StoreData, where the points are given their blocks.                     *)
Store(points, at) ==
  LET size   == Len(points)
      filled == Filled(points, at)
  IN IF size = 0 THEN NewLeaf
     ELSE [filled EXCEPT !.num = at[size],
                         !.slotkeys = FreshSlotkeys(points, at, filled)]

(* Outside of the init mode the points are dealt out evenly, in order, to  *)
(* at most `needed' blocks.                                                *)
StoreData(points, needed) ==
  LET avg == Min({Cap, CeilDiv(Len(points), needed)})
  IN Store(points, [j \in 1..Len(points) |-> (j - 1) \div avg + 1])

CalNeededBlockNum(size) == Min({CeilDiv(size, Cap), MaxBlockNum})

Rebalance(l) == StoreData(ExtractDataset(l), l.num)

(* Mutation: the leaf gets no block more than it has.                      *)
ExpandByNone(l) == StoreData(ExtractDataset(l), l.num)

Expand(l) == StoreData(ExtractDataset(l), l.num + 1)

(* InsertNextBlock, when block b is full and the next one is not.          *)
InsertNextBlock(l, k, b) ==
  LET block == l.slots[b]
      over  == InsertDataBlock(l, block[Cap], b + 1)
      at    == 1 + Cardinality({i \in 1..Cap - 1 : block[i] <= k})
      keys  == IF at = 1 /\ b > 1 THEN [over.slotkeys EXCEPT ![b - 1] = k]
               ELSE over.slotkeys
      moved == [i \in 1..Cap |-> IF i < at THEN block[i]
                                 ELSE IF i = at THEN k ELSE block[i - 1]]
      after == IF k >= block[Cap] THEN InsertDataBlock(l, k, b + 1)
               ELSE [over EXCEPT !.slots[b] = moved, !.slotkeys = keys]
  IN [after EXCEPT !.slotkeys[b] = after.slots[b + 1][1]]

----------------------------------------------------------------------------
(* The ways the prefetch model may predict n points in order into blocks,  *)
(* the first of which is the leaf's first one.                             *)
Predictions(n) ==
  {at \in [1..n -> 1..MaxBlockNum] :
     /\ n > 0 => at[1] = 1
     /\ \A j \in 1..n - 1 : at[j] <= at[j + 1]
     /\ \A j \in 1..n - Cap : at[j] < at[j + Cap]}

Sortings(points) ==
  {s \in [1..Cardinality(points) -> points] :
     \A j \in 1..Cardinality(points) - 1 : s[j] < s[j + 1]}

(* A child of a split is made by StoreData from sorted points, or left     *)
(* without blocks; a leaf of the construction is made from sorted points   *)
(* that StoreData, in the init mode, puts where they are predicted.        *)
Init ==
  /\ \E points \in SUBSET Key : \E sorted \in Sortings(points) :
       LET n == Len(sorted)
       IN /\ n <= Cap * MaxBlockNum
          /\ \/ leaf = StoreData(sorted, CalNeededBlockNum(n))
             \/ \E at \in Predictions(n) : leaf = Store(sorted, at)
  /\ refused = FALSE

(* The points of the key k, as far as the sizes of the blocks go.          *)
Stored(l, k) ==
  Cardinality({p \in (1..l.num) \X (1..Cap) :
                 p[2] <= l.perSize[p[1]] /\ l.slots[p[1]][p[2]] = k})

(* A leaf that has refused a point is split: nothing is done with it then. *)
Open(k) == ~ refused /\ Stored(leaf, k) < Copies

(* Insert, case 1: the first block.  Only its first slot is written.       *)
InsertFirst(k) ==
  /\ Open(k) /\ leaf.num = 0
  /\ \E block \in Recycled :
       leaf' = [leaf EXCEPT !.num = 1, !.slotkeys[1] = k + One,
                            !.perSize[1] = 1,
                            !.slots[1] = [block EXCEPT ![1] = k]]
  /\ UNCHANGED refused

(* Case 2: the block that Search names has room.                           *)
InsertHere(k) ==
  LET b == Search(leaf, k)
  IN /\ Open(k) /\ leaf.num > 0 /\ ~ IsFull(leaf, b)
     /\ leaf' = InsertDataBlock(leaf, k, b)
     /\ UNCHANGED refused

(* Case 3: the next block has room.                                        *)
InsertNext(k) ==
  LET b == Search(leaf, k)
  IN /\ Open(k) /\ leaf.num > 0 /\ IsFull(leaf, b)
     /\ b < leaf.num /\ ~ IsFull(leaf, b + 1)
     /\ leaf' = InsertNextBlock(leaf, k, b)
     /\ UNCHANGED refused

Crowded(k) ==
  LET b == Search(leaf, k)
  IN leaf.num > 0 /\ IsFull(leaf, b) /\ (b < leaf.num => IsFull(leaf, b + 1))

GetDataNum(l) ==
  LET cnt[b \in 0..l.num] == IF b = 0 THEN 0 ELSE cnt[b - 1] + l.perSize[b]
  IN cnt[l.num]

(* What Rebalance and Expand are followed by: another try, which fails if  *)
(* the blocks have come out full.                                          *)
InsertAgain(l, k) ==
  LET b == Search(l, k)
  IN /\ leaf' = IF IsFull(l, b) THEN l ELSE InsertDataBlock(l, k, b)
     /\ refused' = IsFull(l, b)

(* Case 4.1: other blocks of the leaf have room.                           *)
InsertRebalance(k) ==
  /\ Open(k) /\ Crowded(k)
  /\ GetDataNum(leaf) < leaf.num * (Cap - 1)
  /\ InsertAgain(Rebalance(leaf), k)

(* Case 4.3: the leaf takes one block more.                                *)
InsertExpand(k) ==
  /\ Open(k) /\ Crowded(k)
  /\ GetDataNum(leaf) >= leaf.num * (Cap - 1)
  /\ leaf.num < MaxBlockNum
  /\ InsertAgain(Expand(leaf), k)

(* Case 4.2: it cannot.                                                    *)
InsertRefused(k) ==
  /\ Open(k) /\ Crowded(k)
  /\ GetDataNum(leaf) >= leaf.num * (Cap - 1)
  /\ leaf.num = MaxBlockNum
  /\ refused' = TRUE
  /\ UNCHANGED leaf

(* Mutation: perSize is not lowered.                                       *)
EraseKeepsSize(l, k, b, at) ==
  [l EXCEPT !.slots[b] = [i \in 1..Cap |-> IF at <= i /\ i < Cap
                                           THEN l.slots[b][i + 1]
                                           ELSE l.slots[b][i]]]

(* Delete, in closed form.  The loop clears a slot with the key and lowers *)
(* perSize, its own bound, in one go: of m points with the key it clears   *)
(* no more than half of what the block has from the first of them on.  If  *)
(* another point follows below the bound, the slots from there to the end  *)
(* of the block move down; nothing is cleared behind them.                 *)
EraseInBlock(l, k, b, at) ==
  LET block == l.slots[b]
      size  == l.perSize[b]
      same  == {i \in at..Cap : \A j \in at..i : block[j] = k}
      t     == Min({Cardinality(same), (size - at + 2) \div 2})
      clear == [i \in 1..Cap |-> IF at <= i /\ i < at + t THEN MAX ELSE block[i]]
      down  == [i \in 1..Cap |-> IF at <= i /\ i + t <= Cap THEN clear[i + t]
                                 ELSE clear[i]]
  IN [l EXCEPT !.perSize[b] = size - t,
               !.slots[b] = IF t > 0 /\ at + t <= size - t THEN down ELSE clear]

(* The key was in the last slot of a full block: the loop goes on with the *)
(* next block, meets another key there and moves the slots of the old block*)
(* down by one, the first of them before the start of the block.           *)
EraseAtEnd(l, b) ==
  LET block == l.slots[b]
      down  == [i \in 1..Cap |-> IF i + 1 < Cap THEN block[i + 1] ELSE MAX]
      less  == [l EXCEPT !.perSize[b] = Cap - 1, !.slots[b] = down]
  IN IF b > 1 THEN [less EXCEPT !.slots[b - 1][Cap] = block[1]] ELSE less

(* Where neither loop goes wrong: there is one point with the key, and it  *)
(* is the last one of its block, or the block is not full and two points   *)
(* or more follow it.                                                      *)
ClearToErase(l, k, b, at) ==
  /\ Stored(l, k) = 1
  /\ IF l.perSize[b] = Cap THEN at = Cap /\ b = l.num
     ELSE at # l.perSize[b] - 1

Erase(k) ==
  LET b  == Search(leaf, k)
      at == SearchDataBlock(leaf.slots[b], k, leaf.perSize[b])
  IN /\ Erasing # "none" /\ ~ refused /\ Found(leaf, k)
     /\ Erasing = "any" \/ ClearToErase(leaf, k, b, at)
     /\ leaf' = IF at = Cap /\ b < leaf.num /\ leaf.perSize[b + 1] > 0
                THEN EraseAtEnd(leaf, b)
                ELSE EraseInBlock(leaf, k, b, at)
     /\ UNCHANGED refused

Next ==
  \E k \in Key :
    \/ InsertFirst(k)
    \/ InsertHere(k)
    \/ InsertNext(k)
    \/ InsertRebalance(k)
    \/ InsertExpand(k)
    \/ InsertRefused(k)
    \/ Erase(k)

Spec == Init /\ [][Next]_vars

----------------------------------------------------------------------------
TypeOK ==
  /\ leaf \in [num      : 0..MaxBlockNum,
               slotkeys : [1..MaxBlockNum - 1 -> 0..MAX],
               perSize  : [1..MaxBlockNum -> 0..Cap],
               slots    : [1..MaxBlockNum -> [1..Cap -> Key \cup {MAX}]]]
  /\ refused \in BOOLEAN

(* Iterators walk the blocks and their slots in turn and never sort: the   *)
(* keys are in order within each block and from block to block.            *)
KeysInOrder ==
  \A b, c \in 1..leaf.num :
    \A i \in 1..leaf.perSize[b], j \in 1..leaf.perSize[c] :
      b < c \/ (b = c /\ i <= j) => leaf.slots[b][i] <= leaf.slots[c][j]

(* std::lower_bound over the separators requires them to be sorted.        *)
SeparatorsSorted ==
  \A b, c \in 1..leaf.num - 1 : b <= c => leaf.slotkeys[b] <= leaf.slotkeys[c]

(* Search leads to every point: no insertion, overflow, rebalance or erase *)
(* leaves a point in a block its key is not looked up in.                  *)
StoredIsFound == \A k \in Key : Stored(leaf, k) > 0 => Found(leaf, k)

(* A leaf refuses a point, and is split for it, only when it cannot have   *)
(* another block (Insert, case 4.2; after the other cases "there are some  *)
(* empty positions for the inserted data point").                          *)
RefusedOnlyAtLimit == refused => leaf.num = MaxBlockNum

(* The leaf keeps what it is given and gives back nothing else: it is a bag*)
(* of keys.  A point that is refused disturbs none of the others.          *)
HeldKeys == [k \in Key |-> Stored(leaf, k)]
Keys == INSTANCE KeyStore WITH held <- HeldKeys
KeepsItsKeys == Keys!Spec /\ [][refused' => UNCHANGED HeldKeys]_vars
============================================================================
