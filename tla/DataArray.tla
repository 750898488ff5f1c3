----------------------------- MODULE DataArray -----------------------------
(***************************************************************************)
(* The data array of CARMI (memoryLayout/data_array.h, empty_block.h): one *)
(* vector of fixed-size data blocks from which every CF array leaf takes a *)
(* contiguous range, and the list of empty memory blocks, kept by width,   *)
(* from which ranges are handed out.                                       *)
(*                                                                         *)
(* The leaves are those of nodes/leafNode/cfarray_type.h, of which this    *)
(* module keeps only the range of blocks (m_left and the block count held  *)
(* in flagNumber): each action is one call of a leaf operation that takes, *)
(* exchanges or gives up blocks.  Nothing runs concurrently.               *)
(***************************************************************************)
EXTENDS EmptyBlocks

CONSTANTS
  Leaf,         \* the slots of the node array that may hold a CF array leaf
  InitSize,     \* the number of data blocks the constructor creates
  MaxDataSize   \* bound: the array is not grown beyond this many blocks

(* The constructor makes max(64, ...) blocks and kMaxBlockNum is at most   *)
(* 48 / (sizeof(KeyType) + 1) + 1, which is 10 for 4-byte keys: a quarter  *)
(* of the array, which is what one growth adds, always holds a widest leaf.*)
ASSUME InitSizeAssumption == InitSize \in Nat /\ InitSize \div 4 >= MaxBlockNum

ASSUME MaxDataSizeAssumption == MaxDataSize \in Nat

VARIABLES
  dataSize,      \* dataArray.size()
  emptyBlocks,   \* the empty memory blocks, as records [left, width]
  usedDatasize,  \* the index of the last block ever handed out, plus one
  leaf           \* leaf[l].left is m_left, leaf[l].num the leaf's block count

vars == <<dataSize, emptyBlocks, usedDatasize, leaf>>

NoBlocks == [left |-> -1, num |-> 0]    \* a default constructed leaf

----------------------------------------------------------------------------
Init ==
  /\ dataSize = InitSize
  /\ emptyBlocks = {}          \* the constructor registers no empty block
  /\ usedDatasize = 0
  /\ leaf = [l \in Leaf |-> NoBlocks]

HasRange(l) == leaf[l].num > 0 /\ leaf[l].left >= 0

(* A failed allocation leaves m_left at -1; the caller goes on to write    *)
(* dataArray[-1], so nothing is modelled of the leaf after it.             *)
Lost(l) == leaf[l].num > 0 /\ leaf[l].left < 0

(* An AllocateMemory(n) on the given empty blocks, for a leaf that keeps   *)
(* the first `kept' of the n blocks it is given.                           *)
Take(l, blocks, n, kept) ==
  \E r \in AllocateMemory(blocks, dataSize, n) :
    /\ r.size <= MaxDataSize
    /\ dataSize' = r.size
    /\ emptyBlocks' = r.blocks
    /\ usedDatasize' = Larger(usedDatasize, r.left + n)
    /\ leaf' = [leaf EXCEPT ![l] = [left |-> r.left, num |-> kept]]

(* CFArrayType::Insert on a leaf without blocks.                           *)
InsertFirst(l) ==
  /\ leaf[l].num = 0
  /\ Take(l, emptyBlocks, 1, 1)

(* CFArrayType::Init with data, on a leaf without blocks: the children of  *)
(* a split.  StoreData fills every block it asks for.                      *)
StoreNew(l, needed) ==
  /\ leaf[l].num = 0
  /\ Take(l, emptyBlocks, needed, needed)

(* Expand: StoreData gives the leaf's range back before it allocates the   *)
(* larger one.  Points are dealt out ceil(size / needed) to a block, so    *)
(* `actual', the number of blocks written and recorded, may be smaller     *)
(* than `needed': the blocks behind are then nobody's.                     *)
Expand(l, actual) ==
  LET needed == leaf[l].num + 1
  IN /\ HasRange(l)
     /\ leaf[l].num < MaxBlockNum
     /\ actual <= needed
     /\ \E released \in
          ReleaseMemory(emptyBlocks, dataSize, leaf[l].left, leaf[l].num) :
            Take(l, released, needed, actual)

(* Rebalance: StoreData keeps the range of a leaf that already has as many *)
(* blocks as it asks for, but records only those it writes.                *)
Rebalance(l, actual) ==
  /\ HasRange(l)
  /\ actual <= leaf[l].num
  /\ leaf' = [leaf EXCEPT ![l].num = actual]
  /\ UNCHANGED <<dataSize, emptyBlocks, usedDatasize>>

(* CARMI::Split of a leaf that refused a point: an inner node overwrites   *)
(* it, and its blocks are given back to nobody.  A leaf with few points to *)
(* a block may refuse one before it has MaxBlockNum blocks.  The children  *)
(* are leaves of their own.                                                *)
Split(l) ==
  /\ HasRange(l)
  /\ leaf' = [leaf EXCEPT ![l] = NoBlocks]
  /\ UNCHANGED <<dataSize, emptyBlocks, usedDatasize>>

Next ==
  \E l \in Leaf :
    \/ InsertFirst(l)
    \/ \E needed \in 1..MaxBlockNum : StoreNew(l, needed)
    \/ \E actual \in 1..MaxBlockNum : Expand(l, actual) \/ Rebalance(l, actual)
    \/ Split(l)

Spec == Init /\ [][Next]_vars

----------------------------------------------------------------------------
(* What the leaves rely on.                                                *)

TypeOK ==
  /\ dataSize \in Nat
  /\ emptyBlocks \subseteq Block
  /\ usedDatasize \in Nat
  /\ leaf \in [Leaf -> [left : Nat \cup {-1}, num : 0..MaxBlockNum]]

(* No data block belongs to two leaves: what one leaf writes another never *)
(* reads (the ranges handed out by AllocateMemory).                        *)
LeavesApart ==
  \A l, m \in Leaf :
    l # m /\ HasRange(l) /\ HasRange(m) =>
      Apart(leaf[l].left, leaf[l].num, leaf[m].left, leaf[m].num)

(* No data block of a leaf is on the list of empty blocks, to be handed    *)
(* out a second time (AddEmptyMemoryBlock and ReleaseMemory).              *)
LeafBlocksNotEmpty ==
  \A l \in Leaf : \A b \in emptyBlocks :
    HasRange(l) => Apart(leaf[l].left, leaf[l].num, b.left, b.width)

(* No cell is in two empty blocks, whatever was split, merged and grown    *)
(* (the std::sets of emptyBlocks, one per width).                          *)
EmptyBlocksApart ==
  \A b, c \in emptyBlocks : b # c => Apart(b.left, b.width, c.left, c.width)

(* Every empty block and every leaf lies inside the array, and leaves lie  *)
(* below usedDatasize, where the array is cut off after the construction.  *)
WithinArray ==
  /\ \A b \in emptyBlocks : b.left + b.width <= dataSize
  /\ \A l \in Leaf : HasRange(l) => leaf[l].left + leaf[l].num <= usedDatasize
  /\ usedDatasize <= dataSize

(* AllocateMemory never returns -1 to a leaf: the callers do not test for  *)
(* it, and write to dataArray[m_left] at once.                             *)
AllocationSucceeds == \A l \in Leaf : ~ Lost(l)
============================================================================
