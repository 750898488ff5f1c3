---------------------------- MODULE EmptyBlocks ----------------------------
(***************************************************************************)
(* The list of empty memory blocks of the data array (memoryLayout/        *)
(* data_array.h, empty_block.h) and the operations on it.                  *)
(*                                                                         *)
(* emptyBlocks[i].m_block of the code, the std::set of the left indexes of *)
(* the empty blocks of width i, is the set of the records of width i in a  *)
(* set of blocks; nothing is ever kept under width 0.  Operations that the *)
(* code performs in place are operators from the old set to the set of the *)
(* possible new ones, one at most for each of them.                        *)
(***************************************************************************)
EXTENDS Integers

CONSTANT MaxBlockNum   \* kMaxBlockNum: the most data blocks one leaf manages

(* The constructor of DataArrayStructure rejects maxBlockNum <= 0.         *)
ASSUME MaxBlockNumAssumption == MaxBlockNum \in Nat \ {0}

Block == [left : Nat, width : 1..MaxBlockNum]

(* Two ranges of m and n cells that begin at a and b have none in common.  *)
Apart(a, m, b, n) == a + m <= b \/ b + n <= a

(* Mutation: the widest blocks start at left, where the rest is, too.      *)
EmptyTilesRestBelow(left, len) ==
  LET rest == len % MaxBlockNum
      wide == [left  : {left + k * MaxBlockNum :
                          k \in 0..(len \div MaxBlockNum) - 1},
               width : {MaxBlockNum}]
  IN wide \cup (IF rest > 0 THEN {[left |-> left, width |-> rest]} ELSE {})

(* Mutation: a rest of no cells is kept as a block.                        *)
EmptyTilesZeroRest(left, len) ==
  LET rest == len % MaxBlockNum
      wide == [left  : {left + rest + k * MaxBlockNum :
                          k \in 0..(len \div MaxBlockNum) - 1},
               width : {MaxBlockNum}]
  IN wide \cup {[left |-> left, width |-> rest]}

(* The blocks AddEmptyMemoryBlock(left, len) inserts: as many of the widest*)
(* kind as fit, filled from the right end, and what is left over at left.  *)
EmptyTiles(left, len) ==
  LET rest == len % MaxBlockNum
      wide == [left  : {left + rest + k * MaxBlockNum :
                          k \in 0..(len \div MaxBlockNum) - 1},
               width : {MaxBlockNum}]
  IN wide \cup (IF rest > 0 THEN {[left |-> left, width |-> rest]} ELSE {})

Fits(blocks, n) == {b \in blocks : b.width >= n}

(* The narrowest block that fits, the leftmost among those.                *)
IsBestFit(b, blocks, n) ==
  /\ b \in Fits(blocks, n)
  /\ \A c \in Fits(blocks, n) :
       \/ b.width < c.width
       \/ b.width = c.width /\ b.left <= c.left

(* Mutation: the remainder goes back from the start of the block on.       *)
AllocateSingleAtLeft(blocks, n) ==
  {[left   |-> b.left,
    blocks |-> (blocks \ {b}) \cup EmptyTiles(b.left, b.width - n)] :
     b \in {c \in blocks : IsBestFit(c, blocks, n)}}

(* Mutation: the block that is handed out stays on the list.               *)
AllocateSingleKeeps(blocks, n) ==
  {[left   |-> b.left,
    blocks |-> blocks \cup EmptyTiles(b.left + n, b.width - n)] :
     b \in {c \in blocks : IsBestFit(c, blocks, n)}}

(* AllocateSingleMemory: the best fit gives its first n cells away and the *)
(* remainder goes back.  The result is the set of the possible outcomes,   *)
(* empty when no empty block fits.                                         *)
AllocateSingleMemory(blocks, n) ==
  {[left   |-> b.left,
    blocks |-> (blocks \ {b}) \cup EmptyTiles(b.left + n, b.width - n)] :
     b \in {c \in blocks : IsBestFit(c, blocks, n)}}

(* Mutation: the array does not grow.                                      *)
AllocateNoGrowth(blocks, size, n) ==
  IF Fits(blocks, n) # {}
  THEN {[left |-> r.left, blocks |-> r.blocks, size |-> size] :
          r \in AllocateSingleMemory(blocks, n)}
  ELSE {[left |-> -1, blocks |-> blocks, size |-> size]}

(* Mutation: the new cells are registered, the vector is not resized.      *)
AllocateNoResize(blocks, size, n) ==
  LET grown == blocks \cup EmptyTiles(size, size \div 4)
  IN {[left |-> r.left, blocks |-> r.blocks, size |-> size] :
        r \in AllocateSingleMemory(
                IF Fits(blocks, n) # {} THEN blocks ELSE grown, n)}

(* AllocateMemory: when nothing fits the array grows by a quarter, the new *)
(* cells become empty blocks, and the allocation is tried once more.  It   *)
(* returns -1 when that fails too.                                         *)
AllocateMemory(blocks, size, n) ==
  LET more  == size \div 4
      grown == blocks \cup EmptyTiles(size, more)
  IN IF Fits(blocks, n) # {}
     THEN {[left |-> r.left, blocks |-> r.blocks, size |-> size] :
             r \in AllocateSingleMemory(blocks, n)}
     ELSE IF Fits(grown, n) # {}
     THEN {[left |-> r.left, blocks |-> r.blocks, size |-> size + more] :
             r \in AllocateSingleMemory(grown, n)}
     ELSE {[left |-> -1, blocks |-> grown, size |-> size + more]}

Covers(b, x) == b.left <= x /\ x < b.left + b.width

(* Where the search of ReleaseMemory for an empty block that starts at the *)
(* end of the range stops: the first cell from `from' on that is not empty.*)
RunEnds(blocks, size, from) ==
  {e \in from..size :
     /\ \A b \in blocks : ~ Covers(b, e)
     /\ \A x \in from..e - 1 : \E b \in blocks : Covers(b, x)}

(* ReleaseMemory: the range and every empty block in the run to its right  *)
(* are cut up again as one range.  Empty blocks to its left are not joined.*)
ReleaseMemory(blocks, size, left, n) ==
  {{b \in blocks : ~ (left + n <= b.left /\ b.left < e)}
     \cup EmptyTiles(left, e - left) : e \in RunEnds(blocks, size, left + n)}

Larger(a, b) == IF a > b THEN a ELSE b

(* Mutation: an empty block across the end is kept as it is.               *)
ReleaseKeepsAcross(blocks, size, needed) ==
  [size   |-> IF needed < size THEN needed ELSE size,
   blocks |-> {b \in blocks : b.left < needed}]

(* ReleaseUselessMemory: the array is cut off at `needed' cells, with the  *)
(* empty blocks behind; of an empty block across the end the part before   *)
(* it remains.                                                             *)
ReleaseUselessMemory(blocks, size, needed) ==
  LET end    == IF needed < size THEN needed ELSE size
      kept   == {b \in blocks : b.left < needed}
      across == {b \in kept : b.left + b.width > end}
  IN [size   |-> end,
      blocks |-> (kept \ across)
                   \cup UNION {EmptyTiles(b.left, end - b.left) : b \in across}]
============================================================================
