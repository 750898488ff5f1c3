CONSTANTS
  Leaf = {l1, l2, l3}
  MaxBlockNum = 3
  InitSize = 12
  MaxDataSize = 22
SPECIFICATION Spec
SYMMETRY LeafSymmetry
INVARIANTS
  TypeOK
  LeavesApart
  LeafBlocksNotEmpty
  EmptyBlocksApart
  WithinArray
  AllocationSucceeds
CHECK_DEADLOCK FALSE
