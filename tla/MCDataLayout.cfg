CONSTANTS
  Leaf = {1, 2, 3}
  Prefetched = 3
  Between = {0, 3}
  MaxBlockNum = 2
  InitSize = 12
  MaxDataSize = 15
  Reserved = 1
  Inserts = TRUE
  Spill = FALSE
  Border = TRUE
  MaxServed = 3
SPECIFICATION LayoutSpec
INVARIANTS
  LayoutTypeOK
  LeavesApart
  LeafBlocksNotEmpty
  EmptyBlocksApart
  NothingCutOff
CHECK_DEADLOCK FALSE
