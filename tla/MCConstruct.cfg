SPECIFICATION Spec
CONSTANTS
  MaxKeyNum = 3
  OffsetBits = 2
  Key <- MCKey
  InitSets <- MCInitSets
  InsertSets <- MCInsertSets
  RootChildren = 3
  MinChild = 3
  PerChild = 1
  HisMaxChild = 3
  BSMaxChild = 6
  BlockCap = 2
  MaxBlockNum = 2
  Threshold = 6
  InnerTime <- MCInnerTime
  NodeSpace = 1
  SearchTime <- MCSearchTime
  MoveTime = 1
  BlockSpace = 2
  DBLMAX = 10000
  StackSize = 6
INVARIANTS
  TypeOK
  PointsAreBelow
  LeavesInOrder
  PointsKept
  LeavesFit
