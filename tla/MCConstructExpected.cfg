SPECIFICATION Spec
CONSTANTS
  MaxKeyNum = 3
  OffsetBits = 2
  Key <- MCKey
  InitSets <- MCThree
  InsertSets <- MCBetween
  RootChildren = 2
  MinChild = 3
  PerChild = 1
  HisMaxChild = 3
  BSMaxChild = 6
  BlockCap = 6
  MaxBlockNum = 1
  Threshold = 6
  InnerTime <- MCInnerTime
  NodeSpace = 1
  SearchTime <- MCLongSearch
  MoveTime = 1
  BlockSpace = 2
  DBLMAX = 10000
  StackSize = 6
INVARIANTS
  InitPointsKept
