SPECIFICATION Spec
CONSTANTS
  MaxKeyNum = 3
  OffsetBits = 2
  RootSegments = 5
  FetchSegments = 3
  MaxBlocks = 2
  Unit = 2
  Key <- MCRootKey
  InnerSets <- MCInnerSets
  RootSets <- MCRootSets
  RootBreaks <- MCBreaks
  Childs <- MCChilds
  RootChilds <- MCRootChilds
INVARIANTS
  TypeOK
  ChildrenInKeyOrder
  HistogramKeepsTable
  RegressionDivides
  LeavesFetchedApart
CHECK_DEADLOCK FALSE
