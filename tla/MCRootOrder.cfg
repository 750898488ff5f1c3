SPECIFICATION Spec
CONSTANTS
  MaxKeyNum = 3
  OffsetBits = 2
  RootSegments = 5
  FetchSegments = 3
  MaxBlocks = 2
  Unit = 2
  Key <- MCRootKey
  InnerSets <- MCNone
  RootSets <- MCUneven
  RootBreaks <- MCUnevenBreaks
  Childs <- MCChilds
  RootChilds <- MCThree
INVARIANTS
  RootInKeyOrder
CHECK_DEADLOCK FALSE
