CONSTANTS
  Key = {1, 2, 3, 4, 5}
  One = 1
  MAX = 9
  Cap = 3
  MaxBlockNum = 2
  Recycled <- RecycledBlocks
  Copies = 1
  Erasing = "any"
SPECIFICATION Spec
PROPERTIES
  KeepsItsKeys
CHECK_DEADLOCK FALSE
