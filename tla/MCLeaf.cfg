CONSTANTS
  Key = {1, 2, 3, 4, 5, 6, 7}
  One = 1
  MAX = 9
  Cap = 4
  MaxBlockNum = 3
  Recycled <- RecycledBlocks
  Copies = 2
  Erasing = "clear"
SPECIFICATION Spec
INVARIANTS
  TypeOK
  KeysInOrder
  SeparatorsSorted
  StoredIsFound
  RefusedOnlyAtLimit
PROPERTIES
  KeepsItsKeys
CHECK_DEADLOCK FALSE
