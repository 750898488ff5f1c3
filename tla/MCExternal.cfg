CONSTANTS
  Key = {1, 2, 3, 5, 9, 10}
  MaxLeafSize = 3
  Junk = 4
  Log2 <- MCLog2
  RootLeaves = 2
  Children = 2
  MaxNodes = 6
  Odd = {}
SPECIFICATION Spec
INVARIANTS
  TypeOK
  LeavesShareRecords
PROPERTIES
  Walks
  SplitMakesRoom
