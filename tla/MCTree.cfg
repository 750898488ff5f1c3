CONSTANTS
  Key = {1, 2, 3, 9}
  MAX = 10
  RootLeaves = 2
  Children = 3
  LeafMin = 2
  LeafCap = 3
  DataSizes = {2, 3}
  Copies = 1
  MaxNodes = 8
SPECIFICATION Spec
INVARIANTS
  TypeOK
  ForwardScan
  BackwardScan
PROPERTIES
  KeepsItsKeys
  InsertReturns
CHECK_DEADLOCK FALSE
