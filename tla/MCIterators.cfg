CONSTANTS
  Key = {1, 2, 3}
  Leaves = 3
  Cap = 2
  MaxBlockNum = 3
  Copies = 2
  MaxPoints = 3
  Odd = {}
  Stray = 127
SPECIFICATION Spec
INVARIANTS
  TypeOK
  EndIsRecognized
  CountIsRight
PROPERTIES
  Walks
