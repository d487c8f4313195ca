SPECIFICATION Spec
CONSTANTS
  p1 = p1
  p2 = p2
  v1 = v1
  v2 = v2
  Procs <- OneProgram
  Vals <- TwoVals
  NumRegs = 4
  WordSize = 4
  PageWords = 2
  MaxWords = 1
  Lens <- OneByte
  Bar <- LastWindow
INVARIANTS
  ReturnsBytesMoved
CHECK_DEADLOCK FALSE
