SPECIFICATION Spec
CONSTANTS
  p1 = p1
  p2 = p2
  v1 = v1
  v2 = v2
  Procs <- TwoPrograms
  Vals <- TwoVals
  NumRegs = 4
  WordSize = 4
  PageWords = 2
  MaxWords = 2
  Lens <- FiveBytes
  Bar <- LastWindow
INVARIANTS
  TypeOK
  OnTarget
  FaultsOnlyOffCard
  WholeTransfer
PROPERTIES
  Implements
CHECK_DEADLOCK FALSE
