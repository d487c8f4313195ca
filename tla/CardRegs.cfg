SPECIFICATION Spec
CONSTANTS
  p1 = p1
  p2 = p2
  Procs <- TwoPrograms
  Mine <- OwnBits
  PortValues <- SomeValues
  AvgTop = 3
  Fix = 8
  ByteMod = 4
  WordMod = 64
  Avgs <- SomeAvgs
  Trigs <- SomeTrigs
  Calibs <- SomeCalibs
  Ranges <- SomeRanges
  Dna <- SomeDna
  Shifts <- TwoShifts
  MaxCalls = 3
INVARIANTS
  PortKept
  AsAsked
CHECK_DEADLOCK FALSE
