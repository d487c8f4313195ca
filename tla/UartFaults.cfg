SPECIFICATION FairSpec
CONSTANTS
  Vals <- FourVals
  NumRegs = 2
  WordSize = 4
  Lens <- FiveBytes
  MaxWords = 2
  Base = 2
  Digits = 2
  MaxPauses = 1
  MaxDrops = 1
  MaxKills = 1
  MaxFaults = 2
INVARIANTS
  InStep
  WritesLand
PROPERTIES
  ReadsTrue
  TransferEnds
  Implements
