SPECIFICATION FairSpec
CONSTANTS
  Lines <- TwoLines
  ChipRegs <- Registers
  Clocks <- OneClock
  Adcs <- OneAdc
  PowerOn <- Different
  Ranges <- SomeRanges
  Masks <- SomeMasks
  TestModes <- SomeModes
  MaxJobs = 2
  MaxKills = 1
INVARIANTS
  UploadExact
  NothingLeftOut
  DownloadExact
  KillCostsOneAccess
PROPERTIES
  ShiftUndisturbed
  WholeAccess
  PatternsBeforeMode
  CallReturns
CHECK_DEADLOCK FALSE
