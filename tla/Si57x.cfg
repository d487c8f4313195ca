SPECIFICATION Spec
CONSTANTS
  FracBase = 4
  Parts <- TwoParts
  Freqs <- EveryMHz
  Uninit <- ZeroOrTwo
  MaxCalls = 4
  MaxFaults = 2
  FaultFreqs <- SomeMHz
INVARIANTS
  SmallestDivider
  TunedAsAsked
  SendSettles
PROPERTIES
  ChangesFrozen
CHECK_DEADLOCK FALSE
