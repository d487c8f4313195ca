SPECIFICATION BoardFairSpec
CONSTANTS
  NumSlots = 9
  Images <- NineSlots
  Roots <- SomeRoots
  AddrMod = 32
  IdMod = 16
  MaxFrames = 10
  Paths <- UpToThree
INVARIANTS
  LookupExact
  AddressInBridge
  HungOnce
  OnlyCyclesOverflow
  OwnCores
  GapMovesAll
PROPERTIES
  DiscoveryEnds
CHECK_DEADLOCK FALSE
