SPECIFICATION FairSpec
CONSTANTS
  Addrs <- ThreeAddrs
  Sweep <- UpperTwo
  Chips <- TwoChips
  MaxBytes = 2
  MaxLosses = 1
  MaxKills = 1
INVARIANTS
  CleanTransfer
  FetchedAsRead
  NoOverrun
  LastAckReported
PROPERTIES
  SweepExact
  CallReturns
