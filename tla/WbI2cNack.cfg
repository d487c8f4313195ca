SPECIFICATION Spec
CONSTANTS
  Addrs <- ThreeAddrs
  Sweep <- UpperTwo
  Chips <- TwoChips
  MaxBytes = 2
  MaxLosses = 0
  MaxKills = 0
INVARIANTS
  NackReported
