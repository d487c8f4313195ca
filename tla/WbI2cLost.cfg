SPECIFICATION Spec
CONSTANTS
  Addrs <- ThreeAddrs
  Sweep <- UpperTwo
  Chips <- TwoChips
  MaxBytes = 2
  MaxLosses = 1
  MaxKills = 0
INVARIANTS
  LossReported
