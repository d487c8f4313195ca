---------------------------- MODULE MCSpiChips ----------------------------
(* An AD9510 and an ISLA216P on the two selects of one core, for TLC, with *)
(* all of their registers.                                                 *)
EXTENDS SpiChips

TwoLines  == {0, 1}
OneClock  == {0}
OneAdc    == {1}
Registers == [l \in TwoLines |-> IF l = 0 THEN AdRegs ELSE IslaRegs \cup {0}]

(* Every register holds something else, and nothing the drivers write; the *)
(* clock divider is held in reset, as a program that was killed inside     *)
(* chip_ad9510_soft_reset leaves it.                                       *)
Different == [l \in TwoLines |-> [r \in Registers[l] |-> (r + (IF l = 0 THEN 62 ELSE 30)) % 256]]

SomeRanges == {<<0, 100>>, <<88, 1>>, <<0, 0>>}
SomeMasks  == {{"out", "adc"}, {"cal"}, {"dut", "adc", "temp", "out", "cal", "test"}}
SomeModes  == {0, 129, 7}

=============================================================================
