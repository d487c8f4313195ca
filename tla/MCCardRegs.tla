----------------------------- MODULE MCCardRegs ---------------------------
(* Two programs on one card, for TLC. *)
EXTENDS CardRegs

CONSTANTS p1, p2

TwoPrograms == {p1, p2}
OwnBits     == [p \in TwoPrograms |-> IF p = p1 THEN {0, 1} ELSE {2}]
SomeValues  == {{0, 2}, {1}}

(* Below, at and above the limits; bytes are two bits, words six. *)
SomeAvgs   == {-1, 3, 9}
SomeTrigs  == {-3, 2, 7}
SomeCalibs == {<<5, -3>>, <<20, 9>>, <<-1, -20>>}
SomeRanges == {<<3, 4>>, <<60, 8>>, <<0, 0>>}
SomeDna    == <<7, 0, 1, 2>>
TwoShifts  == {<<4, 5, 9>>, <<1, 0, 1>>}

=============================================================================
