------------------------------ MODULE MCWbI2c -----------------------------
(* Small instances of WbI2c for TLC. *)
EXTENDS WbI2c

(* Address 0 is never probed; a chip answers at 2, and one outside the sweep at 0. *)
ThreeAddrs == 0 .. 2
UpperTwo == {1, 2}
TwoChips == {0, 2}

=============================================================================
