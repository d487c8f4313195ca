---------------------------- MODULE MCXdmaBus -----------------------------
(* Small instances of XdmaBus for TLC. *)
EXTENDS XdmaBus

CONSTANTS p1, p2, v1, v2

OneProgram == {p1}
TwoPrograms == {p1, p2}
TwoVals == {v1, v2}

(* The card maps the last window only: window 0, which xdma_create_open     *)
(* asks for, fails.                                                        *)
LastWindow == {PageOf(NumRegs - 1)}

(* A word and a part of the next one. *)
FiveBytes == {5}

(* What the test programs ask for when they mean one register. *)
OneByte == {1}

=============================================================================
