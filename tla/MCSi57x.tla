------------------------------ MODULE MCSi57x -----------------------------
(* Both parts the driver knows, with coarser registers, for TLC. *)
EXTENDS Si57x

(* The factory settings keep the code's first two bytes: dividers 4 and 8. *)
TwoParts ==
  {[fout0 |-> 155, raw |-> <<1, 194, 3, 2, 2, 3>>, fixed |-> FALSE],
   [fout0 |-> 156, raw |-> <<1, 194, 3, 3, 0, 1>>, fixed |-> TRUE]}

(* All of the parts' range, and two frequencies in the gaps above it. *)
EveryMHz == (10 .. 280) \cup {950, 5000}

(* The ends of the range, two in it, and one in a gap. *)
SomeMHz == {10, 100, 156, 280, 950}

(* What the stack may hold. *)
ZeroOrTwo == {0, 2}

=============================================================================
