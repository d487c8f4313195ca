----------------------------- MODULE MCSdbRom -----------------------------
(* Small card memories for SdbRom and FmcBoards: seven slots whose         *)
(* contents cover tables of every shape, shared, nested, overlapping and   *)
(* cyclic, and the tables of boards in nine.                               *)
EXTENDS FmcBoards

Inter(n, a)  == [type |-> "inter", magic |-> TRUE, records |-> n, addr |-> a, child |-> 0]
NoMagic(n)   == [type |-> "inter", magic |-> FALSE, records |-> n, addr |-> 0, child |-> 0]
Device(a)    == [type |-> "device", magic |-> FALSE, records |-> 0, addr |-> a, child |-> 0]
Bridge(a, c) == [type |-> "bridge", magic |-> FALSE, records |-> 0, addr |-> a, child |-> c]
Blank        == [type |-> "other", magic |-> FALSE, records |-> 0, addr |-> 0, child |-> 0]

(* What each slot may hold. *)
SlotContents == <<
  {Inter(2, 0), Inter(3, 0), NoMagic(3)},
  {Device(1), Bridge(4, 2), Bridge(4, 3)},
  {Inter(3, 1), Bridge(28, 4), Bridge(4, 0), Blank},
  {Inter(2, 2), Bridge(8, 5), Device(2)},
  {Device(3), Bridge(6, 4), Inter(0, 1), Inter(3, 0)},
  {Inter(2, 0), Device(7), Bridge(2, 7)},
  {Device(37), Bridge(5, 2)} >>

CardImages ==
  {<<r0, r1, r2, r3, r4, r5, r6>> : r0 \in SlotContents[1], r1 \in SlotContents[2],
     r2 \in SlotContents[3], r3 \in SlotContents[4], r4 \in SlotContents[5],
     r5 \in SlotContents[6], r6 \in SlotContents[7]}

(* A board's table: its header counts eight entries, or seven for one that *)
(* lacks the first; one, several or none of them are blank.                *)
BoardImages ==
  {[k \in 0 .. 8 |-> IF k = 0 THEN Inter(n, 0)
                      ELSE IF k \in blanks THEN Blank ELSE Device(3 * k)] :
     n \in {5, 8, 9}, blanks \in {{}, {1}, {2}, {3, 4}, {1, 7}}}

(* Slots count from 0. *)
NineSlots ==
  {[k \in 0 .. 8 |-> IF k < 7 THEN im[k + 1] ELSE Blank] : im \in CardImages} \cup BoardImages

SomeRoots == {[slot |-> 0, bus |-> 0], [slot |-> 2, bus |-> 9]}

UpToThree == UNION {[1 .. n -> 0 .. 2] : n \in 0 .. 3}

=============================================================================
