----------------------------- MODULE PghalList ----------------------------
(***************************************************************************)
(* list.h: the doubly linked lists in which drivers are registered and in  *)
(* which an SDB tree keeps its entries and its roms (SdbRom models those   *)
(* as sequences).  A list is a ring of cells through its head; heads and   *)
(* nodes are the same struct, and nothing in a cell says which it is or    *)
(* whether it is in a list.  Loops over lists are interleaved with the     *)
(* operations their bodies make on other lists.                            *)
(***************************************************************************)
EXTENDS Naturals, FiniteSets, Sequences

CONSTANTS
  Heads, Nodes,
  NULL,                          \* what pghal_alloc leaves in a cell
  LIST_POISON1, LIST_POISON2     \* what list_del leaves in a cell

Cells == Heads \cup Nodes

ASSUME ListAssumption ==
  /\ IsFiniteSet(Nodes)          \* memory holds so many
  /\ Heads \cap Nodes = {}
  /\ {NULL, LIST_POISON1, LIST_POISON2} \cap Cells = {}

VARIABLES
  next, prev,
  home,        \* the lists nodes are in: known to the program, not stored
  walk         \* the loops under way, at most one for each list

vars == <<next, prev, home, walk>>

NoWalk == [pos |-> NULL, n |-> NULL, seen |-> <<>>, was |-> <<>>]

(* Static cells point to themselves (LIST_HEAD_INIT), allocated ones are   *)
(* zero; nodes need not be initialised before they are added.              *)
Init ==
  /\ \E static \in SUBSET Cells :
       next = [c \in Cells |-> IF c \in static THEN c ELSE NULL]
  /\ prev = next
  /\ home = [n \in Nodes |-> NULL]
  /\ walk = [h \in Heads |-> NoWalk]

Ready(h) == next[h] # NULL

INIT_LIST_HEAD(h) ==
  /\ ~Ready(h)
  /\ prev' = [prev EXCEPT ![h] = h] /\ next' = [next EXCEPT ![h] = h]
  /\ UNCHANGED <<home, walk>>

(* Mutant: the cell after the new one is not told of it. *)
ListAddOneWay(new, p, n) ==
  /\ prev' = [prev EXCEPT ![new] = p]
  /\ next' = [next EXCEPT ![new] = n, ![p] = new]

(* The assignments in their order: p and n are the same cell in an empty   *)
(* list.                                                                   *)
ListAdd(new, p, n) ==
  /\ prev' = [prev EXCEPT ![n] = new, ![new] = p]
  /\ next' = [next EXCEPT ![new] = n, ![p] = new]

(* Mutant: the new node comes first. *)
LinkAtHead(n, h) == ListAdd(n, h, next[h])

LinkAtTail(n, h) == ListAdd(n, prev[h], h)

(* The registrations, the discovery: a node that is in no list yet, which  *)
(* only the callers make sure of; no loop's body adds to its own list.     *)
list_add_tail(n, h) ==
  /\ Ready(h) /\ home[n] = NULL /\ walk[h] = NoWalk
  /\ LinkAtTail(n, h)
  /\ home' = [home EXCEPT ![n] = h]
  /\ UNCHANGED walk

(* No part of the library deletes; the header allows it outside loops and, *)
(* in a safe loop, for the entry the loop is at.                           *)
list_del(e) ==
  /\ home[e] # NULL
  /\ LET h == home[e]
     IN walk[h] = NoWalk \/ (walk[h].pos = e /\ walk[h].n # NULL)
  /\ LET p == prev[e]
         n == next[e]
     IN /\ prev' = [prev EXCEPT ![n] = p, ![e] = LIST_POISON2]
        /\ next' = [next EXCEPT ![p] = n, ![e] = LIST_POISON1]
  /\ home' = [home EXCEPT ![e] = NULL]
  /\ UNCHANGED walk

(***************************************************************************)
(* Loops.  A plain one has no second cursor.                               *)
(***************************************************************************)
Succ(c) == IF c \in Cells THEN next[c] ELSE NULL

(* The cells met from a head on, for as many steps as a ring may take.     *)
Round(h) ==
  LET cell[k \in 0 .. Cardinality(Nodes) + 1] == IF k = 0 THEN h ELSE Succ(cell[k - 1])
  IN cell

(* The nodes of list h from its head on; a ring that is broken is no       *)
(* sequence of nodes.                                                      *)
Nodewise(h) ==
  LET cell   == Round(h)
      closes == {k \in 1 .. Cardinality(Nodes) + 1 : cell[k] = h}
      turn   == CHOOSE k \in closes : \A j \in closes : k <= j
  IN IF ~Ready(h) THEN <<>> ELSE IF closes = {} THEN <<h>> ELSE [k \in 1 .. turn - 1 |-> cell[k]]

list_for_each_entry(h) ==
  /\ Ready(h) /\ walk[h] = NoWalk
  /\ walk' = [walk EXCEPT ![h] = [pos |-> next[h], n |-> NULL, seen |-> <<>>, was |-> Nodewise(h)]]
  /\ UNCHANGED <<next, prev, home>>

list_for_each_entry_safe(h) ==
  /\ Ready(h) /\ walk[h] = NoWalk
  /\ walk' = [walk EXCEPT ![h] = [pos |-> next[h], n |-> Succ(next[h]), seen |-> <<>>,
                                   was |-> Nodewise(h)]]
  /\ UNCHANGED <<next, prev, home>>

(* Mutant: both loops go on from the entry the body was given. *)
AfterStale(w) == Succ(w.pos)

After(w) == IF w.n = NULL THEN Succ(w.pos) ELSE w.n

(* The body is done with an entry: the next one. *)
Advance(h) ==
  /\ walk[h] # NoWalk /\ walk[h].pos # h
  /\ LET w == walk[h]
     IN walk' = [walk EXCEPT ![h] =
          [pos |-> After(w), n |-> IF w.n = NULL THEN NULL ELSE Succ(w.n),
           seen |-> Append(w.seen, w.pos), was |-> w.was]]
  /\ UNCHANGED <<next, prev, home>>

(* The end of a loop, or a return from its body. *)
Leave(h) ==
  /\ walk[h] # NoWalk
  /\ walk' = [walk EXCEPT ![h] = NoWalk]
  /\ UNCHANGED <<next, prev, home>>

Next ==
  \E h \in Heads :
    \/ INIT_LIST_HEAD(h)
    \/ list_for_each_entry(h) \/ list_for_each_entry_safe(h)
    \/ Advance(h) \/ Leave(h)
    \/ \E n \in Nodes : list_add_tail(n, h) \/ (home[n] = h /\ list_del(n))

Spec == Init /\ [][Next]_vars

(***************************************************************************)
(* Properties.                                                             *)
(***************************************************************************)
Live == {h \in Heads : Ready(h)} \cup {n \in Nodes : home[n] # NULL}

List(c) == IF c \in Heads THEN c ELSE home[c]

(* The cells in use form closed rings that can be followed either way, and *)
(* a ring never leaves its list: no registration of one program and no     *)
(* entry of one table shows up in another list (list.h:95-144).            *)
Linked ==
  \A c \in Live :
    /\ next[c] \in Live /\ prev[next[c]] = c
    /\ prev[c] \in Live /\ next[prev[c]] = c
    /\ List(next[c]) = List(c)

(* A loop's body is given each entry that was in the list when it began,   *)
(* once and in order, whatever the bodies do to other lists, and, in a     *)
(* safe loop, although they delete the entries they are given              *)
(* (list.h:62-78).                                                         *)
WalkExact ==
  \A h \in Heads : walk[h] # NoWalk =>
    LET w == walk[h]
    IN /\ w.seen = SubSeq(w.was, 1, Len(w.seen))
       /\ w.pos = IF w.seen = w.was THEN h ELSE w.was[Len(w.seen) + 1]

(* Seen through the forward pointers, the rings are the sequences that     *)
(* SdbRom takes them for: the order of adding, less what was deleted.      *)
Lines == INSTANCE ListSpec WITH line <- [h \in Heads |-> Nodewise(h)]

Implements == Lines!Spec

=============================================================================
