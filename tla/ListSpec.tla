----------------------------- MODULE ListSpec -----------------------------
(***************************************************************************)
(* What the lists of list.h promise: each head has a sequence of nodes, a  *)
(* node is in one list at most, new nodes come last, and a node that is    *)
(* deleted leaves the others in their order.                               *)
(***************************************************************************)
EXTENDS Naturals, SequencesExt

CONSTANTS Heads, Nodes

VARIABLE line

Init == line = [h \in Heads |-> <<>>]

AddTail(n, h) ==
  /\ \A g \in Heads : n \notin ToSet(line[g])
  /\ line' = [line EXCEPT ![h] = Append(@, n)]

Del(n, h) ==
  \E k \in 1 .. Len(line[h]) :
    /\ line[h][k] = n
    /\ line' = [line EXCEPT ![h] = RemoveAt(@, k)]

Next == \E h \in Heads, n \in Nodes : AddTail(n, h) \/ Del(n, h)

Spec == Init /\ [][Next]_line

=============================================================================
