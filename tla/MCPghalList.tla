---------------------------- MODULE MCPghalList ---------------------------
(* Small sets of lists and nodes for PghalList.                            *)
EXTENDS PghalList, TLC

CONSTANTS h1, h2, n1, n2, n3, n4

TwoHeads  == {h1, h2}
FourNodes == {n1, n2, n3, n4}

Alike == Permutations(TwoHeads) \cup Permutations(FourNodes)

=============================================================================
