SPECIFICATION Spec
CONSTANTS
  h1 = h1  h2 = h2
  n1 = n1  n2 = n2  n3 = n3  n4 = n4
  NULL = NULL
  LIST_POISON1 = LIST_POISON1
  LIST_POISON2 = LIST_POISON2
  Heads <- TwoHeads
  Nodes <- FourNodes
SYMMETRY Alike
INVARIANTS
  Linked
  WalkExact
PROPERTIES
  Implements
