CONSTANTS
  Node = {n1, n2, n3, n4}
  Data = {a, b}
  Index = {0, 1, 2, 4}
  NULL = NULL
  NotFound = NotFound
  OK = OK
SPECIFICATION Spec
INVARIANTS
  WellLinked
  NodesAccounted
PROPERTY
  ImplementsSequence
SYMMETRY Addresses
