CONSTANTS
  Block = {b1, b2, b3, b4}
  Null = Null
  RootsMove = FALSE
SPECIFICATION Spec
INVARIANTS TypeOK ListsIntact Rooted
PROPERTY ForestRefined
