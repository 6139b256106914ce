CONSTANTS
  Key = {1, 2, 3, 4, 5, 6, 7, 8, 9}
  HashOf <- HashOfKeys
  INIT_SIZE = 2
  MaxCount = 9
  None = None
SPECIFICATION Spec
INVARIANTS TableIntact LoadKept
PROPERTY NodeSetRefined
