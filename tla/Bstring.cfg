CONSTANTS
  Char = {"a", "_"}
  Space = "_"
  Smallest = 2
  MaxInt = 7
  Chunk = 1
  Index = 2
  MaxLen = 4
  MaxArg = 2
  Sizes = {1, 2}
  MaxSource = 3
  Room = 2
  Block = 3
  MaxStream = 7
  Code = {0, 65, 95, 97, 255}
  MaxTerm = 2
SPECIFICATION BpiecesSpec
CHECK_DEADLOCK FALSE
INVARIANTS CallsExact HarmsKnown PiecesExact
PROPERTIES StaysTerminated StreamsExact
