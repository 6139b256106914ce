CONSTANTS
  Node = {1, 2, 3, 4, 5, 6, 7, 8, 9, 10}
  Dict = {d1, d2}
  Load = Load
  NULL = NULL
  KeyOf <- KeysOf
  d1 = d1
  d2 = d2
  MaxCount <- MaxCounts
  SmallMax = 4
  Supply <- Supplies
  DICT_DEPTH_MAX = 4
SPECIFICATION Spec
VIEW DictView
INVARIANTS DictVerify BoundsExact TraversalsExact LoadExact
