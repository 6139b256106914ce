CONSTANTS
  MaxLen = 7
  Seeds <- SeedTexts
  More = 6
  uint_max = 3
  int_max = 5
  EntrySize = 2
  Failing = {1, 2}
SPECIFICATION Spec
CHECK_DEADLOCK FALSE
INVARIANTS PassesAgree BlocksAccounted ParseExact
PROPERTY ParseReturns
