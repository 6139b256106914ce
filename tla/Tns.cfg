CONSTANTS
  Name = {"a", "b"}
  Made = {"dict", "list"}
  Room = 3
  JsonValue <- SomeJson
  MaxVariants = 3
  MaxStrings = 2
  Length = {0, 1, 3, 7}
  Behind = 6
  Digit = {"0", "1", "2", "4", "5"}
  MaxDigits = 2
  Wrap = 64
SPECIFICATION TnsSpec
CHECK_DEADLOCK FALSE
INVARIANTS TnsExact LooksNear Accounted LatestAnswers FaultsKnown
