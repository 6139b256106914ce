\* Messages that are empty, fit the buffer, fill it, and are longer.
CONSTANTS
  BUFFER_SIZE = 7
  Behind = 2
  Length = {0, 1, 2, 3, 4, 5, 6, 7, 8, 9}
SPECIFICATION Spec
CHECK_DEADLOCK FALSE
INVARIANTS WordsExact ScanStays
