CONSTANTS
  Node = {1, 2, 3, 4}
  List = {l1, l2}
  NULL = NULL
  e1 = e1
  e2 = e2
  Extra <- Extras
  Pool <- PoolOf
  KeyOf <- KeysOf
  Limits = {2, 4}
SPECIFICATION Spec
INVARIANTS ListVerify PoolExact SearchesExact LoopsExact
PROPERTIES SortSorts CallsReturn
