CONSTANTS
  Conn = {c1, c2}
  Req = {r1, r2}
  None = None
  Name = {"METHOD", "type"}
  Message <- ServerMessages
  MayFail = {"socket", "connect"}
  FreeFirst = TRUE
SPECIFICATION FairSpec
INVARIANTS SocketsAccounted RequestsSound
PROPERTIES  DestroyReturns
CHECK_DEADLOCK FALSE
