CONSTANTS
  Conn = {c1}
  Req = {r1, r2}
  None = None
  Name = {"METHOD", "type"}
  Message <- AnyMessages
  MayFail = {"socket", "connect", "reconnect", "malloc", "recv", "send"}
  FreeFirst = FALSE
SPECIFICATION Spec
SYMMETRY Alike
CHECK_DEADLOCK FALSE
INVARIANT HeapAccounted
 
