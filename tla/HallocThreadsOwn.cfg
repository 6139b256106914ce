CONSTANTS
  t1 = t1
  t2 = t2
  r1 = r1
  r2 = r2
  Thread = {t1, t2}
  Main = t1
  Item = {b1, b2, b3}
  Root = {r1, r2}
  Null = Null
  Home <- OwnHome
SPECIFICATION Spec
INVARIANT QuietSound
CHECK_DEADLOCK FALSE
