SPECIFICATION Spec
CONSTANTS
  c1 = c1
  c2 = c2
  c3 = c3
  a = a
  b = b
  Conn <- MCConn
  IP <- MCIP
  List = List
  NumMod = 4
INVARIANT NoneDropped
CHECK_DEADLOCK FALSE
