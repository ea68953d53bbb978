SPECIFICATION FairSpec
CONSTANTS
  c1 = c1
  c2 = c2
  c3 = c3
  a = a
  b = b
  Conn <- MCConn
  IP <- MCIP
  List = List
  NumMod = 4
INVARIANT TypeOK
INVARIANT ListExact
INVARIANT OneServedPerIp
INVARIANT UseAfterFreeNeedsRace
INVARIANT CountExact
PROPERTY DroppedOnlyIfKnown
PROPERTY LookupEnds
CHECK_DEADLOCK FALSE
