SPECIFICATION Spec
CONSTANTS
  s1 = s1
  s2 = s2
  None = None
  Session <- MCSession
  Walks <- MCWalks
  First = 2
  PortMod = 8
  MaxWalks = 3
SYMMETRY MCSymmetry
INVARIANT TypeOK
INVARIANT WalkIsOwn
INVARIANT PortPairsApart
CHECK_DEADLOCK FALSE
