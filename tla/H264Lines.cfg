SPECIFICATION LinesFairSpec
CONSTANTS
  Files <- MCFiles
  None = None
  FlagAt = 2
  Width = 1
  Garbage = {0, 1, 6}
  Rates = {0, 9}
  Rbsp <- MCRbsp
INVARIANT TypeOK
INVARIANT FindsFirst
INVARIANT SkipStaysInside
INVARIANT SetsAreFirst
INVARIANT LineDecodes
INVARIANT RateAsCoded
PROPERTY UnitsInOrder
PROPERTY DescribeEnds
CHECK_DEADLOCK FALSE
