SPECIFICATION Spec
CONSTANTS
  MTU = 17
  Media <- MCSliced
  TimeMod = 8
  ByteMod = 4
  Draws <- MCDraws
  MaxPlays = 1
  None = None
INVARIANT MarkerEndsFrame
CHECK_DEADLOCK FALSE
