SPECIFICATION FairSpec
CONSTANTS
  MTU = 17
  Media <- MCMedia
  TimeMod = 8
  ByteMod = 4
  Draws <- MCDraws
  MaxPlays = 2
  None = None
PROPERTY FirstSequenceAsAnnounced
CHECK_DEADLOCK FALSE
