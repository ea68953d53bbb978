SPECIFICATION FairSpec
CONSTANTS
  MTU = 20
  Media <- MCMedia
  ShortHeader = 2
  LongHeader = 3
  FrameSize = 3
  TimeMod = 8
  ByteMod = 4
  LenMod = 16
  Draws <- MCDraws
  MaxPlays = 2
  MaxReads = 1
  None = None
INVARIANT TypeOK
INVARIANT PacketIsFrame
INVARIANT TroubleHasCause
PROPERTY FramesInOrder
PROPERTY NumbersAdvance
PROPERTY StreamEnds
CHECK_DEADLOCK FALSE
