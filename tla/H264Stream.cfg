SPECIFICATION FairSpec
CONSTANTS
  MTU = 17
  Media <- MCMedia
  TimeMod = 8
  ByteMod = 4
  Draws <- MCDraws
  MaxPlays = 2
  None = None
INVARIANT TypeOK
INVARIANT PacketFits
INVARIANT PacketWellFormed
PROPERTY NalsWhole
PROPERTY HeadersAdvance
PROPERTY OnlyLatestStreams
PROPERTY StreamEnds
CHECK_DEADLOCK FALSE
