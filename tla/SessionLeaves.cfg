SPECIFICATION FairSpec
CONSTANTS
  Video = Video
  Audio = Audio
  Both = Both
  Other = Other
  None = None
  Bare = Bare
  Broken = Broken
  Files <- MCFiles
  Kind <- MCKind
  Beginnings <- MCBeginnings
  Asks <- FewAsks
  MaxRequests = 3
  MaxInbox = 7
  Endings = {"whole"}
  RecvSizes = {}
PROPERTY DisconnectEndsOnlySession
CHECK_DEADLOCK FALSE
