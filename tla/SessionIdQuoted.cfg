SPECIFICATION FairSpec
CONSTANTS
  Video = Video
  Audio = Audio
  Both = Both
  Other = Other
  None = None
  Bare = Bare
  Broken = Broken
  Files <- MCFiles
  Kind <- MCKind
  Beginnings <- MCBeginnings
  Asks <- FewAsks
  MaxRequests = 3
  MaxInbox = 7
  Endings = {"whole"}
  RecvSizes = {}
INVARIANT SessionIdChecked
CHECK_DEADLOCK FALSE
