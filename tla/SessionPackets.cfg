SPECIFICATION FairSpec
CONSTANTS
  Video = Video
  Audio = Audio
  Both = Both
  Other = Other
  None = None
  Bare = Bare
  Broken = Broken
  Files <- MCFiles
  Kind <- MCKind
  Beginnings <- MCBeginnings
  Asks <- OddAsks
  MaxRequests = 2
  MaxInbox = 10
  Endings = {"whole", "lost", "cut"}
  RecvSizes = {1, 2, 3}
INVARIANT TypeOK
 
PROPERTY RepliesInOrder
PROPERTY FreshRequestIsAnswered
CHECK_DEADLOCK FALSE
