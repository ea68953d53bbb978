SPECIFICATION Spec
CONSTANTS
  Video = Video
  Audio = Audio
  Both = Both
  Other = Other
  None = None
  Bare = Bare
  Broken = Broken
  Files <- MCFiles
  Kind <- MCKind
  Beginnings <- MCBeginnings
  Asks <- GoodAsks
  MaxRequests = 6
  MaxInbox = 7
  Endings = {"whole"}
  RecvSizes = {}
INVARIANT ReadyHasTransport
INVARIANT TransportAsGranted
INVARIANT OneStreamPerTrack
INVARIANT DescribedIsLoaded
PROPERTY LifecycleSpec
CHECK_DEADLOCK FALSE
