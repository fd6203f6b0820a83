SPECIFICATION FairSpec
CONSTANTS
  None = None
  MaxDays = 1
  MaxFailures = 2
  MaxRequests = 2
  MaxDrops = 1
  MaxLoops = 2
CHECK_DEADLOCK FALSE
INVARIANTS
  ReconnectIsDue
PROPERTIES
  ImplementsSocket
  SessionComesBack
  FeedFollowsSession
