SPECIFICATION FairSpec
CONSTANTS
  s1 = s1  s2 = s2
  Stops <- MCStops
  None = None
  MaxStarts = 2
  MaxQueue = 1
  MaxRecords = 2
INVARIANTS
  TypeOK
  FeedFollowsWorker
  Accounted
  SerialFeed
PROPERTIES
  StopEnds
CHECK_DEADLOCK FALSE
