SPECIFICATION FairSpec
CONSTANTS
  v = v
  Schemes = {1, 2}
  Viewers = {v}
  Quoted = {2}
  Charted = {2}
  Batch = 1
  Stale = 1
  Lookback = 1
  Buffer = 0
  MaxDay = 3
  MaxFailures = 2
CHECK_DEADLOCK FALSE
INVARIANTS
  ReturnsMatch
PROPERTIES
  PointsKept
  EveryoneIsJudged
