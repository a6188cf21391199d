SPECIFICATION FairSpec
CONSTANTS
  a = a
  b = b
  Items <- TwoItems
  MaxLinks = 3
  Limit <- OneEach
  PoolSize = 1
  Scenes <- Sound
INVARIANTS
  QuietAfterStop
  WithinLimits
PROPERTIES
  Served
  StopEnds
CHECK_DEADLOCK FALSE
