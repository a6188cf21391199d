SPECIFICATION FairSpec
CONSTANTS
  i1 = i1
  i2 = i2
  Instances <- Two
  MaxLen = 2
  Scenes <- Sound
INVARIANTS
  Inv
  ReplaysCommitted
PROPERTIES
  AllEnd
CHECK_DEADLOCK FALSE
