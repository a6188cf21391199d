SPECIFICATION FairSpec
CONSTANTS
  r1 = r1
  r2 = r2
  r3 = r3
  alice = alice
  bob = bob
  Requests <- Three
  Actors <- Two
  Unhosted = Unhosted
  MaxStreams = 3
  Scenes <- Sound
INVARIANTS
  NoStrayReply
  StopLeavesNothing
PROPERTIES
  StartMeansRegistered
  ObjectsPersist
  Answered
  StopEnds
CHECK_DEADLOCK FALSE
