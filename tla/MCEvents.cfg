SPECIFICATION Spec
CONSTANTS
  Scenes <- EventScenes
  Names = {"x"}
  MaxTasks = 12
INVARIANTS
  EventsConserved
  NoWaiterOverlooked
  EventReachesWaiter
PROPERTIES
  SuspendedIsQuiet
CHECK_DEADLOCK FALSE
