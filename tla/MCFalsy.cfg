SPECIFICATION Spec
CONSTANTS
  Scenes <- FalsyPayload
  Names = {"x"}
  MaxTasks = 8
INVARIANTS
  EventsConserved
CHECK_DEADLOCK FALSE
