SPECIFICATION FairSpec
CONSTANTS
  Scenes <- TurnScenes
  Names = {"x"}
  MaxTasks = 12
INVARIANTS
  Inv
  ReplayEquivalence
  NoNonDeterminism
  NoReschedule
PROPERTIES
  Finishes
CHECK_DEADLOCK FALSE
