SPECIFICATION Spec
CONSTANTS
  MaxTasks = 5
  MaxKids = 2
INVARIANTS Inv CompositesSettled FailuresAreOwned
PROPERTIES OutcomesAreFinal
CHECK_DEADLOCK FALSE
