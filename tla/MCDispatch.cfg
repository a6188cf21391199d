SPECIFICATION Spec
CONSTANTS
  Fns = {"f1", "f2", "f3"}
  NameOf <- TwoNames
  ModelFns = {"f3"}
  Names = {"f", "g"}
  Versions = {"f", "g"}
  None = None
  Instances = {"i"}
  Budgets <- Deployments
  Turns = 2
  Handlers = {"h1", "h2"}
  PathOf <- OnePath
  Nothing = Nothing
  Topics = {"f", "w"}
  Wildcards = {"w"}
  Concrete = "w/1"
  Kinds = {"k", "l"}
  Matches = {"k"}
  Priorities = {1, 2}
  AppSteps = 3
  Functions <- EveryFunction
  Arguments <- EveryArgument
INVARIANTS RunsItsOwn OwnHandler 
CHECK_DEADLOCK FALSE
