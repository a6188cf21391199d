SPECIFICATION MCSpec
CONSTANTS
  n1 = n1
  n2 = n2
  v1 = v1
  v2 = v2
  None = None
  Names <- MCNames
  Values <- MCValues
  MethodErrors <- Raised
  SaveErrors <- OrCaught
INVARIANTS
  Inv
  Alike
PROPERTIES
  ImplementsStore
CHECK_DEADLOCK FALSE
