SPECIFICATION Spec
CONSTANTS
  a = a
  b = b
  Messages <- TwoMessages
  MaxFaults = 2
  Scenes <- Sound
INVARIANT
  OutlivesOutage
CHECK_DEADLOCK FALSE
