SPECIFICATION FairSpec
CONSTANTS
  a = a
  b = b
  Messages <- TwoMessages
  MaxFaults = 2
  Scenes <- Sound
PROPERTIES
  Handled
  Answered
CHECK_DEADLOCK FALSE
