CONSTANTS
  LastRun = 2
  Keyboard = TRUE
SPECIFICATION Spec
PROPERTIES
  RunEnds
CHECK_DEADLOCK FALSE
