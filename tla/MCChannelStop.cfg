CONSTANTS
  LastRun = 2
  Keyboard = FALSE
SPECIFICATION SafetySpec
INVARIANTS
  StopIsSafe
CHECK_DEADLOCK FALSE
