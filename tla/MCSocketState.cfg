CONSTANTS
  MaxWrites = 1
  MaxMessages = 1
SPECIFICATION Spec
PROPERTIES
  StateChangeTold
CHECK_DEADLOCK FALSE
