CONSTANTS
  LastRun = 2
  Keyboard = TRUE
SPECIFICATION Spec
INVARIANTS
  TypeOK
  KeyboardListens
PROPERTIES
  ContractSpec
  ClosedChannelEndsRun
CHECK_DEADLOCK FALSE
