CONSTANTS
  LastRun = 2
  LastPanel = 3
  MaxLoads = 2
SPECIFICATION Spec
INVARIANTS
  TypeOK
  TimeoutExplained
PROPERTIES
  ContractSpec
  TimerEndsRun
CHECK_DEADLOCK FALSE
