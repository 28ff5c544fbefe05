CONSTANTS
  MaxWrites = 2
  MaxMessages = 1
SPECIFICATION Spec
INVARIANTS
  TypeOK
  OutputConserved
  InitialFirst
PROPERTIES
  ClosedIsTold
  ScreenCatchesUp
  GoroutinesEnd
CHECK_DEADLOCK FALSE
