CONSTANTS
  Handlers = {h1, h2}
  Runs = {r1}
  NoOne = NoOne
  Messages <- AllMessages
  MaxLine = 1
  MaxQueued = 1
SPECIFICATION Spec
INVARIANTS
  TypeOK
  OneCommandAtATime
  ErrorExplained
PROPERTIES
  DriveOutlivesUse
  RequestsAnswered
  LifecycleSpec
CHECK_DEADLOCK FALSE
