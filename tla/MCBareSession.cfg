CONSTANTS
  Handlers = {h1, h2}
  Runs = {r1}
  NoOne = NoOne
  Archs = {"6502", "8080"}
SPECIFICATION Spec
INVARIANTS
  TypeOK
  RunningHasOwner
  ErrorExplained
PROPERTIES
  NothingStartsOnceClosed
  RequestsAnswered
  ClosedRunsEnd
CHECK_DEADLOCK FALSE
