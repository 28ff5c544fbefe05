CONSTANTS
  Sizes <- EdgeSizes
  Pings = {0, 125}
  Window = 2
  MaxPolls = 2
  MaxSent = 2
SPECIFICATION Spec
INVARIANTS
  TypeOK
  WholeFrames
PROPERTIES
  PingsAnswered
  LostConnectionEndsBoth
CHECK_DEADLOCK FALSE
