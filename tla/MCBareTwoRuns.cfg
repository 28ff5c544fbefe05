CONSTANTS
  Handlers = {h1, h2}
  Runs = {r1, r2}
  NoOne = NoOne
  Archs = {"6502", "8080"}
SPECIFICATION SafetySpec
INVARIANT OneProgramAtATime
CHECK_DEADLOCK FALSE
