SPECIFICATION Spec
CONSTANTS
  Threshold = 3
  Users = {u1, u2}
  Probers = {}
  Operators = {}
  MaxFailures = 3
  MaxCrashes = 0
  MaxResets = 0
INVARIANTS
  BreakerOpensAfterFailures
CHECK_DEADLOCK FALSE
