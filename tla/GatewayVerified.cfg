SPECIFICATION Spec
CONSTANTS
  Threshold = 1
  Callers = {c1, c2}
  Keys = {k1}
  RateLimit = 1
  Overrides = {"none"}
  MaxSends = 2
  MaxOperator = 2
INVARIANTS
  OkWasVerified
CHECK_DEADLOCK FALSE
