SPECIFICATION Spec
CONSTANTS
  Threshold = 1
  Callers = {c1, c2}
  Keys = {k1}
  RateLimit = 1
  Overrides = {"none", "live"}
  MaxSends = 2
  MaxOperator = 1
SYMMETRY GatewaySymmetry
INVARIANTS
  TypeOK
  DuplicatesAccounted
  ShutOffDrains
  RateLimitOverrun
  UnverifiedReported
  OkWasApplied
CHECK_DEADLOCK FALSE
