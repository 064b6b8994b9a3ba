SPECIFICATION Spec
CONSTANTS
  Threshold = 2
  Users = {u1, u2}
  Probers = {p1}
  Operators = {}
  MaxFailures = 4
  MaxCrashes = 0
  MaxResets = 0
SYMMETRY UserSymmetry
INVARIANTS
  TypeOK
  CountsEveryFailure
PROPERTIES
  HalfOpenFailureReopens
  CooldownHolds
CHECK_DEADLOCK FALSE
