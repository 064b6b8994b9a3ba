SPECIFICATION FairSpec
CONSTANTS
  Threshold = 2
  Users = {u1}
  Probers = {p1}
  Operators = {o1}
  MaxFailures = 3
  MaxCrashes = 1
  MaxResets = 1
PROPERTIES
  Recovers
CHECK_DEADLOCK FALSE
