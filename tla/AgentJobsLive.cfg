SPECIFICATION FairSpec
CONSTANTS
  Jobs = {j1}
  Workers = {w1}
  Runners = {r1}
  RetryMaxAttempts = 2
  LeaseTicks = 2
  RecoveryPolicy = "fail"
  MaxFaults = 2
PROPERTIES
  LeasedRunEnds
CHECK_DEADLOCK FALSE
