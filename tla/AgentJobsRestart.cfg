SPECIFICATION FairSpec
CONSTANTS
  Jobs = {j1}
  Workers = {w1}
  Runners = {r1}
  RetryMaxAttempts = 2
  LeaseTicks = 1
  RecoveryPolicy = "retry"
  MaxFaults = 1
PROPERTIES
  JobsSurviveRestarts
CHECK_DEADLOCK FALSE
