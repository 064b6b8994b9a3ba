SPECIFICATION Spec
CONSTANTS
  Jobs = {j1}
  Workers = {w1, w2}
  Runners = {r1}
  RetryMaxAttempts = 2
  LeaseTicks = 2
  RecoveryPolicy = "retry"
  MaxFaults = 2
SYMMETRY WorkerSymmetry
INVARIANTS
  TypeOK
  StrayLeaseOnlyAfterCancel
  OneOwner
  FinishedResultIsCurrent
  AttemptAccounting
  RetryBudget
  OverlapNeedsRecovery
PROPERTIES
  ImplementsLifecycle
CHECK_DEADLOCK FALSE
