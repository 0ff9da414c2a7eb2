SPECIFICATION FairSpec
CONSTANTS
  Refs = {1, 2}
  Submissions = {1, 2}
  RefOf <- OneEach
  Scheduled = {}
  Workers = {w1}
  Recoverers = {r1}
  NoJob = NoJob
  BatchSize = 2
  MaxRetry = 0
  MaxRecovery = 1
  SweepSize = 1
  InsufficientFundRetries = TRUE
  RejectLockContentionImmediately = FALSE
  MaxCrashes = 1
INVARIANT Inv
PROPERTY StuckRowsAreDecided
CHECK_DEADLOCK FALSE
