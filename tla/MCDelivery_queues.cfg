SPECIFICATION QueuesSpec
CONSTANTS
  Refs = {1, 2}
  Submissions = {1, 2}
  RefOf <- OneEach
  Scheduled = {}
  Workers = {w1}
  Recoverers = {r1}
  NoJob = NoJob
  BatchSize = 2
  MaxRetry = 1
  MaxRecovery = 1
  SweepSize = 2
  InsufficientFundRetries = TRUE
  RejectLockContentionImmediately = FALSE
  MaxCrashes = 1
  Nothing = Nothing
  Calls = {c1, c2}
  MaxMishaps = 1
  LockContentionThreshold = 2
  MaxContentions = 3
  HookIds = {"h1"}
  Deliveries = {"t1"}
  RetryCounts = {2}
  MaxHookRetryCount = 1
  DefaultRetries = 1
  MaxEdits = 3
  Balances = {"b1", "b2"}
  Transfers = {"t1"}
  BalanceOf <- FirstBalance
  Indexers = {"i1"}
  Runs = {c1, c2}
  Starts <- OneStart
  PageSize = 1
  MaxVersion = 2
SYMMETRY Symmetry
INVARIANTS MovedAtMostOnce LanesInv HooksInv SearchInv
PROPERTY OutcomeIsFinal
CHECK_DEADLOCK FALSE
