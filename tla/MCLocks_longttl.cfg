SPECIFICATION LocksSpec
CONSTANTS
  Balances = {1, 2, 3}
  Requests <- HoldRequests
  Workers = {w1, w2}
  Free = Free
  Orphan = Orphan
  NoRequest = NoRequest
  NoProvider = NoProvider
  OutboxWorkers = {o1, o2}
  MaxAttempts = 1
INVARIANTS BalancesMatchRows LockedReadsStayCurrent HoldsNeverNegative
PROPERTIES EveryAttemptEnds LocksAreFreed OutboxSettles
CHECK_DEADLOCK FALSE
