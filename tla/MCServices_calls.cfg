SPECIFICATION CallsSpec
CONSTANTS
  Holds = {big, small}
  HoldAmount <- Amounts
  Queued = {}
  Expiring = {big}
  AutoCommit = {big}
  Workers = {w1, w2}
  Free = Free
  Orphan = Orphan
  NoOp = NoOp
  MaxCalls = 1
  MaxActions = 1
  MaxCrashes = 1
  Nothing = Nothing
  Callers = {w1, w2}
  MaxMishaps = 1
  OrderIds = {one, two}
  SellChoices <- OneSell
  Money = 1
  Position = 1
  PositionKeys = {1, 2}
  OpenKeys = {1}
  Plans <- MutationPlans
  Entries <- LedgerEntries
  MaxJobs = 5
  MaxBalances = 2
  Transactions = {"t1"}
  BatchSize = 1
  Hours = 3
  HoursPerDay = 3
  MonitorIds = {"m1"}
  Watched = {one, two}
  Thresholds = {1, 2}
  Totals = {1, 2}
  Operators = {">="}
  Readers = {"r1"}
  Indicators = {"k1", "k2"}
  Lookups = {"c1", "c2", "c3"}
  MaxIds = 4
  Keys = {1, 2}
  PrefixOf <- OnePrefix
  Owners = {one, two}
  Resources = {"ledgers", "api-keys"}
  ScopeSets <- TwoScopeSets
  Lifetimes = {1}
  MaxTime = 1
SYMMETRY Symmetry
INVARIANTS HoldsInv OrdersInv PositionsInv BalancesInv KeysInv
PROPERTIES BookedOrdersWereChecked RunsCoverAllBalances AlertsAreDue
CHECK_DEADLOCK FALSE
