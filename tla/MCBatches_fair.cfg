SPECIFICATION BatchesSpec
CONSTANTS
  Clients = {c1}
  Targets <- FirstMember
  Modes <- MixedModes
  Batch = Batch
  NoId = NoId
  BatchSize = 1
  MaxExpiries = 1
  Uploads <- Files
  Internals <- Ledgers
  Alike <- Similar
  RuleVersions <- Rulebook
  RuleIds = {1}
  NoRule = NoRule
  Recons = {r1}
  Requests <- AllStrategies
  ReconWorkers = {w1, w2}
  NoItem = NoItem
  PageSize = 1
  MatchWorkers = 2
  ProgressInterval = 2
  MaxMishaps = 1
INVARIANTS BulkInv ReconInv
PROPERTY BatchesSettle
CHECK_DEADLOCK FALSE
