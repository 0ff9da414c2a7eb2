SPECIFICATION ReconSpec
CONSTANTS
  Uploads <- Files
  Internals <- Ledgers
  Alike <- Similar
  RuleVersions <- Rulebook
  RuleIds = {1}
  NoRule = NoRule
  Recons = {r1, r2}
  Requests <- BothUploads
  ReconWorkers = {w1, w2}
  NoItem = NoItem
  PageSize = 1
  MatchWorkers = 2
  ProgressInterval = 2
  MaxMishaps = 0
INVARIANT ReconcilesItsUpload
CHECK_DEADLOCK FALSE
