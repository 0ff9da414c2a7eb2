SPECIFICATION ProgressSpec
CONSTANTS
  Ids = {1, 2}
  Chainers = {c1, c2}
  BatchSize = 2
  MaxBatches = 2
  Page = 1
  Nobody = Nobody
  Holds = {big}
  Calls = {w1, w2}
  Free = Free
  Orphan = Orphan
  NoOp = NoOp
INVARIANTS Inv VerifierIsRight
PROPERTIES SealedForever EverythingSealed HoldWorkEnds
CHECK_DEADLOCK FALSE
