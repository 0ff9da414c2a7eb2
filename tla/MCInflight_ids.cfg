SPECIFICATION Spec
CONSTANTS
  Holds = {big, small}
  HoldAmount <- Amounts
  Queued = {big}
  Expiring = {big}
  AutoCommit = {}
  Workers = {w1, w2}
  Free = Free
  Orphan = Orphan
  NoOp = NoOp
  MaxCalls = 1
  MaxActions = 1
  MaxCrashes = 1
SYMMETRY Symmetry
INVARIANT Inv
PROPERTY BookRefinement
CHECK_DEADLOCK FALSE
