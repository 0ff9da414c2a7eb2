SPECIFICATION Spec
CONSTANTS
  Holds = {big, small}
  HoldAmount <- EqualAmounts
  Queued = {big}
  Expiring = {big}
  AutoCommit = {}
  Workers = {w1, w2}
  Free = Free
  Orphan = Orphan
  NoOp = NoOp
  MaxCalls = 1
  MaxActions = 0
  MaxCrashes = 1
PROPERTY CommittedHoldsStayCommitted
CHECK_DEADLOCK FALSE
