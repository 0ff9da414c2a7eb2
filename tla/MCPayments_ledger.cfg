SPECIFICATION PaymentsSpec
CONSTANTS
  Balances = {1, 2, 3}
  Requests <- PaymentRequests
  Workers = {w1, w2}
  Free = Free
  Orphan = Orphan
  NoRequest = NoRequest
  MaxAttempts = 1
  Nothing = Nothing
  Calls = {c1, c2}
SYMMETRY Symmetry
INVARIANTS Inv NoUnauthorisedOverdraft LineageInv AlgorithmsExact
PROPERTIES OnlyHolderUnlocks LedgerRefinement
CHECK_DEADLOCK FALSE
