SPECIFICATION SettingsSpec
CONSTANTS
  Trades = {"buy", "late", "sell"}
  Buys = {"buy", "late"}
  Qty <- Quantities
  OnTheWay = TRUE
  InitialSpots <- Spots
  Runs = {"r1", "r2"}
  Limit = 1
  NoTrade = NoTrade
  MaxFaults = 2
INVARIANT BlendedOnce
CHECK_DEADLOCK FALSE
