SPECIFICATION PreparedSpec
CONSTANTS
  Mode = "Eager"
  Strict = TRUE
  Prices = {8, 10, 12}
  Grosses = {5}
  MaxPositions = 2
  MaxEvents = 2
  MaxRotations = 2
  MaxBuckets = 2
  MaxLedger = 2
  LeverageBps = 50000
  OpenFeeBps = 1000
  MinMargin = 2
  MaxMargin = 10
  DilutionBps = 100
  MaxMoveBps = 3000
  TickSize = 4
  MaxPendingApply = 2
INVARIANT AccountsNeverLag
PROPERTY ImplementsMarket
CHECK_DEADLOCK FALSE
