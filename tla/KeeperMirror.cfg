SPECIFICATION KeeperSpec
CONSTANTS
  Mode = "Lazy"
  Strict = TRUE
  Prices = {8, 9, 10}
  Grosses = {5}
  MaxPositions = 2
  MaxEvents = 3
  MaxRotations = 1
  MaxBuckets = 2
  MaxLedger = 1
  LeverageBps = 50000
  OpenFeeBps = 1000
  MinMargin = 2
  MaxMargin = 10
  DilutionBps = 100
  MaxMoveBps = 3000
  TickSize = 4
  MaxPendingApply = 2
  MinPending = 1
  MaxActions = 1
  CloseDead = TRUE
  MaxHints = 1
  MaxLost = 1
PROPERTIES  StalePlanHarmless
CHECK_DEADLOCK FALSE
