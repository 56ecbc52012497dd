SPECIFICATION BotSpec
CONSTANTS
  Mode = "Lazy"
  Prices = {8, 10}
  Grosses = {5}
  MaxPositions = 2
  MaxEvents = 1
  MaxRotations = 1
  MaxListed = 2
  MaxBuckets = 2
  MaxLedger = 2
  LeverageBps = 50000
  OpenFeeBps = 1000
  MinMargin = 2
  MaxMargin = 10
  DilutionBps = 100
  MaxMoveBps = 3000
  TickSize = 6
  MaxPendingApply = 2
  MinPending = 1
  MaxActions = 0
  CloseDead = TRUE
  Trimmed = TRUE
CHECK_DEADLOCK FALSE
INVARIANT ReadsAgree
PROPERTY RoundHarmless
