SPECIFICATION IndexedSpec
CONSTANTS
  Mode = "Lazy"
  Prices = {8, 10, 12}
  Grosses = {5}
  MaxPositions = 3
  MaxEvents = 2
  MaxRotations = 2
  MaxBuckets = 1
  MaxLedger = 1
  LeverageBps = 50000
  OpenFeeBps = 1000
  MinMargin = 1
  MaxMargin = 10
  DilutionBps = 9000
  MaxMoveBps = 3000
  TickSize = 1
  MaxPendingApply = 0
  Rounding = 2
INVARIANTS SyncOnlyDocumentedErrors IndexNeverErrs BucketsMirrored EquityTracksPayout
CHECK_DEADLOCK FALSE
