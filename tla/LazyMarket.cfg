SPECIFICATION Spec
CONSTANTS
  Mode = "Lazy"
  Prices = {8, 10, 12}
  Grosses = {5}
  MaxPositions = 3
  MaxEvents = 2
  MaxRotations = 2
  MaxBuckets = 2
  MaxLedger = 2
  LeverageBps = 60000
  OpenFeeBps = 1000
  MinMargin = 1
  MaxMargin = 10
  DilutionBps = 100
  MaxMoveBps = 3000
  TickSize = 4
  MaxPendingApply = 2
INVARIANTS TypeOK RecordsKept Solvent PendingExact SharesBacked CanAlwaysLeave
PROPERTIES KeepsCustody EntitlementKept LeavingKeepsOthers
CHECK_DEADLOCK FALSE
