SPECIFICATION BusySpec
CONSTANTS
  Keepers = {k1, k2}
  NoKeeper = none
  Takeover = 1
  MaxSlot = 2
  ReconcileEvery = 2
  HeartbeatEvery = 1
  MaxFailures = 1
  MaxStops = 1
CHECK_DEADLOCK FALSE
PROPERTIES TakeoverOnlyWhenSilent BeatNeverRegresses SilentLeaderReplaced ReleasedLockTaken SplitBrainHeals
