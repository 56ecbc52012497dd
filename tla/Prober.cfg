SPECIFICATION FairSpec
CONSTANTS
  NoFacts = NoFacts
  NMarkets = 2
  Keys = {Expected, Other}
  Nobody = Nobody
  Expected = Expected
  Threshold = 1
  Retries = 1
  Limits = {1, Endless}
  Endless = Endless
  Lags = {0}
  NoFile = NoFile
  Torn = Torn
  Events = {"pause", "freeze", "garble", "lock", "leader", "trade", "drift", "rot", "halt", "beat", "accounts", "slot", "positions", "write"}
  MaxSlot = 1
  MaxChanges = 1
INVARIANTS StrictPublish TrueOfSomeMoment
PROPERTIES NeverRosier ReportsSettle
CHECK_DEADLOCK FALSE
