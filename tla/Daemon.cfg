SPECIFICATION Spec
CONSTANTS
  Modes = {TRUE, FALSE}
  Limits = {1, Endless}
  NMarkets = 2
  Endless = Endless
  Paths = {"/metrics", "/metrics-multi", "Silent"}
  MaxTicks = 1
INVARIANT DaemonTypeOK
PROPERTIES Drains OthersTick ErrorSurfaces RequestsAnswered ScrapeShowsTicks
