SPECIFICATION DriftSpec
CONSTANTS
  NoFacts = NoFacts
  Rightful = Rightful
  Intruder = Intruder
  Watched <- TheMarkets
  Wallets <- Keepers
  AtFirst <- Healthy
  Values <- FactValues
  MaxSpoilt = 2
INVARIANT ReportsAgree
PROPERTY NeverLooksBetter
CHECK_DEADLOCK FALSE
