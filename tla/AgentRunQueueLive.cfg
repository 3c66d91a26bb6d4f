SPECIFICATION FairSpec
CONSTANTS
  Runs = {r1, r2}
  Workers = {w1}
  Cancelers = {h1}
  NoRun = NoRun
  MaxCrashes = 1
  DbMayFail = TRUE
  RenewalsKeepUp = FALSE
PROPERTY ImplementsLifecycle
CHECK_DEADLOCK FALSE
