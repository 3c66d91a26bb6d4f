SPECIFICATION Spec
CONSTANTS
  Runs = {r1}
  Workers = {w1}
  Cancelers = {h1}
  NoRun = NoRun
  MaxCrashes = 0
  DbMayFail = FALSE
  RenewalsKeepUp = TRUE
PROPERTY CanceledIsFinal
CHECK_DEADLOCK FALSE
