SPECIFICATION Spec
CONSTANTS
  Runs = {r1, r2}
  Workers = {w1, w2}
  Cancelers = {h1, h2}
  NoRun = NoRun
  MaxCrashes = 2
  DbMayFail = FALSE
  RenewalsKeepUp = FALSE
SYMMETRY Symmetry
INVARIANTS TypeOK ExecutedOnce NoOvertaking CanceledIsInterrupted
PROPERTY FinalOutsideWindow
CHECK_DEADLOCK FALSE
