SPECIFICATION FairSpec
CONSTANTS
  blocking = blocking
  a1 = a1
  b1 = b1
  b2 = b2
  NoProc = NoProc
  Sequential <- OneSequential
  PhaseB = {b1}
  MaxRuns = 1
  MaxStops = 1
  MaxHeals = 1
  MaxCrashes = 1
  MaxAborts = 1
  Panics = TRUE
CHECK_DEADLOCK FALSE
INVARIANTS TypeOK OneStopSettles
PROPERTY RunsSettle
