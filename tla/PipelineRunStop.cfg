SPECIFICATION Spec
CONSTANTS
  blocking = blocking
  a1 = a1
  b1 = b1
  b2 = b2
  NoProc = NoProc
  Sequential <- OneSequential
  PhaseB = {b1, b2}
  MaxRuns = 2
  MaxStops = 1
  MaxHeals = 0
  MaxCrashes = 1
  MaxAborts = 0
  Panics = FALSE
CHECK_DEADLOCK FALSE
SYMMETRY Symmetry
INVARIANTS EntriesSurvive OldStopsAreCleared
PROPERTY ImplementsRun
