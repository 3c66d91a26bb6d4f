CONSTANTS
  index = index
  drain = drain
  daily = daily
  None = None
  Schedules = {index, drain, daily}
  Seeded = {index, drain}
  Interval <- Intervals
  Limit = 2
  MaxJob = 1
  MaxLate = 3
  MaxEdits = 1
  MaxFaults = 1
SPECIFICATION FairSpec
INVARIANTS TypeOK RunsOnce
PROPERTY EnabledRuns
