SPECIFICATION FairSpec
CONSTANTS
  Requests = {q1}
  Clients = {c1, c2}
  Sweeper = Sweeper
  NoRequest = NoRequest
  MaxRuns = 3
  MaxFaults = 1
INVARIANTS TypeOK ReviewedOnce StopsAreHeeded
PROPERTY ReviewsSettle
CHECK_DEADLOCK FALSE
