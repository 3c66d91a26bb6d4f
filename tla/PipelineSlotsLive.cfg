SPECIFICATION FairSpec
CONSTANTS
  d1 = d1
  d2 = d2
  d3 = d3
  c1 = c1
  NoCommand = NoCommand
  Docs <- OneCommandDocs
  Commands = {c1}
  Parent <- OneCommandParent
  Mode <- OffPeakMode
  CrossPeak = "abort"
  Limit = 2
  MaxChanges = 3
CHECK_DEADLOCK FALSE
INVARIANTS TypeOK SlotsConserved
PROPERTIES StartsPermitted PlainTasksStart PipelinesEnd
