SPECIFICATION FairSpec
CONSTANTS
  e1 = e1
  e2 = e2
  s1 = s1
  s2 = s2
  Events = {e1, e2}
  Subjects = {s1}
  SubjectOf <- OneSubject
  NoEvent = NoEvent
  Limit = 1
  MaxExpiries = 1
  MaxCrashes = 1
CHECK_DEADLOCK FALSE
INVARIANTS TypeOK AckedWasStarted StartsAreCounted CleanExitAwaited
PROPERTY EventsStart
