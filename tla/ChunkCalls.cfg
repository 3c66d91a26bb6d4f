CONSTANTS
  parallel = parallel
  hanging = hanging
  primary = primary
  fallback = fallback
  Docs = {parallel, hanging}
  NChunks = 2
  Tasks <- BothTasks
  Attempts <- WithFallback
  Limit <- OnePermit
  Hanging = {hanging}
SPECIFICATION FairSpec
INVARIANTS TypeOK PermitsCounted EntryTellsRows
PROPERTY ExtractionsEnd
