CONSTANTS
  metrics = metrics
  provisions = provisions
  structure = structure
  normalize = normalize
  entityRelation = entityRelation
  Batch <- MetricsFirst
  MultiPass = {metrics}
  Positional = {provisions}
  Legacy = {structure, normalize}
  Indexers = {metrics, structure, normalize}
  DependsOn <- Waits
  NChunks = 2
  Cap = 1
SPECIFICATION Spec
INVARIANT ResultsKeepTheirChunk
