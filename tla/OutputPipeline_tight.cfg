SPECIFICATION FairSpec
CONSTANTS
  Depth = 3
  OutputCapacity = 3
  RecycleCapacity = 1
  DropIsError = TRUE
  None = None
INVARIANTS
  PipelineInvariant
  OutputNeverDropped
PROPERTIES
  ShutdownCompletes
