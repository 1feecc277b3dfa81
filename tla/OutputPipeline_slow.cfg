SPECIFICATION FairSpec
CONSTANTS
  Depth = 4
  OutputCapacity = 7
  RecycleCapacity = 7
  DropIsError = FALSE
  None = None
PROPERTY
  SlowConsumerNotFatal
