SPECIFICATION FairSpec
CONSTANTS
  Depth = 4
  OutputCapacity = 1
  RecycleCapacity = 7
  DropIsError = FALSE
  None = None
INVARIANTS
  TypeOK
  OneHolder
  AllReleasedAtExit
PROPERTIES
  ViewIsStable
  ImplementsLifecycle
  SlowConsumerNotFatal
  ShutdownCompletes
  LentIsReturned
