SPECIFICATION Spec
CONSTANTS
  IdMod = 4
  MaxPrt = 1
  Channels = 1
  Packets = 2
  ClosedDepth = 2
  Specs <- AllSpecs
  Depth = 3
  OutputCapacity = 1
  None = None
  First = 3
  Span = 3
  Lag = 1
  Ahead = 2
  ControlPrts <- AnyControl
  DataPrts <- SomePrts
  Stamped = FALSE
INVARIANT
  DecidedOnce
CHECK_DEADLOCK FALSE
