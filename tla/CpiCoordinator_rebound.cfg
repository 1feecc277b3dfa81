SPECIFICATION Spec
CONSTANTS
  IdMod = 4
  MaxPrt = 2
  Channels = 1
  Packets = 2
  ClosedDepth = 2
  Specs <- DynamicOnly
  Depth = 2
  OutputCapacity = 1
  None = None
  First = 3
  Span = 1
  Lag = 1
  Ahead = 1
  ControlPrts <- AnyControl
  DataPrts <- SomePrts
  Stamped = FALSE
INVARIANT
  OutputTruthful
CHECK_DEADLOCK FALSE
