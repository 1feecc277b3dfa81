SPECIFICATION Spec
CONSTANTS
  IdMod = 4
  MaxPrt = 2
  Channels = 1
  Packets = 2
  ClosedDepth = 2
  Specs <- DynamicOnly
  Depth = 2
  OutputCapacity = 1
  None = None
  First = 3
  Span = 3
  Lag = 1
  Ahead = 1
  ControlPrts <- ValidControl
  DataPrts <- SomePrts
  Stamped = FALSE
INVARIANT
  FullIsComplete
CHECK_DEADLOCK FALSE
