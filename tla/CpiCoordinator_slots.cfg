SPECIFICATION Spec
CONSTANTS
  IdMod = 4
  MaxPrt = 2
  Channels = 2
  Packets = 1
  ClosedDepth = 2
  Specs <- DynamicOnly
  Depth = 2
  OutputCapacity = 1
  None = None
  First = 3
  Span = 2
  Lag = 1
  Ahead = 1
  ControlPrts <- ValidControl
  DataPrts <- SomePrts
  Stamped = FALSE
INVARIANTS
  SummaryMatchesSlots
  OutputTruthful
PROPERTIES
  ControlBindingIsFinal
CHECK_DEADLOCK FALSE
