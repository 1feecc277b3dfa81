SPECIFICATION FairSpec
CONSTANTS
  a = a
  b = b
  Values <- MCValues
  Mask = 3
  Empty = Empty
INVARIANTS
  RingInvariant
  NoSlotRace
PROPERTIES
  ImplementsFifo
  PublishedIsDelivered
