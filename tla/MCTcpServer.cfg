\* A behaviour ends when the pool is corrupt.
SPECIFICATION FairSpec
CONSTANTS
  Pcbs = {p1, p2, p3}
  NumSlots = 2
  Memory = 2
  Retries = 2
  MaxResponse = 3
  Null = Null
INVARIANTS
  SlotsAreConnections
  BuffersComeBack
PROPERTIES
  EveryClientGoes
  EverySendEnds
CHECK_DEADLOCK FALSE
