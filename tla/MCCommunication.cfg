SPECIFICATION FairSpec
CONSTANTS
  HwFifoSize = 2
  BufferSize = 2
  ListSize = 1
  MaxBytes = 4
INVARIANTS
  EveryByteOnce
  OneFrameAtATime
  DeliveredInOrder
  NoLostWakeup
PROPERTIES
  EveryFrameIsDecoded
