\* Three requests for a FIFO of two slots and two ids: the FIFO overflows, ids
\* wrap while a request is still queued, and slot 0 is overwritten.
SPECIFICATION Spec
CONSTANTS
  Keys = {k1, k2, k3}
  NumIds = 2
  FifoSize = 2
  MaxResend = 1
  Timeout = 1
  MaxRequests = 3
SYMMETRY KeySymmetry
INVARIANTS
  TypeOK
  NoStaleEntry
  AnswerBelongs
  SendBound
  DeliveredAtMostTwice
PROPERTY
  KeepsPromise
