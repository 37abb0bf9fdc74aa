SPECIFICATION FairSpec
CONSTANTS
  Keys = {k1, k2}
  NumIds = 2
  FifoSize = 2
  MaxResend = 1
  Timeout = 1
  MaxRequests = 2
PROPERTY
  EveryRequestLeaves
