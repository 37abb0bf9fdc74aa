SPECIFICATION WifiFairSpec
CONSTANTS
  MaxRequests = 2
  Every = 6
  AtSecond = 1
  ap_timeout = 2
  Lengths = {1, 2}
INVARIANTS
  ActiveIsOn
PROPERTIES
  RequestsAreTried
  OfflineOpensAccessPoint
