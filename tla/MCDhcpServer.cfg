SPECIFICATION FairSpec
CONSTANTS
  Clients = {a, b, c}
  Patient = {a}
  Free = free
  Slots = 2
  Unit = 2
  Circle = 12
  Duration = 3
  Jumps = {1, 5}
INVARIANTS
  NoSharedAddress
  LeaseSeenRight
PROPERTIES
  AddressComesFree
