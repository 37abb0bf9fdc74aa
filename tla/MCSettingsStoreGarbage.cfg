SPECIFICATION Spec
CONSTANTS
  Writers = {"control", "web"}
  Members = {"sets", "hostname"}
  Data <- SomeData
  Erased = Erased
  Nobody = Nobody
  Fields = {"bat_min_v"}
  BatFields = {"bat_min_v"}
  Default = Default
  Chosen = Chosen
  TooFar = TooFar
  Garbage = Garbage
  h1 = h1
  h2 = h2
  HostNames <- SomeHostNames
  NoName = NoName
INVARIANT
  NoGarbageLoaded
