SPECIFICATION Spec
CONSTANTS
  Containers = {d1, d2, d3, d4}
  Calls = {c1}
  Kinds <- MCAll
  AutoStart = TRUE
  Detached = {"new"}
  FaultKinds = {}
  MaxFaults = 0
  MaxCrashes = 2
  MaxRequests = 4
  MaxHealth = 2
  NoContainer = NoContainer
CHECK_DEADLOCK FALSE
INVARIANTS TypeOK NoErrorWithoutFault TracksContainer
