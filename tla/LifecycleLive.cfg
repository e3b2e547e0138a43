SPECIFICATION FairSpec
CONSTANTS
  Containers = {d1, d2, d3, d4, d5}
  Calls = {c1, c2}
  Kinds <- MCAll
  AutoStart = TRUE
  Detached = {"new"}
  FaultKinds = {"docker", "db", "list", "vanish"}
  MaxFaults = 1
  MaxCrashes = 0
  MaxRequests = 2
  MaxHealth = 1
  NoContainer = NoContainer
CHECK_DEADLOCK FALSE
PROPERTIES StatusConverges AutoStarted DetachedKeepsRunning
