SPECIFICATION FairSpec
CONSTANTS
  Runs = {r1, r2}
  FaultKinds = {"lost", "late"}
  MaxFaults = 1
  MaxBoots = 2
  MaxCancels = 2
  MaxCrashes = 1
INVARIANTS TypeOK PausedStaysOff
PROPERTIES SavesComeBack
