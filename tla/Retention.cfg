SPECIFICATION Spec
CONSTANTS
  Runs = {r1, r2}
  Names <- MCNames
  Extends <- MCExtends
  Retain <- MCRetain
  MinBackups <- MCMin
  MaxBackups <- MCMax
  Second = 2
  Earlier <- MCEarlier
  Start = 4
  MaxClock = 9
  MaxFaults = 1
CHECK_DEADLOCK FALSE
INVARIANTS TypeOK NewestKept
PROPERTIES OptionsCombine
