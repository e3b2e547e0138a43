SPECIFICATION UnattendedSpec
CONSTANTS
  Tasks = {t1}
  Execs = {e1, e2}
  Submitted <- MCRepeating
  MaxRetry = 1
  MaxEdits = 0
  MaxCrashes = 0
  MaxFaults = 1
CHECK_DEADLOCK FALSE
PROPERTIES DueTaskAdvances StopReturns RunEnds
