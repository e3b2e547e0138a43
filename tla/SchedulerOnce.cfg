SPECIFICATION Spec
CONSTANTS
  Tasks = {t1}
  Execs = {e1, e2}
  Submitted <- MCOnce
  MaxRetry = 0
  MaxEdits = 0
  MaxCrashes = 0
  MaxFaults = 0
CHECK_DEADLOCK FALSE
INVARIANTS OnceRunsOnce
