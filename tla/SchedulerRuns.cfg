SPECIFICATION Spec
CONSTANTS
  Tasks = {t1}
  Execs = {e1}
  Submitted <- MCRetryOrEvent
  MaxRetry = 1
  MaxEdits = 1
  MaxCrashes = 1
  MaxFaults = 1
CHECK_DEADLOCK FALSE
INVARIANTS TypeOK WorkIsCancellable OutcomeIsHonest StopDrainsTicker RunningRecordIsOwned
PROPERTIES OutcomeIsFinal KeepsLedger RunsKeepEdits
