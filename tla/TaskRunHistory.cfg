SPECIFICATION Spec
CONSTANTS
  MaxRuns = 3
  Ingest = {1, 3}
  Sourced = {1}
  Limits = {1, 2}
  DefaultLimit = 2
  MaxSessions = 2
  MaxQueue = 1
  SaveFaults = FALSE
INVARIANTS TypeOK JournalRecoverable
PROPERTIES UnlinkIsOrdered ImplementsLedger
CHECK_DEADLOCK FALSE
