SPECIFICATION Spec
CONSTANTS
  MaxRuns = 3
  Ingest = {1, 3}
  Sourced = {1}
  Limits = {1}
  DefaultLimit = 1
  MaxSessions = 2
  MaxQueue = 1
  SaveFaults = TRUE
INVARIANTS JournalRecoverable
CHECK_DEADLOCK FALSE
