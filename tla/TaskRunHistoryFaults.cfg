SPECIFICATION FairSpec
CONSTANTS
  MaxRuns = 2
  Ingest = {1, 2}
  Sourced = {2}
  Limits = {1}
  DefaultLimit = 1
  MaxSessions = 2
  MaxQueue = 1
  SaveFaults = TRUE
INVARIANTS CommittedOutputReadable OutcomeAgrees SingleIngest
PROPERTY QueueReleased
CHECK_DEADLOCK FALSE
