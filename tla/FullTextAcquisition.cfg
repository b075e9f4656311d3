CONSTANTS
  Jobs = {1}
  Candidates = 2
  CanFail = {"job", "snapshot"}
  MaxIds = 2
  MaxWaiting = 1
  MaxFaults = 1
  MaxPreviews = 1
  MaxSessions = 2
SPECIFICATION FairSpec
INVARIANTS StopHonoured AcquiredBacked RunnerOrSettled HighestIsOne
PROPERTY Finishes
CHECK_DEADLOCK FALSE
