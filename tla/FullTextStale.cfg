CONSTANTS
  Jobs = {1}
  Candidates = 1
  CanFail = {}
  MaxIds = 2
  MaxWaiting = 1
  MaxFaults = 1
  MaxPreviews = 2
  MaxSessions = 1
SPECIFICATION Spec
PROPERTY AttemptsAdvance
CHECK_DEADLOCK FALSE
