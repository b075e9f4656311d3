CONSTANTS
  Publishers = {p1, p2}
  MaxCrashes = 1
  MaxRestarts = 1
  Retain = FALSE
SPECIFICATION Spec
INVARIANT LockHeld
CHECK_DEADLOCK FALSE
