CONSTANTS
  Notes = {n1, n2}
  Edited = {}
  Windows = {w1, w2}
  MaxPlans = 2
  MaxEvents = 0
SPECIFICATION Spec
INVARIANT RetryPossible
CHECK_DEADLOCK FALSE
