SPECIFICATION Spec
CONSTANTS
  Services = {"pdf"}
  MaxPlans = 2
  MaxMeta = 0
  MaxEvents = 0
INVARIANT CancelHonoured
CHECK_DEADLOCK FALSE
