CONSTANTS
  Logins = {}
  MayFail = {"kill"}
  MaxAttempts = 2
  MaxFaults = 1
SPECIFICATION Spec
CHECK_DEADLOCK FALSE
INVARIANTS
  RefusedIsRegistered
