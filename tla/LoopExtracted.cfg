CONSTANTS
  Admin = FALSE
  MayBreak = FALSE
  MaxEdits = 1
  MaxFaults = 0
SPECIFICATION Spec
INVARIANTS
  SignalledIsUsed
