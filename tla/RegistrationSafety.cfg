CONSTANTS
  Logins = {"login"}
  MayFail <- AllFaults
  MaxAttempts = 3
  MaxFaults = 3
SPECIFICATION Spec
CHECK_DEADLOCK FALSE
INVARIANTS
  TypeOK
  KeyMatchesCertificate
  DatabaseOfDevice
  RegisteredIsComplete
  FailedIsAllOrNothing
PROPERTIES
  OnlyForceUnregisters
  OldLoginsAreKept
