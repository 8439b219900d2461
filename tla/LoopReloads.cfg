CONSTANTS
  Admin = TRUE
  MayBreak = TRUE
  MaxEdits = 4
  MaxFaults = 3
SPECIFICATION FairSpec
INVARIANTS
  TypeOK
  PartsAgree
  CheckedIsUsed
  NoSignalIsLost
PROPERTIES
  SignalledIsLoaded
  InterruptEnds
