CONSTANTS
  Changing = {"net", "hw", "apps"}
  MayFail <- AllFaults
  MaxEdits = 2
  MaxFaults = 2
SPECIFICATION FairSpec
INVARIANTS
  TypeOK
  NoFalseClaim
  FileIsGatewayView
PROPERTIES
  NothingKeptBack
  GatewayFollows
