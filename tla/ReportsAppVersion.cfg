CONSTANTS
  Changing = {"apps"}
  MayFail = {}
  MaxEdits = 2
  MaxFaults = 0
SPECIFICATION FairSpec
PROPERTIES
  GatewayFollowsApps
