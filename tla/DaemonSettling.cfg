CONSTANTS
  Catalog <- MCCatalog3
  URI <- MCURI3
  NameOf <- MCNameOf3
  VersionOf <- MCVersionOf3
  VersionLimit = 0
  Name = {"a", "b"}
  MaxAttempts = 2
  BadApps <- MCBad
  CreatedMayStay = FALSE
  TornWrites = FALSE
  StatusFails = TRUE
  MaxFaults = 2
  MaxEdits = 2
SPECIFICATION DaemonSpec
PROPERTIES
  DaemonSettles
  RetriesAreBounded
  NothingToDoIsTrue
