CONSTANTS
  Catalog <- MCCatalog2
  URI <- MCURI2
  NameOf <- MCNameOf2
  VersionOf <- MCVersionOf2
  VersionLimit = 0
  Name = {"a", "b"}
  MaxAttempts = 2
  BadApps = {}
  CreatedMayStay = FALSE
  TornWrites = FALSE
  StatusFails = FALSE
  MaxFaults = 1
  MaxEdits = 1
SPECIFICATION Spec
PROPERTIES
  FailureMeansEnded
