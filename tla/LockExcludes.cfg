CONSTANTS
  Procs = {p1, p2}
  Users = {"root", "user"}
  Owner = "root"
  Dirs = {"/tmp", "/var/tmp"}
  RunExists = TRUE
  Batch = 2
  MaxLogins = 1
  MaxEvents = 3
  MaxFaults = 2
SYMMETRY Symmetry
SPECIFICATION Spec
INVARIANTS
  TypeOK
  MutualExclusion
  OnlyFaultsRepeat
PROPERTY
  QueueSpec
