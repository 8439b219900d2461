CONSTANTS
  Batch = 2
  MaxEvents = 5
  MaxFaults = 2
SPECIFICATION FairSpec
INVARIANTS
  TypeOK
  NoEventIsLost
  OnceWithoutFaults
PROPERTIES
  QueueSpec
  EveryEventIsGiven
  ProducerGoesOn
