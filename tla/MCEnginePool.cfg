SPECIFICATION FairSpec
CONSTANTS
  Threads = 3
  MaxWork = 3
  MaxFaults = 2
INVARIANTS
  TypeOK
  NothingOutlivesTheBatch
  NoCircleOfEnds
PROPERTIES
  ImplementsContract
  EveryBatchEnds
