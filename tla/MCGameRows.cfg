SPECIFICATION FairSpec
CONSTANTS
  w1 = w1
  w2 = w2
  Worker <- MCWorkers
  Ply = {1, 2}
  MaxPasses = 3
  MaxNotes = 2
  MaxFailures = 1
INVARIANTS
  TypeOK
  DeadlockNeedsBothKinds
PROPERTIES
  ImplementsContract
  TransactionsEnd
CHECK_DEADLOCK FALSE
