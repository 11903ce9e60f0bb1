SPECIFICATION FairSpec
CONSTANTS
  j1 = j1
  j2 = j2
  w1 = w1
  w2 = w2
  Job <- MCJobs
  Worker <- MCWorkers
  Kind = {"scan", "bogus"}
  Registered = {"scan"}
  Priority = {0, 10}
  MaxAttempts = 2
  MaxCrashes = 1
  MaxSignals = 1
  NoJob = NoJob
  NoRow = NoRow
INVARIANTS
  TypeOK
  OneOwner
  SnapshotFresh
  OrphansBoundedByCrashes
PROPERTIES
  ImplementsContract
  Settles
  GracefulStop
