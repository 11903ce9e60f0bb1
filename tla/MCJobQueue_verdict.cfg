SPECIFICATION SupervisedSpec
CONSTANTS
  j1 = j1
  j2 = j2
  w1 = w1
  w2 = w2
  Job <- MCJobs
  Worker <- MCWorkers
  Kind = {"scan"}
  Registered = {"scan"}
  Priority = {10}
  MaxAttempts = 2
  MaxCrashes = 1
  MaxSignals = 1
  NoJob = NoJob
  NoRow = NoRow
PROPERTIES
  ClaimedJobsAreMarked
