SPECIFICATION LSpec
CONSTANTS
  f1 = f1
  f2 = f2
  Worker = {w1, w2}
  Process = {w1, w2}
  Fen = {f1, f2}
  Walks <- MCWalks
  Threshold = 1
  Fallback = 1
  Retries = 2
  MaxCount = 2
  MaxScans = 3
  Game = {"A", "B"}
  Caps = {1, 2}
  MaxTries = 3
  MaxWaiting = 1
INVARIANTS
  CallsBoundedByOverlap
  BookExitSettled
  LostOnlyWhileFetching
PROPERTIES
  EveryScanEnds
CHECK_DEADLOCK FALSE
