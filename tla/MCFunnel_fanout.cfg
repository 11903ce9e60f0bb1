SPECIFICATION Spec
CONSTANTS
  w1 = w1
  w2 = w2
  User <- OneUser
  Worker <- MCWorkers
  Source <- TwoSources
  GameId <- TwoSources
  IdOf <- OwnId
  Player <- TwoPlayers
  Feed <- TwoFeed
  Verdict <- OneBlunder
  Submitted = {"A"}
  ChunkSize = 2
  MaxAttempts = 2
  AlreadyPlayed = 2
  MaxBackfills = 1
  MaxAnalyses = 0
  MaxRaises = 1
  MaxCrashes = 0
  NoGame = NoGame
  NoNote = NoNote
INVARIANTS
  BackfillFansOut
CHECK_DEADLOCK FALSE
