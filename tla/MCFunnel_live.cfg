SPECIFICATION FairSpec
CONSTANTS
  w1 = w1
  w2 = w2
  User <- OneUser
  Worker <- MCWorkers
  Source <- OneSource
  GameId <- OneSource
  IdOf <- OneId
  Player <- OnePlayers
  Feed <- OneFeed
  Verdict <- OneBlunder
  Submitted = {"A"}
  ChunkSize = 2
  MaxAttempts = 2
  AlreadyPlayed = 1
  MaxBackfills = 1
  MaxAnalyses = 1
  MaxRaises = 1
  MaxCrashes = 1
  NoGame = NoGame
  NoNote = NoNote
PROPERTIES
  ImplementsRows
  Drains
  EveryGameAnalysed
  EveryBlunderAnnotated
CHECK_DEADLOCK FALSE
