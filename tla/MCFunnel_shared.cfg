SPECIFICATION Spec
CONSTANTS
  w1 = w1
  w2 = w2
  User <- TwoUsers
  Worker <- MCWorkers
  Source <- SharedSource
  GameId <- SharedSource
  IdOf <- SharedId
  Player <- SharedPlayers
  Feed <- NoFeed
  Verdict <- AllFlagged
  Submitted = {"A"}
  ChunkSize = 1
  MaxAttempts = 2
  AlreadyPlayed = 0
  MaxBackfills = 0
  MaxAnalyses = 2
  MaxRaises = 0
  MaxCrashes = 0
  NoGame = NoGame
  NoNote = NoNote
INVARIANTS
  OnlyUserMoves
CHECK_DEADLOCK FALSE
