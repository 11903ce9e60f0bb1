SPECIFICATION Spec
CONSTANTS
  w1 = w1
  w2 = w2
  User <- OneUser
  Worker <- MCWorkers
  Source <- PastedSources
  GameId <- PastedIds
  IdOf <- PastedId
  Player <- PastedPlayers
  Feed <- PastedFeed
  Verdict <- AllFlagged
  Submitted = {"P", "Q"}
  ChunkSize = 1
  MaxAttempts = 2
  AlreadyPlayed = 0
  MaxBackfills = 1
  MaxAnalyses = 2
  MaxRaises = 1
  MaxCrashes = 0
  NoGame = NoGame
  NoNote = NoNote
SYMMETRY MCSymmetry
INVARIANTS
  TypeOK
  GamesForgottenOnlyByFailure
  BlundersForgottenOnlyByFailure
PROPERTIES
  AnnotationSetOnce
CHECK_DEADLOCK FALSE
