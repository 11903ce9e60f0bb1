SPECIFICATION Spec
CONSTANTS
  AllTags = {"fork", "pin"}
  NotATag = NotATag
INVARIANTS
  BatchesAsIfAlone
  AnswersAlwaysMatch
  MistakesAreCandidates
  SamplesWithinCaps
  AnnotationsStayAligned
  BoardsColourBlind
  ExchangesAreSound
CHECK_DEADLOCK FALSE
