SPECIFICATION Spec
CONSTANTS
  i1 = i1
  i2 = i2
  i3 = i3
  w1 = w1
  w2 = w2
  r1 = r1
  Id <- MCIds
  Game <- MCGames
  GameOf <- MCGameOf
  Worker <- MCWorkers
  Reader <- MCReaders
  K = 1
  MaxPasses = 3
  MaxFailures = 0
  MaxSearches = 0
  NoGame = NoGame
  Missing = Missing
  Torn = Torn
SYMMETRY MCSymmetry
INVARIANTS
  Retrievable
CHECK_DEADLOCK FALSE
