CONSTANTS
  NumOfPlayers = 3
  Host = 1
  MayDisconnect = {1, 2, 3}
  MaxDisconnects = 0
  MaxNumOfRounds = 3
  RoundTime = 1
  GetReadyTime = 0
  ForceDelay = 1
  MayQuit = {}
  PromptRender = TRUE
  SlowStart = FALSE
  Forcers = {}
  MaxForces = 0
  Tappers = {2}
  Waiters = {}
  Fetchers = {3}
  MaxFetches = 2
SPECIFICATION Spec
INVARIANTS RoundsComplete ReferenceFromNeighbour
CHECK_DEADLOCK FALSE
