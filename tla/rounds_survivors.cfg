CONSTANTS
  NumOfPlayers = 2
  Host = 1
  MayDisconnect = {1, 2}
  MaxDisconnects = 1
  MaxNumOfRounds = 1
  RoundTime = 1
  GetReadyTime = 0
  ForceDelay = 1
  MayQuit = {1}
  PromptRender = TRUE
  SlowStart = FALSE
  Forcers = {2}
  MaxForces = 1
  Tappers = {1, 2}
  Waiters = {1, 2}
  Fetchers = {1, 2}
  MaxFetches = 0
SPECIFICATION ImpatientSpec
PROPERTY SurvivorsReachSummary
CHECK_DEADLOCK FALSE
