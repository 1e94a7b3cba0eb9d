CONSTANTS
  NumOfPlayers = 2
  Host = 1
  MayDisconnect = {1, 2}
  MaxDisconnects = 1
  MaxNumOfRounds = 2
  RoundTime = 1
  GetReadyTime = 0
  ForceDelay = 1
  MayQuit = {}
  PromptRender = TRUE
  SlowStart = FALSE
  Forcers = {}
  MaxForces = 0
  Tappers = {1, 2}
  Waiters = {1, 2}
  Fetchers = {1, 2}
  MaxFetches = 0
SPECIFICATION FairSpec
PROPERTIES BarrierLive AllReachSummary
CHECK_DEADLOCK FALSE
