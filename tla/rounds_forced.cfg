CONSTANTS
  NumOfPlayers = 2
  Host = 1
  MayDisconnect = {1, 2}
  MaxDisconnects = 0
  MaxNumOfRounds = 2
  RoundTime = 1
  GetReadyTime = 0
  ForceDelay = 1
  MayQuit = {}
  PromptRender = TRUE
  SlowStart = FALSE
  Forcers = {2}
  MaxForces = 1
  Tappers = {1, 2}
  Waiters = {1, 2}
  Fetchers = {1, 2}
  MaxFetches = 0
SPECIFICATION Spec
INVARIANTS NoLostRoundEvent FullCountLeadsOn SavedMeansStored KindMatchesRound
CHECK_DEADLOCK FALSE
