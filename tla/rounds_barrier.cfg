CONSTANTS
  NumOfPlayers = 2
  Host = 1
  MayDisconnect = {1, 2}
  MaxDisconnects = 1
  MaxNumOfRounds = 2
  RoundTime = 1
  GetReadyTime = 0
  ForceDelay = 1
  MayQuit = {}
  PromptRender = FALSE
  SlowStart = FALSE
  Forcers = {}
  MaxForces = 0
  Tappers = {1, 2}
  Waiters = {1, 2}
  Fetchers = {1, 2}
  MaxFetches = 0
SPECIFICATION Spec
INVARIANTS TypeOK KindMatchesRound OneSheetPerRound DeliveredPutsStored SavedMeansStored RoundsComplete
PROPERTY BarrierSafety
CHECK_DEADLOCK FALSE
