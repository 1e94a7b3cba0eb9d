CONSTANTS
  NumOfPlayers = 3
  NumOfRounds = 3
  GetReadyTime = 3
  Candidates <- ThreeRounds
  MaxSheets = 4
SPECIFICATION Spec
INVARIANTS TypeOK StackIsStory ShownOnceOrLost ShownUnderItsRound SwipesBrowseAllStacks
PROPERTY ShownSheetsStay
CHECK_DEADLOCK FALSE
