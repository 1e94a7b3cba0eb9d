CONSTANTS
  NumOfPlayers = 11
  NumOfRounds = 11
  GetReadyTime = 3
  Candidates <- LateRounds
  MaxSheets = 4
SPECIFICATION Spec
INVARIANT ShownUnderItsRound
CHECK_DEADLOCK FALSE
