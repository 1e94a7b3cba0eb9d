CONSTANTS
  Queries = {"roundNum"}
  MaxPuts = 2
  MaxGets = 1
  MaxListens = 2
  MaxDisconnects = 2
SPECIFICATION FairSpec
INVARIANTS TypeOK NewerWriteWins GetSeesEarlierWrites ListensRestored
PROPERTIES WritesAreAChannel WritesComplete GetsComplete
CHECK_DEADLOCK FALSE
