CONSTANTS
  Devices = {"h", "g"}
  Hosts = {"h", "g"}
  Joiners = {"h", "g"}
  Leavers = {"g"}
  MaxTaps = 1
  MaxStarts = 1
  MaxFaults = 2
SPECIFICATION FairSpec
INVARIANTS TypeOK AgreedSeats DistinctNumbers OneHost OnTheList
PROPERTY NobodyLeftBehind
CHECK_DEADLOCK FALSE
