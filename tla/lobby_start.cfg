CONSTANTS
  Devices = {"h", "a", "b"}
  Hosts = {"h"}
  Joiners = {"a", "b"}
  Leavers = {"a"}
  MaxTaps = 1
  MaxStarts = 1
  MaxFaults = 0
SPECIFICATION Spec
INVARIANTS AgreedSeats DistinctNumbers OnTheList
CHECK_DEADLOCK FALSE
