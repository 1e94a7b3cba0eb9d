CONSTANTS
  Devices = {"h", "a", "b"}
  Hosts = {"h"}
  Joiners = {"a", "b"}
  Leavers = {"a"}
  MaxTaps = 1
  MaxStarts = 1
  MaxFaults = 0
SPECIFICATION Spec
INVARIANT NoTrap
CHECK_DEADLOCK FALSE
