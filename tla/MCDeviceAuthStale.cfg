SPECIFICATION FairSpec
CONSTANTS
  Device = {d}
  Slot = {s1}
  MaxCode = 2
  MaxKey = 3
  MaxIp = 2
  AdminOps = {"approve"}
  MaxFaults = 0
PROPERTIES
  ReturnsOnline
CHECK_DEADLOCK FALSE
