SPECIFICATION FairSpec
CONSTANTS
  Device = {d}
  Slot = {s1, s2}
  MaxCode = 2
  MaxKey = 3
  MaxIp = 1
  AdminOps = {"approve", "session"}
  MaxFaults = 1
INVARIANTS
  TypeOK
  KeysAgreeUnlessUnheard
PROPERTIES
  ApprovedComesUp
CHECK_DEADLOCK FALSE
