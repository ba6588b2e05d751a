SPECIFICATION Spec
CONSTANTS
  Device = {d1, d2}
  Slot = {s1, s2}
  MaxCode = 1
  MaxKey = 1
  MaxIp = 2
  AdminOps = {"approve", "session", "override", "revoke", "delete"}
  MaxFaults = 0
SYMMETRY Alike
CONSTRAINTS
  OneWriter
  UpToKeys
INVARIANTS
  NoKeysWithoutApproval
  VipsDistinct
CHECK_DEADLOCK FALSE
