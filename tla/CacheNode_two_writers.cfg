CONSTANTS
  k1 = k1
  k2 = k2
  k3 = k3
  Client = {c1, c2}
  Key = {k1}
  Nil = Nil
  Snapshot <- NoSnapshot
  Capacity = 1
  DefaultTTL = 1
  MaxRequests = 1
  MaxKills = 1
  MaxFaults = 0
  MaxTime = 0
SPECIFICATION Spec
INVARIANT RecoveryIsExact
CHECK_DEADLOCK FALSE
