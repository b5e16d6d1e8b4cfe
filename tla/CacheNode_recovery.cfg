CONSTANTS
  k1 = k1
  k2 = k2
  k3 = k3
  Client = {c1, c2, c3}
  Key = {k1, k2, k3}
  Nil = Nil
  Snapshot <- OneKeySnapshot
  Capacity = 2
  DefaultTTL = 0
  MaxRequests = 1
  MaxKills = 2
  MaxFaults = 0
  MaxTime = 1
SPECIFICATION Spec
SYMMETRY Symmetry
INVARIANTS TypeOK AckedIsLogged LogKeepsRealTimeOrder ReadsNotStale MissesAreJustified RecoveryIsExactInOrder
CHECK_DEADLOCK FALSE
