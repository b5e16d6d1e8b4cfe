CONSTANTS
  Thread = {t1}
  Key = {k1, k2, k3}
  Value = {v1}
  Node = {n1, n2, n3}
  TTL = {0}
  Nil = Nil
  Capacity = 2
  DefaultTTL = 9
  MaxTime = 3
  MaxLookups = 1
  Methods = {"set", "get"}
SPECIFICATION Spec
PROPERTY EvictsLeastRecentlyUsed
CHECK_DEADLOCK FALSE
