CONSTANTS
  Thread = {t1, t2}
  Key = {k1, k2, k3}
  Value = {v1, v2}
  Node = {n1, n2, n3}
  TTL <- DefaultAndShort
  Nil = Nil
  Capacity = 2
  DefaultTTL = 3
  MaxTime = 2
  MaxLookups = 2
  Methods = {"set", "get", "exists", "del", "cleanup", "size", "hit_rate"}
SPECIFICATION Spec
SYMMETRY Symmetry
INVARIANTS TypeOK ContainersAgree WithinCapacity
PROPERTIES ImplementsBoundedStore RateNotFlattered LoopsMakeProgress
CHECK_DEADLOCK FALSE
