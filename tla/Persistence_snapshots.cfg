CONSTANTS
  Writer = {w1, w2}
  Character <- Characters
  Maps <- ShortAndLong
  MaxSnapshots = 3
  MaxFaults = 1
  MaxKills = 1
SPECIFICATION Spec
SYMMETRY Writers
INVARIANTS TypeOK SnapshotLoads CutShortIsAPart
CHECK_DEADLOCK FALSE
