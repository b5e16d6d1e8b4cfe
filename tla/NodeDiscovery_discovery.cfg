CONSTANTS
  Self = self
  Node = {self, p, q}
  Thread = {t1, t2}
  Nobody = Nobody
  Timeout = 2
  MaxLag = 1
SPECIFICATION FairSpec
INVARIANTS TypeOK DeadMeansSilent AliveMeansRecent
PROPERTY SilentNodesDie
CHECK_DEADLOCK FALSE
