CONSTANTS
  Thread = {t1, t2, t3}
  Threshold = 2
  Timeout = 2
SPECIFICATION FairSpec
INVARIANTS TypeOK FullCountTrips
PROPERTIES CoolingLastsTheTimeout OpenEnds HalfOpenEnds
