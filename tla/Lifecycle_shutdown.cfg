CONSTANTS
  Client = {c1, c2}
  Rounds = 2
SPECIFICATION FairSpec
INVARIANTS TypeOK ServerLeavesNothing LoneSamplesKept ReportsAddUp
PROPERTIES AllButDashboardEnd GaugeCatchesUp
CHECK_DEADLOCK FALSE
