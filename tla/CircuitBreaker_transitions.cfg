CONSTANTS
  Thread = {t1, t2}
  Threshold = 2
  Timeout = 1
SPECIFICATION Spec
PROPERTY FollowsTransitions
