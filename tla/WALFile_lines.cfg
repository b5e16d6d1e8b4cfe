CONSTANTS
  w1 = w1
  w2 = w2
  Key = {k1}
  Value <- Values
  MaxAppends = 3
  MaxFaults = 2
  MaxKills = 1
SPECIFICATION Spec
INVARIANTS TypeOK WholeLinesSurvive DamageIsBounded
CHECK_DEADLOCK FALSE
