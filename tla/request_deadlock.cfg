SPECIFICATION FairSpec
CONSTANTS
  Calls = {c1, c2}
  Others = {}
  other = other
  Repliers = {r1, r2}
  None = None
  c1 = c1
  c2 = c2
  k1 = k1
  k2 = k2
  Keys = {k1, k2}
  Key <- OwnKeys
  MaxCopies <- Once
CHECK_DEADLOCK FALSE
PROPERTY EveryCallReturns
