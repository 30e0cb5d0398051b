SPECIFICATION FairSpec
CONSTANTS
  Calls = {c1, c2, other}
  Others = {other}
  other = other
  Repliers = {r1, r2}
  None = None
  c1 = c1
  c2 = c2
  k1 = k1
  k2 = k2
  Keys = {k1}
  Key <- CommonKey
  MaxCopies <- Repeated
CHECK_DEADLOCK FALSE
INVARIANTS NoLeakedEntry TimeoutIsFinal
PROPERTIES ServiceKept ReturnsUnlessCycle
