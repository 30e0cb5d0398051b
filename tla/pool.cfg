SPECIFICATION PoolSpec
CONSTANTS
  Calls = {c1, c2, c3}
  Others = {}
  Keys = {k1, k2, k3}
  Key <- MethodKeys
  MaxCopies <- Once
  None = None
  c1 = c1
  c2 = c2
  c3 = c3
  k1 = k1
  k2 = k2
  k3 = k3
  Repliers = {r1, r2}
  Modules = {"flyto", "payload"}
  FLYTO_THREAD_COUNT = 2
  PAYLOAD_THREAD_COUNT = 2
  PAYLOAD_RESPONSE_THREAD_COUNT = 2
CHECK_DEADLOCK FALSE
INVARIANTS ReplyIsOwn NoOrphanedWaiter
PROPERTY AnsweredUnlessStarved
