CONSTANTS
  v1 = v1
  t1 = t1
  q1 = q1
  q2 = q2
  p1 = p1
  Nothing = Nothing
  Processes = {p1}
  Threshold = 2
  MaxOutages = 1
  MaxDelay = 1
  MaxTime = 4
  Views = {v1}
  Transfers = {t1}
  Home <- MCHome
  Ttl = 1
  Jitter = 0
  Requests = {q1, q2}
  Server <- MCServer
  Parts = 2
  Limit = 1
  FallbackMax = 1
SPECIFICATION FairLayerSpec
CHECK_DEADLOCK FALSE
INVARIANTS
  ShownBalancesAreRecent
PROPERTIES
  SlidingWindowHolds
  CircuitsClose
