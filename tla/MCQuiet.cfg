SPECIFICATION FairSpec
CONSTANTS
  Products = {w1, w2}
  MinInterval = 2
  MaxInterval = 3
  Limit = 1
  Timeout = 2
  CoolDown = 2
  RetryAfter = 3
  FailLimit = 2
  Quarantine = 2
  ClusterLimit = 2
  ClusterWindow = 2
  MaxLate = 6
  MaxStops = 1
  MaxFaults = 2
INVARIANT LimitKept
PROPERTIES CadenceKept StoreLeftAlone NoneStarves
