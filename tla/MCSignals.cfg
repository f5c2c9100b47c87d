SPECIFICATION FairSpec
CONSTANTS
  Products = {w1}
  Times = {1}
  Grace = 0
  Window = 2
  Fresh = 1
  QueueLimit = 1
  MaxPushes = 2
  MaxFaults = 1
  MaxEpoch = 1
  MaxNow = 2
INVARIANTS ActedOnce NothingLost FiresOnce
PROPERTIES QueueDrains DueIsResolved
CHECK_DEADLOCK FALSE
