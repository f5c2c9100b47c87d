SPECIFICATION FairSpec
CONSTANTS
  Products = {w1, w2}
  Tabs = {c1, c2, c3}
  Spacing = 1
  CoolDown = 1
  MaxTasks = 2
  MaxStops = 1
  MaxFaults = 1
PROPERTIES RequestsOpenOnce StopIsABoundary MissionTabsKept EveryOpeningSettles
CHECK_DEADLOCK FALSE
