\* Everything arrives in the end, over a socket that drops once.
SPECIFICATION FairSpec
CONSTANTS
  Tabs = {t1, t2}
  Cells = {x}
  Mishaps = {}
  Scenarios <- MCLiveScenarios
  MaxOpsPerRoom = 4
PROPERTIES
  EventuallyInSync
CHECK_DEADLOCK FALSE
