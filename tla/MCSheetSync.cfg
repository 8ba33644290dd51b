\* Two tabs and two cells, over a socket that drops once and over http.
SPECIFICATION Spec
CONSTANTS
  Tabs = {t1, t2}
  Cells = {x, y}
  Mishaps = {}
  Scenarios <- MCScenarios
  MaxOpsPerRoom = 1
SYMMETRY TabSymmetry
INVARIANTS
  SeenIsLogPrefix
  SheetFollowsLog
  EditsKeptInOrder
  AcceptedOnce
PROPERTIES
  EditsBuildOnWholeLog
CHECK_DEADLOCK FALSE
