\* An acknowledgement arrives after a catch-up that already holds the entry.
SPECIFICATION Spec
CONSTANTS
  Tabs = {t1, t2}
  Cells = {x}
  Mishaps = {}
  Scenarios <- MCHttpEdits
  MaxOpsPerRoom = 4
INVARIANTS
  Converged
CHECK_DEADLOCK FALSE
