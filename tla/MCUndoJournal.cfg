\* Undo and redo among remote writes, refusals, failed writes and a restart.
SPECIFICATION UndoFairSpec
CONSTANTS
  UndoCells = {x, y}
  Ranges = {{x}, {x, y}}
  UndoBounds <- MCUndoBounds
INVARIANTS
  DocFollowsLogIfCoped
PROPERTIES
  UndoKeepsNewerRemote
  UndoRestores
  EventuallySettled
CHECK_DEADLOCK FALSE
