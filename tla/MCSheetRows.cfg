SPECIFICATION RowsSpec
CONSTANTS
  Tabs = {t1, t2}
  FirstRows = 3
  RowBounds <- MCRowBounds
INVARIANTS
  RowsFollowLogIfCoped
CHECK_DEADLOCK FALSE
