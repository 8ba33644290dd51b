\* One room, two connections: every interleaving of appends, saves,
\* retention, membership and replacements by two
\* writers of the bytes, and the log against LinearLog.
SPECIFICATION Spec
CONSTANTS
  Artifacts = {a1}
  Conns = {c1, c2}
  Hosts = {h1, h2}
  Batches = {b1}
  Selections = {}
  NoSelection = NoSelection
  NoOrigin = NoOrigin
  MaxRoomMembers = 2
  MaxOpsPerRoom = 2
  MaxSeq = 3
SYMMETRY Symmetry
INVARIANTS
  TypeOK
  RetentionExact
  ReplayExact
  ReplayComplete
  FeedGapFree
  ReplacementAnnounced
PROPERTIES
  LogsAreLinear
