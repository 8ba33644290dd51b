\* Two rooms that share three connections, two places in each.  Who is
\* there does not depend on the log, which stays empty.
SPECIFICATION Spec
CONSTANTS
  Artifacts = {a1, a2}
  Conns = {c1, c2, c3}
  Hosts = {h1}
  Batches = {b1}
  Selections = {s1, s2}
  NoSelection = NoSelection
  NoOrigin = NoOrigin
  MaxRoomMembers = 2
  MaxOpsPerRoom = 1
  MaxSeq = 0
SYMMETRY Symmetry
INVARIANTS
  IndexesAgree
  PresenceAgrees
