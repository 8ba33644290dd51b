\* Two keys, two contents, another writer, and calls that fail.
SPECIFICATION AgentFairSpec
CONSTANTS
  Contents = {0, 1}
  AgentKeys = {k1, k2}
  ArtifactKinds = {"host", "value"}
  AgentBounds <- MCAgentBounds
INVARIANTS
  WrittenOnce
  WrittenAsReviewed
PROPERTIES
  AdoptsSuccessor
  EventuallyAnswered
CHECK_DEADLOCK FALSE
