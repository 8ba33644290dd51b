\* Stops, lost connections, failed writes, lost answers and cancellations.
SPECIFICATION JournalFairSpec
CONSTANTS
  Bounds <- MCBounds
  MaxEdits = 2
INVARIANTS
  AcknowledgedIsLogged
  RebasedUnlessUnseen
  BlockedOnlyIfRefused
PROPERTIES
  ImplementsOutbox
  ResyncBeforeReplay
  EventuallyLogged
CHECK_DEADLOCK FALSE
