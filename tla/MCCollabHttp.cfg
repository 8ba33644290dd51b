\* Two tabs whose streams break, fill up and expire.
SPECIFICATION HttpFairSpec
CONSTANTS
  Tabs = {t1, t2}
  EventBuffer = 2
  HttpBounds <- MCBounds
INVARIANTS
  NobodyLeftBehindIfCoped
  MirrorAgreesIfCoped
PROPERTIES
  EventuallyAllPresent
CHECK_DEADLOCK FALSE
