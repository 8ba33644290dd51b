\* Typing, other editors, lost calls and connections, a replaced file.
SPECIFICATION DocFairSpec
CONSTANTS
  DocHosts = {"at once", "later"}
  DocBounds <- MCBounds
  DocAttempts = 8
INVARIANTS
  SeenFollowsLogIfCoped
  NothingTwiceOrLost
PROPERTIES
  DocSettles
CHECK_DEADLOCK FALSE
