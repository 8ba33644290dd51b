\* Changes, other editors, lost calls and connections, a replaced file.
SPECIFICATION DeckFairSpec
CONSTANTS
  Slides <- MCSlides
  FirstDeck <- MCFirstDeck
  DeckBounds <- MCBounds
  DeckAttempts = 8
  Moves = 1
INVARIANTS
  BaseFollowsLogIfCoped
  BatchesKept
PROPERTIES
  ShownAsMade
  DeckSettles
CHECK_DEADLOCK FALSE
