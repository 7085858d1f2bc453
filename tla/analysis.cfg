SPECIFICATION Spec
CONSTANTS
  None = None
  Cards <- Cards0
  Owns <- Owns0
  Titles <- Titles0
  Paths <- Paths0
  Boards <- Boards0
  MaxEdits = 2
  MaxCards = 3
  MaxSections = 3
  MaxViews = 2
CHECK_DEADLOCK FALSE
INVARIANT EveryChangeIsSeen
INVARIANT MatchedOnce
PROPERTY UndoGoesBack
PROPERTY UndoKeepsTheRest
PROPERTY UndoneOnce
PROPERTY PutBackSettles
