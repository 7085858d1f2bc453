SPECIFICATION Spec
CONSTANTS
  None = None
  Cards <- Cards0
  Owns <- Owns0
  Titles <- Titles0
  Paths <- Paths0
  Boards <- Boards1
  MaxEdits = 2
  MaxCards = 1
  MaxSections = 1
  MaxViews = 3
CHECK_DEADLOCK FALSE
PROPERTY UndoIsExact
