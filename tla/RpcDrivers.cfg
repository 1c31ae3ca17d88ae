SPECIFICATION FairSpec
CONSTANTS
  MaxTurns = 2
  Reloads = TRUE
  MaxLives = 2
  MaxItems = 1
  Asks = {a1}
  Queries = {}
  Null = Null
INVARIANTS
  TurnsAreServed
  StoppedHasNoCards
PROPERTIES
  RowsAreWhole
  EverythingSettles
CHECK_DEADLOCK FALSE
