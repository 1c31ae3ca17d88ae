SPECIFICATION Spec
CONSTANTS
  MaxTurns = 2
  Reloads = FALSE
  MaxLives = 2
  MaxItems = 1
  Asks = {q1}
  Queries = {q1}
  Null = Null
PROPERTY StoredOnlyGrows
CHECK_DEADLOCK FALSE
