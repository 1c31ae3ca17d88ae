SPECIFICATION Spec
CONSTANTS
  MaxPrompts = 2
  Bodies = {b1}
  Questions = {q1}
  Resolved = {"answered"}
  MaxEvents = 2
  Watcher = Watcher
  Backfill = Backfill
  Null = Null
INVARIANTS
  NoDuplicateBubble
  SettledUsers
  SettledCards
CHECK_DEADLOCK FALSE
