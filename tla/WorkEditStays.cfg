SPECIFICATION Spec
CONSTANTS
  Works = {w1, w2}
  Chats = {c1, c2}
  Statuses = {"open", "done"}
  Here = c1
  Stored = {w1}
  MaxWrites = 2
  MaxRemarks = 0
  Nothing = Nothing
INVARIANT SavedToItsWork
CHECK_DEADLOCK FALSE
