SPECIFICATION Spec
CONSTANTS
  MaxMessages = 2
  Senders = {s1, s2}
  Human = Human
  MaxClock = 1
  MaxCrashes = 1
  MaxLives = 2
  MaxTyped = 1
  MaxHooks = 1
  Lagging = FALSE
  Binding = Binding
  Signal = Signal
  Null = Null
INVARIANTS
  PastedOnce
  Fifo
  NoMessageIsLost
CHECK_DEADLOCK FALSE
SYMMETRY SenderSymmetry
