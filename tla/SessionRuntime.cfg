SPECIFICATION Spec
CONSTANTS
  Callers = {c1, c2}
  Renderer = {c1}
  Sessions = {s1}
  Runtimes = {"pty", "rpc"}
  MaxKids = 3
  Failing = {"upsert", "stop"}
  Null = Null
SYMMETRY CallerSymmetry
INVARIANTS TerminalsHeld RunningIsHeld
PROPERTY KilledOnlyIfStopped
