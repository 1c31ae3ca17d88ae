SPECIFICATION Spec
CONSTANTS
  Callers = {c1}
  Renderer = {c1}
  Sessions = {s1}
  Runtimes = {"rpc"}
  MaxKids = 1
  Failing = {"upsert", "stop"}
  Null = Null

INVARIANT DriversHeld
