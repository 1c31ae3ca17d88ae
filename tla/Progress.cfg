SPECIFICATION FairSpec
CONSTANTS
  Null = Null
  Parts = {"status", "context", "terminals", "agents", "watch"}
  Apps = {i1, i2}
  Overrides = {"unset"}
  Permits = {TRUE, FALSE}
  Agents = {a1, a2}
  SpawnIds = {k1}
  Sets = {{}, {"status"}}
  Cites = {c1}
  MaxTries = 2
  Arcs = {dev, stable}
  Mine = {user}
  Legacy = helper
  Listening = {stable}
  MaxBlocks = 1
  Launches = {l1, l2}
  MaxServers = 4
  MayFail = TRUE
  MaxLoads = 3
  MaxRequests = 2
  LateSends = TRUE
  Gates = {"trust", "login"}
  MaxPaints = 4
  Source = source
  Branches = {b1}
  Edits = {e1, e2}
  MaxStash = 1
  MaxEdits = 3
  MaxRemaps = 2
  MaxMoves = 1
  MaxPushes = 1
  Paths = {p1, p2}
  MaxWrites = 2
  MaxBinds = 2
  Callers = {c1, c2}
  PtyIds = {s1}
  RpcIds = {s1, s2}
  MaxPtyKids = 2
  MaxRpcKids = 4
PROPERTIES
  RowsTellTheTruth
  TranscriptArrives
  GitPaneCatchesUp
  CallsEnd
CHECK_DEADLOCK FALSE
