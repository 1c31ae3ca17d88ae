SPECIFICATION FairSpec
CONSTANTS
  Null = Null
  Fields = {title, labels}
  Values = {v1, v2}
  Statuses = {open, done}
  Priorities = {p0}
  Cites = {x1}
  Targets = {t1}
  Clients = {c1, c2}
  RpcClients = {c1}
  Works = {w1}
  Verbs = {"create", "revise", "status_set", "priority_set", "references", "references_removed", "delegated_to", "comment"}
  NewWorks <- SmallNewWorks
  Edits <- SmallEdits
  MaxId = 4
INVARIANTS LinearHistory SearchMirrors ChangesAnnounced
PROPERTIES NoLostEdit ImplementsWorkItems RendererCatchesUp
