SPECIFICATION Spec
CONSTANTS
  None = None
  TranscriptProviders = {"claude", "codex", "pi"}
  KindsAt <- SmallKindsAt
  UuidOf <- SmallUuidOf
  MaxLines = 4
  MaxCuts = 1
  Says = {p1}
  MaxCommits = 3
  CardProviders = {"claude", "cursor", "codex"}
  Asks <- SmallAsks
  FreeTexts <- SmallFreeTexts
  Phrases = {"a", "b"}
  MaxItems = 5
  MaxPasses = 3
  Tick = 10
  NoTime = 0
  Calls = {k1, k2}
  Models = {m1, m2}
  Renderings = {p1}
  Empty = None
  MaxSummaries = 3
  Chats = {chat1}
  Names = {p1}
  Generated = {m1, m2}
  NewChat = newChat
  Absent = None
  MessageRows = {message1}
  Works = {work1}
  RowTexts = {m1, m2}
  MaxRow = 5
  Readers = {r1, r2}
  Writers = {x1, x2}
  Size = 2
  Free = None
  MaxWrites = 3
  MaxId = 3
  MigrationNames = {"a", "b"}
  MigrationBodies = {"x", "y"}
  MaxReleases = 3
  Targets = {agent1}
  CliOf <- SmallCliOf
  Bodies = {p1}
  MaxFired = 2
  Repos = {ours, fork}
  Branches = {"b"}
  RemotesSet <- SmallRemotes
  Limit = 2
  MaxPrs = 2
  MaxChanges = 2
  MaxSyncs = 3
INVARIANTS
  TranscriptsAreWhole
  TimelineIsTrue
  SearchFindsIt
  StoreIsSound
  SignalsAreTrue
  ShowsItsPullRequest
CHECK_DEADLOCK FALSE
