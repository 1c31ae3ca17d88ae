SPECIFICATION Spec
CONSTANTS
  Nothing = Nothing
  Sessions = {n1, o1}
  Orchestrated = {o1}
  MaxPanes = 2
  CapBytes = 1
  MaxChunk = 2
  MaxChunks = 2
  Workspaces = {w1, w2}
  WithFile = {w1}
  ChatsOf <- SmallChatsOf
  ChatOrder <- SmallChatOrder
  RepoOf <- SmallRepoOf
  HomeOf <- SmallHomeOf
  ChatCap = 1
  MaxClicks = 1
  Texts = {t1, t2}
  MaxWrites = 1
  Works = {w1, w2}
  Cited = {c1}
  Statuses = {"open", "done"}
  Here = c1
  FirstWorks = {w1}
  MaxRemarks = 1
  Chats = {c1, c2}
  WorkspaceOf <- SmallWorkspaceOf
  ChatOf <- SmallChatOf
  MaxLength = 2
  MaxSends = 1
  MaxLists = 2
  Trees = {main, side}
  Main = main
  MaxStages = 3
  Paths <- SmallPaths
  DirOf <- SmallDirOf
  NamedAs <- SmallNamedAs
  Letters <- SmallLetters
  Sorts = {"rewrite", "test"}
  Lines = {1}
  MaxEdits = 2
  Queries = {q1, q2}
  TotalOf <- SmallTotalOf
  MaxDrafts = 3
INVARIANTS
  PanesAreFaithful
  SelectedIsVisible
  ShownIsCurrent
  ComposerIsTrue
  LateAnswersAreDropped
  ReadInOrder
  TabStrip
CHECK_DEADLOCK FALSE
