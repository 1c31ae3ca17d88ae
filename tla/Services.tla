------------------------------- MODULE Services -------------------------------
(***************************************************************************)
(* The services of the main process: what starts and configures it, the    *)
(* channels of the hooks, the window and the tools, the terminals, the     *)
(* worktrees and the git pane, the watchers of transcripts and the ends of *)
(* sessions.  What one needs of another it takes as arbitrary: a behaviour *)
(* is one of one part, while the others stay as they begin.  Names are the *)
(* parts' own, but for those that two parts share.                         *)
(***************************************************************************)
EXTENDS Naturals, Sequences

CONSTANTS
  Null,  \* no session, transcript or caller
  Parts  \* the parts a run is about

-----------------------------------------------------------------------------
(* Startup, tools, configuration and channels.                             *)

CONSTANTS
  Apps, Overrides, Permits,               \* Startup
  Agents, SpawnIds, Sets, Cites, MaxTries, \* McpTools
  Arcs, Mine, Legacy, Listening, MaxBlocks, \* ProviderConfig
  Launches, MaxServers, MayFail,          \* HookServer
  MaxLoads, MaxRequests, LateSends,       \* RpcTransport
  Gates, MaxPaints                        \* PtyReadiness

VARIABLES
  part, \* the part whose behaviour this is
  appPc, env, decision, serving, file, held, windows, leaving,
  calling, todo, loaded, tries, fields, cites, cutBy, comments, session, delegated, learnt, inbox,
  named, text, writing, theirs, raced, armed,
  hookPc, attempt, mine, bindLock, servers, listening, node, created, cut, closing,
  page, reloading, bridge, built, calls, sent, got, wired, clientIdByWc, nextClientId, late,
  mailbox, disconnects, handlers,
  seed, glyphed, ahead, paints, chunks, gatesLeft, delivered, fallback, settling, typed, early,
  submitted, lapsed

startupVars == <<appPc, env, decision, serving, file, held, windows, leaving>>
toolVars == <<calling, todo, loaded, tries, fields, cites, cutBy, comments, session, delegated,
  learnt, inbox>>
configVars == <<named, text, writing, theirs, raced, armed>>
hookVars == <<hookPc, attempt, mine, bindLock, servers, listening, node, created, cut, closing>>
rpcVars == <<page, reloading, bridge, built, calls, sent, got, wired, clientIdByWc, nextClientId,
  late, mailbox, disconnects, handlers>>
terminalVars == <<seed, glyphed, ahead, paints, chunks, gatesLeft, delivered, fallback, settling,
  typed, early, submitted, lapsed>>

Boot == INSTANCE Startup WITH pc <- appPc
Tools == INSTANCE McpTools WITH Nobody <- Null, Kids <- SpawnIds
Configs == INSTANCE ProviderConfig
Hooks == INSTANCE HookServer WITH
  Overlap <- FALSE, pc <- hookPc, permit <- bindLock, leaving <- closing
Transport == INSTANCE RpcTransport
Terminal == INSTANCE PtyReadiness

-----------------------------------------------------------------------------
(* Trees, git pane, transcripts and sessions.                              *)

CONSTANTS
  Source, Branches, Edits, MaxStash,              \* Worktrees
  MaxEdits, MaxRemaps, MaxMoves, MaxPushes,       \* GitPane
  Paths, MaxWrites, MaxBinds,                     \* TranscriptWatch
  Callers, PtyIds, RpcIds, MaxPtyKids, MaxRpcKids \* SessionRuntime

VARIABLES
  work, stash, live, vanished, branches, usersOwn, treeRows, openTrees, sidebar, found, create, owed,
  tree, watch, kept, ping, lastSeen, statusTick, remaps, statusPane, statusGot, status,
  git, hooks, citing, cited, detection, detected, sync, repoRows, announced, repoTick, contextPane,
  contextGot, context,
  onDisk, inStore, boundTo, binds, sessionPushes, watchedTargets, watcher, ended, overtaken,
  backfill, poller,
  store, ptys, exits, exiting, timers, binding, rpc, rows, sql, kids, call, ptyLock, rpcLock

worktreeVars == <<work, stash, live, vanished, branches, usersOwn, treeRows, openTrees, sidebar,
  found, create, owed>>
statusVars == <<tree, watch, kept, ping, lastSeen, statusTick, remaps, statusPane, statusGot, status>>
contextVars == <<git, hooks, citing, cited, detection, detected, sync, repoRows, announced, repoTick,
  contextPane, contextGot, context>>
watchVars == <<onDisk, inStore, boundTo, binds, sessionPushes, watchedTargets, watcher, ended,
  overtaken, backfill, poller>>
sessionVars == <<store, ptys, exits, exiting, timers, binding, rpc, rows, sql, kids, call,
  ptyLock, rpcLock>>

Trees == INSTANCE Worktrees WITH Intrude <- FALSE, theirs <- usersOwn
Pane == INSTANCE GitPane
Watch == INSTANCE TranscriptWatch WITH
  NoPath <- Null, binding <- boundTo

\* The sessions of a behaviour run in terminals, or as rpc agents.
PtySessions == INSTANCE SessionRuntime WITH
  Renderer <- {}, Sessions <- PtyIds, Runtimes <- {"pty"}, MaxKids <- MaxPtyKids,
  Failing <- {}
RpcSessions == INSTANCE SessionRuntime WITH
  Renderer <- {}, Sessions <- RpcIds, Runtimes <- {"rpc"}, MaxKids <- MaxRpcKids,
  Failing <- {"upsert", "state", "stop"}

ASSUME ServicesAssumption ==
  /\ Tools!ToolsAssumption /\ Configs!ConfigAssumption /\ Hooks!HookAssumption /\ Trees!WorktreesAssumption
  /\ Watch!NoPathAssumption /\ Terminal!ReadinessAssumption
  /\ PtySessions!RuntimeAssumption /\ RpcSessions!RuntimeAssumption

-----------------------------------------------------------------------------

vars == <<part, startupVars, toolVars, configVars, hookVars, rpcVars, terminalVars, worktreeVars,
          statusVars, contextVars, watchVars, sessionVars>>

ASSUME PartsAssumption ==
  Parts \subseteq {"startup", "tools", "configs", "hooks", "transport", "terminal", "trees",
                   "status", "context", "watch", "terminals", "agents"}

Init ==
  /\ part \in Parts
  /\ Boot!Init /\ Tools!Init /\ Configs!Init /\ Hooks!Init /\ Transport!Init /\ Terminal!Init
  /\ Trees!Init /\ Pane!StatusInit /\ Pane!ContextInit /\ Watch!Init
  /\ IF part = "agents" THEN RpcSessions!Init ELSE PtySessions!Init
  \* A part at rest has one initial state.
  /\ part # "configs" => named = ".mcp.json"
  /\ part # "hooks" => node = Hooks!NoNode
  /\ part # "terminal" => seed = "none" /\ glyphed = FALSE /\ ahead = <<>>
  /\ part # "trees" => branches = {}
  /\ part # "context" => repoRows.bound = FALSE

\* A step of part p: the others hold still.
Of(p, step) ==
  /\ part = p /\ step /\ UNCHANGED part
  /\ (IF p = "startup" THEN TRUE ELSE UNCHANGED startupVars)
  /\ (IF p = "tools" THEN TRUE ELSE UNCHANGED toolVars)
  /\ (IF p = "configs" THEN TRUE ELSE UNCHANGED configVars)
  /\ (IF p = "hooks" THEN TRUE ELSE UNCHANGED hookVars)
  /\ (IF p = "transport" THEN TRUE ELSE UNCHANGED rpcVars)
  /\ (IF p = "terminal" THEN TRUE ELSE UNCHANGED terminalVars)
  /\ (IF p = "trees" THEN TRUE ELSE UNCHANGED worktreeVars)
  /\ (IF p = "status" THEN TRUE ELSE UNCHANGED statusVars)
  /\ (IF p = "context" THEN TRUE ELSE UNCHANGED contextVars)
  /\ (IF p = "watch" THEN TRUE ELSE UNCHANGED watchVars)
  /\ (IF p \in {"terminals", "agents"} THEN TRUE ELSE UNCHANGED sessionVars)

Next ==
  \/ Of("startup", Boot!Next)
  \/ Of("tools", Tools!Next)
  \/ Of("configs", Configs!Next)
  \/ Of("hooks", Hooks!Next)
  \/ Of("transport", Transport!Next)
  \/ Of("terminal", Terminal!Next)
  \/ Of("trees", Trees!Next)
  \/ Of("status", Pane!StatusNext)
  \/ Of("context", Pane!ContextNext)
  \/ Of("watch", Watch!Next)
  \/ Of("terminals", PtySessions!Next)
  \/ Of("agents", RpcSessions!Next)

Spec == Init /\ [][Next]_vars

\* The fairness of the parts whose progress is checked (as in their own modules).
StatusFair ==
  /\ WF_statusVars(part = "status" /\ Pane!Publish)
  /\ WF_statusVars(part = "status" /\ Pane!DeliverChange)
  /\ WF_statusVars(part = "status" /\ Pane!ServeStatus)
  /\ WF_statusVars(part = "status" /\ Pane!AnswerStatus)
ContextFair ==
  /\ WF_contextVars(part = "context" /\ Pane!DeliverNews)
  /\ WF_contextVars(part = "context" /\ Pane!ServeContext)
  /\ WF_contextVars(part = "context" /\ Pane!AnswerContext)
WatchFair ==
  /\ WF_watchVars(part = "watch" /\ Watch!Reconcile)
  /\ WF_watchVars(part = "watch" /\ Watch!Arm)
  /\ WF_watchVars(part = "watch" /\ Watch!Stat)
  /\ WF_watchVars(part = "watch" /\ Watch!Debounced)
  /\ WF_watchVars(part = "watch" /\ (Watch!Collect \/ Watch!Persist))
PtyFair ==
  /\ \A c \in Callers : WF_sessionVars(part = "terminals" /\ PtySessions!Progress(c))
  /\ \A k \in 1..MaxPtyKids : WF_sessionVars(part = "terminals" /\ PtySessions!GraceEnds(k))
  /\ \A k \in 1..MaxPtyKids : WF_sessionVars(part = "terminals" /\ kids[k].signal = "kill" /\ PtySessions!Exit(k))
  /\ WF_sessionVars(part = "terminals" /\ PtySessions!Background)
RpcFair ==
  /\ \A c \in Callers : WF_sessionVars(part = "agents" /\ RpcSessions!Progress(c))
  /\ \A c \in Callers : WF_sessionVars(part = "agents" /\ RpcSessions!ChildGone(c))
  /\ WF_sessionVars(part = "agents" /\ RpcSessions!Background)

FairSpec == Spec /\ StatusFair /\ ContextFair /\ WatchFair /\ PtyFair /\ RpcFair

-----------------------------------------------------------------------------
(* The properties of the parts.                                            *)

\* Installed configs point at the server of the profile; what the user has in a file
\* stays there, beside one command of Arc's for each event.
ConfigsHold == Boot!InstalledConfigsWork /\ Configs!TheirsSurvive /\ Configs!NoOrphans

\* The composer takes a seeded prompt once; an update that is repeated after an error
\* comments once, and one that retargets a citation leaves it on.
DoneOnce == [][Terminal!SeededOnce' /\ Tools!CommentedOnce' /\ Tools!Retargeted]_vars

\* A launch that was told the hooks' channel is up finds it up, whatever other launches
\* and their interruption do, a page of the window
\* shares its client with no other, and the controller is closed before what it uses.
ChannelsHold == Hooks!ChannelIsUp /\ Transport!OwnClient /\ Boot!ClosedInOrder

\* No step at which the creation of a worktree fails or is cut short loses work, or a
\* branch that a user made.
NothingLost == Trees!NothingLost

\* The git pane ends with the status, the branch, the pull request and the commits
\* as they are, once it was told.
GitPaneCatchesUp == Pane!StatusCatchesUp /\ Pane!ContextCatchesUp

\* What the provider of a bound session writes is stored in the end, but for the
\* failures and races that the watcher's module names.
TranscriptArrives == Watch!TranscriptArrives

\* The row of a terminal session says what the store says once all is quiet; a live
\* rpc session has a row, which reads exited before the session leaves the list (but
\* where that very UPDATE fails).
RowsTellTheTruth ==
  /\ [](IF part = "agents" THEN RpcSessions!RpcRecorded ELSE PtySessions!RowsMirrorStore)
  /\ RpcSessions!StoppedAsExited

\* A stopped child is gone in the end, every call returns unless a handshake is never
\* answered, and no driver that lives is replaced by another of its session.
CallsEnd == PtySessions!StopTakesEffect /\ RpcSessions!CallsReturn /\ RpcSessions!DriverNotReplaced
=============================================================================
