# Verification of Arc Work

Arc Work is an Electron application. Its main process (`src/src/main`, Effect
fibers on one event loop, one SQLite connection per database) runs coding agents
in pseudo-terminals or over JSON-RPC, ingests what they write to disk and to
hooks, keeps a graph of work items and chats, and serves a React renderer
(`src/src/renderer`) over an RPC channel. Everything runs on one thread: nothing
races inside a synchronous block. What goes wrong here goes wrong *between*
awaits: another RPC, a hook, an exit event, a timer, a renderer reload or a quit
runs between two statements of a handler. That is what the modules model: one
action per stretch of code that nothing can interrupt.

Paths below are relative to the repository's `src/main` unless they start with
`src/`; `renderer/` is `src/renderer/src/`.

## 1. Inventory

| Component | State it keeps | Operations | Talks to | What is hard |
|---|---|---|---|---|
| Work graph (`work/`) | `graph_ref`, `graph_node`, `graph_ref_update`, `graph_edge`, `work_comment`, `search_document` | create, revise, updateStatus/Priority, add/removeCitation, linkTargetSession, comment | SQLite, `WorkInvalidation`, renderer refetch | read-decide-write split over statements; compare-and-swap; derived index rows |
| Terminal sessions (`services/TargetSessionManager.ts`, `target-session/`) | `store`, `ptys`, prompt writers, exit queue | launch, resume, stop, submit, bindNative, handleExit | node-pty, session rows, router | the exit of an old child against a relaunch; SIGTERM/SIGKILL timer; a boot with rows that say "running" |
| RPC sessions (`services/RpcSessionManager.ts`) | `sessions`, `store` | launch, stop, submit | codex and Cursor drivers, router | stop during a turn; a dead app server |
| Session router (`services/SessionRuntimeRouter.ts`) | none of its own: two managers and rows | launch, resume, stop, submit, list | both managers, database | one id owned by two managers |
| App-server transport and drivers (`ingest/providers/codex-appserver/`, `cursor-acp/`) | pending requests, turn outcomes, approvals | request, runTurn, interrupt | child process | an exit between check and registration; the outcome of an abandoned turn |
| Live state and inbox (`services/LiveTargetStateService.ts`, `TargetInboxService.ts`) | open turns, pending permissions, `target_message` rows | noteTurn, clearTurn, enqueue, flushTo | hooks, terminals | activity read stale; a paste that succeeded but was not acknowledged |
| Prompt delivery (`target-session/pty-readiness-driver.ts`, `pty-submit.ts`) | output tail, gates, `delivered`, timers | onData, fallback, settle | node-pty | output in any chunks, timer and gate racing |
| Chat projection (`services/ChatMessageService.ts`, `db/store/chat-messages.ts`, `services/chat-message/`) | `chat_message` rows | ingest hook, project, sendPrompt, supersede, reproject | hooks, transcripts | three writers of one message, in any order |
| Readers of transcripts (`ingest/providers/`, `ingest/extract/`) | none | collect | files and databases of the agents' CLIs | files written while they are read; trees of records; locked stores |
| Transcript watching (`services/ArcMainController.ts`, `ArtifactIngestService.ts`) | watchers and pollers | onSessions, onSignal | router, ingest store | the file changes between the read and the watch |
| Hooks (`services/HookSignalServer.ts`, `hooks/`) | a socket per workspace, signal rows | ensureListening, ingest | the CLIs' hook helpers | concurrent binds; one hook in several configs; agents that run agents |
| Configuration of the CLIs (`hooks/install.ts`, `mcp/client-config.ts`, `cli/mcp-config.ts`) | files of the user | merge, write | everybody who edits them | what is not Arc's must stay |
| RPC transport (`rpc-transport.ts`) | clients by window | message, reload, destroy | renderer | calls of a page that is gone |
| MCP surface (`mcp/server.ts`) | port, endpoint file, tool calls | update, spawn, send, whoami | work graph, sessions, inbox | one step of several failing |
| Startup and quit (`index.ts`, `runtime.ts`) | runtime, controller, windows | launch, activate, quit | everything | two instances on one profile; order of closing |
| Summaries and search (`summary/`, `read/`, search triggers) | summary nodes, search documents, FTS postings | distill, search | model server | minutes between read and write; index against rows over releases |
| Database and migrations (`db/sqlite.ts`, `db/migrator.ts`) | one handle and permit, ledger | statements, transactions, boot check | everything | interruption while waiting; releases going back and forth |
| Git (`services/GitService.ts`, `services/git/`) | repository, worktree and pull-request rows, watchers | detect, status, worktrees, syncs | `git`, `gh` | answers that cross; carried stash; forks |
| Renderer shell (`renderer/shell`, `renderer/sidebar`, `renderer/terminal`) | panes, tabs, picks, tree | launch, focus, select, reveal, persist | RPC and pushed lists | pushes and answers in any order |
| Renderer panes (`renderer/chat`, `renderer/work`, `renderer/git`) | drafts, editors, searches | type, send, save, pick | RPC | a draft, an answer or an editor that outlives what it was for |

What makes each correct is the property list of section 3; `PROJECT.json` has the
hazards line by line.

## 2. Modules

### Layers

| Module | Models |
|---|---|
| `WorkItems` | what the work graph promises, with no tables |
| `WorkGraph`, `WorkGraphProofs` | the verbs of `work/service.ts` over the tables of `work/store.ts`, the search triggers, the page that refetches; it implements `WorkItems` |
| `SessionRuntime`, `SessionRuntimeProofs` | both session managers, the router, the rows, restart and reload |
| `RpcDrivers`, `RpcDriversProofs` | the transport, the submission of turns and the drivers of either dialect over it |
| `TargetInbox`, `TargetInboxProofs` | messages into a terminal session, gated on what it does |
| `ChatMessages`, `ChatMessagesProofs` | the rows of the chat and their writers |
| `Records`, `RecordsProofs` | composes `Transcripts`, `CursorStore`, `Questions`, `DisplayOrder`, `Summaries`, `SearchIndex`, `SqliteStore`, `Migrations`, `ChatTitles`, `HookSignals`, `PullRequests` |
| `Services`, `ServicesProofs` | composes `Startup`, `McpTools`, `ProviderConfig`, `HookServer`, `RpcTransport`, `PtyReadiness`, `Worktrees`, `GitPane`, `TranscriptWatch` and `SessionRuntime` |
| `Window`, `WindowProofs` | composes `ShellSessions`, `ShellLayout`, `Sidebar`, `FileEditor`, `WorkPane`, `ChatPane`, `CommandPalette`, `GitViews`, `SearchPanel` |

Conventions. An action stands for what a fiber does between two awaits, the
whole of it. External processes (CLIs, app servers, `git`, GitHub, the user) are
actions too, constrained only as far as the code in `src` relies on them. A
definition under a comment that begins "Slip:" is a plausible mistake in the
definition next to it, which no specification uses: it shows that a property would
notice. Bounds are constants named `Max...`, and stand in guards.

The three composing modules put parts side by side that meet in nothing but rows,
files and pushed lists. Each part takes those as arbitrary - the renderer may be
pushed any list at any time, a projection may see any earlier transcript - which
is more than the other parts would do, so the parts need not be interleaved: a
behaviour belongs to one part, and the others stay in their initial state. Their
constants are the parts' own, with the assumptions of each; a `.cfg` gives them their
values, and the operators and sequences it needs stand at the end of the module
(`Small...`). Where
two components do share variables step by step they are one module
(`SessionRuntime` has both managers and the router, `RpcDrivers` transport, driver,
registry and store, `TargetInbox` hooks, activity, inbox and terminal,
`ShellSessions` the window and the session list of the main process).

### The core

*WorkGraph.* `work/service.ts` has one ritual for every verb: read the row, decide
whether there is anything to do, mint a timestamp and ids, write in one
transaction, publish. The module has one action for each
(`Begin`/`ReturnUnchanged`, `Mint`, `CommitCreate`/`CommitRevise`/`Conflict`/
`CommitEdge`/`CommitComment`, `Publish`), so another caller can run between any
two. The tables are variables; latest-wins reads (`Status`, `Priority`, `Cited`,
`Implementer`) are operators over `edges`. A timestamp and the id minted with it
are one number, taken before the transaction: commits may be in another order than
ids. `WorkItems` is the promise: a document edited in place and one
last-writer-wins register per status, priority, citation and implementer, every
accepted call taking effect in one step. `ImplementsWorkItems` is that
specification under the mapping `doc` = the current node's content, `register` =
the latest edge.

*SessionRuntime.* `store`, `ptys`, `rpc`, `rows` and the two launch locks are the
managers' own; `sql` is the queue for the single connection; `kids` are all
processes ever started. `Reload` interrupts a page's call where Effect would and
runs the finalizers the code installed; `Restart` is the loss of all memory and
`bootRestore`.

*RpcDrivers.* Lines from the child go to `inbound`; one fiber
routes them. A submission takes the session's semaphore (`BeginTurn`), makes one
request, waits for the turn's outcome (codex: `TakeOutcome` from a queue that is
not keyed by turn; ACP: the response, then `TakeUpdates`), stores (`Persist`).
`Stop` forgets the session before `CloseScope` closes it.

*TargetInbox.* Each send is a fiber (`Send`, `Insert`, then the flush: `Look`,
`ReadPending`, `Submit`, `Ack`, `Finish`); the consumers of signals (`Ingest`,
`NoteTurn`, `Backfill`) and of bindings (`Bind`) flush as well. `PressEnter` is the
keystroke 80 ms after a paste; `HandleExit`, `Leave`, `Resume`, `ChildDies` and
`Crash` are the life of the session and the application.

*ChatMessages.* Three kinds of rows of one chat: `echo` (what `sendPrompt` inserts
for the composer), `bubble` (the transcript's prompts) and `card` (a question). The
fiber of the signals stores (`Receive`), reads (`Read`) and writes (`Write`) in
statements of its own, as `upsertChatMessage` does; a projection collects, stores
(`Persist`) and projects in one transaction (`Ingest`); `reprojectChat` deletes the
cards and replays.

### Records

- `Transcripts`: the records a CLI appends line by line, read into rows and rows into
  bubbles and cards. Claude's records are a tree with rewinds, compactions and
  subagents; codex's and pi's a list with echoes to be merged.
- `CursorStore`: the WAL-mode store of the Cursor CLI. A poll reads root and blobs
  while commits and checkpoints go on, or copies the files; the conversation is a
  topological order of what the root reaches.
- `Questions`: a question as each provider words it, answered, and the card that
  hooks and projections make of it, word for word.
- `DisplayOrder`: the times `artifact-projection.ts` works out for rows without a
  clock, again at each projection.
- `Summaries`: distillations of one chat that run for minutes, insert under one key and
  recover from a lost race.
- `SearchIndex`: `search_document`, its FTS postings and the triggers of three kinds
  of rows, through the migrations that repaired them.
- `SqliteStore`: statements and transactions of fibers over one permit, with yields
  and interruption, and the contention record.
- `Migrations`: the ledger check over releases that add, drop, rename, renumber and edit
  migrations, and databases that go back.
- `ChatTitles`: what a chat is called, in its row and in the list kept beside it, as the
  user names it and the local model titles it after a prompt.
- `HookSignals`: helper, parsing, attribution to target and provider, trace,
  activity, binding and the patches of edits, for a hook that several configs fire.
- `PullRequests`: remotes, `gh`'s list, rows upserted one by one, and the row shown for a
  branch.

### Services

- `Startup`: instances of the program probe and bind the port, write the endpoint
  file, open windows, quit through finalizers or crash.
- `McpTools`: the tools that run several verbs: update, spawn, whoami's priming, send.
- `ProviderConfig`: hook files and MCP lists as blocks of commands, merged by several
  Arc processes beside the user.
- `HookServer`: launches that ask for one workspace's socket, retried binds, the node on
  disk, quit and crash.
- `RpcTransport`: loads of a page, the client each builds once the preload's bridge is
  there, logical clients, mailboxes, disconnects.
- `PtyReadiness`: the first prompt of a terminal, through gates and chunks.
- `Worktrees`: create, with a carried stash and five git commands, open, remove, prune,
  detect, and the rows about them.
- `GitPane`: two machines that share no state, the tree watcher and its status and the
  rows that hooks and syncs refresh, each with what is published of it and the window's
  atoms that ask again; a commit is stamped on the works of its chat.
- `TranscriptWatch`: watcher, backfill and poller of a bound transcript and the
  two halves of an ingest.
- `SessionRuntime` comes in twice, once with terminals and once with rpc agents, for
  its liveness.

### Window

- `ShellSessions`: panes, registry entries and replay buffers against session lists,
  exits and answers.
- `ShellLayout`: tabs, right surface, remembered picks and their persistence.
- `Sidebar`: grouping, order, pins, disclosure and the reveal of the chat shown.
- `FileEditor`: one file between disk, editor and saves.
- `WorkPane`: the list, detail, comments, editor and form, over reads in several
  steps.
- `ChatPane`: composer, mention picker, sends and their failures.
- `CommandPalette`, `SearchPanel`: answers of loads and searches that come late.
- `GitViews`: `git status` and sem's facts into the groups the pane folds.

## 3. Runs

| Run | Module | Instance | Shows |
|---|---|---|---|
| `WorkGraph` | `WorkGraph` | two callers, one a page; one work; fair | one unbroken line of revisions (`LinearHistory`), no accepted edit lost (`NoLostEdit`), search rows equal to the current revision (`SearchMirrors`), every commit announced (`ChangesAnnounced`), the promise of `WorkItems` (`ImplementsWorkItems`), a page that ends up with the last change (`RendererCatchesUp`) |
| `SessionRuntime` | `SessionRuntime` | two callers, one session, either runtime, three children; the INSERTs of drivers and the UPDATEs of their stops may fail | each running CLI is the one handle of its session (`TerminalsHeld`), the list says running for exactly those (`RunningIsHeld`), SIGKILL only for a child that got SIGTERM (`KilledOnlyIfStopped`) |
| `SessionRuntimeLeak` | `SessionRuntime` | violation | a reload during a handshake leaves a driver that nobody holds |
| `RpcDrivers` | `RpcDrivers` | two prompts, either dialect, an approval, reloads, a death, a stop and a resume; fair | one turn at a time, each with its own outcome (`TurnsAreServed`), whole and in order in the store (`RowsAreWhole`), a stopped session shows no cards (`StoppedHasNoCards`), no submission hangs, and a card goes when its request was answered or its notice is still to be folded (`EverythingSettles`) |
| `RpcResumeLoss` | `RpcDrivers` | violation | the first turn after a resume erases the rows stored before |
| `TargetInbox` | `TargetInbox` | two senders, two messages, a human's prompt, two children, a crash | no message is pasted twice in a run (`PastedOnce`), queueing order is pasting order (`Fifo`), what is acknowledged was pasted and an idle session has nothing pending that nobody will flush (`NoMessageIsLost`) |
| `ChatMessages` | `ChatMessages` | two equal prompts, one question, two of exit, crash, end of turn, reload, repair; a repair may fail or be cut short | no bubble twice (`NoDuplicateBubble`), and a chat at rest agrees with its transcript (`SettledUsers`, `SettledCards`; of the cards, but for those a torn repair lost) |
| `Window` | `Window` | the nine parts of the window | below |
| `WorkEditStays` | `WorkPane` | violation | an editor that is open saves into the work selected since |
| `Records` | `Records` | the eleven parts that read and store | below |
| `Services` | `Services` | seven parts of the main process | below |
| `Progress` | `Services` | five parts, under fairness | below |

A property of the composing modules is the conjunction of what its parts promise,
grouped by what the user would see go wrong:

| Run | Property | Of | Says |
|---|---|---|---|
| `Window` | `PanesAreFaithful` | `ShellSessions` | no two panes show one session; a bound pane shows each chunk once and in order, those before the bind too, but for what it reports as dropped since the replay buffer was full |
| | `TabStrip` | `ShellLayout` | whatever is opened, edited and closed, no surface has two tabs, the active one is of the strip, and an unsaved mark goes with its tab |
| | `SelectedIsVisible` | `Sidebar` | the row of the chat shown can be seen while the section of all projects is open, unless the user closed a node since or its workspace was archived |
| | `ShownIsCurrent` | `FileEditor`, `WorkPane` | a tab without the unsaved mark shows a text that was on disk; a work pane at rest shows what is stored |
| | `ComposerIsTrue` | `ChatPane` | a pick replaces the mention it was opened for, with a file of this workspace, and prompts go to sessions of their chat |
| | `LateAnswersAreDropped` | `CommandPalette`, `SearchPanel` | targets are of the command shown, hits of the draft shown |
| | `ReadInOrder` | `GitViews` | each change in one group, tests under what they test, generated files last |
| `Records` | `TranscriptsAreWhole` | `Transcripts`, `CursorStore` | a bubble or card for each record that parsed and that no cut line separates from its root; each blob once, after what it refers to |
| | `TimelineIsTrue` | `Questions`, `DisplayOrder` | a card shows what was picked; messages and tool calls keep their order over projections, but within a record that a call cuts |
| | `SearchFindsIt` | `SearchIndex`, `Summaries` | rows are found by what they say and nothing else; a distiller answers with a stored summary |
| | `StoreIsSound` | `SqliteStore`, `Migrations`, `ChatTitles` | transactions are whole; a boot that got through ran what a fresh install runs, in order; a chat is listed as its row says, under the user's name for it once it has one |
| | `SignalsAreTrue` | `HookSignals` | a target is bound to its own CLI; one event for a hook |
| | `ShowsItsPullRequest` | `PullRequests` | after a sync that nothing crossed, a branch shows its own pull request, open ones first |
| `Services` | `ConfigsHold` | `Startup`, `ProviderConfig` | installed configs point at the profile's server; what is not Arc's stays, one Arc command per event |
| | `DoneOnce` | `PtyReadiness`, `McpTools` | a seeded prompt is taken once; repeated updates comment once; a retargeted citation stays on |
| | `ChannelsHold` | `HookServer`, `RpcTransport`, `Startup` | a channel reported up is up, whatever launches are interrupted; a page shares its client with no other; the controller closes before what it uses |
| | `NothingLost` | `Worktrees` | no failed or cut creation loses work or a user's branch |
| `Progress` | `RowsTellTheTruth` | `SessionRuntime` | rows of terminal sessions say what the store says once all is quiet; a live rpc session has a row, which reads exited before the session leaves the list, unless that very UPDATE failed |
| | `GitPaneCatchesUp` | `GitPane` | the pane ends with status, branch, pull request and commits as they are |
| | `TranscriptArrives` | `TranscriptWatch` | what is written is stored through a rebind, an exit, repeated pushes and a watcher that is replaced, but for the failures and races the module names |
| | `CallsEnd` | `SessionRuntime` | stopped children go, calls return unless a handshake is never answered, live drivers are not replaced |

Every property of a passing run has a slip that breaks it (`mutants` in
`PROJECT.json`). Where the property has several parts the slip is in one of them.

Bounds, and why they are enough.

- *WorkGraph*: the hazards are races of two calls for one ref; a third adds
  nothing that the second, starting over, does not. Refs do not interact, hence one.
- *SessionRuntime*: three children are an old one, its replacement and one more after
  a restart. `MaxKids` is a guard of `Spawn` and `RpcBuild` only, so stops and exits
  are never cut off. `Failing` = {"upsert", "stop"}: its properties are not about rows, and
  the two are the failures that decide what a call does next. In `Progress`, whose properties are
  about rows, the other UPDATEs of the state of an rpc agent ("state") fail as well. The binding of a native
  id that fails is in no run, only in the theorems, which hold of any `Failing`. In `Progress` two children of one terminal session and four
  drivers of two sessions.
- *RpcDrivers*: two turns (an old outcome meeting a new turn), two drivers (before
  and after a resume), one item per turn. `Queries` is empty: the one request
  of the child is an approval, the kind that leaves cards.
- *TargetInbox*: the human's prompts go to the first child; the last child stays,
  and no crash happens in its life. `MaxHooks` = 1 signal under way. `Lagging` =
  FALSE: the transcript is projected before the turn ends (section 6). Senders and
  messages are interchangeable (`SenderSymmetry`).
- *ChatMessages*: two prompts of one text, since rows of different texts never meet;
  `MaxEvents` bounds ends of turns, exits, crashes, reloads and repairs together, so that any
  two of them occur in one behaviour.
- *Window*: two of everything that can be confused (sessions, workspaces, chats,
  works, drafts, worktrees), one of which is another kind where kinds matter (an
  agent's session, a workspace without files). One write and one comment of an agent
  suffice for a work that has comments on an older revision. Three palette loads and drafts are an
  old one, its successor and the one after going back. Four paths have a file of each
  kind and two test directories. The replay buffer holds one unit (`CapBytes` = 1), a session writes
  two chunks of one or two: one chunk that alone is too big, and two of which the second is.
- *Records*: a transcript of four records has a call, its result and what stands
  before and after; five items over three projections put a tool between messages
  and let both grow. Five rowids and three migration ids let one be freed and used
  again. One line is cut short (`MaxCuts` = 1), at any
  place: before, on or behind the way to a record. `Limit` = 2 excludes what the code does not
  defend against (section 6).
- *Services*: two instances, agents, profiles, launches; four servers are two per run;
  three loads of a page are before, during and after a reload. A call is repeated
  once. Four paints are one for each gate, the glyph and one more. `Overlap` and
  `Intrude` are FALSE, and no port is overridden, for the same reason (section 6).
- *Progress*: three edits and two remaps, so that a change can come at each
  stage of the question before it. Two writes, of whichever transcript, and two changes of the
  binding (`MaxBinds` = 2), each pushed: a rebind or an exit behind the first binding, a push
  that repeats what was pushed, a watcher that is replaced or stopped while its ingest runs. With
  three changes `TranscriptArrives` holds as well; it then takes as long as the rest of the run.

`CHECK_DEADLOCK FALSE` stands where the bounds let the system come to rest. The runs
of `WorkGraph` and `SessionRuntime` check for deadlock.

Fairness. `WorkGraph`: a call under way goes on, and the page refetches; nothing
obliges anyone to call. `RpcDrivers`: every fiber that can run does; the child and
the user owe nothing, so `EverythingSettles` speaks of a child that is gone.
`Progress`: each call under way, the background consumers (exits, bindings, the SQLite
queue) and the grace timer make progress, and a child that got SIGKILL is
reported dead; nothing obliges a child to obey SIGTERM. Nothing obliges a child to answer a handshake
either: a request has no timeout (`ingest/providers/codex-appserver/transport.ts:236`), so the end of a
handshake (`Handshake`) is not a step of `Progress`, and `CallsReturn` speaks of behaviours in which no
caller waits for ever. Only once the child is gone does the transport fail what is pending
(`ChildGone`), and that is fair. Debounced publications,
pushes, requests and answers of the git pane go on; the watcher's stats fire and its
ingest goes on. That is Effect's scheduler, libuv's timers and SIGKILL. All are weak
fairness. Everything else is safety; the liveness of the inbox and the chat is stated as
what holds at rest, which needs no fairness.

## 4. Proofs

The theorems hold for every value of the constants that satisfies the module's
`ASSUME`s. Those only say that bounds are naturals, that the null and the fiber names are
not data, and what contains what; TLC evaluates them in the runs.

*WorkGraph.* `IInv` = `TypeOK`, `LinearHistory`, `NoOrphanRevision` and three
facts that make them inductive: `IdsFresh` (nodes have ids below the generator, and the
id a commit is about to use is in no table and no other call's), `RefsRooted` (a ref
points at a stored node, and has a history only once it exists) and `CallsSound`
(what a call in flight read of a node is what the node still says, and a creation's
ref is still its own). Without `IdsFresh` a commit could overwrite a node; without
`CallsSound` a revision could be appended to a foreign line. From `IInv`:
`HistoryIsLinear`, `NoOrphans`, `EditsAreKept`, `StatusMovesByEvent`;
`NothingUnannounced` follows on its own. The steps fall into those that append a
revision, those that preserve the lines and those that touch no table (`StepKinds`).

Two invariants stand on top. `SearchInv` = `Attached` (edges and search rows of comments
hang on refs that exist, so a ref that is just being created has neither) and
`SearchMirrors`: every transaction writes the search row of its ref as its own tables then say,
and touches no other's (`Projects`). It gives `IndexMirrorsGraph`. `RegisterInv` is about
ids: the id a transaction is about to use is on no edge and later than the creation of
its ref, and no two writes of one register share one. A commit that another with a later
id has overtaken then changes no register, as `WorkItems!Overwrite` says, and each step of
the tables is a step of `WorkItems` or changes nothing there: `ImplementsPromise`.

*SessionRuntime.* `RInv` = `TypeOK`, `LocksHeld`, `Handles`. `LocksHeld` says what the
holder of a launch lock knows at each of its awaits (in particular: no handle for the
session it prepares), `Handles` that handles, exit queue and list agree.
`TerminalsHeld` needs both: a spawn replaces no handle because of the lock, and because
the exit of the old child empties the slot first. From `RInv`: `TerminalsAreHeld`,
`RunningMeansHeld`, `KillsFollowStops`, `DriversNotReplaced`.

The rows need the order of the queue, and an invariant for each runtime, for the sessions
of a behaviour are of one and a row means something else in each. In terminals
(`OnlyTerminals`: no rpc call, no write of a row that fails, no reload that takes a statement with
it - the code promises the order only there) `MirrorInv` says of every session held and
every field of its row: the last statement in the queue that writes the field writes what
the store says, and if none does, the row says so already (`FieldTrue`, `Mirrored`). Who has the
permit of the launch lock has it alone and relaunches with the origin of the row, which a
conflict keeps (`TerminalCallOK`); one statement at most is asked for by a caller, and an exit
writes "exited" (`QueueOK`). An update of a row that is not there yet cannot overtake the
upsert, which `RecordedMirrors` needs. With the queue empty: `RowsMirrorTheStore`. For
drivers (`NoTerminals`: no terminal is asked for, no reload; writes may fail) `RecordedInv` says of each
call what it may rely on across its awaits - a session being launched has no row and its
launch is the only one, a resume past its load has a row (`RpcCallOK`, `OneLaunch`) - and that
whoever waits for the permit has one statement in the queue, of its own session
(`OwnStatements`); a driver that is held has a row or a launch whose upsert is to come
(`Recorded`). Hence `DriversAreRecorded`, and `DriversStopAsExited` as an action property: of
the three steps that empty a slot, one is of a session without a row, one writes "exited", and one is a stop whose UPDATE failed,
which the property excepts (section 6).
With reloads neither holds (section 6).

*TargetInbox.* `IInv` adds to the properties: `LockInv` (a flusher past `Look` holds
the lock), `GroupInv` (its group is still queued), `WrittenInv` (a group handed over is
in the log), `ClosedInv` (a group leaves no older message behind), `AheadInv` (what
came before has an earlier stamp), `LoggedInv` (only queued messages are in the log),
`DoneInv` (what this run pasted is acknowledged, or about to be by the holder of the
lock), `EpochInv`, `IdleInv`, `SenderInv`. `PastedOnce` rests on `LockInv`, `GroupInv` and
`DoneInv`: a message still queued when a group is read was not pasted in this run.
`Fifo` rests on `ClosedInv` and `AheadInv`: what is older is in the group or delivered,
hence pasted. `AcknowledgedWasPasted` is the first half of `NoMessageIsLost`.
`NothingIsLost` is the whole of it, where transcripts do not lag (`~Lagging`). Its
invariant `SettledInv` says of pending messages who will flush them, as long as no signal
of a former child is left (`stale`): `WakeInv` names a flush under way, a binding or
end of a turn that is not yet consumed, an agent that is not at its prompt or has a text
coming - or the open turn or request that holds the messages back. `DownInv`,
`TtyInv`, `AskingInv` and `AnswerInv` say that these do end: a child that is gone is
handled or let go, a text is followed by its keystroke, only a busy agent asks, and an
answered permission is not the last that is heard of a turn.

*RpcDrivers.* The types (`TInv`) come first, over the queues of the transport too.
`TurnsInv` follows a turn from its submission to the outcome: one at a time is past the
semaphore (`OneTurn`), a closed transport has nothing pending (`ClosedInv`), and a turn is
in one place - request, child, line or queue - and in none before it is asked for
(`TokenInv`). As long as no submission was interrupted, what is on its way belongs to the
turn that is served (`ServedInv`) and so does the outcome it takes (`OwnInv`):
`OutcomesFindTheirTurns`. `RowsInv` counts the items: none follows the last report of its
turn (`OrderInv`, `AnsweredInv`), those sent are in the rows or on their way (`SentInv`),
so an outcome and who is given it have them all (`OfferInv`, `GotInv`). `LaunchInv` says
that the rows of the driver that was launched only grow from outcome to store, and
`PromptInv`, `PromptFirstInv` that what Cursor may still send finds its prompt there.
Together: `RowsStayWhole`. `NoCardsOnceStopped` is inductive by itself. The queues of notices and
of requests are folded by fibers of their own, in any order.

*ChatMessages.* `UsersInv` is about the user's prompts: how far one has come whose row,
place in the terminal or line is there (`SentInv`), transcripts only grow from the
snapshots projections hold (`SnapInv`), a watcher that owes no reading has shown the
transcript or is about to (`WatchInv`), and a text has no more echoes than prompts that
are not shown (`EchoInv`: counted, since an echo is found by its text alone). Hence
`NoBubbleTwice` and, at rest, `RestShowsTheTranscript`. `CardsInv` is about the questions,
where hooks, projections and replays meet. A question not asked, and one not answered,
has left no trace anywhere (`UnaskedInv`, `FreshInv`); the card of an open one is there or on
its way (`PendingInv`); the hook of an answer comes after that of its question
(`AnswerInv`), and an answer whose hook a crash dropped is in what was read since
(`LostInv`); an answered question shows it, or something is under way that makes it so,
unless `reprojectChat` missed it (`DueInv`, section 6). A repair that fails or is cut short after its
delete leaves its cards `torn` until a projection writes them again; `PendingInv` and `DueInv` speak of
the others. Hence `RestShowsTheAnswers`.

*Window*, *Records*, *Services*. The proofs of a part speak of it as the composing module
takes it (`INSTANCE`), and end in a lemma about the part's own specification. Then the
whole: a step is one of one part and leaves the variables of the others alone
(`WindowSteps`, `RecordSteps`, `ServiceSteps`), hence every behaviour of the whole is a behaviour of each
part (`WindowBehaves`, `RecordsBehave`, `ServicesBehave`), and the assumptions of the parts are those of
the composing module. So each theorem states a property of the run, for every value of the
constants.

- `PanesStayFaithful`: what a pane has captured, and its screen once it is bound, are what
  the sessions wrote since it was opened (`AllFaithful`), but for the chunks that did not fit, whose
  number and size the buffer keeps and the bind reports; panes differ in number and
  session (`Unique`); a pane has at most one call in flight, which is for the session it
  shows if it shows one (`CallInv`).
- `WorkIsKept`: the trees that hold work are registered and the one being created is where
  its step says (`TreeInv`), the entry that is dropped is the one on top that was applied,
  and what it held is in a tree by then (`CarriedInv`). So every edit that is owed is in a
  tree or in the stash (`Kept`). Nobody else stashes during a
  creation (`Intrude` <- FALSE, section 6).
- `ChannelsStayOpen`. `HookServer` (`SocketInv`): the permit is taken exactly while a launch
  binds (`OneBinds`), and the one server that listens is the one in the map, or what that
  launch has bound and not yet registered (`Registered`), but for those whose launch was interrupted in
  between (`cut`). That a previous run is still
  quitting is excluded (`Overlap` <- FALSE, section 6). `RpcTransport` (`TransportInv`): a client
  is not given out twice, and from the start of a reload to the first message after it the window
  has none (`OncePerPage`). `Startup` (`StartupInv`): an instance holds nothing, the
  runtime, or the runtime and the controller (`HeldInOrder`).
- `ConfigsStayTrue`. From `StartupInv`: unless the user overrides the port, what is decided for,
  served and announced is the profile's (`PortsPersist`). From `ConfigInv`: the file has all that
  is the user's, and so has what an installation under way has read of it, unless the user has saved
  the file in between (`HasAll`, `raced`); and once Arc has installed a file of hooks each event
  has one block with a command of Arc's (`OneIsArc`). The blocks of an event are numbered with
  gaps, as filtering leaves them, so that what is kept and what is appended is known without
  the length of a sequence.
- `EverythingOnce`. `ReadinessInv`: a screen shows the composer's glyph only when no gate is ahead
  (`ScreensInv`), of the keys typed one at most submits, after the delivery (`TypedInv`), and once
  the glyph was seen the gates lie behind (`GatesBehind`). `ToolsInv`: what a call has still to do is
  the end of the verbs of its update, in order, the comment last, and what it adds is cited,
  taken off by another, or still to come (`CallInv`).
- `RowsAreTrue`: the theorems of *SessionRuntime* about rows, taken for terminals and for rpc
  agents (`INSTANCE SessionRuntimeProofs`). A behaviour never changes its part, so its
  sessions are of one kind throughout (`SessionsBehave`), and where they are terminals no
  driver is ever held (`NoDrivers`).
- `SelectedStaysVisible` (`TreeInv`): unless a node was closed since, every node on the way to the
  chat shown is open, and where the list of its workspace is cut off it is above the cut or
  opens it (`Revealed`), as long as the section of all projects is open. Every step that changes the way reveals it again.
- `PullRequestsStayOwn`: pull requests on GitHub have one number each (`HubInv`), and the rows that a
  sync has gone over say what it was told, under one time, which is later than that of the rows before
  (`GoneOver`). So after a sync that nothing crossed the best row of a branch is the one GitHub has.
- `LateAnswersStayOut`. What the palette offers is of its command (`Offered`), and a search whose
  number is the panel's latest is for the draft shown (`Asked`).
- `StoresStaySound`. `SqliteStore` (`StoreInv`): who is past the permit has it alone (`Owned`), works
  are numbered apart (`Numbered`), the rows of an open transaction are those of the statements
  it has run, and none of them is in what a rollback returns to (`WholeRows`). `Migrations`
  (`LedgerInv`): what was run is what the ledger has, in order (`RunInOrder`), and after a
  boot that is what the release records (`AsRecorded`); the lemmas before it say that a finite
  set of ids has one order, and how it grows. `ChatTitles` (`TitlesInv`): a chat is listed after it is
  stored (`CreatedOnce`), of two titles on their way the later one saw the other
  (`AloneOnTheWay`), and the model only writes to a chat without a name (`NamedByUser`).
- `SearchesFindIt`. `SearchIndex` (`IndexInv`): a posting that no document has is left of a
  text a work had, below the rowid it has now (`NothingStale`, `LeftBelow`); works stay, so no later
  document is given that rowid. `Summaries` (`DistillerInv`): a distiller that lost the insert has
  the winner's row to read, since summaries are never deleted.
- `SignalsStayTrue`: two traces of one firing of a hook have one payload (`OnePayload`), so their
  digests make them one event; a target is bound only by signals of its own CLI
  (`BoundToItsCli`), to which the payload of its terminal resolves.
- `ComposerStaysTrue` (`ComposerInv`): files are asked for and kept for the workspace of a pane that
  is mounted (`OfThePane`), and the open mention is the one the caret stands in
  (`MentionIsThere`). A chat has a workspace (`ChatPaneAssumption`; `db/schema.ts:294`).
- `ShownStaysCurrent`. `FileEditor` (`SavedIsStored`): the text a tab takes for saved is one the
  disk has had. `WorkPane` (`WorkInv`): unless a later announcement is still to come, what a
  refresh has read is what is stored, for the list (`ListInv`) and for the work looked up
  (`LookupInv`).

## 5. Only model-checked

- Liveness: `RendererCatchesUp`, `EverythingSettles`, and `Progress` but for `DriverNotReplaced`.
  Fairness and ENABLED are out of the proof system's reach.
- `TranscriptsAreWhole`, `TimelineIsTrue`, `ReadInOrder`: what a fold over
  sequences computes for every input. That needs induction over data, and the library's
  induction theorems take an operator that no installed prover can instantiate. No module
  declares a RECURSIVE operator.
- `TabStrip`: small, and exhausted by the run.

## 6. Where the code differs from what it says

Three statements of the repository are kept as violation runs (`findings`). Others were
met on the way. The models contain the behaviour; where a module states the claim as an
operator that no run checks, its name is given, and where a constant excludes the
behaviour from a run, the constant.

Work and search
- `work/service.ts:634`: `addCitation` checks, then appends; two equal calls append
  twice (`:96` calls it idempotent). Reads are latest-wins, so nothing shows.
- `work/service.ts:680`: delegating back to an earlier session does nothing, its edge
  being there (`:117` says the latest delegation wins).
- `work/work-sql.ts:87,90`: search rows of comments keep the title and labels the work
  had when they were written. `db/schema.ts:613` says FTS stays "strictly 1:1" with the
  documents; the triggers of the works (`work/work-sql.ts:49`) still replace rows and leave
  postings of rowids that are gone (`FtsIsOneToOne`).
- `work/service.ts:139`: "All work authored in a given chat": the list goes by the chat of
  the current revision, so a work that was revised from another chat moves there
  (`WorkPane!AuthoredIsListed`).
- `renderer/work`: a save replaces a revision its author has not seen
  (`NothingOverwritten`); the draft of a save that is refused is gone with its editor.
- `renderer/search/ArcSearchPanel.tsx:113`: a page asked for before the draft changed and
  back again is appended at the old answer's offset (`PagesAreContiguous`).

Sessions
- `services/SessionRuntimeRouter.ts:218,245`: resume looks at one manager only; an id can
  be live in both. `:111`: a reload between handshake and INSERT leaves a live rpc session
  without a row.
- `services/TargetSessionManager.ts:334,419`: a launch that reuses a session writes back
  the binding it read before preparing, over one that arrived since. `:617`: a prompt
  writer outlives its child until the exit is handled; its paste is acknowledged and
  lost.
- `ingest/providers/codex-appserver/driver.ts:187`: the completion of an interrupted turn
  stays in the queue and is returned to the next. `services/CodexDriverRegistry.ts`:
  approvals of a dead child stay listed until the session is stopped. `driver.ts:110,159`: the notice
  that an approval is settled and the approval are read by two fibers from two queues; folded first,
  the notice finds no card, and the card that comes after it stays (`CardsAreOutstanding`).
- `ingest/providers/codex-appserver/transport.ts:236`: a request has no timeout, and
  `services/RpcSessionManager.ts:157` holds the launch lock through the handshake: a child that lives
  and never answers stops every later launch of an rpc session.
- `services/SessionRuntimeRouter.ts:203`: a stop whose UPDATE fails is logged and goes on; the session
  leaves the list with a row that says running (`RpcStoppedUnrecorded`).
- `ingest/providers/cursor-acp/driver.ts:125`: updates of a failed turn are folded into
  the next.
- `services/target-session/pty-readiness-driver.ts:59` calls gates "pre-session"; a gate's
  words in what the composer's own screen prints are answered as well
  (`GatesArePreSession`). After the fallback delivered the prompt none is answered.
- `services/TargetInboxService.ts:103` groups by sender so that one turn has one sender;
  a second flush before the first paste has opened a turn types another sender's group
  into the same one. Messages to rpc sessions are never delivered; two of one millisecond
  are ordered by id.
- `services/ArcMainController.ts:540,546`: the end of a turn flushes before the backfill
  that would resolve a question (`Lagging`); `:619`: a prompt signal handled after the exit
  leaves an open turn, also one of the former child that a resume has overtaken (`stale`).

Chats and transcripts
- `db/store/chat-messages.ts:194`: of two equal prompts, the projection of the first
  deletes the echo of the second until the agent has written it. `:263`: an upsert reads and
  writes in two statements; a replay of `reprojectChat` may leave an answered question
  pending (`missed` in `ChatMessages`). `services/ChatMessageService.ts:373`: late hooks,
  projections and repairs revive the superseded cards of a detached session. `:373` deletes a chat's cards in a statement of its
  own; a write that fails after it, or a reload of the page that asked, leaves them deleted, although
  `:396` says that a failure "leaves the prior projection intact" (`RepairsKeepCards`).
- `services/ArcMainController.ts:289`: what is written between the first read and the first
  stat waits for the next change (`NothingMissed`); an ingest that read less may store
  last (`ArtifactIngestService.ts:76`), `TranscriptArrives` excepts both.
- `ingest/providers/jsonl.ts:24`: a line cut short is one parse error, but what came before it is
  cut off from the records that name it as their parent: `FileIsShown` speaks of those that are
  `Reached`. `session-row-builder.ts:124`: the chunks
  of a Claude record that a tool call cuts have one native id, and in the chat the last replaces
  the others (`EachChunkShown`). They have one time as well (`session-row-builder.ts:143`,
  `claude.ts:339`), and `artifact-projection.ts:297` puts the call between them behind both
  (`ChunksInterleave`, `OfOneClock`), although `session-row-builder.ts:122` says that the
  order is recovered.
- `services/ChatService.ts:105`: a title asked of the model while the chat had none is written
  over the name the user has given it since, if both are on their way at once (`crossed`).
- `ingest/providers/cursor.ts:366`: a copy of the main file alone lacks what only the log has
  (`ReadsWhatWasThere`).
- `artifact-projection.ts:361`: in a Cursor session two messages of one text share a clock,
  and the calls between them move (`AlwaysInterleaved`). An equal key of two chunks makes a
  row flip between them at each poll.
- `renderer/chat/Question.tsx`: an answered card may show no answer (`AnsweredSaysSo`), free
  text that contains an option's label is not drawn in full (`FreeTextIsDrawn`), and a failed question
  can read as answered (`FailedStaysFailed`).

Hooks, tools, startup
- `services/HookSignalServer.ts:126`: a previous instance that is still quitting unlinks the
  socket of the next (`Overlap`). `:74,135`: a launch whose page reloads between the bind and the entry
  in the map leaves a server that listens for nobody and that no finalizer closes; the next launch
  unlinks its socket (`ServersAreHeld`).
- `services/RawHookSignalService.ts:9`: two hooks with equal payloads leave one trace
  (`EveryHookIsTraced`).
- `hooks/cursor-plugin.ts:140`: Cursor's hook file is overwritten, though
  `src/README.md:66` says hooks are merged (`HooksAreMerged`). The files are read and written
  without a lock (`raced`).
- `mcp/server.ts:198`: a spawn launches, then links; a failed link leaves an agent that runs
  (`SpawnedIsLinked`). An update whose last read fails reports an error after it commented.
- `mcp/server.ts:428`: "The app boots regardless"; a port taken between probe and bind, or
  named by the user, fails the runtime (`BootsRegardless`).
- `index.ts:155`: a second quit goes through at once while the first one releases.
- `rpc-transport.ts:33`: a reloaded client may meet handlers of its predecessor's late
  sends (`MeetsZeroState`); they share a client with it but not with a page that lives.
- `renderer/rpc-client.ts:84`: a client whose build failed, because the bridge
  never came, is kept and not built again until the page is loaded anew.
- `db/migrator.ts:75`: an edited body under the same id and name is not noticed
  (`BootedIsFresh`). `db/sqlite.ts:53`: the permit of a statement is given back before it runs,
  and a fiber that yields in between writes inside another's transaction (`WrittenIsKept`).

Git
- `services/git/worktree.ts:31`: `stash@{0}` is whoever stashed last (`ResolvesPushed`,
  `Intrude`). `db/store/git.ts:22`: an archived workspace can stay in the pushed list
  (`ArchivedIsHidden`).
- `services/GitService.ts:862`: a created pull request is looked up by branch name alone,
  and may be a fork's; `gh` lists a hundred (`ShowsItsState`).
- A boot detection in flight can overwrite the branch a checkout hook stored, and the boot
  pass publishes no change: `ContextCatchesUp` speaks of announced changes.
- `renderer/git/DiffTree.tsx:27`: groups of generated files that come later are not folded
  (`GeneratedComesFolded`); `services/git/diff-tree.ts`: enough reformatted lines
  outrank a rewrite (`RankedByMovement`); renames within a directory lose their counts (`RenamesAreCounted`).

Window
- `renderer/chat/UnifiedChatPane.tsx:210`: a failed prompt is restored into whatever chat is
  shown, or nowhere (`PromptIsKept`). `chat/composer/ChatComposer.tsx:196`: letting go of Escape opens the
  picker again (`EscapeCloses`).
- `renderer/shell/paletteCommands.ts:67`: a shortcut pressed over the list of trees shows one
  that is then removed (`ViewedIsNotRemoved`).
- `renderer/shell/shellSelectors.ts:55`: the chat that is selected stays shown when its workspace is
  archived, and has no row then.
- `renderer/sidebar/ArcSidebarTree.tsx:546`: pushed lists open again what the user collapsed
  (`CollapseSticks`). `:632`: no reveal opens the section of all projects, though
  `:547` speaks of "overriding a collapsed ancestor" (`SelectionOverrides`).
- `renderer/terminal/ptyReplayBuffer.ts:77`: what a session writes beyond the cap before its pane is
  bound is dropped; `services/ArcMainController.ts:402` logs the number and size that the pane reports.
- A failed resume leaves its pane bound, and a late answer of a launch binds a session that is
  dead.

## 7. Not modelled, and why

Rendering (timelines as text, diffs of one file, markdown), token counts and
titles of transcripts, schemas: data without control. Presets, images,
tracing, packaging, smoke drivers: single reads and writes, or nothing the application
reads. Assistant, recap and subagent rows of a chat are in `Transcripts`, as what a
reading yields, and not in `ChatMessages`, where several writers meet: only the
transcript writes them. Permissions of ACP sessions work as codex's. In the sidebar, that a drag of a project folds the tree while it
lasts (`renderer/sidebar/ArcSidebarTree.tsx:231,323`). In `ChatMessages`, a best-effort write that fails elsewhere than in a repair; in `GitPane`, a
`git` call that fails inside a status; in `Worktrees`, two creations at once, which meet on the stash as
`Intrude` does. `DoneOnce` says that a seeded prompt is taken once at most, and by the composer unless the fallback
fired before it showed; what the fallback types into a gate's screen it leaves out (section 6). Chats with
several targets. The model of a database is a set of rows: SQLite's own recovery is
trusted.

## 8. Plan

The system is modelled as far as its control goes, and the modules of the core are
proved. What is left:

1. `TabStrip` (`ShellLayout`): the strip is an injective sequence through insertions and removals.
2. The folds of `Transcripts` and `ChatMessages` (section 5), should an installed prover come to
   instantiate the library's induction theorems.
3. `RowsTellTheTruth` with both runtimes in one behaviour: the router's paths between them
   (section 6) then need an invariant about sessions held in one and resumed in the other.
