-------------------------------- MODULE Records -------------------------------
(***************************************************************************)
(* The parts that read, project and store: the readers of transcripts, the *)
(* cards of questions, the order of the timeline, the titles of chats, the *)
(* summaries, the search index, the database and its migrations, the hook  *)
(* signals and the pull requests.  They meet in the rows alone, and each   *)
(* takes what the others leave there as arbitrary: a behaviour is one of   *)
(* one part, while the others stay as they begin.  Names are the parts'    *)
(* own, but for those that two parts, or two composing modules, share.     *)
(***************************************************************************)
EXTENDS Naturals, Sequences

CONSTANT None \* no native session, blob, option id, repository or pull request

-----------------------------------------------------------------------------
(* Transcripts and what is shown of them.                                  *)

CONSTANTS
  TranscriptProviders, KindsAt(_), UuidOf(_), MaxLines, MaxCuts, \* Transcripts
  Says, MaxCommits,                                              \* CursorStore
  CardProviders, Asks, FreeTexts,                                \* Questions
  Phrases, MaxItems, MaxPasses, Tick, NoTime,                    \* DisplayOrder
  Calls, Models, Renderings, Empty, MaxSummaries,                \* Summaries
  Chats, Names, Generated, NewChat, Absent                    \* ChatTitles

VARIABLES
  part, \* the part whose behaviour this is
  provider, transcriptLines, chat, read,
  log, checkpoint, walFrom, poll, extracted,
  cli, asked, picks, tool, hooks, written, snapshot, projected, card,
  agent, started, items, now, passes, occurredAt,
  timeline, distills, nodes, summarizes, lastId,
  titles, chats, titleCalls, modelServer, named, crossed

transcriptVars == <<provider, transcriptLines, chat, read>>
cursorVars == <<log, checkpoint, walFrom, poll, extracted>>
questionVars == <<cli, asked, picks, tool, hooks, written, snapshot, projected, card>>
orderVars == <<agent, started, items, now, passes, occurredAt>>
summaryVars == <<timeline, distills, nodes, summarizes, lastId>>
titleVars == <<titles, chats, titleCalls, modelServer, named, crossed>>

Reader == INSTANCE Transcripts WITH
  Providers <- TranscriptProviders, lines <- transcriptLines
Cursor == INSTANCE CursorStore WITH Unreadable <- None
Cards == INSTANCE Questions WITH
  Providers <- CardProviders, NoText <- None, provider <- cli
Order == INSTANCE DisplayOrder WITH Texts <- Phrases
Distiller == INSTANCE Summaries WITH Texts <- Renderings, MaxStored <- MaxSummaries
Titles == INSTANCE ChatTitles WITH
  calls <- titleCalls, server <- modelServer

-----------------------------------------------------------------------------
(* Storage, signals and pull requests.                                     *)

CONSTANTS
  MessageRows, Works, RowTexts, MaxRow,                          \* SearchIndex
  Readers, Writers, Size, Free, MaxWrites,                   \* SqliteStore
  MaxId, MigrationNames, MigrationBodies, MaxReleases,           \* Migrations
  Targets, CliOf(_), Bodies, MaxFired,                           \* HookSignals
  Repos, Branches, RemotesSet, Limit, MaxPrs, MaxChanges, MaxSyncs \* PullRequests

VARIABLES
  release, source, docs, fts,
  at, permit, waiters, holder, begun, before, rows, doing, lastWork, outcome,
  record, ledger, schema, booted, releases,
  fired, lines, signals, handling, traced, activity, bindings, native, handled,
  remotes, github, hub, changes, syncs, clock, under, prRows, told

indexVars == <<release, source, docs, fts>>
storeVars == <<at, permit, waiters, holder, begun, before, rows, doing, lastWork, outcome>>
migrationVars == <<record, ledger, schema, booted, releases>>
signalVars == <<fired, lines, signals, handling, traced, activity, bindings, native, handled>>
requestVars == <<remotes, github, hub, changes, syncs, clock, under, prRows, told>>

Index == INSTANCE SearchIndex WITH Messages <- MessageRows, Texts <- RowTexts
Store == INSTANCE SqliteStore
Ledger == INSTANCE Migrations WITH Names <- MigrationNames, Bodies <- MigrationBodies
Signals == INSTANCE HookSignals
Requests == INSTANCE PullRequests WITH
  NoRepo <- None, NoPr <- None

ASSUME RecordsAssumption ==
  /\ Cursor!CursorStoreAssumption /\ Distiller!SummariesAssumption /\ Index!IndexAssumption
  /\ Store!StoreAssumption /\ Ledger!MigrationsAssumption /\ Titles!ChatTitlesAssumption
  /\ Requests!PullRequestsAssumption

-----------------------------------------------------------------------------

vars == <<part, transcriptVars, cursorVars, questionVars, orderVars, summaryVars, titleVars, indexVars,
          storeVars, migrationVars, signalVars, requestVars>>

Parts == {"transcript", "cursor", "question", "order", "summary", "title", "search", "store",
          "migration", "signal", "request"}

Init ==
  /\ part \in Parts
  /\ Reader!Init /\ Cursor!Init /\ Cards!Init /\ Order!Init /\ Distiller!Init /\ Titles!Init
  /\ Index!Init /\ Store!Init /\ Ledger!Init /\ Signals!Init /\ Requests!Init
  \* A part at rest has one initial state.
  /\ part # "transcript" => provider = "claude"
  /\ part # "question" => cli = "claude" /\ asked = CHOOSE a \in Asks : TRUE
  /\ part # "order" => agent = "claude"
  /\ part # "summary" => timeline = Empty
  /\ part # "migration" => record[1] = CHOOSE r \in [name : MigrationNames, body : MigrationBodies] : TRUE
  /\ part # "request" => remotes = CHOOSE r \in RemotesSet : TRUE

\* A step of part p: the others hold still.
Of(p, step) ==
  /\ part = p /\ step /\ UNCHANGED part
  /\ (IF p = "transcript" THEN TRUE ELSE UNCHANGED transcriptVars)
  /\ (IF p = "cursor" THEN TRUE ELSE UNCHANGED cursorVars)
  /\ (IF p = "question" THEN TRUE ELSE UNCHANGED questionVars)
  /\ (IF p = "order" THEN TRUE ELSE UNCHANGED orderVars)
  /\ (IF p = "summary" THEN TRUE ELSE UNCHANGED summaryVars)
  /\ (IF p = "title" THEN TRUE ELSE UNCHANGED titleVars)
  /\ (IF p = "search" THEN TRUE ELSE UNCHANGED indexVars)
  /\ (IF p = "store" THEN TRUE ELSE UNCHANGED storeVars)
  /\ (IF p = "migration" THEN TRUE ELSE UNCHANGED migrationVars)
  /\ (IF p = "signal" THEN TRUE ELSE UNCHANGED signalVars)
  /\ (IF p = "request" THEN TRUE ELSE UNCHANGED requestVars)

Next ==
  \/ Of("transcript", Reader!Next)
  \/ Of("cursor", Cursor!Next)
  \/ Of("question", Cards!Next)
  \/ Of("order", Order!Next)
  \/ Of("summary", Distiller!Next)
  \/ Of("title", Titles!Next)
  \/ Of("search", Index!Next)
  \/ Of("store", Store!Next)
  \/ Of("migration", Ledger!Next)
  \/ Of("signal", Signals!Next)
  \/ Of("request", Requests!Next)

Spec == Init /\ [][Next]_vars

-----------------------------------------------------------------------------
(* The properties of the parts.                                            *)

\* A transcript that is read has a bubble of each record that parsed, and that no line
\* cut short separates from its root, and a card of each call; Cursor's blobs come once each, after the ones they refer to.
TranscriptsAreWhole == Reader!FileIsShown /\ Cursor!DependenciesFirst

\* The card of an answered question shows what the user chose, and the rows of a
\* chat keep the order in which messages and tool calls were written, but within a
\* record whose text a tool call cuts.
TimelineIsTrue == Cards!ShownAsPicked /\ Order!KeepsInterleaving

\* Every row that is searched is found by what it says, and by nothing else; a
\* distiller answers with a summary that is stored.
SearchFindsIt == Index!HitsAreCurrent /\ Index!EveryRowIsFound /\ Distiller!AnswersAreStored

\* A transaction that is over has left all of its rows or none, a boot that got
\* through has run what a fresh install runs, in its order, and a chat is called
\* what its row says, which is the user's name for it once it was given one.
StoreIsSound ==
  /\ Store!Transactional /\ Ledger!BootedInOrder
  /\ Titles!ListedIsStored /\ Titles!NamesAreKept

\* A target is bound to a session of the CLI it was launched with, and a hook leaves
\* one event of a type, however many configs sent it.
SignalsAreTrue == Signals!SignalsAreTrue

\* After a sync that nothing crossed a branch shows the pull request it has on
\* GitHub, in its state there.
ShowsItsPullRequest == Requests!ShowsItsPullRequest

-----------------------------------------------------------------------------
(* The operators and records of the small instance.                        *)

SmallKindsAt(n) ==
  CASE n = 1 -> {"user"}
    [] n = 2 -> {"call", "chrome"}
    [] n = 3 -> {"call", "mixed"}
    [] n > 3 -> {"text"}
SmallUuidOf(n) == 10 - n
SmallCliOf(t) == "claude"

Option(id, label) == [id |-> id, label |-> label]
Question(options, multi) == [options |-> options, multi |-> multi]
SmallAsks == {
  <<Question(<<Option(<<"a">>, <<"A">>), Option(<<"b">>, <<"B">>)>>, TRUE)>>,
  <<Question(<<Option(<<"a">>, <<"A", "B">>), Option(<<"b">>, <<"C">>)>>, FALSE),
    Question(<<Option(<<"a">>, <<"A">>), Option(<<"c">>, <<"C">>)>>, TRUE)>>,
  <<Question(<<Option(<<"a">>, <<"A", "B">>), Option(<<"b">>, <<"B">>)>>, FALSE)>>}
SmallFreeTexts == {<<"x", "y">>, <<"B", "x">>}

\* A clone of a fork, and one that has no GitHub remote.
Remote(name, repo) == [name |-> name, at |-> repo]
SmallRemotes ==
  LET ours == CHOOSE r \in Repos : TRUE
      fork == CHOOSE r \in Repos : r # ours
  IN  {<<Remote("fork", fork), Remote("origin", ours)>>, <<Remote("origin", None)>>}
=============================================================================
