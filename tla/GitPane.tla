------------------------------- MODULE GitPane -------------------------------
(***************************************************************************)
(* What the git pane shows, and how it learns of it: two machines that     *)
(* share no state.  The changed files of a workspace: the watcher that     *)
(* GitService keeps on its tree, the change it publishes when the edits    *)
(* pause, and the atoms of the window that ask git again on every change   *)
(* and show the answer.  The repository side: the branch and the pull      *)
(* requests, which GitService keeps in rows refreshed at boot, by the git  *)
(* hooks and after calls, the changes it publishes about them, and the     *)
(* context that the window shows.                                          *)
(***************************************************************************)
EXTENDS Naturals, Sequences, FiniteSets

CONSTANTS
  MaxEdits,  \* bound on the edits of the tree
  MaxRemaps, \* bound on the changes of repository state, published elsewhere, and on manual refreshes
  MaxMoves,  \* bound on the checkouts and commits
  MaxPushes  \* bound on the pushes and new pull requests

-----------------------------------------------------------------------------
(* The changed files.                                                      *)

VARIABLES
  tree,       \* the working tree and its index, by the edits made
  watch,      \* the watcher's fiber: "off", "starting", "up" or "ended"
  kept,       \* watcherFibers has an entry for the workspace
  ping,       \* the stream holds an edit back until 250 ms pass without another
  lastSeen,   \* the tree as of the last edit that this watcher saw
  statusTick, \* a change is on its way to the window
  remaps,
  statusPane, \* the atom: "off", "idle", "asked" or "served"
  statusGot,  \* the status in the answer on its way
  status      \* what the pane shows

watcherVars == <<watch, kept, ping>>
shownStatus == <<statusPane, statusGot, status>>
statusVars == <<tree, watcherVars, lastSeen, statusTick, remaps, shownStatus>>

StatusInit ==
  /\ tree = 0 /\ lastSeen = 0 /\ remaps = 0
  /\ watch = "off" /\ kept = FALSE /\ ping = FALSE
  /\ statusTick = FALSE /\ statusPane = "off" /\ statusGot = 0 /\ status = 0

-----------------------------------------------------------------------------
(* The main process.                                                       *)

\* An edit outside the ignored directories, or a write of the index.
Edit ==
  /\ tree < MaxEdits /\ tree' = tree + 1
  /\ IF watch = "up" THEN ping' = TRUE /\ lastSeen' = tree' ELSE UNCHANGED <<ping, lastSeen>>
  /\ UNCHANGED <<watch, kept, statusTick, remaps, shownStatus>>

\* reconcileWatchers at a push of the workspace list: a workspace without an
\* entry gets a watcher, one that left the list loses it.
Reconcile(listed) ==
  /\ IF listed THEN watch' = (IF kept THEN watch ELSE "starting") /\ UNCHANGED ping
               ELSE watch' = "off" /\ ping' = FALSE
  /\ kept' = listed
  /\ UNCHANGED <<tree, lastSeen, statusTick, remaps, shownStatus>>

\* treeChanges: the watches are acquired once the index's path is resolved.
Acquire ==
  /\ watch = "starting" /\ watch' = "up" /\ lastSeen' = 0
  /\ UNCHANGED <<tree, kept, ping, statusTick, remaps, shownStatus>>

\* A watch that fails ends the stream, with an edit held back or not; then the
\* fiber leaves the registry.
Fail ==
  /\ watch = "up" /\ watch' = "ended" /\ ping' \in {FALSE, ping}
  /\ UNCHANGED <<tree, kept, lastSeen, statusTick, remaps, shownStatus>>
Leave ==
  /\ watch = "ended" /\ ~ping /\ watch' = "off" /\ kept' = FALSE
  /\ UNCHANGED <<tree, ping, lastSeen, statusTick, remaps, shownStatus>>

\* The debounce: publishChange(id, "status").
Publish ==
  /\ ping /\ ping' = FALSE /\ statusTick' = TRUE
  /\ UNCHANGED <<tree, watch, kept, lastSeen, remaps, shownStatus>>

\* A change of kind "repo", which the status atoms ride as well.
Remap ==
  /\ remaps < MaxRemaps /\ remaps' = remaps + 1 /\ statusTick' = TRUE
  /\ UNCHANGED <<tree, watcherVars, lastSeen, shownStatus>>

-----------------------------------------------------------------------------
(* The window.                                                             *)

\* The pane's first reading, or a return to it: the changes are subscribed to,
\* and the status is asked for.
Mount ==
  /\ statusPane = "off" /\ statusPane' = "asked"
  /\ UNCHANGED <<tree, watcherVars, lastSeen, statusTick, remaps, statusGot, status>>
\* The idle TTL of an unread atom.
Unmount ==
  /\ statusPane # "off" /\ statusPane' = "off" /\ statusGot' = 0 /\ status' = 0
  /\ UNCHANGED <<tree, watcherVars, lastSeen, statusTick, remaps>>

\* Slip: a change that comes while an answer is on its way is dropped.
AskUnlessAsked == IF statusPane = "idle" THEN "asked" ELSE statusPane
\* A refresh gives up the answer on its way and asks anew.
Ask == IF statusPane = "off" THEN "off" ELSE "asked"

\* The signal's counter moves.
DeliverChange ==
  /\ statusTick /\ statusTick' = FALSE
  /\ statusPane' = Ask /\ statusGot' = 0
  /\ UNCHANGED <<tree, watcherVars, lastSeen, remaps, status>>
\* The pane's refresh button.
Refresh ==
  /\ remaps < MaxRemaps /\ remaps' = remaps + 1
  /\ statusPane # "off" /\ statusPane' = Ask /\ statusGot' = 0
  /\ UNCHANGED <<tree, watcherVars, lastSeen, statusTick, status>>

\* status, diffTree and diff read git; the pane keeps what it showed until the
\* answer is there.
ServeStatus ==
  /\ statusPane = "asked" /\ statusPane' = "served" /\ statusGot' = tree
  /\ UNCHANGED <<tree, watcherVars, lastSeen, statusTick, remaps, status>>
AnswerStatus ==
  /\ statusPane = "served" /\ statusPane' = "idle" /\ status' = statusGot /\ statusGot' = 0
  /\ UNCHANGED <<tree, watcherVars, lastSeen, statusTick, remaps>>

StatusNext ==
  \/ Edit \/ Acquire \/ Fail \/ Leave \/ Publish \/ Remap
  \/ Mount \/ Unmount \/ DeliverChange \/ Refresh \/ ServeStatus \/ AnswerStatus
  \/ \E listed \in BOOLEAN : Reconcile(listed)

\* Timers fire, changes and answers arrive.
StatusSpec ==
  /\ StatusInit /\ [][StatusNext]_statusVars
  /\ WF_statusVars(Publish) /\ WF_statusVars(DeliverChange)
  /\ WF_statusVars(ServeStatus) /\ WF_statusVars(AnswerStatus)

\* An edit that the watcher saw is shown: however edits, changes and answers
\* cross, the pane ends with the status of the tree as it is, while it is open
\* and the watcher is up.
StatusCatchesUp ==
  (statusPane # "off" /\ lastSeen = tree) ~> (status = tree \/ lastSeen # tree \/ statusPane = "off" \/ watch # "up")

-----------------------------------------------------------------------------
(* The repository side.                                                    *)

VARIABLES
  git,                \* [head: the branch as of a checkout, log: the commits, pushed, hub: GitHub's pull requests]
  hooks,              \* signals that the hook server holds for the controller, oldest first
  citing,             \* "idle", "listing" the works of the commit's chat, or the one to cite it
  cited,              \* the commits that a work cites: [commit, work]
  detection,          \* per "boot" and "hook": the head that a detection under way has read
  detected,           \* the workspace was detected in this run of the program
  sync,               \* per "push" and "create": the synchronisation under way
  repoRows,           \* [bound, head, prs]: the workspace's rows
  announced,          \* the rows and the log as of the last publishChange(id, "repo")
  repoTick,           \* a change is on its way to the window
  contextPane,        \* the context's and the commits' atoms: "idle", "asked" or "served"
  contextGot, context \* what the answer on its way holds, and what is shown

shownContext == <<contextPane, contextGot, context>>
stamp == <<citing, cited>>
contextVars == <<git, hooks, stamp, detection, detected, sync, repoRows, announced, repoTick, shownContext>>

None == [read |-> FALSE, head |-> 0]
NoSync == [at |-> "idle", hub |-> 0]
\* gitContext joins the rows; commits reads git's log.
Context == [rows |-> repoRows, log |-> git.log]
Blank == [rows |-> [bound |-> FALSE, head |-> 0, prs |-> 0], log |-> 0]

ContextInit ==
  /\ detected = FALSE
  /\ git = [head |-> 1, log |-> 0, pushed |-> 0, hub |-> 0]
  /\ hooks = <<>> /\ repoTick = FALSE
  /\ detection = [by \in {"boot", "hook"} |-> None]
  /\ sync = [by \in {"push", "create"} |-> NoSync]
  /\ repoRows \in {Blank.rows, [bound |-> TRUE, head |-> 1, prs |-> 0]}
  /\ announced = Context
  /\ citing = "idle" /\ cited = {}
  /\ contextPane = "asked" /\ contextGot = Blank /\ context = Blank

\* publishChange, of the rows as the step leaves them.
Announce == repoTick' = TRUE /\ announced' = [rows |-> repoRows', log |-> git.log]

-----------------------------------------------------------------------------
(* Git and GitHub.                                                         *)

\* git runs the hook after a checkout and a commit, but before it pushes.
Checkout ==
  /\ git.head + git.log <= MaxMoves
  /\ git' = [git EXCEPT !.head = @ + 1] /\ hooks' = Append(hooks, "post-checkout")
  /\ UNCHANGED <<stamp, detected, detection, sync, repoRows, announced, repoTick, shownContext>>
Commit ==
  /\ git.head + git.log <= MaxMoves
  /\ git' = [git EXCEPT !.log = @ + 1] /\ hooks' = Append(hooks, "post-commit")
  /\ UNCHANGED <<stamp, detected, detection, sync, repoRows, announced, repoTick, shownContext>>
Push ==
  /\ git.pushed < MaxPushes
  /\ git' = [git EXCEPT !.pushed = @ + 1] /\ hooks' = Append(hooks, "pre-push")
  /\ UNCHANGED <<stamp, detected, detection, sync, repoRows, announced, repoTick, shownContext>>
Land ==
  /\ git.hub < git.pushed /\ git' = [git EXCEPT !.hub = git.pushed]
  /\ UNCHANGED <<stamp, hooks, detected, detection, sync, repoRows, announced, repoTick, shownContext>>

-----------------------------------------------------------------------------
(* Detection.                                                              *)

\* The workspace's first appearance in the list, once per run of the program,
\* and the checkout hook; both read git first.
Detect(by) ==
  /\ ~detection[by].read
  /\ by = "boot" => ~detected
  /\ by = "hook" => hooks # <<>> /\ Head(hooks) = "post-checkout"
  /\ detection' = [detection EXCEPT ![by] = [read |-> TRUE, head |-> git.head]]
  /\ detected' = (detected \/ by = "boot")
  /\ UNCHANGED <<stamp, git, hooks, sync, repoRows, announced, repoTick, shownContext>>

Told == Announce

\* The rows are bound to what was read and the list is pushed; the hook's
\* detection, and never the boot's, tells the window.
Bind(by) ==
  /\ detection[by].read /\ detection' = [detection EXCEPT ![by] = None]
  /\ repoRows' = [repoRows EXCEPT !.bound = TRUE, !.head = detection[by].head]
  /\ IF by = "hook" THEN hooks' = Tail(hooks) /\ Told ELSE UNCHANGED <<hooks, announced, repoTick>>
  /\ UNCHANGED <<stamp, git, detected, sync, shownContext>>

\* A detection that git or the store fails is logged.
DetectFails(by) ==
  /\ detection[by].read /\ detection' = [detection EXCEPT ![by] = None]
  /\ hooks' = IF by = "hook" THEN Tail(hooks) ELSE hooks
  /\ UNCHANGED <<stamp, git, detected, sync, repoRows, announced, repoTick, shownContext>>

\* notifyCommit, after which the signal's handler stamps a work with the commit, if
\* it came from a chat's terminal.
NotifyCommit ==
  /\ hooks # <<>> /\ Head(hooks) = "post-commit" /\ citing = "idle"
  /\ \/ citing' = "listing" /\ UNCHANGED hooks
     \/ UNCHANGED citing /\ hooks' = Tail(hooks)
  /\ repoRows' = repoRows /\ Announce
  /\ UNCHANGED <<git, cited, detected, detection, sync, shownContext>>

\* Of the chat's works, latest update first, the first that is open, or else the
\* first of all.
pickWorkForCommit(works) ==
  LET open == SelectSeq(works, LAMBDA w : w.open) IN
  IF open # <<>> THEN Head(open).id ELSE Head(works).id

\* stampCommitCitation: what listForChat answers is whatever the agents have made of
\* the works by then; one without works, or no answer, leaves nothing to stamp.
PickWork ==
  /\ citing = "listing"
  /\ \E order \in {<<>>, <<"w1">>, <<"w1", "w2">>, <<"w2", "w1">>}, open \in SUBSET {"w1", "w2"} :
       IF order = <<>> THEN citing' = "idle" /\ hooks' = Tail(hooks)
       ELSE /\ citing' = pickWorkForCommit([i \in DOMAIN order |-> [id |-> order[i], open |-> order[i] \in open]])
            /\ UNCHANGED hooks
  /\ UNCHANGED <<git, cited, detected, detection, sync, repoRows, announced, repoTick, shownContext>>

\* The commit that the signal at hand tells of: git's hooks signal in order.
CommitOf == git.log - Cardinality({i \in DOMAIN hooks : i > 1 /\ hooks[i] = "post-commit"})

\* A stamp that fails is logged; either way the next signal is taken.
Stamp ==
  /\ citing \notin {"idle", "listing"} /\ citing' = "idle" /\ hooks' = Tail(hooks)
  /\ cited' \in {cited, cited \cup {[commit |-> CommitOf, work |-> citing]}}
  /\ UNCHANGED <<git, detected, detection, sync, repoRows, announced, repoTick, shownContext>>

-----------------------------------------------------------------------------
(* Pull requests.                                                          *)

\* notifyPrePush: a sync that waits, or has begun, makes way for a new one.
NotifyPrePush ==
  /\ hooks # <<>> /\ Head(hooks) = "pre-push" /\ hooks' = Tail(hooks)
  /\ sync' = [sync EXCEPT !["push"] = [at |-> "waiting", hub |-> 0]]
  /\ UNCHANGED <<stamp, git, detected, detection, repoRows, announced, repoTick, shownContext>>

\* createPullRequest: gh makes it of a pushed branch, and the list is fetched.
CreatePullRequest ==
  /\ repoRows.bound /\ sync["create"].at = "idle" /\ git.hub < MaxPushes
  /\ git' = [git EXCEPT !.hub = @ + 1, !.pushed = IF @ > git.hub THEN @ ELSE git.hub + 1]
  /\ sync' = [sync EXCEPT !["create"] = [at |-> "waiting", hub |-> 0]]
  /\ UNCHANGED <<stamp, hooks, detected, detection, repoRows, announced, repoTick, shownContext>>

\* syncPullRequests: gh lists, after four seconds when a push asked for it; an
\* unbound workspace is detected first.
List(by) ==
  /\ sync[by].at = "waiting"
  /\ repoRows' = IF repoRows.bound THEN repoRows ELSE [repoRows EXCEPT !.bound = TRUE, !.head = git.head]
  /\ sync' = [sync EXCEPT ![by] = [at |-> "listed", hub |-> git.hub]]
  /\ UNCHANGED <<stamp, git, hooks, detected, detection, announced, repoTick, shownContext>>
\* What gh listed is stored - nothing, when it failed - and published.
Store(by) ==
  /\ sync[by].at = "listed" /\ sync' = [sync EXCEPT ![by] = NoSync]
  /\ repoRows' \in {repoRows, [repoRows EXCEPT !.prs = sync[by].hub]}
  /\ Announce
  /\ UNCHANGED <<stamp, git, hooks, detected, detection, shownContext>>
\* An answer that does not parse or a row that is not stored ends the sync.
SyncFails(by) ==
  /\ sync[by].at = "listed" /\ sync' = [sync EXCEPT ![by] = NoSync]
  /\ UNCHANGED <<stamp, git, hooks, detected, detection, repoRows, announced, repoTick, shownContext>>

-----------------------------------------------------------------------------
(* The window.                                                             *)

DeliverNews ==
  /\ repoTick /\ repoTick' = FALSE /\ contextPane' = "asked" /\ contextGot' = Blank
  /\ UNCHANGED <<stamp, git, hooks, detected, detection, sync, repoRows, announced, context>>
ServeContext ==
  /\ contextPane = "asked" /\ contextPane' = "served" /\ contextGot' = Context
  /\ UNCHANGED <<stamp, git, hooks, detected, detection, sync, repoRows, announced, repoTick, context>>
AnswerContext ==
  /\ contextPane = "served" /\ contextPane' = "idle" /\ context' = contextGot /\ contextGot' = Blank
  /\ UNCHANGED <<stamp, git, hooks, detected, detection, sync, repoRows, announced, repoTick>>

ContextNext ==
  \/ Checkout \/ Commit \/ Push \/ Land \/ NotifyCommit \/ PickWork \/ Stamp
  \/ NotifyPrePush \/ CreatePullRequest
  \/ \E by \in {"boot", "hook"} : Detect(by) \/ Bind(by) \/ DetectFails(by)
  \/ \E by \in {"push", "create"} : List(by) \/ Store(by) \/ SyncFails(by)
  \/ DeliverNews \/ ServeContext \/ AnswerContext

\* Changes and answers arrive.
ContextSpec ==
  /\ ContextInit /\ [][ContextNext]_contextVars
  /\ WF_contextVars(DeliverNews) /\ WF_contextVars(ServeContext) /\ WF_contextVars(AnswerContext)

\* Whatever the window was told of, it shows: the branch, its pull request and
\* the commits, after the last of any hooks, syncs and calls that crossed, when
\* nothing changed since unannounced.
ContextCatchesUp ==
  announced = Context ~> (context = Context \/ announced # Context)
=============================================================================
