----------------------------- MODULE RpcDrivers -----------------------------
(***************************************************************************)
(* One rpc session of either dialect, whose driver may be stopped and      *)
(* resumed.  RpcSessionManager picks the driver by the provider's protocol *)
(* when it launches, and is otherwise dialect-agnostic.                    *)
(*                                                                         *)
(* Both drivers share the JSON-RPC transport over a child's stdio          *)
(* (codex-appserver/transport.ts): raw stdout lines and the exit event     *)
(* enter `inbound`, and a drain fiber routes them one at a time.  A turn   *)
(* makes exactly one request, so the turn stands for the request's id.     *)
(*                                                                         *)
(* Codex (codex-appserver/driver.ts): a fold fiber reads notifications:    *)
(* completed items accumulate, a completed turn is offered, with a copy of *)
(* the items so far, to one unkeyed queue of outcomes that runTurn takes   *)
(* from.  An approvals fiber reads the server's requests, and a mirror     *)
(* fiber copies the driver's pending approvals into the list the renderer  *)
(* shows (CodexDriverRegistry.ts).                                         *)
(*                                                                         *)
(* Cursor (cursor-acp/driver.ts): ACP does not echo the prompt and ends a  *)
(* turn with the response to session/prompt: a turn accumulates its own    *)
(* prompt, waits for the response, and only then folds the updates that    *)
(* wait in the queue.  Its permissions work as codex's approvals do and    *)
(* are left out; so is the coalescing of text chunks into one message.     *)
(***************************************************************************)
EXTENDS Integers, Sequences, FiniteSets

CONSTANTS
  MaxTurns, \* bound: submitted prompts
  Reloads,  \* whether a page reload may interrupt a submission
  MaxLives, \* bound: drivers started for the session
  MaxItems, \* bound: transcript items the child produces in a turn
  Asks,     \* requests of the child
  Queries,  \* those that are not requests for an approval
  Null

Turns == 1..MaxTurns

ASSUME DriversAssumption ==
  /\ Reloads \in BOOLEAN /\ MaxTurns \in Nat
  /\ MaxLives \in Nat \ {0} /\ MaxItems \in Nat \ {0}
  /\ Null \notin Turns

ASSUME AsksAssumption == Queries \subseteq Asks /\ IsFiniteSet(Asks)

VARIABLES
  alive,          \* the child process runs
  stdin,          \* frames written and not read by the child
  work,           \* turns the child has accepted and not finished, oldest first
  sent,           \* items the child produced for each turn
  inbound,        \* lines read from the child and its exit event
  draining,       \* the routing fiber runs
  closed,         \* the transport is closed
  pending,        \* requests awaiting a response
  notifications,  \* queue
  serverRequests, \* queue
  shut,           \* both queues are shut down
  scope,          \* "open", then "forgotten", then "closed"
  life,           \* which driver this is
  permit,         \* the turn holding the session's semaphore
  generating,     \* the session is marked as having a turn in flight
  call,           \* [pc, got, rows] of each submission
  items,          \* the driver's accumulated rows
  stored,         \* the session's rows in the ingest store
  protocol,       \* "jsonrpc" (codex app-server) or "acp" (cursor-agent acp)
  asked,          \* each request of the child: "never", "open", "settled"
  folding,        \* the fold fiber runs
  outcomes,       \* turnOutcomes
  approvals,      \* the driver's pendingApprovals
  listed          \* the registry's list, as the renderer sees it

child == <<alive, stdin, work, sent>>
wire == <<inbound, draining, closed, pending, notifications, serverRequests, shut>>
session == <<scope, life, permit, generating>>
baseVars == <<child, wire, session, call, items, stored>>
codexVars == <<asked, folding, outcomes, approvals, listed>>
vars == <<protocol, baseVars, codexVars>>

-----------------------------------------------------------------------------

NoCall == [pc |-> "idle", got |-> Null, rows |-> <<>>]
InTurn(t) == call[t].pc \in {"made", "awaiting", "resolved", "rejected", "persist"}
InFlight(t) == InTurn(t) \/ call[t].pc = "queued"

BaseInit ==
  /\ alive = TRUE /\ stdin = <<>> /\ work = <<>>
  /\ sent = [t \in Turns |-> 0]
  /\ inbound = <<>> /\ draining = TRUE /\ closed = FALSE /\ pending = {}
  /\ notifications = <<>> /\ serverRequests = <<>> /\ shut = FALSE
  /\ scope = "open" /\ life = 1 /\ permit = Null /\ generating = FALSE
  /\ call = [t \in Turns |-> NoCall]
  /\ items = <<>> /\ stored = <<>>

\* A line of the child's stdout.
Emit(kind, x) == inbound' = Append(inbound, [kind |-> kind, of |-> x])

ToChild(kind, x) == stdin' = Append(stdin, [kind |-> kind, of |-> x])

-----------------------------------------------------------------------------
(* Submissions.                                                            *)

\* submit: an unknown session accepts nothing.  Turns are numbered as they
\* are submitted.
Submit(t) ==
  /\ call[t].pc = "idle" /\ scope = "open"
  /\ \A u \in Turns : u < t => call[u].pc # "idle"
  /\ call' = [call EXCEPT ![t].pc = "queued"]
  /\ UNCHANGED <<child, wire, session, items, stored>>

\* The turn leaves the semaphore, its release having run.
Leave == permit' = Null /\ generating' = FALSE

\* Slip: the session's semaphore is left out.
BeginUnserialized(t, prompted) ==
  /\ call[t].pc = "queued" /\ ~closed
  /\ items' = items \o prompted
  /\ call' = [call EXCEPT ![t].pc = "made"]
  /\ permit' = t /\ generating' = TRUE
  /\ UNCHANGED <<child, wire, scope, life, stored>>

\* sem.withPermits, markGenerating, and runTurn up to the Deferred of its
\* request; prompted is what the driver accumulates before asking.
BeginTurn(t, prompted) ==
  /\ call[t].pc = "queued" /\ permit = Null
  /\ items' = items \o prompted
  /\ IF closed
       THEN /\ call' = [call EXCEPT ![t].pc = "failed"]
            /\ Leave
       ELSE /\ call' = [call EXCEPT ![t].pc = "made"]
            /\ permit' = t /\ generating' = TRUE
  /\ UNCHANGED <<child, wire, scope, life, stored>>

\* Slip: the guard before Deferred.make is taken for good.
AssumedOpen(t) == TRUE
\* Deferred.make yields: whether the transport closed is checked again.
StillOpen(t) == ~closed
Request(t) ==
  /\ call[t].pc = "made"
  /\ IF StillOpen(t)
       THEN /\ pending' = pending \cup {t}
            /\ call' = [call EXCEPT ![t].pc = "awaiting"]
            /\ ToChild("turn", t)
            /\ UNCHANGED <<permit, generating>>
       ELSE /\ call' = [call EXCEPT ![t].pc = "failed"]
            /\ Leave
            /\ UNCHANGED <<pending, stdin>>
  /\ UNCHANGED <<alive, work, sent, inbound, draining, closed, notifications,
                 serverRequests, shut, scope, life, items, stored>>

\* The request failed.
TurnFails(t) ==
  /\ call[t].pc = "rejected"
  /\ call' = [call EXCEPT ![t].pc = "failed"]
  /\ Leave
  /\ UNCHANGED <<child, wire, scope, life, items, stored>>

\* The ingest store's rows of a session are replaced as a whole.
Replaced(rows) == rows

\* replaceSession, then runTurn returns.
Persist(t) ==
  /\ call[t].pc = "persist"
  /\ stored' = Replaced(call[t].rows)
  /\ call' = [call EXCEPT ![t].pc = "returned"]
  /\ Leave
  /\ UNCHANGED <<child, wire, scope, life, items>>

\* The page reloads: its RPC calls are interrupted wherever they wait.
Reload ==
  /\ Reloads
  /\ \E t \in Turns : InFlight(t)
  /\ call' = [t \in Turns |-> IF InFlight(t) THEN [call[t] EXCEPT !.pc = "interrupted"]
                                             ELSE call[t]]
  /\ IF permit # Null THEN Leave ELSE UNCHANGED <<permit, generating>>
  /\ UNCHANGED <<child, wire, scope, life, items, stored>>

-----------------------------------------------------------------------------
(* The transport.                                                          *)

\* Resolving or failing the Deferred of a request, whoever still awaits it.
Settled(S, pc) ==
  [t \in Turns |-> IF t \in S /\ call[t].pc = "awaiting" THEN [call[t] EXCEPT !.pc = pc]
                                                         ELSE call[t]]

\* failAllPending
FailAllPending ==
  /\ closed' = TRUE
  /\ call' = Settled(pending, "rejected")
  /\ pending' = {}

Routing == draining /\ inbound # <<>> /\ inbound' = Tail(inbound)

RouteResponse ==
  /\ Routing /\ Head(inbound).kind \in {"ok", "error"}
  /\ LET t == Head(inbound).of IN
     /\ pending' = pending \ {t}
     /\ call' = IF t \in pending
                  THEN Settled({t}, IF Head(inbound).kind = "ok" THEN "resolved" ELSE "rejected")
                  ELSE call
  /\ UNCHANGED <<child, draining, closed, notifications, serverRequests, shut,
                 session, items, stored>>

RouteRequest ==
  /\ Routing /\ Head(inbound).kind = "ask"
  /\ serverRequests' = IF shut THEN serverRequests ELSE Append(serverRequests, Head(inbound))
  /\ UNCHANGED <<child, draining, closed, pending, notifications, shut, session, call,
                 items, stored>>

RouteNotification ==
  /\ Routing /\ Head(inbound).kind \in {"item", "completed", "withdrawn"}
  /\ notifications' = IF shut THEN notifications ELSE Append(notifications, Head(inbound))
  /\ UNCHANGED <<child, draining, closed, pending, serverRequests, shut, session, call,
                 items, stored>>

\* The exit event; shutting a queue down drops what it holds.
RouteExit ==
  /\ Routing /\ Head(inbound).kind = "exit"
  /\ FailAllPending
  /\ notifications' = <<>> /\ serverRequests' = <<>> /\ shut' = TRUE
  /\ UNCHANGED <<child, draining, session, items, stored>>

Route == RouteResponse \/ RouteRequest \/ RouteNotification \/ RouteExit

-----------------------------------------------------------------------------
(* The child's death, the session's end and its resumption.                *)

ChildDies ==
  /\ alive
  /\ alive' = FALSE
  /\ Emit("exit", Null)
  /\ UNCHANGED <<stdin, work, sent, draining, closed, pending, notifications,
                 serverRequests, shut, session, call, items, stored>>

\* stop: the session is forgotten, and its registration with it.
Stop ==
  /\ scope = "open"
  /\ scope' = "forgotten" /\ generating' = FALSE
  /\ UNCHANGED <<child, wire, life, permit, call, items, stored>>

\* Scope.close: the fibers are interrupted, then the finalizer fails what is
\* pending and the child is killed; its exit is never routed.  Interrupting a
\* fiber that waits on a queue ends it at once, so nothing runs in between.
CloseScope ==
  /\ scope = "forgotten"
  /\ scope' = "closed" /\ draining' = FALSE /\ alive' = FALSE
  /\ FailAllPending
  /\ UNCHANGED <<stdin, work, sent, inbound, notifications, serverRequests, shut,
                 life, permit, generating, items, stored>>

\* launch with resumeThreadId, up to the end of the handshake: a new driver
\* over the same native session, with nothing accumulated; replayed is what the
\* agent has sent again by then.  Submissions to
\* the previous driver have failed long before a process has started.
Resume(replayed) ==
  /\ scope = "closed" /\ life < MaxLives
  /\ \A t \in Turns : ~InFlight(t)
  /\ life' = life + 1 /\ scope' = "open"
  /\ alive' = TRUE /\ stdin' = <<>> /\ work' = <<>>
  /\ inbound' = <<>> /\ draining' = TRUE /\ closed' = FALSE /\ pending' = {}
  /\ notifications' = replayed /\ serverRequests' = <<>> /\ shut' = FALSE
  /\ items' = <<>>
  /\ UNCHANGED <<sent, permit, generating, call, stored>>

-----------------------------------------------------------------------------
(* The two drivers.                                                        *)

Codex == protocol = "jsonrpc" /\ UNCHANGED protocol
Acp == protocol = "acp" /\ UNCHANGED protocol

Init ==
  /\ protocol \in {"jsonrpc", "acp"}
  /\ BaseInit
  /\ asked = [a \in Asks |-> "never"]
  /\ folding = TRUE /\ outcomes = <<>> /\ approvals = {} /\ listed = {}

-----------------------------------------------------------------------------
(* The child, external.  codex app-server acknowledges turn/start, then    *)
(* works the turns off one by one, sending items, asking, and completing   *)
(* a turn once nothing it asked is open; cursor-agent acp answers a prompt *)
(* after the last of its updates.                                          *)

Reads(kind) == alive /\ stdin # <<>> /\ Head(stdin).kind = kind /\ stdin' = Tail(stdin)

ServeTurn ==
  /\ Codex /\ Reads("turn")
  /\ \/ Emit("ok", Head(stdin).of) /\ work' = Append(work, Head(stdin).of)
     \/ Emit("error", Head(stdin).of) /\ work' = work
  /\ UNCHANGED <<alive, sent, draining, closed, pending, notifications, serverRequests,
                 shut, session, call, items, stored, codexVars>>

ServePrompt ==
  /\ Acp /\ Reads("turn")
  /\ work' = Append(work, Head(stdin).of)
  /\ UNCHANGED <<alive, sent, wire, session, call, items, stored, codexVars>>

ServeAnswer ==
  /\ Codex /\ Reads("answer")
  /\ LET a == Head(stdin).of IN
     IF asked[a] = "open" THEN /\ asked' = [asked EXCEPT ![a] = "settled"]
                               /\ Emit("withdrawn", a)
                          ELSE UNCHANGED <<asked, inbound>>
  /\ UNCHANGED <<alive, work, sent, draining, closed, pending, notifications,
                 serverRequests, shut, session, call, items, stored,
                 folding, outcomes, approvals, listed>>

Produce ==
  /\ alive /\ work # <<>> /\ sent[Head(work)] < MaxItems
  /\ sent' = [sent EXCEPT ![Head(work)] = @ + 1]
  /\ Emit("item", Head(work))
  /\ UNCHANGED <<protocol, alive, stdin, work, draining, closed, pending, notifications,
                 serverRequests, shut, session, call, items, stored, codexVars>>

FinishTurn ==
  /\ Codex /\ alive /\ work # <<>> /\ \A a \in Asks : asked[a] # "open"
  /\ work' = Tail(work)
  /\ Emit("completed", Head(work))
  /\ UNCHANGED <<alive, stdin, sent, draining, closed, pending, notifications,
                 serverRequests, shut, session, call, items, stored, codexVars>>

AnswerPrompt ==
  /\ Acp /\ alive /\ work # <<>>
  /\ work' = Tail(work)
  /\ \E kind \in {"ok", "error"} : Emit(kind, Head(work))
  /\ UNCHANGED <<alive, stdin, sent, draining, closed, pending, notifications,
                 serverRequests, shut, session, call, items, stored, codexVars>>

\* An approval (or a query) is asked, or withdrawn without an answer.
AskOrWithdraw(a) ==
  /\ Codex /\ alive /\ work # <<>>
  /\ \/ asked[a] = "never" /\ asked' = [asked EXCEPT ![a] = "open"] /\ Emit("ask", a)
     \/ asked[a] = "open" /\ asked' = [asked EXCEPT ![a] = "settled"] /\ Emit("withdrawn", a)
  /\ UNCHANGED <<child, draining, closed, pending, notifications, serverRequests, shut,
                 session, call, items, stored, folding, outcomes, approvals, listed>>

-----------------------------------------------------------------------------
(* The codex driver.                                                       *)

Folding(kind) ==
  /\ Codex /\ folding /\ ~shut /\ scope # "closed"
  /\ notifications # <<>> /\ Head(notifications).kind = kind
  /\ notifications' = Tail(notifications)

\* The driver's row of an item of the transcript.
ItemRow(t) == <<[kind |-> "item", of |-> t]>>

FoldItem ==
  /\ Folding("item")
  /\ items' = items \o ItemRow(Head(notifications).of)
  /\ UNCHANGED <<child, inbound, draining, closed, pending, serverRequests, shut, session,
                 call, stored, codexVars>>

Completed(t) == [kind |-> "completed", of |-> t, rows |-> items]
Aborted == [kind |-> "aborted"]

FoldCompleted ==
  /\ Folding("completed")
  /\ outcomes' = Append(outcomes, Completed(Head(notifications).of))
  /\ UNCHANGED <<child, inbound, draining, closed, pending, serverRequests, shut, session,
                 call, items, stored, asked, folding, approvals, listed>>

\* serverRequest/resolved.  The request itself went to another queue, which
\* another fiber reads: it may be waiting there still.
FoldResolved ==
  /\ Folding("withdrawn")
  /\ approvals' = approvals \ {Head(notifications).of}
  /\ UNCHANGED <<child, inbound, draining, closed, pending, serverRequests, shut, session,
                 call, items, stored, asked, folding, outcomes, listed>>

\* The ensuring of the fold fiber, interrupted by the queue's shutdown.
FoldEnds ==
  /\ Codex /\ folding /\ shut
  /\ folding' = FALSE
  /\ outcomes' = Append(outcomes, Aborted)
  /\ UNCHANGED <<baseVars, asked, approvals, listed>>

\* The approvals fiber: other requests are answered emptily.
Collect ==
  /\ Codex /\ serverRequests # <<>> /\ ~shut /\ scope # "closed"
  /\ serverRequests' = Tail(serverRequests)
  /\ LET a == Head(serverRequests).of IN
     IF a \in Queries
       THEN IF closed THEN UNCHANGED <<stdin, approvals>>
                      ELSE ToChild("answer", a) /\ UNCHANGED approvals
       ELSE approvals' = approvals \cup {a} /\ UNCHANGED stdin
  /\ UNCHANGED <<alive, work, sent, inbound, draining, closed, pending, notifications, shut,
                 session, call, items, stored, asked, folding, outcomes, listed>>

\* runTurn, its request answered: the next outcome, whoever it belongs to.
TakeOutcome(t) ==
  /\ Codex /\ call[t].pc = "resolved" /\ outcomes # <<>>
  /\ outcomes' = Tail(outcomes)
  /\ LET o == Head(outcomes) IN
     IF o.kind = "aborted"
       THEN /\ call' = [call EXCEPT ![t].pc = "failed"]
            /\ Leave
       ELSE /\ call' = [call EXCEPT ![t] = [pc |-> "persist", got |-> o.of, rows |-> o.rows]]
            /\ UNCHANGED <<permit, generating>>
  /\ UNCHANGED <<child, wire, scope, life, items, stored, asked, folding, approvals, listed>>

-----------------------------------------------------------------------------
(* The registry of codex's approvals.                                      *)

Mirror ==
  /\ Codex /\ scope = "open" /\ listed # approvals
  /\ listed' = approvals
  /\ UNCHANGED <<baseVars, asked, folding, outcomes, approvals>>

\* A card of the list is answered, which may be a stale one; on a closed
\* transport the answer fails.  Bound: no second answer while the child has
\* one to read.
Unread(a) == \E i \in DOMAIN stdin : stdin[i] = [kind |-> "answer", of |-> a]
AnswerApproval(a) ==
  /\ Codex /\ scope = "open" /\ a \in listed /\ ~closed /\ ~Unread(a)
  /\ ToChild("answer", a)
  /\ approvals' = approvals \ {a}
  /\ UNCHANGED <<alive, work, sent, wire, session, call, items, stored, asked, folding,
                 outcomes, listed>>

\* Slip: the list is not published again.
StillListed == listed
\* Deregistration, when the scope closes.
Deregistered == {}
StopSession ==
  /\ Stop /\ listed' = Deregistered
  /\ UNCHANGED <<protocol, asked, folding, outcomes, approvals>>

\* The fibers of the codex driver end with its scope.
Close ==
  /\ CloseScope
  /\ folding' = (folding /\ protocol # "jsonrpc")
  /\ outcomes' = IF protocol = "jsonrpc" /\ folding THEN Append(outcomes, Aborted) ELSE outcomes
  /\ UNCHANGED <<protocol, asked, approvals, listed>>

\* thread/resume
ResumeThread ==
  /\ Codex /\ Resume(<<>>)
  /\ asked' = [a \in Asks |-> IF asked[a] = "open" THEN "settled" ELSE asked[a]]
  /\ folding' = TRUE /\ outcomes' = <<>> /\ approvals' = {} /\ listed' = {}

-----------------------------------------------------------------------------
(* The Cursor driver.                                                      *)

\* What runTurn accumulates before it asks: codex echoes the prompt itself.
Prompt(t) == IF protocol = "acp" THEN <<[kind |-> "prompt", of |-> t]>> ELSE <<>>

\* Slip: the trailing text is not flushed.
FoldedUnflushed(q) == [i \in 1..(Len(q) - 1) |-> [kind |-> "item", of |-> q[i].of]]
Folded(q) == [i \in DOMAIN q |-> [kind |-> "item", of |-> q[i].of]]

\* runTurn, its request answered: the updates buffered so far are taken and
\* folded at once.  Taking from a queue that was shut down fails the turn.
TakeUpdates(t) ==
  /\ Acp /\ call[t].pc = "resolved"
  /\ IF shut
       THEN /\ call' = [call EXCEPT ![t].pc = "failed"]
            /\ Leave
            /\ UNCHANGED <<items, notifications>>
       ELSE /\ items' = items \o Folded(notifications)
            /\ notifications' = <<>>
            /\ call' = [call EXCEPT ![t] = [pc |-> "persist", got |-> t, rows |-> items']]
            /\ UNCHANGED <<permit, generating>>
  /\ UNCHANGED <<child, inbound, draining, closed, pending, serverRequests, shut, scope,
                 life, stored, codexVars>>

\* session/load replays the transcript as updates, which are discarded.
IsItem(r) == r.kind = "item"
Replay == SelectSeq(stored, IsItem)
Discarded(q) == <<>>
ResumeSession == Acp /\ Resume(Discarded(Replay)) /\ UNCHANGED codexVars

-----------------------------------------------------------------------------

RunTurn(t) ==
  \/ TakeOutcome(t) \/ TakeUpdates(t)
  \/ /\ BeginTurn(t, Prompt(t)) \/ Request(t) \/ TurnFails(t) \/ Persist(t)
     /\ UNCHANGED <<protocol, codexVars>>

Fibers ==
  \/ Route /\ UNCHANGED <<protocol, codexVars>>
  \/ FoldItem \/ FoldCompleted \/ FoldResolved \/ FoldEnds

Others ==
  \/ ServeTurn \/ ServePrompt \/ ServeAnswer \/ Produce \/ FinishTurn \/ AnswerPrompt
  \/ \E a \in Asks : AskOrWithdraw(a) \/ AnswerApproval(a)
  \/ /\ ChildDies \/ Reload \/ \E t \in Turns : Submit(t)
     /\ UNCHANGED <<protocol, codexVars>>
  \/ StopSession \/ ResumeThread \/ ResumeSession

Next == (\E t \in Turns : RunTurn(t)) \/ Fibers \/ Collect \/ Mirror \/ Close \/ Others

Spec == Init /\ [][Next]_vars

\* Every fiber that can run does; the child process and the user owe nothing.
Fairness ==
  /\ \A t \in Turns : WF_vars(RunTurn(t))
  /\ WF_vars(Fibers) /\ WF_vars(Collect) /\ WF_vars(Mirror) /\ WF_vars(Close)
FairSpec == Spec /\ Fairness

-----------------------------------------------------------------------------

Row == [kind : {"prompt", "item"}, of : Turns]

BaseTypeOK ==
  /\ alive \in BOOLEAN /\ draining \in BOOLEAN /\ closed \in BOOLEAN /\ shut \in BOOLEAN
  /\ generating \in BOOLEAN
  /\ work \in Seq(Turns) /\ sent \in [Turns -> 0..MaxItems]
  /\ pending \subseteq Turns
  /\ scope \in {"open", "forgotten", "closed"}
  /\ life \in 1..MaxLives /\ permit \in Turns \cup {Null}
  /\ items \in Seq(Row) /\ stored \in Seq(Row)
  /\ call \in [Turns -> [pc : {"idle", "queued", "made", "awaiting", "resolved", "rejected",
                                "persist", "returned", "failed", "interrupted"},
                         got : Turns \cup {Null}, rows : Seq(Row)]]

\* The semaphore admits one turn at a time, whichever way the one before it
\* ended, and the session is marked "generating" exactly during a turn; only a
\* stop drops the mark early.
OneTurn ==
  /\ \A t \in Turns : InTurn(t) <=> permit = t
  /\ generating => permit # Null
  /\ (permit # Null /\ scope = "open") => generating

\* "The session's cumulative rows through this turn - ready for
\* replaceSession" (app-server-driver.ts): what the ingest store holds of a
\* session is only ever extended, by whichever driver.
IsPrefix(s, r) == Len(s) <= Len(r) /\ SubSeq(r, 1, Len(s)) = s
StoredOnlyGrows == [][IsPrefix(stored, stored')]_stored

\* The same of the driver the session was launched with: no turn of it, even
\* one that takes over after an interrupted one, drops an earlier row.
LaunchedOnlyGrows == life = 1 => IsPrefix(stored, stored')

\* "Send a user turn and resolve once it completes, with the session's
\* cumulative rows + status" (app-server-driver.ts): a turn is given the
\* outcome of its own prompt.
OwnOutcome == \A t \in Turns : call[t].got \in {Null, t}

\* So it is as long as every submission runs to its end.
OwnOutcomeUninterrupted == (\A t \in Turns : call[t].pc # "interrupted") => OwnOutcome

\* A turn that completed comes with every item the child sent in it, although
\* items and completion are queued twice on their way and nothing counts them.
ItemsOf(rows, t) == {i \in DOMAIN rows : rows[i] = [kind |-> "item", of |-> t]}
CompleteRows ==
  \A t \in Turns : call[t].got = t => Cardinality(ItemsOf(call[t].rows, t)) = sent[t]

\* "No caller hangs on a dead server" (transport.ts): once the child is gone,
\* by itself or stopped, every submission in flight ends.
NobodyHangs == \A t \in Turns : (InFlight(t) /\ ~alive) ~> ~InFlight(t)

TypeOK ==
  /\ BaseTypeOK
  /\ protocol \in {"jsonrpc", "acp"}
  /\ asked \in [Asks -> {"never", "open", "settled"}]
  /\ folding \in BOOLEAN
  /\ approvals \subseteq Asks \ Queries /\ listed \subseteq Asks \ Queries

\* One turn at a time is served, and as long as every submission runs to its end
\* each is given the outcome of its own prompt.
TurnsAreServed == OneTurn /\ OwnOutcomeUninterrupted

\* "Synthesize its message row from the prompt text (ordered before any of
\* this turn's updates)" (cursor-acp/driver.ts): every update comes after the
\* prompt it answers.  An update replayed by session/load would come after none.
PromptFirst ==
  \A i \in DOMAIN items : items[i].kind = "item" =>
    \E j \in 1..(i - 1) : items[j] = [kind |-> "prompt", of |-> items[i].of]

\* A turn that completed comes with every item of it, a Cursor update after the
\* prompt it answers, and no turn of the launched driver drops an earlier row.
RowsAreWhole ==
  [][/\ CompleteRows'
     /\ protocol = "acp" => PromptFirst'
     /\ LaunchedOnlyGrows]_vars

\* "A driver whose session ends drops out of the aggregate automatically - no
\* stale approvals" (CodexDriverRegistry.ts): once stopped, no card comes back.
StoppedHasNoCards == scope # "open" => listed = {}

\* The notice that a request was withdrawn is on its way to the fold fiber.
Noticed(a) ==
  \E q \in {inbound, notifications} : \E i \in DOMAIN q : q[i] = [kind |-> "withdrawn", of |-> a]

\* A card that is shown goes once its request was answered, or once the notice
\* that it was withdrawn is on its way, unless the transport closes first.
CardsAreCleared ==
  \A a \in Asks :
    (a \in listed /\ (a \in approvals => Noticed(a))) ~> (a \notin listed \/ closed)

\* "The current outstanding approvals" (app-server-driver.ts:64): the card of a
\* request that is no longer outstanding goes.  The code does not keep this: the
\* notice, folded before the request is taken, finds no card to withdraw.
CardsAreOutstanding == \A a \in Asks : asked[a] = "settled" ~> (a \notin listed \/ closed)

\* Once the child is gone every submission ends, and a card that is shown goes
\* when its request was answered or its withdrawal is still to be folded.
EverythingSettles == NobodyHangs /\ CardsAreCleared
=============================================================================
