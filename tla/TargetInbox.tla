----------------------------- MODULE TargetInbox -----------------------------
(***************************************************************************)
(* Delivery of messages into one running terminal session: the inbox of    *)
(* TargetInboxService, the activity it is gated on (LiveTargetStateService *)
(* over the hook streams of ArcMainController), the prompt writer of the   *)
(* session's terminal, and the agent at the other end of it.               *)
(*                                                                         *)
(* Each send is a fiber of its own; one fiber consumes the hook signals,   *)
(* one the bindings that every signal also emits, one the session list.    *)
(* The session has been bound to its native session before, so it can be   *)
(* resumed.  The agent is external.                                        *)
(***************************************************************************)
EXTENDS Integers, Sequences, FiniteSets
LOCAL INSTANCE TLC

CONSTANTS
  MaxMessages, \* bound: messages sent; a message is its id, ids sort as numbers
  Senders,
  Human,       \* who types in the composer
  MaxClock,    \* bound: milliseconds
  MaxCrashes,  \* bound: crashes of the application
  MaxLives,    \* bound: child processes of the session; the last one stays
  MaxTyped,    \* bound: prompts of the human, to the first child
  MaxHooks,    \* bound: hook signals on their way
  Lagging,     \* whether a turn may end before its transcript is projected
  Binding, Signal, \* the two stream consumers that flush
  Null

Messages == 1..MaxMessages
Flushers == Messages \cup {Binding, Signal}

ASSUME InboxAssumption ==
  /\ MaxMessages \in Nat /\ MaxClock \in Nat /\ MaxCrashes \in Nat
  /\ MaxLives \in Nat \ {0} /\ MaxTyped \in Nat /\ MaxHooks \in Nat \ {0}
  /\ Lagging \in BOOLEAN
  /\ Binding # Signal /\ Binding \notin Messages /\ Signal \notin Messages
  /\ Null \notin Flushers /\ Null \notin {"prompt", "stop", "backfill"} /\ Human \notin Senders

VARIABLES
  clock,      \* milliseconds, as stamped on rows
  msg,        \* [state, stamp, from, ahead] of each message
  lock,       \* who holds flushLock
  flush,      \* [pc, group] of each flusher
  openTurn,   \* the open-turn marker
  request,    \* the pending request of the session, as listPending has it
  attached,   \* the managers hold the child and its prompt writer
  exiting,    \* the child's exit is queued
  leaving,    \* a session list without the child is queued
  enters,     \* delayed submit keystrokes
  hooks,      \* signals on their way
  bindings,   \* bindings on their way
  handling,   \* the signal being handled
  agent,      \* "down", "starting", "ready", "busy"
  tty,        \* what was written and not read by the agent
  draft,      \* whose text is in the agent's prompt, not submitted
  asking,     \* what the agent waits for: "none", "permission", "question"
  transcript, \* an answer is on disk that no hook reported and no one projected
  writes,     \* what was pasted, and in which run of the application
  stale,      \* ghost: a resume overtook signals of the former child
  epoch, lives, typed

inbox == <<clock, msg, lock, flush>>
arc == <<openTurn, request, attached, exiting, leaving>>
stream == <<hooks, bindings, handling>>
child == <<agent, draft, asking, transcript>>
wire == <<enters, tty, writes>>
bounds == <<stale, epoch, lives, typed>>
vars == <<inbox, arc, stream, child, wire, bounds>>

-----------------------------------------------------------------------------

NoFlush == [pc |-> "none", group |-> {}]
NoMessage == [state |-> "none", stamp |-> 0, from |-> Null, ahead |-> {}]

Init ==
  /\ clock = 0 /\ msg = [m \in Messages |-> NoMessage]
  /\ lock = Null /\ flush = [f \in Flushers |-> NoFlush]
  /\ openTurn = FALSE /\ request = "none"
  /\ attached = TRUE /\ exiting = FALSE /\ leaving = FALSE
  /\ enters = 0 /\ tty = <<>> /\ writes = <<>>
  /\ hooks = <<>> /\ bindings = 0 /\ handling = Null
  /\ agent = "starting" /\ draft = {} /\ asking = "none" /\ transcript = FALSE
  /\ stale = FALSE /\ epoch = 0 /\ lives = 1 /\ typed = 0

Pending == {m \in Messages : msg[m].state = "pending"}
\* Slip: ORDER BY id
BeforeById(n, m) == n < m
\* ORDER BY created_at, id
Before(n, m) ==
  msg[n].stamp < msg[m].stamp \/ (msg[n].stamp = msg[m].stamp /\ n < m)

\* deriveActivity
Activity ==
  CASE ~attached                -> "detached"
    [] request = "permission"   -> "waiting_for_approval"
    [] request = "question"     -> "waiting_for_input"
    [] openTurn                 -> "generating"
    [] OTHER                    -> "idle"

-----------------------------------------------------------------------------
(* The inbox.                                                              *)

\* enqueue, up to the timestamp of its row, in the millisecond of the last one
\* or a later one; any id may come.  ahead is for the properties: what was
\* queued in an earlier millisecond.
Send(m, s) ==
  /\ msg[m].state = "none"
  /\ clock' \in clock..MaxClock
  /\ msg' = [msg EXCEPT ![m] = [state |-> "stamped", stamp |-> clock', from |-> s,
                                ahead |-> {n \in Pending : msg[n].stamp < clock'}]]
  /\ UNCHANGED <<lock, flush, arc, stream, child, wire, bounds>>

Insert(m) ==
  /\ msg[m].state = "stamped"
  /\ msg' = [msg EXCEPT ![m].state = "pending"]
  /\ flush' = [flush EXCEPT ![m].pc = "waiting"]
  /\ UNCHANGED <<clock, lock, arc, stream, child, wire, bounds>>

\* flushTo returns, releasing the lock.
Finish(f) ==
  /\ flush' = [flush EXCEPT ![f] = NoFlush]
  /\ lock' = Null

\* Slip: no lock.
LookUnlocked(f) ==
  /\ flush[f].pc = "waiting"
  /\ IF Activity = "idle"
       THEN flush' = [flush EXCEPT ![f].pc = "looked"] /\ lock' = f
       ELSE Finish(f)
  /\ UNCHANGED <<clock, msg, arc, stream, child, wire, bounds>>

\* flushTo takes the lock and derives the activity.
Look(f) ==
  /\ flush[f].pc = "waiting" /\ lock = Null
  /\ IF Activity = "idle"
       THEN flush' = [flush EXCEPT ![f].pc = "looked"] /\ lock' = f
       ELSE Finish(f)
  /\ UNCHANGED <<clock, msg, arc, stream, child, wire, bounds>>

\* The contiguous prefix of the oldest sender.
Group(P) == {m \in P : \A n \in P : ~Before(m, n) => msg[n].from = msg[m].from}

ReadPending(f) ==
  /\ flush[f].pc = "looked"
  /\ IF Pending = {}
       THEN Finish(f)
       ELSE /\ flush' = [flush EXCEPT ![f] = [pc |-> "grouped", group |-> Group(Pending)]]
            /\ UNCHANGED lock
  /\ UNCHANGED <<clock, msg, arc, stream, child, wire, bounds>>

\* The text reaches the child, if it still lives, and its submit keystroke is
\* scheduled.
WriteText(from) ==
  IF agent = "down"
    THEN UNCHANGED <<tty, enters>>
    ELSE /\ tty' = Append(tty, [kind |-> "text", from |-> from])
         /\ enters' = enters + 1

\* submit: accepted whenever there is a prompt writer, that is until the exit
\* of the child is handled.
Submit(f) ==
  /\ flush[f].pc = "grouped"
  /\ IF attached
       THEN /\ flush' = [flush EXCEPT ![f].pc = "written"]
            /\ writes' = Append(writes, [group |-> flush[f].group, epoch |-> epoch])
            /\ \E m \in flush[f].group : WriteText(msg[m].from)
            /\ UNCHANGED lock
       ELSE Finish(f) /\ UNCHANGED wire
  /\ UNCHANGED <<clock, msg, arc, stream, child, bounds>>

Ack(f) ==
  /\ flush[f].pc = "written"
  /\ msg' = [m \in Messages |-> IF m \in flush[f].group
                                  THEN [msg[m] EXCEPT !.state = "delivered"] ELSE msg[m]]
  /\ Finish(f)
  /\ UNCHANGED <<clock, arc, stream, child, wire, bounds>>

\* writePromptWithDelayedSubmit's timer.
PressEnter ==
  /\ enters > 0
  /\ enters' = enters - 1
  /\ tty' = Append(tty, [kind |-> "enter", from |-> Null])
  /\ UNCHANGED <<writes, inbox, arc, stream, child, bounds>>

\* sendPrompt: the human's prompt goes through the same writer, ungated.
SendPrompt ==
  /\ typed < MaxTyped /\ lives = 1 /\ attached
  /\ typed' = typed + 1
  /\ WriteText(Human)
  /\ UNCHANGED <<writes, inbox, arc, stream, child, stale, epoch, lives>>

-----------------------------------------------------------------------------
(* The hook streams.                                                       *)

\* ingestHookSignal, the first step of the handler.  An answer, or the end of
\* the turn, clears a permission.  A "question" is one that only the transcript
\* answers, as codex's are; one whose answer a hook reports goes the way of a
\* permission.
Ingest ==
  /\ handling = Null /\ hooks # <<>>
  /\ LET kind == Head(hooks) IN
     /\ handling' = IF kind \in {"prompt", "stop"} THEN kind ELSE Null
     /\ request' = CASE kind \in {"permission", "question"} -> kind
                     [] kind = "answered" /\ request = "permission" -> "none"
                     [] kind = "stop" /\ request = "permission" -> "none"
                     [] OTHER -> request
  /\ hooks' = Tail(hooks)
  /\ UNCHANGED <<bindings, inbox, openTurn, attached, exiting, leaving, child, wire, bounds>>

\* Slip: the inbox is flushed before the turn is marked closed.
FlushThenNote ==
  \/ /\ handling \in {"prompt", "backfill"} /\ flush[Signal].pc = "none"
     /\ openTurn' = (handling = "prompt")
     /\ handling' = Null /\ UNCHANGED <<flush, msg>>
  \/ /\ handling = "stop"
     /\ handling' = "backfill"
     /\ flush' = [flush EXCEPT ![Signal].pc = "waiting"]
     /\ UNCHANGED <<openTurn, msg>>
  /\ UNCHANGED <<clock, lock, request, attached, exiting, leaving, hooks, bindings, child,
                 wire, bounds>>

\* noteTurn; a closing turn flushes.
NoteTurn ==
  /\ handling \in {"prompt", "stop"}
  /\ openTurn' = (handling = "prompt")
  /\ IF handling = "stop"
       THEN /\ handling' = "backfill"
            /\ flush' = [flush EXCEPT ![Signal].pc = "waiting"]
       ELSE handling' = Null /\ UNCHANGED flush
  /\ UNCHANGED <<clock, msg, lock, request, attached, exiting, leaving, hooks, bindings,
                 child, wire, bounds>>

\* The transcript is projected: an answer in it resolves the question, which
\* arc has seen asked by then.
Project ==
  /\ request' = IF transcript /\ request = "question" THEN "none" ELSE request
  /\ transcript' = (transcript /\ request # "question")

\* The rest of a stop: ingestWorkspace.
Backfill ==
  /\ handling = "backfill" /\ flush[Signal].pc = "none"
  /\ Project /\ handling' = Null
  /\ UNCHANGED <<hooks, bindings, inbox, openTurn, attached, exiting, leaving, agent, draft,
                 asking, wire, bounds>>

\* The transcript watcher.
Watch ==
  /\ transcript /\ request = "question"
  /\ Project
  /\ UNCHANGED <<stream, inbox, openTurn, attached, exiting, leaving, agent, draft,
                 asking, wire, bounds>>

\* bindNative, then flushTo: on every signal that names a native session.
Bind ==
  /\ bindings > 0 /\ flush[Binding].pc = "none"
  /\ bindings' = bindings - 1
  /\ flush' = [flush EXCEPT ![Binding].pc = "waiting"]
  /\ UNCHANGED <<hooks, handling, clock, msg, lock, arc, child, wire, bounds>>

-----------------------------------------------------------------------------
(* The session's life.                                                     *)

\* handlePtyExit
HandleExit ==
  /\ exiting
  /\ exiting' = FALSE /\ attached' = FALSE /\ leaving' = TRUE
  /\ UNCHANGED <<inbox, openTurn, request, stream, child, wire, bounds>>

\* The consumer of the session list: supersedePendingForTarget, clearTurn.
Leave ==
  /\ leaving
  /\ leaving' = FALSE /\ request' = "none" /\ openTurn' = FALSE
  /\ UNCHANGED <<inbox, attached, exiting, stream, child, wire, bounds>>

\* resume: a user's act, later than what the exit set off.
Resume ==
  /\ ~attached /\ ~leaving /\ lives < MaxLives
  /\ attached' = TRUE /\ lives' = lives + 1
  /\ agent' = "starting"
  /\ stale' = (stale \/ hooks # <<>> \/ handling # Null)
  /\ UNCHANGED <<inbox, openTurn, request, exiting, leaving, stream, draft, asking,
                 transcript, wire, epoch, typed>>

\* The child goes, with what it has not read and the timers that write to it.
ChildGone ==
  /\ agent' = "down" /\ draft' = {} /\ asking' = "none" /\ transcript' = FALSE
  /\ tty' = <<>> /\ enters' = 0 /\ UNCHANGED writes

ChildDies ==
  /\ agent # "down" /\ lives < MaxLives
  /\ ChildGone /\ exiting' = TRUE
  /\ UNCHANGED <<inbox, openTurn, request, attached, leaving, stream, bounds>>

\* The application crashes, and boots with every session detached.  (Bound: it
\* does so with a message on its way.)
Crash ==
  /\ epoch < MaxCrashes /\ lives < MaxLives
  /\ \E m \in Messages : msg[m].state \in {"stamped", "pending"}
  /\ epoch' = epoch + 1
  /\ msg' = [m \in Messages |-> IF msg[m].state = "stamped" THEN NoMessage ELSE msg[m]]
  /\ lock' = Null /\ flush' = [f \in Flushers |-> NoFlush]
  /\ openTurn' = FALSE /\ request' = "none"
  /\ attached' = FALSE /\ exiting' = FALSE /\ leaving' = FALSE
  /\ hooks' = <<>> /\ bindings' = 0 /\ handling' = Null
  /\ ChildGone
  /\ UNCHANGED <<clock, stale, lives, typed>>

-----------------------------------------------------------------------------
(* The agent, external: it reads its terminal between turns and reports    *)
(* what it does through hooks.                                             *)

Hook(kind) ==
  /\ Len(hooks) < MaxHooks /\ bindings < MaxHooks
  /\ hooks' = Append(hooks, kind) /\ bindings' = bindings + 1
  /\ UNCHANGED handling

AgentStarts ==
  /\ agent = "starting"
  /\ agent' = "ready" /\ Hook("start")
  /\ UNCHANGED <<inbox, arc, draft, asking, transcript, wire, bounds>>

AgentReads ==
  /\ agent = "ready" /\ tty # <<>>
  /\ tty' = Tail(tty)
  /\ IF Head(tty).kind = "text"
       THEN draft' = draft \cup {Head(tty).from} /\ UNCHANGED <<agent, stream>>
       ELSE IF draft = {}
         THEN UNCHANGED <<agent, draft, stream>>
         ELSE agent' = "busy" /\ draft' = {} /\ Hook("prompt")
  /\ UNCHANGED <<enters, writes, inbox, arc, asking, transcript, bounds>>

AgentAsks ==
  /\ agent = "busy" /\ asking = "none"
  /\ asking' \in {"permission", "question"} /\ Hook(asking')
  /\ UNCHANGED <<inbox, arc, agent, draft, transcript, wire, bounds>>

AgentIsAnswered ==
  /\ asking # "none" /\ asking' = "none"
  /\ \/ asking = "permission" /\ Hook("answered") /\ UNCHANGED transcript
     \/ asking = "question" /\ transcript' = TRUE /\ UNCHANGED stream
  /\ UNCHANGED <<inbox, arc, agent, draft, wire, bounds>>

AgentStops ==
  /\ agent = "busy" /\ asking = "none" /\ (transcript => Lagging)
  /\ agent' = "ready" /\ Hook("stop")
  /\ UNCHANGED <<inbox, arc, draft, asking, transcript, wire, bounds>>

-----------------------------------------------------------------------------

FlushTo(f) == Look(f) \/ ReadPending(f) \/ Submit(f) \/ Ack(f)
Sending == \E m \in Messages : Insert(m) \/ \E s \in Senders : Send(m, s)
Streams == Ingest \/ NoteTurn \/ Backfill \/ Watch \/ Bind
Life == HandleExit \/ Leave \/ Resume \/ ChildDies \/ Crash
Agent == AgentStarts \/ AgentReads \/ AgentAsks \/ AgentIsAnswered \/ AgentStops

Next ==
  \/ Sending \/ PressEnter \/ SendPrompt
  \/ \E f \in Flushers : FlushTo(f)
  \/ Streams \/ Life \/ Agent

Spec == Init /\ [][Next]_vars

-----------------------------------------------------------------------------

TypeOK ==
  /\ clock \in 0..MaxClock
  /\ msg \in [Messages -> [state : {"none", "stamped", "pending", "delivered"},
                           stamp : 0..MaxClock, from : Senders \cup {Null},
                           ahead : SUBSET Messages]]
  /\ lock \in Flushers \cup {Null}
  /\ flush \in [Flushers -> [pc : {"none", "waiting", "looked", "grouped", "written"},
                             group : SUBSET Messages]]
  /\ openTurn \in BOOLEAN /\ request \in {"none", "permission", "question"}
  /\ attached \in BOOLEAN /\ exiting \in BOOLEAN /\ leaving \in BOOLEAN
  /\ enters \in Nat
  /\ tty \in Seq([kind : {"text"}, from : Senders \cup {Human}]
                 \cup [kind : {"enter"}, from : {Null}])
  /\ hooks \in Seq({"start", "prompt", "permission", "question", "answered", "stop"})
  /\ bindings \in 0..MaxHooks /\ handling \in {Null, "prompt", "stop", "backfill"}
  /\ agent \in {"down", "starting", "ready", "busy"}
  /\ draft \subseteq Senders \cup {Human}
  /\ asking \in {"none", "permission", "question"} /\ transcript \in BOOLEAN
  /\ writes \in Seq([group : SUBSET Messages, epoch : 0..MaxCrashes])
  /\ stale \in BOOLEAN
  /\ epoch \in 0..MaxCrashes /\ lives \in 1..MaxLives /\ typed \in 0..MaxTyped

\* "Serialize flushes so the read-pending -> submit -> ack window can't
\* overlap": a message is pasted at most once in each run of the application,
\* however its sender and the two streams flush; only a crash between the
\* paste and the ack repeats it.
PastedOnce ==
  \A i, j \in DOMAIN writes : \A m \in writes[i].group \cap writes[j].group :
    writes[i].epoch = writes[j].epoch => i = j

\* "A row's delivered_at is stamped only once the paste was accepted by a live
\* PTY": an acknowledged message was pasted.
AckedWasPasted ==
  \A m \in Messages : msg[m].state = "delivered" => \E i \in DOMAIN writes : m \in writes[i].group

\* "FIFO holds across senders": a message is not pasted before one that was
\* queued in an earlier millisecond than its own, whoever sent either.
Fifo ==
  \A i \in DOMAIN writes : \A m \in writes[i].group : \A n \in msg[m].ahead :
    \E j \in 1..i : n \in writes[j].group

\* Nothing is under way in the application or the terminal.
Quiet ==
  /\ hooks = <<>> /\ bindings = 0 /\ handling = Null
  /\ \A f \in Flushers : flush[f].pc = "none"
  /\ ~exiting /\ ~leaving /\ enters = 0 /\ tty = <<>> /\ agent = "ready"

\* "When it's mid-turn we leave the rows pending and flush on the next turn
\* boundary": no wakeup is missed.  When everything has settled and the
\* session is idle, nothing waits in its inbox.  (Lagging breaks it: a flush
\* that finds an answered question still open has no successor.  So does a
\* resume that overtakes the signals of the former child: the request they
\* open is closed again by one of them, not by the end of a turn.)
NothingForgotten == Quiet /\ Activity = "idle" /\ ~stale => Pending = {}

\* What was acknowledged was pasted, and what was not is still to be.
NoMessageIsLost == AckedWasPasted /\ NothingForgotten

\* "Never merge distinct senders into a single pasted turn": what the agent
\* takes as one turn has one sender.
OneSenderPerTurn ==
  [][agent = "ready" /\ agent' = "busy" => \A s, t \in draft \ {Human} : s = t]_vars

\* Senders are interchangeable.
SenderSymmetry == Permutations(Senders)
=============================================================================
