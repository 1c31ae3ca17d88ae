---------------------------- MODULE ChatMessages -----------------------------
(***************************************************************************)
(* The chat_messages rows of one terminal session: the user's bubbles and  *)
(* the cards of the agent's questions.  Three kinds of writer meet there:  *)
(* the fiber of the hook signals, projections of the transcript (one by    *)
(* its watcher, one at the end of a turn, inside the signal fiber) and the *)
(* manual reprojection; sendPrompt and the end of the session write too.   *)
(*                                                                         *)
(* A statement is atomic, and so is a transaction; between two statements  *)
(* of a fiber any other runs.  The agent is external.                      *)
(***************************************************************************)
EXTENDS Integers, Sequences, FiniteSets

CONSTANTS
  MaxPrompts,   \* bound: prompts, in the order the user writes them
  Bodies,       \* their texts
  Questions,
  Resolved,     \* bound: the states a question ends in, alike to the code
  MaxEvents,    \* bound: ends of turns, exits, crashes, reloads and reprojections
  Watcher, Backfill,
  Null

Prompts == 1..MaxPrompts
Projectors == {Watcher, Backfill}

ASSUME ChatAssumption ==
  /\ MaxPrompts \in Nat /\ MaxEvents \in Nat
  /\ "answered" \in Resolved /\ {"none", "pending", "stop"} \cap Resolved = {}
  /\ Null \notin Bodies /\ Watcher # Backfill

VARIABLES
  body, sending, \* text and progress of each prompt
  echo,       \* composer rows
  bubble,     \* rows of the transcript's prompts
  card,       \* state of each question's row; its status follows the state
  hooks,      \* signals on their way
  raw,        \* raw_hook_signals
  signal,     \* [pc, of, prev]: the fiber of the signals
  projector,  \* [pc, snap]: a projection of the transcript
  stored,     \* the snapshot in the ingest store
  repair,     \* [pc, todo, prev, snap]: reprojectChat
  missed,     \* ghost: the questions of which an upsert met another row than it read
  torn,       \* ghost: the questions a repair that was cut short left as they were
  disk,       \* the transcript
  dirty,      \* it has changed since the watcher read it
  attached, leaving,
  tty,        \* prompts in the terminal
  asking,     \* progress of each question in the agent
  events      \* counts what MaxEvents bounds

replaying == <<repair, missed, torn>>
rows == <<echo, bubble, card>>
fibers == <<hooks, raw, signal, projector, stored, replaying>>
session == <<attached, leaving>>
agent == <<disk, dirty, tty, asking>>
vars == <<body, sending, rows, fibers, session, agent, events>>

-----------------------------------------------------------------------------

Nothing == [prompts |-> {}, asked |-> {}, done |-> {}]
IdleSignal == [pc |-> "idle", of |-> Null, prev |-> Null]
IdleProjector == [pc |-> "idle", snap |-> Nothing]
IdleRepair == [pc |-> "idle", todo |-> <<>>, prev |-> Null, snap |-> Nothing]

Init ==
  /\ body = [p \in Prompts |-> Null] /\ sending = [p \in Prompts |-> "no"]
  /\ echo = {} /\ bubble = {} /\ card = [q \in Questions |-> "none"]
  /\ hooks = <<>> /\ raw = <<>> /\ signal = IdleSignal
  /\ projector = [w \in Projectors |-> IdleProjector]
  /\ stored = Nothing /\ repair = IdleRepair /\ missed = {} /\ torn = {}
  /\ disk = Nothing /\ dirty = FALSE
  /\ attached = TRUE /\ leaving = FALSE
  /\ tty = <<>> /\ asking = [q \in Questions |-> "no"]
  /\ events = 0

-----------------------------------------------------------------------------
(* The store.                                                              *)

\* Slip: the newer state always wins.
NewerWins(prev, next) == next

\* mergedRequestState
Merge(prev, next) == IF prev \in Resolved /\ next = "pending" THEN prev ELSE next

\* The write of upsertChatMessage, after the read that saw prev: an insert
\* fails if the row has come since, an update finds nothing if it has gone.
Upsert(q, prev, next) ==
  card' = [card EXCEPT ![q] =
    IF prev = "none" THEN IF @ = "none" THEN next ELSE @
    ELSE IF @ = "none" THEN @ ELSE Merge(prev, next)]

OfBody(P, b) == {p \in P : body[p] = b}

\* Slip: no composer row is claimed.
Unclaimed(T, E) == E

\* reconcileComposerOptimisticUser over a transcript's prompts T of one body
\* and the composer rows E with it: each prompt without a row takes the newest
\* of E, and one that has a row deletes them all.  (The prompts that have a row
\* come first in the transcript.)
Reconcile(T, E) ==
  IF T \cap bubble # {} THEN {}
  ELSE {e \in E : Cardinality({x \in E : x > e}) >= Cardinality(T)}

\* projectArtifactSession, one transaction.
Project(snap) ==
  /\ echo' = UNION {Reconcile(OfBody(snap.prompts, b), OfBody(echo, b)) : b \in Bodies}
  /\ bubble' = bubble \cup snap.prompts
  /\ card' = [q \in Questions |->
       IF q \in snap.asked
         THEN Merge(card[q], IF q \in snap.done THEN "answered" ELSE "pending")
         ELSE card[q]]

-----------------------------------------------------------------------------
(* sendPrompt                                                              *)

IsNext(p) == sending[p] = "no" /\ \A n \in 1..(p - 1) : sending[n] # "no"

\* The checks, and the composer row.
Echo(p, b) ==
  /\ IsNext(p) /\ attached
  /\ body' = [body EXCEPT ![p] = b] /\ sending' = [sending EXCEPT ![p] = "echoed"]
  /\ echo' = echo \cup {p}
  /\ UNCHANGED <<bubble, card, fibers, session, agent, events>>

Submit(p) ==
  /\ sending[p] = "echoed"
  /\ IF attached
       THEN sending' = [sending EXCEPT ![p] = "accepted"] /\ tty' = Append(tty, p)
       ELSE sending' = [sending EXCEPT ![p] = "refused"] /\ UNCHANGED tty
  /\ UNCHANGED <<body, rows, fibers, session, disk, dirty, asking, events>>

\* Slip: a refused prompt keeps its row.
NoRollback(p) ==
  /\ sending[p] = "refused"
  /\ sending' = [sending EXCEPT ![p] = "rolledback"]
  /\ UNCHANGED <<body, rows, fibers, session, agent, events>>

Rollback(p) ==
  /\ sending[p] = "refused"
  /\ sending' = [sending EXCEPT ![p] = "rolledback"]
  /\ echo' = echo \ {p}
  /\ UNCHANGED <<body, bubble, card, fibers, session, agent, events>>

\* The user types into the terminal instead.
Type(p, b) ==
  /\ IsNext(p) /\ attached
  /\ body' = [body EXCEPT ![p] = b] /\ sending' = [sending EXCEPT ![p] = "accepted"]
  /\ tty' = Append(tty, p)
  /\ UNCHANGED <<rows, fibers, session, disk, dirty, asking, events>>

-----------------------------------------------------------------------------
(* The fiber of the signals.                                               *)

IsQuestion(s) == s.kind # "stop"

\* The raw row is written first.  (That of the end of a turn yields no draft
\* when it is replayed, and is left out.)
Receive ==
  /\ signal.pc = "idle" /\ hooks # <<>>
  /\ hooks' = Tail(hooks)
  /\ raw' = IF IsQuestion(Head(hooks)) THEN Append(raw, Head(hooks)) ELSE raw
  /\ signal' = [pc |-> "read", of |-> Head(hooks), prev |-> Null]
  /\ UNCHANGED <<body, sending, rows, projector, stored, replaying, session, agent, events>>

\* upsertChatMessage reads; the end of a turn has no draft and backfills.
Read ==
  /\ signal.pc = "read"
  /\ IF signal.of.kind = "stop"
       THEN /\ signal' = [signal EXCEPT !.pc = "backfill"]
            /\ projector' = [projector EXCEPT ![Backfill] = [pc |-> "collected", snap |-> disk]]
       ELSE /\ signal' = [signal EXCEPT !.pc = "write", !.prev = card[signal.of.q]]
            /\ UNCHANGED projector
  /\ UNCHANGED <<body, sending, rows, hooks, raw, stored, replaying, session, agent, events>>

Write ==
  /\ signal.pc = "write"
  /\ Upsert(signal.of.q, signal.prev, signal.of.kind)
  /\ missed' = IF signal.of.kind \in Resolved /\ card[signal.of.q] # signal.prev
                 THEN missed \cup {signal.of.q} ELSE missed
  /\ signal' = IdleSignal
  /\ UNCHANGED <<body, sending, echo, bubble, hooks, raw, projector, stored, repair, torn,
                 session, agent, events>>

Backfilled ==
  /\ signal.pc = "backfill" /\ projector[Backfill].pc = "idle"
  /\ signal' = IdleSignal
  /\ UNCHANGED <<body, sending, rows, hooks, raw, projector, stored, replaying, session, agent,
                 events>>

-----------------------------------------------------------------------------
(* Projections of the transcript.                                          *)

\* The watcher sees a change, settled, and parses the file.
Watch ==
  /\ attached /\ dirty /\ projector[Watcher].pc = "idle"
  /\ dirty' = FALSE
  /\ projector' = [projector EXCEPT ![Watcher] = [pc |-> "collected", snap |-> disk]]
  /\ UNCHANGED <<body, sending, rows, hooks, raw, signal, stored, replaying, session, disk, tty,
                 asking, events>>

\* replaceSession
Persist(w) ==
  /\ projector[w].pc = "collected"
  /\ stored' = projector[w].snap
  /\ projector' = [projector EXCEPT ![w].pc = "stored"]
  /\ UNCHANGED <<body, sending, rows, hooks, raw, signal, replaying, session, agent, events>>

\* The questions a snapshot tells the present state of.
Tells(snap) == {q \in snap.asked : q \in disk.done => q \in snap.done}

\* ingestArtifactSession
Ingest(w) ==
  /\ projector[w].pc = "stored"
  /\ Project(projector[w].snap)
  /\ torn' = torn \ Tells(projector[w].snap)
  /\ projector' = [projector EXCEPT ![w] = IdleProjector]
  /\ UNCHANGED <<body, sending, hooks, raw, signal, stored, repair, missed, session, agent, events>>

\* The session has left the list, and its watcher is interrupted.
StopWatcher ==
  /\ ~attached /\ projector[Watcher].pc # "idle"
  /\ projector' = [projector EXCEPT ![Watcher] = IdleProjector]
  /\ UNCHANGED <<body, sending, rows, hooks, raw, signal, stored, replaying, session, agent, events>>

-----------------------------------------------------------------------------
(* reprojectChat                                                           *)

DeleteRequests ==
  /\ repair.pc = "idle" /\ events < MaxEvents
  /\ card' = [q \in Questions |-> "none"]
  /\ repair' = [repair EXCEPT !.pc = "deleted"] /\ events' = events + 1
  /\ UNCHANGED <<body, sending, echo, bubble, hooks, raw, signal, projector, stored, session,
                 agent, missed, torn>>

\* loadRawHookSignalsForTarget
LoadRaw ==
  /\ repair.pc = "deleted"
  /\ repair' = [repair EXCEPT !.pc = "replay", !.todo = raw]
  /\ UNCHANGED <<body, sending, rows, hooks, raw, signal, projector, stored, session, agent,
                 events, missed, torn>>

ReplayRead ==
  /\ repair.pc = "replay" /\ repair.todo # <<>>
  /\ repair' = [repair EXCEPT !.pc = "write", !.prev = card[Head(repair.todo).q]]
  /\ UNCHANGED <<body, sending, rows, hooks, raw, signal, projector, stored, session, agent,
                 events, missed, torn>>

ReplayWrite ==
  /\ repair.pc = "write"
  /\ Upsert(Head(repair.todo).q, repair.prev, Head(repair.todo).kind)
  /\ missed' = IF card[Head(repair.todo).q] # repair.prev
                 THEN missed \cup {Head(repair.todo).q} ELSE missed
  /\ repair' = [repair EXCEPT !.pc = "replay", !.todo = Tail(@), !.prev = Null]
  /\ UNCHANGED <<body, sending, echo, bubble, hooks, raw, signal, projector, stored, session,
                 agent, events, torn>>

LoadStored ==
  /\ repair.pc = "replay" /\ repair.todo = <<>>
  /\ repair' = [repair EXCEPT !.pc = "project", !.snap = stored]
  /\ UNCHANGED <<body, sending, rows, hooks, raw, signal, projector, stored, session, agent,
                 events, missed, torn>>

ReplayProject ==
  /\ repair.pc = "project"
  /\ Project(repair.snap)
  /\ repair' = IdleRepair
  /\ UNCHANGED <<body, sending, hooks, raw, signal, projector, stored, session, agent, events,
                 missed, torn>>

\* Any step of it fails, and the failure is swallowed: what the repair has
\* deleted and not written again stays away.
CutShort == torn' = IF repair.pc = "idle" THEN torn ELSE Questions
RepairFails ==
  /\ repair.pc # "idle" /\ CutShort
  /\ repair' = IdleRepair
  /\ UNCHANGED <<body, sending, rows, hooks, raw, signal, projector, stored, session, agent,
                 events, missed>>

\* The composer row of a prompt whose sendPrompt is interrupted stays.
Stranded ==
  [p \in Prompts |-> IF sending[p] \in {"echoed", "refused"} THEN "lost" ELSE sending[p]]

\* The page reloads: the calls it made, sendPrompt and reprojectChat among
\* them, are interrupted wherever they wait.
Reload ==
  /\ events < MaxEvents /\ events' = events + 1
  /\ sending' = Stranded
  /\ repair' = IdleRepair /\ CutShort
  /\ UNCHANGED <<body, rows, hooks, raw, signal, projector, stored, session, agent, missed>>

-----------------------------------------------------------------------------
(* The life of the session.                                                *)

\* The child is gone, and what it was asking with it.
ChildGone ==
  /\ attached' = FALSE /\ leaving' = TRUE /\ tty' = <<>>
  /\ asking' = [q \in Questions |-> IF asking[q] = "no" THEN "no" ELSE "dropped"]
  /\ UNCHANGED <<disk, dirty>>

Exit ==
  /\ attached /\ events < MaxEvents
  /\ ChildGone /\ events' = events + 1
  /\ UNCHANGED <<body, sending, rows, fibers>>

\* supersedePendingForTarget
Supersede ==
  /\ leaving /\ leaving' = FALSE
  /\ card' = [q \in Questions |-> IF card[q] = "pending" THEN "superseded" ELSE card[q]]
  /\ UNCHANGED <<body, sending, echo, bubble, fibers, attached, agent, events>>

\* A user's act, later than what the exit set off and than the answer to a
\* refused prompt.  The watcher reads the transcript when it starts.
Resume ==
  /\ ~attached /\ ~leaving /\ projector[Watcher].pc = "idle"
  /\ \A p \in Prompts : sending[p] # "refused"
  /\ attached' = TRUE /\ dirty' = TRUE
  /\ UNCHANGED <<body, sending, rows, fibers, leaving, disk, tty, asking, events>>

Crash ==
  /\ events < MaxEvents /\ events' = events + 1
  /\ sending' = Stranded
  /\ hooks' = <<>> /\ signal' = IdleSignal /\ repair' = IdleRepair
  /\ projector' = [w \in Projectors |-> IdleProjector]
  /\ ChildGone
  /\ UNCHANGED <<body, rows, raw, stored, missed, torn>>

-----------------------------------------------------------------------------
(* The agent, external.  It asks, and ends turns, once a prompt has reached *)
(* it.                                                                     *)

Hook(s) == hooks' = Append(hooks, s) /\ UNCHANGED <<raw, signal, projector, stored, replaying>>

Ask(q) ==
  /\ attached /\ disk.prompts # {} /\ asking[q] = "no" /\ asking' = [asking EXCEPT ![q] = "asking"]
  /\ Hook([kind |-> "pending", q |-> q])
  /\ UNCHANGED <<body, sending, rows, session, disk, dirty, tty, events>>

Answer(q) ==
  /\ attached /\ asking[q] = "asking" /\ asking' = [asking EXCEPT ![q] = "answered"]
  /\ \E kind \in Resolved : Hook([kind |-> kind, q |-> q])
  /\ UNCHANGED <<body, sending, rows, session, disk, dirty, tty, events>>

Stop ==
  /\ attached /\ disk.prompts # {} /\ events < MaxEvents /\ \A q \in Questions : asking[q] # "asking"
  /\ events' = events + 1
  /\ Hook([kind |-> "stop", q |-> Null])
  /\ UNCHANGED <<body, sending, rows, session, agent>>

WriteDisk(d) ==
  /\ disk' = d /\ dirty' = TRUE
  /\ UNCHANGED <<body, sending, rows, fibers, session, asking, events>>

TakePrompt ==
  /\ attached /\ tty # <<>> /\ tty' = Tail(tty)
  /\ WriteDisk([disk EXCEPT !.prompts = @ \cup {Head(tty)}])

\* The lines of a call and of its result follow the hooks, in any time.
WriteCall(q) ==
  /\ attached /\ asking[q] \in {"asking", "answered"} /\ q \notin disk.asked
  /\ WriteDisk([disk EXCEPT !.asked = @ \cup {q}]) /\ UNCHANGED tty

WriteResult(q) ==
  /\ attached /\ asking[q] = "answered" /\ q \in disk.asked /\ q \notin disk.done
  /\ WriteDisk([disk EXCEPT !.done = @ \cup {q}]) /\ UNCHANGED tty

-----------------------------------------------------------------------------

Sending == \E p \in Prompts :
  Submit(p) \/ Rollback(p) \/ \E b \in Bodies : Echo(p, b) \/ Type(p, b)
Signals == Receive \/ Read \/ Write \/ Backfilled
Projecting == Watch \/ StopWatcher \/ \E w \in Projectors : Persist(w) \/ Ingest(w)
Repair ==
  DeleteRequests \/ LoadRaw \/ ReplayRead \/ ReplayWrite \/ LoadStored \/ ReplayProject
  \/ RepairFails
Life == Reload \/ Exit \/ Supersede \/ Resume \/ Crash
Agent ==
  \/ Stop \/ TakePrompt
  \/ \E q \in Questions : Ask(q) \/ Answer(q) \/ WriteCall(q) \/ WriteResult(q)

Next == Sending \/ Signals \/ Projecting \/ Repair \/ Life \/ Agent

Spec == Init /\ [][Next]_vars

-----------------------------------------------------------------------------

Signal == [kind : {"pending"} \cup Resolved, q : Questions] \cup [kind : {"stop"}, q : {Null}]
Snapshot == [prompts : SUBSET Prompts, asked : SUBSET Questions, done : SUBSET Questions]
CardState == {"none", "pending", "superseded"} \cup Resolved

TypeOK ==
  /\ body \in [Prompts -> Bodies \cup {Null}]
  /\ sending \in [Prompts ->
                   {"no", "echoed", "accepted", "refused", "rolledback", "lost"}]
  /\ echo \subseteq Prompts /\ bubble \subseteq Prompts
  /\ card \in [Questions -> CardState]
  /\ hooks \in Seq(Signal) /\ raw \in Seq(Signal)
  /\ signal \in [pc : {"idle", "read", "write", "backfill"}, of : Signal \cup {Null},
                 prev : CardState \cup {Null}]
  /\ projector \in [Projectors -> [pc : {"idle", "collected", "stored"}, snap : Snapshot]]
  /\ stored \in Snapshot /\ disk \in Snapshot
  /\ missed \subseteq Questions /\ torn \subseteq Questions
  /\ repair \in [pc : {"idle", "deleted", "replay", "write", "project"}, todo : Seq(Signal),
                 prev : CardState \cup {Null}, snap : Snapshot]
  /\ dirty \in BOOLEAN /\ attached \in BOOLEAN /\ leaving \in BOOLEAN
  /\ tty \in Seq(Prompts) /\ asking \in [Questions -> {"no", "asking", "answered", "dropped"}]
  /\ events \in 0..MaxEvents

\* "... so there is no transient duplicate": at no time does the chat show more user
\* bubbles with one text than the user wrote prompts with it.  (A refused one
\* counts: its row may have been claimed for an earlier twin, whose own stays.)
NoDuplicateBubble ==
  \A b \in Bodies :
    Cardinality(OfBody(bubble, b)) + Cardinality(OfBody(echo, b))
      <= Cardinality(OfBody(Prompts, b))

\* Nothing is on its way, and the watcher has read all there is.
Settled ==
  /\ attached /\ ~leaving /\ ~dirty /\ tty = <<>> /\ hooks = <<>>
  /\ signal.pc = "idle" /\ repair.pc = "idle"
  /\ \A w \in Projectors : projector[w].pc = "idle"
  /\ \A p \in Prompts : sending[p] \notin {"echoed", "refused"}
  /\ \A q \in Questions : /\ asking[q] \in {"asking", "answered"} => q \in disk.asked
                          /\ asking[q] = "answered" => q \in disk.done

\* However the composer rows, their rollbacks and projections of old and new
\* transcripts met, a chat at rest shows each prompt of the transcript once,
\* and otherwise only prompts that never reached the agent.
SettledUsers ==
  Settled =>
    /\ bubble = disk.prompts
    /\ \A b \in Bodies :
         Cardinality(OfBody(echo, b))
           <= Cardinality({p \in OfBody(Prompts, b) \ disk.prompts : sending[p] \in {"accepted", "lost"}})

\* "A real resolution wins over a later pending", and a repair that runs to its
\* end loses nothing: whatever the order of the hooks, the projections, the repair
\* and the end of the last child, at rest an answered question reads as answered,
\* unless a replay or the upsert of its answer met another row than it had read,
\* and one the agent waits on reads as pending.  A repair that is cut short may
\* lose a card, until a projection writes it again.
SettledCards ==
  Settled => \A q \in Questions \ torn :
    /\ q \in disk.done \ missed => card[q] \in Resolved
    /\ asking[q] = "asking" => card[q] = "pending"

\* "A reprojection failure leaves the prior projection intact"
\* (ChatMessageService.ts:396): at rest each question of the transcript has a card.
\* The code does not keep this: the delete of the cards is committed by itself.
RepairsKeepCards == Settled => \A q \in disk.asked : card[q] # "none"
=============================================================================
