------------------------- MODULE ChatMessagesProofs --------------------------
(***************************************************************************)
(* ChatMessages for every number of prompts, texts, questions and events:  *)
(* no bubble twice, and what a chat at rest shows.                         *)
(***************************************************************************)
EXTENDS ChatMessages, FiniteSetTheorems, SequenceTheorems, TLAPS

Carded == [kind : {"pending"} \cup Resolved, q : Questions]
Pending(q) == [kind |-> "pending", q |-> q]
Answers(q) == [kind : Resolved, q : {q}]
Holds(s, S) == \E i \in DOMAIN s : s[i] \in S

\* TypeOK, with what a fiber holds between its read and its write.
Typed ==
  /\ TypeOK
  /\ raw \in Seq(Carded) /\ repair.todo \in Seq(Carded)
  /\ signal.pc # "idle" => signal.of \in Signal
  /\ signal.pc = "write" => signal.of \in Carded /\ signal.prev \in CardState
  /\ repair.pc = "write" => repair.todo # <<>> /\ repair.prev \in CardState

-----------------------------------------------------------------------------
(* The user's bubbles.                                                     *)

\* How far a prompt whose row, place in the terminal or line is there has come.
SentInv ==
  /\ \A p \in Prompts : sending[p] = "no" => body[p] = Null
  /\ \A p \in echo : sending[p] \in {"echoed", "accepted", "refused", "lost"}
  /\ attached => \A p \in Prompts : sending[p] # "refused"
  /\ \A i \in DOMAIN tty : sending[tty[i]] = "accepted"
  /\ \A p \in disk.prompts : sending[p] = "accepted"

\* A snapshot the transcript has grown from.
Within(s) ==
  /\ s.prompts \subseteq disk.prompts /\ s.asked \subseteq disk.asked
  /\ s.done \subseteq disk.done /\ s.done \subseteq s.asked

SnapInv ==
  /\ Within(disk) /\ Within(stored) /\ Within(repair.snap)
  /\ \A w \in Projectors : Within(projector[w].snap)
  /\ bubble \subseteq disk.prompts

\* A watcher that owes no reading has shown the transcript, or is about to.
UpToDate == attached /\ ~dirty
WatchInv ==
  UpToDate => IF projector[Watcher].pc = "idle"
             THEN disk.prompts \subseteq bubble
             ELSE projector[Watcher].snap = disk

\* The prompts that may have a composer row once the transcript is shown.
Unshown(b) == {p \in OfBody(Prompts, b) \ bubble : sending[p] \in {"echoed", "accepted", "lost"}}

EchoInv ==
  UpToDate /\ projector[Watcher].pc = "idle" =>
    \A b \in Bodies : Cardinality(OfBody(echo, b)) <= Cardinality(Unshown(b))

UsersInv == Typed /\ NoDuplicateBubble /\ SentInv /\ SnapInv /\ WatchInv /\ EchoInv

-----------------------------------------------------------------------------
(* The cards.                                                              *)

LeavingInv ==
  /\ leaving => ~attached
  /\ ~attached => \A q \in Questions : asking[q] \in {"no", "dropped"}

\* A question that is not answered: no trace of an answer.
Fresh(q) ==
  /\ card[q] \in {"none", "pending"} /\ q \notin disk.done
  /\ ~Holds(hooks, Answers(q)) /\ ~Holds(raw, Answers(q)) /\ ~Holds(repair.todo, Answers(q))
  /\ signal.pc # "idle" => signal.of \notin Answers(q)
  /\ signal.pc = "write" /\ signal.of.q = q => signal.prev \in {"none", "pending"}
  /\ repair.pc = "write" /\ Head(repair.todo).q = q => repair.prev \in {"none", "pending"}
FreshInv == \A q \in Questions : asking[q] \in {"no", "asking"} => Fresh(q)

\* One not asked: no trace at all.
Unasked(q) ==
  /\ card[q] = "none" /\ q \notin disk.asked
  /\ ~Holds(hooks, {Pending(q)}) /\ ~Holds(raw, {Pending(q)}) /\ ~Holds(repair.todo, {Pending(q)})
  /\ signal.pc # "idle" => signal.of # Pending(q)
UnaskedInv == \A q \in Questions : asking[q] = "no" => Unasked(q)

\* Between the read and the write of a replay no row goes.
ReplayInv == repair.pc = "write" /\ repair.prev # "none" => card[Head(repair.todo).q] # "none"

\* The card of a question the agent waits on is there or is on its way.
Sent(q) == Holds(hooks, {Pending(q)}) \/ Holds(raw, {Pending(q)})
OnItsWay(q) ==
  \/ Holds(hooks, {Pending(q)})
  \/ signal.pc = "read" /\ signal.of = Pending(q)
  \/ signal.pc = "write" /\ signal.of = Pending(q) /\ signal.prev = "none"
  \/ repair.pc = "deleted" /\ Holds(raw, {Pending(q)})
  \/ repair.pc \in {"replay", "write"} /\ Holds(repair.todo, {Pending(q)})
PendingInv ==
  \A q \in Questions : asking[q] = "asking" =>
    Sent(q) /\ (q \in torn \/ card[q] = "pending" \/ OnItsWay(q))

\* The hook of an answer comes after that of its question.
Follows(s, q) ==
  \A i \in DOMAIN s : s[i] = Pending(q) => \E j \in DOMAIN s : i < j /\ s[j] \in Answers(q)
Answered(q) == asking[q] = "answered" \/ q \in disk.done
AnswerInv ==
  \A q \in Questions :
    /\ q \in disk.done => asking[q] \in {"answered", "dropped"}
    /\ asking[q] = "answered" => Holds(hooks, Answers(q)) \/ Holds(raw, Answers(q))
    /\ Answered(q) => Follows(hooks, q)
    /\ Answered(q) /\ signal.pc # "idle" /\ signal.of = Pending(q) => Holds(hooks, Answers(q))

\* An answer whose hook a crash dropped is in every transcript read since.
Lost(q) == ~Holds(hooks, Answers(q)) /\ ~Holds(raw, Answers(q))
LostInv ==
  \A q \in Questions : q \in disk.done /\ Lost(q) =>
    /\ \A w \in Projectors : projector[w].pc = "collected" => q \in projector[w].snap.done
    /\ UpToDate /\ projector[Watcher].pc # "collected" => q \in stored.done

\* An answered question reads as answered, or something is under way that makes it.
Coming(q) ==
  \/ card[q] \in Resolved
  \/ Holds(hooks, Answers(q))
  \/ signal.pc \in {"read", "write"} /\ signal.of \in Answers(q)
  \/ repair.pc = "deleted" /\ Holds(raw, Answers(q))
  \/ repair.pc \in {"replay", "write"} /\ Holds(repair.todo, Answers(q))
  \/ repair.pc \in {"deleted", "replay", "write"} /\ Lost(q) /\ q \in stored.done
  \/ repair.pc = "project" /\ q \in repair.snap.done
DueInv ==
  \A q \in disk.done \ (missed \cup torn) :
    Coming(q) \/ ~attached \/ dirty \/ projector[Watcher].pc # "idle"

CardsInv ==
  /\ LeavingInv /\ FreshInv /\ UnaskedInv /\ ReplayInv
  /\ PendingInv /\ AnswerInv /\ LostInv /\ DueInv

-----------------------------------------------------------------------------
(* Sequences.                                                              *)

LEMMA HoldsAppend ==
  ASSUME NEW T, NEW s \in Seq(T), NEW x \in T, NEW S
  PROVE  Holds(Append(s, x), S) <=> Holds(s, S) \/ x \in S
<1>1. Len(Append(s, x)) = Len(s) + 1 /\ Append(s, x)[Len(s) + 1] = x
      /\ \A i \in 1..Len(s) : Append(s, x)[i] = s[i]
  BY AppendProperties
<1>2. DOMAIN s = 1..Len(s) /\ DOMAIN Append(s, x) = 1..(Len(s) + 1) /\ Len(s) \in Nat
  BY <1>1, AppendProperties, LenProperties
<1> QED BY <1>1, <1>2 DEF Holds

LEMMA HoldsTail ==
  ASSUME NEW T, NEW s \in Seq(T), s # <<>>, NEW S
  PROVE  /\ Holds(s, S) <=> Head(s) \in S \/ Holds(Tail(s), S)
         /\ Head(s) \in T /\ Tail(s) \in Seq(T)
<1>1. /\ Head(s) = s[1] /\ Len(Tail(s)) = Len(s) - 1 /\ Tail(s) \in Seq(T)
      /\ \A i \in 1..Len(Tail(s)) : Tail(s)[i] = s[i + 1]
  BY HeadTailProperties
<1>2. DOMAIN s = 1..Len(s) /\ DOMAIN Tail(s) = 1..Len(Tail(s)) /\ Len(s) \in Nat /\ Len(s) > 0
  BY <1>1, LenProperties, EmptySeq
<1>3. s[1] \in T
  BY <1>2, ElementOfSeq
<1>4. ASSUME NEW i \in DOMAIN s, s[i] \in S
      PROVE  s[1] \in S \/ \E j \in DOMAIN Tail(s) : Tail(s)[j] \in S
  <2>1. CASE i = 1
    BY <1>4, <2>1
  <2>2. CASE i # 1
    <3>1. i - 1 \in DOMAIN Tail(s) /\ Tail(s)[i - 1] = s[i]
      BY <1>1, <1>2, <2>2
    <3> QED BY <1>4, <3>1
  <2> QED BY <2>1, <2>2
<1>5. ASSUME NEW j \in DOMAIN Tail(s), Tail(s)[j] \in S
      PROVE  \E i \in DOMAIN s : s[i] \in S
  <2>1. j + 1 \in DOMAIN s /\ Tail(s)[j] = s[j + 1]
    BY <1>1, <1>2
  <2> QED BY <1>5, <2>1
<1>6. 1 \in DOMAIN s
  BY <1>2
<1> QED BY <1>1, <1>3, <1>4, <1>5, <1>6 DEF Holds

LEMMA HoldsEmpty == \A S : ~Holds(<<>>, S)
  BY DEF Holds

-----------------------------------------------------------------------------
(* Types.                                                                  *)

LEMMA ProjectTypes ==
  ASSUME NEW snap \in Snapshot, Project(snap), TypeOK
  PROVE  echo' \subseteq echo /\ bubble' \subseteq Prompts /\ card' \in [Questions -> CardState]
<1>1. echo' \subseteq echo
  BY DEF Project, Reconcile, OfBody
<1>2. bubble' \subseteq Prompts
  BY DEF Project, TypeOK, Snapshot
<1>3. card' \in [Questions -> CardState]
  BY ChatAssumption DEF Project, Merge, TypeOK, CardState
<1> QED BY <1>1, <1>2, <1>3

LEMMA UpsertTypes ==
  ASSUME NEW s \in Carded, NEW prev \in CardState, Upsert(s.q, prev, s.kind),
         card \in [Questions -> CardState]
  PROVE  card' \in [Questions -> CardState]
  BY DEF Upsert, Merge, CardState, Carded

LEMMA TypedInit == Init => Typed
<1> SUFFICES ASSUME Init PROVE Typed
  OBVIOUS
<1>1. Nothing \in Snapshot
  BY DEF Nothing, Snapshot
<1>2. <<>> \in Seq(Signal) /\ <<>> \in Seq(Carded) /\ <<>> \in Seq(Prompts)
  OBVIOUS
<1>3. projector \in [Projectors -> [pc : {"idle", "collected", "stored"}, snap : Snapshot]]
  BY <1>1 DEF Init, IdleProjector
<1>4. /\ signal \in [pc : {"idle", "read", "write", "backfill"}, of : Signal \cup {Null},
                     prev : CardState \cup {Null}]
      /\ repair \in [pc : {"idle", "deleted", "replay", "write", "project"}, todo : Seq(Signal),
                     prev : CardState \cup {Null}, snap : Snapshot]
  BY <1>1, <1>2 DEF Init, IdleSignal, IdleRepair
<1>6. /\ card \in [Questions -> CardState] /\ 0 \in 0..MaxEvents
      /\ body \in [Prompts -> Bodies \cup {Null}]
      /\ sending \in [Prompts ->
                       {"no", "echoed", "accepted", "refused", "rolledback", "lost"}]
      /\ asking \in [Questions -> {"no", "asking", "answered", "dropped"}]
  BY ChatAssumption DEF Init, CardState
<1>5. TypeOK
  BY <1>1, <1>2, <1>3, <1>4, <1>6 DEF Init, TypeOK
<1> QED BY <1>2, <1>5 DEF Init, Typed, IdleSignal, IdleRepair

LEMMA TypedSending ==
  ASSUME Typed, Sending
  PROVE  Typed'
<1>1. ASSUME NEW p \in Prompts, Submit(p) PROVE Typed'
  <2>1. tty' \in Seq(Prompts)
    <3>1. tty \in Seq(Prompts)
      BY DEF Typed, TypeOK
    <3>2. Append(tty, p) \in Seq(Prompts)
      BY <3>1, AppendProperties
    <3> QED BY <1>1, <3>1, <3>2 DEF Submit
  <2>2. sending' \in [Prompts ->
                    {"no", "echoed", "accepted", "refused", "rolledback", "lost"}]
    BY ZenonT(60), <1>1 DEF Submit, Typed, TypeOK
  <2> QED BY <1>1, <2>1, <2>2 DEF Submit, Typed, TypeOK, fibers, replaying, rows, session
<1>2. ASSUME NEW p \in Prompts, Rollback(p) PROVE Typed'
  BY <1>2 DEF Rollback, Typed, TypeOK, fibers, replaying, rows, session, agent, CardState
<1>3. ASSUME NEW p \in Prompts, NEW b \in Bodies, Echo(p, b) PROVE Typed'
  BY <1>3 DEF Echo, Typed, TypeOK, fibers, replaying, rows, session, agent, CardState
<1>4. ASSUME NEW p \in Prompts, NEW b \in Bodies, Type(p, b) PROVE Typed'
  BY <1>4 DEF Type, Typed, TypeOK, fibers, replaying, rows, session, agent, CardState
<1> QED BY <1>1, <1>2, <1>3, <1>4 DEF Sending

LEMMA TypedSignals ==
  ASSUME Typed, Signals
  PROVE  Typed'
<1>1. CASE Receive
  <2>1. Head(hooks) \in Signal /\ Tail(hooks) \in Seq(Signal)
    BY <1>1, HoldsTail DEF Receive, Typed, TypeOK
  <2>2. IsQuestion(Head(hooks)) => Head(hooks) \in Carded
    BY <2>1 DEF IsQuestion, Signal, Carded
  <2>3. raw' \in Seq(Carded) /\ raw' \in Seq(Signal)
    BY <1>1, <2>1, <2>2, AppendProperties DEF Receive, Typed, TypeOK
  <2> QED BY <1>1, <2>1, <2>3
          DEF Receive, Typed, TypeOK, fibers, replaying, rows, session, agent
<1>2. CASE Read
  <2>1. signal.of \in Signal
    BY <1>2 DEF Read, Typed
  <2>2. signal.of.kind # "stop" => signal.of \in Carded /\ signal.of.q \in Questions
    BY <2>1 DEF Signal, Carded
  <2>3. signal.of.kind # "stop" => card[signal.of.q] \in CardState
    BY <2>2 DEF Typed, TypeOK
  <2>4. projector' \in [Projectors -> [pc : {"idle", "collected", "stored"}, snap : Snapshot]]
    BY <1>2 DEF Read, Typed, TypeOK, Projectors
  <2>5. /\ signal' \in [pc : {"idle", "read", "write", "backfill"}, of : Signal \cup {Null},
                        prev : CardState \cup {Null}]
        /\ signal'.of = signal.of
        /\ signal'.pc = "write" => signal.of.kind # "stop" /\ signal'.prev = card[signal.of.q]
    BY ZenonT(60), <1>2, <2>3 DEF Read, Typed, TypeOK
  <2> QED BY <1>2, <2>1, <2>2, <2>3, <2>4, <2>5
          DEF Read, Typed, TypeOK, replaying, rows, session, agent
<1>3. CASE Write
  <2>1. card' \in [Questions -> CardState]
    BY <1>3, UpsertTypes DEF Write, Typed, TypeOK
  <2>2. signal.of.q \in Questions
    BY <1>3 DEF Write, Typed, Carded
  <2> QED BY <1>3, <2>1, <2>2
          DEF Write, Typed, TypeOK, rows, session, agent, IdleSignal
<1>4. CASE Backfilled
  BY <1>4 DEF Backfilled, Typed, TypeOK, replaying, rows, session, agent, IdleSignal
<1> QED BY <1>1, <1>2, <1>3, <1>4 DEF Signals

LEMMA TypedProjecting ==
  ASSUME Typed, Projecting
  PROVE  Typed'
<1>1. CASE Watch
  BY ZenonT(60), <1>1 DEF Watch, Typed, TypeOK, replaying, rows, session, Projectors
<1>2. CASE StopWatcher
  <2>1. IdleProjector \in [pc : {"idle", "collected", "stored"}, snap : Snapshot]
    BY DEF IdleProjector, Nothing, Snapshot
  <2> QED BY ZenonT(60), <1>2, <2>1 DEF StopWatcher, Typed, TypeOK, replaying, rows, session, agent
<1>3. ASSUME NEW w \in Projectors, Persist(w) PROVE Typed'
  BY SMTT(60), <1>3 DEF Persist, Typed, TypeOK, replaying, rows, session, agent
<1>4. ASSUME NEW w \in Projectors, Ingest(w) PROVE Typed'
  <2>1. IdleProjector \in [pc : {"idle", "collected", "stored"}, snap : Snapshot]
    BY DEF IdleProjector, Nothing, Snapshot
  <2>2. projector[w].snap \in Snapshot
    BY DEF Typed, TypeOK
  <2>3. echo' \subseteq echo /\ bubble' \subseteq Prompts /\ card' \in [Questions -> CardState]
    BY <1>4, <2>2, ProjectTypes DEF Ingest, Typed
  <2>4. projector' \in [Projectors -> [pc : {"idle", "collected", "stored"}, snap : Snapshot]]
    BY <1>4, <2>1 DEF Ingest, Typed, TypeOK
  <2> QED BY <1>4, <2>3, <2>4 DEF Ingest, Typed, TypeOK, replaying, session, agent
<1> QED BY <1>1, <1>2, <1>3, <1>4 DEF Projecting

LEMMA TypedRepair ==
  ASSUME Typed, Repair
  PROVE  Typed'
<1>1. CASE DeleteRequests
  <2>1. card' \in [Questions -> CardState] /\ events' \in 0..MaxEvents
    BY <1>1, ChatAssumption DEF DeleteRequests, CardState, Typed, TypeOK
  <2> QED BY <1>1, <2>1 DEF DeleteRequests, Typed, TypeOK, session, agent
<1>2. CASE LoadRaw
  BY Zenon, <1>2 DEF LoadRaw, Typed, TypeOK, rows, session, agent
<1>3. CASE ReplayRead
  <2>1. Head(repair.todo) \in Carded
    BY <1>3, HoldsTail DEF ReplayRead, Typed
  <2>2. card[Head(repair.todo).q] \in CardState
    BY <2>1 DEF Carded, Typed, TypeOK
  <2> QED BY Zenon, <1>3, <2>2 DEF ReplayRead, Typed, TypeOK, rows, session, agent
<1>4. CASE ReplayWrite
  <2>1. /\ Head(repair.todo) \in Carded /\ Tail(repair.todo) \in Seq(Carded)
        /\ Tail(repair.todo) \in Seq(Signal)
    BY <1>4, HoldsTail DEF ReplayWrite, Typed, TypeOK
  <2>2. card' \in [Questions -> CardState]
    BY <1>4, <2>1, UpsertTypes DEF ReplayWrite, Typed, TypeOK
  <2>3. Head(repair.todo).q \in Questions
    BY <2>1 DEF Carded
  <2> QED BY Zenon, <1>4, <2>1, <2>2, <2>3 DEF ReplayWrite, Typed, TypeOK, session, agent
<1>5. CASE LoadStored
  BY <1>5 DEF LoadStored, Typed, TypeOK, rows, session, agent
<1>6. CASE ReplayProject
  <2>1. repair' = [pc |-> "idle", todo |-> <<>>, prev |-> Null, snap |-> Nothing]
        /\ Nothing \in Snapshot
    BY <1>6 DEF ReplayProject, IdleRepair, Nothing, Snapshot
  <2>2. echo' \subseteq echo /\ bubble' \subseteq Prompts /\ card' \in [Questions -> CardState]
    BY <1>6, ProjectTypes DEF ReplayProject, Typed, TypeOK
  <2> QED BY <1>6, <2>1, <2>2 DEF ReplayProject, Typed, TypeOK, session, agent
<1>7. CASE RepairFails
  <2>1. repair' = [pc |-> "idle", todo |-> <<>>, prev |-> Null, snap |-> Nothing]
        /\ Nothing \in Snapshot /\ torn' \subseteq Questions
    BY <1>7 DEF RepairFails, CutShort, IdleRepair, Nothing, Snapshot, Typed, TypeOK
  <2> QED BY <1>7, <2>1 DEF RepairFails, Typed, TypeOK, rows, session, agent
<1> QED BY <1>1, <1>2, <1>3, <1>4, <1>5, <1>6, <1>7 DEF Repair

LEMMA TypedLife ==
  ASSUME Typed, Life
  PROVE  Typed'
<1>1. ASSUME ChildGone
      PROVE  /\ attached' \in BOOLEAN /\ leaving' \in BOOLEAN /\ tty' \in Seq(Prompts)
             /\ asking' \in [Questions -> {"no", "asking", "answered", "dropped"}]
             /\ disk' = disk /\ dirty' = dirty
  <2>1. asking' \in [Questions -> {"no", "asking", "answered", "dropped"}]
    BY <1>1 DEF ChildGone, Typed, TypeOK
  <2>2. <<>> \in Seq(Prompts)
    OBVIOUS
  <2> QED BY <1>1, <2>1, <2>2 DEF ChildGone
<1>2. CASE Exit
  BY <1>1, <1>2, ChatAssumption DEF Exit, Typed, TypeOK, rows, fibers, replaying
<1>3. CASE Supersede
  <2>1. card' \in [Questions -> CardState]
    BY <1>3 DEF Supersede, Typed, TypeOK, CardState
  <2> QED BY ZenonT(60), <1>3, <2>1 DEF Supersede, Typed, TypeOK, fibers, replaying, agent
<1>4. CASE Resume
  BY <1>4 DEF Resume, Typed, TypeOK, rows, fibers, replaying
<1>5. CASE Crash
  <2>1. IdleProjector \in [pc : {"idle", "collected", "stored"}, snap : Snapshot]
        /\ Nothing \in Snapshot
    BY DEF IdleProjector, Nothing, Snapshot
  <2>2. projector' \in [Projectors -> [pc : {"idle", "collected", "stored"}, snap : Snapshot]]
    BY <1>5, <2>1 DEF Crash
  <2>3. /\ signal' \in [pc : {"idle", "read", "write", "backfill"}, of : Signal \cup {Null},
                        prev : CardState \cup {Null}] /\ signal'.pc = "idle"
        /\ repair' \in [pc : {"idle", "deleted", "replay", "write", "project"},
                        todo : Seq(Signal), prev : CardState \cup {Null}, snap : Snapshot]
        /\ repair'.pc = "idle" /\ repair'.todo = <<>>
    BY <1>5, <2>1 DEF Crash, IdleSignal, IdleRepair
  <2>4. sending' \in [Prompts ->
                    {"no", "echoed", "accepted", "refused", "rolledback", "lost"}]
    BY <1>5 DEF Crash, Stranded, Typed, TypeOK
  <2>5. hooks' \in Seq(Signal) /\ repair'.todo \in Seq(Carded) /\ events' \in 0..MaxEvents
    BY <1>5, <2>3, ChatAssumption DEF Crash, Typed, TypeOK
  <2> QED BY <1>1, <1>5, <2>2, <2>3, <2>4, <2>5 DEF Crash, Typed, TypeOK, rows
<1>6. CASE Reload
  <2>1. repair' = [pc |-> "idle", todo |-> <<>>, prev |-> Null, snap |-> Nothing]
        /\ Nothing \in Snapshot /\ torn' \subseteq Questions
    BY <1>6 DEF Reload, CutShort, IdleRepair, Nothing, Snapshot, Typed, TypeOK
  <2>2. sending' \in [Prompts ->
                    {"no", "echoed", "accepted", "refused", "rolledback", "lost"}]
        /\ events' \in 0..MaxEvents
    BY <1>6, ChatAssumption DEF Reload, Stranded, Typed, TypeOK
  <2> QED BY <1>6, <2>1, <2>2 DEF Reload, Typed, TypeOK, rows, session, agent
<1> QED BY <1>2, <1>3, <1>4, <1>5, <1>6 DEF Life

LEMMA TypedAgent ==
  ASSUME Typed, Agent
  PROVE  Typed'
<1>1. ASSUME NEW s \in Signal, Hook(s)
      PROVE  /\ hooks' \in Seq(Signal)
             /\ UNCHANGED <<raw, signal, projector, stored, repair, missed, torn>>
  BY <1>1, AppendProperties DEF Hook, Typed, TypeOK, replaying
<1>2. ASSUME NEW q \in Questions, Ask(q) PROVE Typed'
  <2>1. [kind |-> "pending", q |-> q] \in Signal
    BY DEF Signal
  <2>2. asking' \in [Questions -> {"no", "asking", "answered", "dropped"}]
    BY <1>2 DEF Ask, Typed, TypeOK
  <2> QED BY <1>1, <1>2, <2>1, <2>2 DEF Ask, Typed, TypeOK, rows, session
<1>3. ASSUME NEW q \in Questions, Answer(q) PROVE Typed'
  <2>1. PICK kind \in Resolved : Hook([kind |-> kind, q |-> q])
    BY <1>3 DEF Answer
  <2>2. [kind |-> kind, q |-> q] \in Signal
    BY DEF Signal
  <2>3. asking' \in [Questions -> {"no", "asking", "answered", "dropped"}]
    BY <1>3 DEF Answer, Typed, TypeOK
  <2> QED BY <1>1, <1>3, <2>1, <2>2, <2>3 DEF Answer, Typed, TypeOK, rows, session
<1>4. CASE Stop
  <2>1. [kind |-> "stop", q |-> Null] \in Signal
    BY DEF Signal
  <2> QED BY <1>1, <1>4, <2>1, ChatAssumption DEF Stop, Typed, TypeOK, rows, session, agent
<1>5. ASSUME NEW d \in Snapshot, WriteDisk(d), tty' \in Seq(Prompts)
      PROVE  Typed'
  BY <1>5 DEF WriteDisk, Typed, TypeOK, rows, session, fibers, replaying
<1>6. CASE TakePrompt
  <2>1. Head(tty) \in Prompts /\ Tail(tty) \in Seq(Prompts)
    BY <1>6, HoldsTail DEF TakePrompt, Typed, TypeOK
  <2>2. [disk EXCEPT !.prompts = @ \cup {Head(tty)}] \in Snapshot
    BY <2>1 DEF Typed, TypeOK, Snapshot
  <2> QED BY <1>5, <1>6, <2>1, <2>2 DEF TakePrompt
<1>7. ASSUME NEW q \in Questions, WriteCall(q) PROVE Typed'
  <2>1. [disk EXCEPT !.asked = @ \cup {q}] \in Snapshot /\ tty' \in Seq(Prompts)
    BY <1>7 DEF WriteCall, Typed, TypeOK, Snapshot
  <2> QED BY <1>5, <1>7, <2>1 DEF WriteCall
<1>8. ASSUME NEW q \in Questions, WriteResult(q) PROVE Typed'
  <2>1. [disk EXCEPT !.done = @ \cup {q}] \in Snapshot /\ tty' \in Seq(Prompts)
    BY <1>8 DEF WriteResult, Typed, TypeOK, Snapshot
  <2> QED BY <1>5, <1>8, <2>1 DEF WriteResult
<1> QED BY <1>2, <1>3, <1>4, <1>6, <1>7, <1>8 DEF Agent

LEMMA TypedStep == Typed /\ [Next]_vars => Typed'
<1> SUFFICES ASSUME Typed, [Next]_vars PROVE Typed'
  OBVIOUS
<1>1. CASE UNCHANGED vars
  BY <1>1 DEF vars, Typed, TypeOK, rows, fibers, replaying, session, agent
<1> QED BY <1>1, TypedSending, TypedSignals, TypedProjecting, TypedRepair, TypedLife, TypedAgent
        DEF Next

\* Every variable keeps its type, for every number of prompts, texts, questions
\* and events.
THEOREM TypeCorrect == Spec => []TypeOK
<1>1. Typed => TypeOK
  BY DEF Typed
<1> QED BY <1>1, TypedInit, TypedStep, PTL DEF Spec

-----------------------------------------------------------------------------
(* Composer rows and their claims.                                         *)

LEMMA HasLargest ==
  ASSUME NEW n \in Nat, NEW K \in SUBSET (1..n), K # {}
  PROVE  \E m \in K : \A k \in K : k <= m
<1> DEFINE S == {j \in Nat : \E k \in K : k + j = n}
<1>1. ASSUME NEW k \in K PROVE k \in Nat /\ n - k \in Nat /\ n - k \in S
  <2>1. n - k \in Nat /\ k + (n - k) = n
    OBVIOUS
  <2> QED BY <2>1
<1>2. S \subseteq Nat /\ S # {}
  BY <1>1
<1>3. PICK x \in S : \A y \in S : <<y, x>> \notin OpToRel(<, Nat)
  <2> HIDE DEF S
  <2> QED BY <1>2, NatLessThanWellFounded, WFMin
<1>4. \A y \in S : ~(y < x)
  <2> HIDE DEF S
  <2> QED BY <1>2, <1>3 DEF OpToRel
<1>5. PICK m \in K : m + x = n
  OBVIOUS
<1>6. ASSUME NEW k \in K PROVE k <= m
  BY <1>1, <1>2, <1>4, <1>5
<1> QED BY <1>6

LEMMA PromptsFinite ==
  ASSUME NEW S \in SUBSET Prompts
  PROVE  IsFiniteSet(S) /\ Cardinality(S) \in Nat
<1>1. IsFiniteSet(Prompts)
  BY ChatAssumption, FS_Interval DEF Prompts
<1> QED BY <1>1, FS_Subset, FS_CardinalityType

\* Of the rows that n prompts claim, n are gone, or all are.
LEMMA ClaimedRows ==
  ASSUME NEW n \in Nat, NEW E \in SUBSET Prompts, NEW K,
         K = {e \in E : Cardinality({x \in E : x > e}) >= n}, K # {}
  PROVE  Cardinality(K) + n <= Cardinality(E)
<1>1. K \in SUBSET (1..MaxPrompts) /\ K \subseteq E /\ MaxPrompts \in Nat
  BY ChatAssumption DEF Prompts
<1>2. PICK m \in K : \A k \in K : k <= m
  BY <1>1, HasLargest
<1> DEFINE G == {x \in E : x > m}
<1>3. Cardinality(G) >= n /\ G \subseteq E
  BY <1>2
<1>4. K \cap G = {}
  BY <1>1, <1>2 DEF Prompts
<1> HIDE DEF G
<1>5. /\ IsFiniteSet(K) /\ IsFiniteSet(G) /\ IsFiniteSet(E)
      /\ Cardinality(K) \in Nat /\ Cardinality(G) \in Nat /\ Cardinality(E) \in Nat
  BY <1>1, <1>3, PromptsFinite DEF Prompts
<1>6. Cardinality(K \cup G) = Cardinality(K) + Cardinality(G)
  <2>1. Cardinality(K \cup G) = Cardinality(K) + Cardinality(G) - Cardinality(K \cap G)
    BY <1>5, FS_Union
  <2>2. Cardinality(K \cap G) = 0
    BY <1>4, FS_EmptySet
  <2> QED BY <1>5, <2>1, <2>2
<1>7. Cardinality(K \cup G) <= Cardinality(E)
  BY <1>1, <1>3, <1>5, FS_Subset
<1> QED BY <1>3, <1>5, <1>6, <1>7

\* What a projection does to the rows of one body.
LEMMA ProjectRows ==
  ASSUME Typed, NEW snap \in Snapshot, Project(snap), body' = body, NEW b \in Bodies
  PROVE  /\ OfBody(echo, b)' = Reconcile(OfBody(snap.prompts, b), OfBody(echo, b))
         /\ OfBody(bubble, b)' = OfBody(bubble, b) \cup OfBody(snap.prompts, b)
<1>1. \A T, E : Reconcile(T, E) \subseteq E
  BY DEF Reconcile
<1>2. OfBody(bubble, b)' = OfBody(bubble, b) \cup OfBody(snap.prompts, b)
  BY DEF Project, OfBody
<1>3. echo' = UNION {Reconcile(OfBody(snap.prompts, c), OfBody(echo, c)) : c \in Bodies}
  BY DEF Project
<1>4. ASSUME NEW c \in Bodies, NEW e \in Reconcile(OfBody(snap.prompts, c), OfBody(echo, c))
      PROVE  body[e] = c
  BY <1>1, <1>4 DEF OfBody
<1>5. OfBody(echo, b)' = {e \in echo' : body[e] = b}
  BY DEF OfBody
<1>6. ASSUME NEW e \in OfBody(echo, b)' PROVE e \in Reconcile(OfBody(snap.prompts, b), OfBody(echo, b))
  <2>1. PICK c \in Bodies : e \in Reconcile(OfBody(snap.prompts, c), OfBody(echo, c))
    BY <1>3, <1>5
  <2>2. c = b
    BY <1>4, <1>5, <2>1
  <2> QED BY <2>1, <2>2
<1>7. ASSUME NEW e \in Reconcile(OfBody(snap.prompts, b), OfBody(echo, b)) PROVE e \in OfBody(echo, b)'
  <2>1. e \in echo'
    BY <1>3
  <2> QED BY <1>4, <1>5, <2>1
<1> QED BY <1>2, <1>6, <1>7

\* The two ways of Reconcile.
LEMMA ReconcileCases ==
  ASSUME NEW T \in SUBSET Prompts, NEW E \in SUBSET Prompts
  PROVE  /\ Reconcile(T, E) \subseteq E
         /\ T \cap bubble # {} => Reconcile(T, E) = {}
         /\ T = {} => Reconcile(T, E) = E
         /\ Reconcile(T, E) # {} =>
              Cardinality(Reconcile(T, E)) + Cardinality(T) <= Cardinality(E)
<1>1. Cardinality(T) \in Nat
  BY PromptsFinite
<1>2. ASSUME T = {} PROVE Reconcile(T, E) = E
  <2>1. Cardinality(T) = 0
    BY <1>2, FS_EmptySet
  <2>2. ASSUME NEW e \in E PROVE Cardinality({x \in E : x > e}) >= 0
    BY PromptsFinite
  <2> QED BY <1>2, <2>1, <2>2 DEF Reconcile
<1>3. ASSUME Reconcile(T, E) # {}
      PROVE  Cardinality(Reconcile(T, E)) + Cardinality(T) <= Cardinality(E)
  <2>1. Reconcile(T, E) = {e \in E : Cardinality({x \in E : x > e}) >= Cardinality(T)}
    BY <1>3 DEF Reconcile
  <2> QED BY <1>1, <1>3, <2>1, ClaimedRows
<1> QED BY <1>2, <1>3 DEF Reconcile

LEMMA NoDuplicateProject ==
  ASSUME Typed, NoDuplicateBubble, NEW snap \in Snapshot, Project(snap), body' = body
  PROVE  NoDuplicateBubble'
<1> SUFFICES ASSUME NEW b \in Bodies
             PROVE  Cardinality(OfBody(bubble, b))' + Cardinality(OfBody(echo, b))'
                      <= Cardinality(OfBody(Prompts, b))'
  BY DEF NoDuplicateBubble
<1> DEFINE T == OfBody(snap.prompts, b)
           E == OfBody(echo, b)
           B == OfBody(bubble, b)
           A == OfBody(Prompts, b)
           R == Reconcile(T, E)
<1>1. T \in SUBSET Prompts /\ E \in SUBSET Prompts /\ B \subseteq A /\ T \subseteq A
      /\ A \in SUBSET Prompts
  BY DEF OfBody, Snapshot, Typed, TypeOK
<1>2. OfBody(echo, b)' = R /\ OfBody(bubble, b)' = B \cup T
  BY ProjectRows
<1>3. OfBody(Prompts, b)' = A
  BY DEF OfBody
<1>4. Cardinality(B) + Cardinality(E) <= Cardinality(A)
  BY DEF NoDuplicateBubble
<1>5. T \cap bubble # {} => R = {}
  BY <1>1, ReconcileCases
<1>6. T \cap bubble = {} => T \cap B = {}
  BY DEF OfBody
<1>7. R \subseteq E /\ (R # {} => Cardinality(R) + Cardinality(T) <= Cardinality(E))
  BY <1>1, ReconcileCases
<1> HIDE DEF T, E, B, A, R
<1>8. /\ IsFiniteSet(B) /\ IsFiniteSet(T) /\ IsFiniteSet(A)
      /\ Cardinality(B) \in Nat /\ Cardinality(T) \in Nat /\ Cardinality(E) \in Nat
      /\ Cardinality(A) \in Nat /\ Cardinality(R) \in Nat
      /\ Cardinality(B \cup T) \in Nat
  BY <1>1, <1>7, PromptsFinite
<1>9. CASE R = {}
  <2>1. Cardinality(B \cup T) <= Cardinality(A)
    BY <1>1, <1>8, FS_Subset
  <2> QED BY <1>2, <1>3, <1>8, <1>9, <2>1, FS_EmptySet
<1>10. CASE R # {}
  <2>1. Cardinality(B \cup T) = Cardinality(B) + Cardinality(T) - Cardinality(B \cap T)
    BY <1>8, FS_Union
  <2>2. Cardinality(B \cap T) = 0
    <3>1. B \cap T = {}
      BY <1>5, <1>6, <1>10
    <3> QED BY <3>1, FS_EmptySet
  <2>3. Cardinality(B \cup T) + Cardinality(R) <= Cardinality(A)
    BY <1>4, <1>7, <1>8, <1>10, <2>1, <2>2
  <2> QED BY <1>2, <1>3, <2>3
<1> QED BY <1>9, <1>10

-----------------------------------------------------------------------------
(* The invariants of the user's bubbles, step by step.                     *)

\* The steps that leave prompts, bubbles and the transcript's prompts alone.
UsersRest ==
  /\ UNCHANGED <<body, sending, echo, bubble, attached>> /\ disk'.prompts = disk.prompts

\* They leave the terminal alone too; a child that goes, empties it.
Moves ==
  \/ UsersRest /\ tty' = tty
  \/ \E p \in Prompts : Submit(p) \/ Rollback(p) \/ \E b \in Bodies : Echo(p, b) \/ Type(p, b)
  \/ \E w \in Projectors : Ingest(w)
  \/ ReplayProject \/ Exit \/ Resume \/ Crash \/ Reload \/ TakePrompt

LEMMA Moved == Typed /\ [Next]_vars => Moves
<1> SUFFICES ASSUME Typed, [Next]_vars, ~Moves PROVE FALSE
  OBVIOUS
<1>1. CASE UNCHANGED vars
  BY <1>1 DEF vars, Moves, UsersRest, rows, session, agent
<1>2. CASE Signals
  BY <1>2 DEF Signals, Receive, Read, Write, Backfilled, Moves, UsersRest, rows, session, agent
<1>3. CASE Projecting
  BY <1>3 DEF Projecting, Watch, StopWatcher, Persist, Moves, UsersRest, rows, session, agent
<1>4. CASE Repair
  BY <1>4 DEF Repair, DeleteRequests, LoadRaw, ReplayRead, ReplayWrite, LoadStored, RepairFails,
              Moves, UsersRest, rows, session, agent
<1>5. CASE Life
  BY <1>5 DEF Life, Supersede, Moves, UsersRest, agent
<1>6. CASE Agent
  <2>1. ASSUME NEW q \in Questions, Ask(q) PROVE FALSE
    BY <2>1 DEF Ask, Moves, UsersRest, rows, session
  <2>2. ASSUME NEW q \in Questions, Answer(q) PROVE FALSE
    BY <2>2 DEF Answer, Moves, UsersRest, rows, session
  <2>3. ASSUME NEW q \in Questions, WriteCall(q) PROVE FALSE
    <3>1. disk'.prompts = disk.prompts
      BY <2>3 DEF WriteCall, WriteDisk, Typed, TypeOK, Snapshot
    <3> QED BY <2>3, <3>1 DEF WriteCall, WriteDisk, Moves, UsersRest, rows, session
  <2>4. ASSUME NEW q \in Questions, WriteResult(q) PROVE FALSE
    <3>1. disk'.prompts = disk.prompts
      BY <2>4 DEF WriteResult, WriteDisk, Typed, TypeOK, Snapshot
    <3> QED BY <2>4, <3>1 DEF WriteResult, WriteDisk, Moves, UsersRest, rows, session
  <2>5. ASSUME Stop PROVE FALSE
    BY <2>5 DEF Stop, Moves, UsersRest, rows, session, agent
  <2> QED BY <1>6, <2>1, <2>2, <2>3, <2>4, <2>5 DEF Agent, Moves
<1> QED BY <1>1, <1>2, <1>3, <1>4, <1>5, <1>6 DEF Next, Sending, Moves

LEMMA SentInit == Init => SentInv
  BY DEF Init, SentInv, Nothing

LEMMA SentStep ==
  ASSUME Typed, SentInv, [Next]_vars
  PROVE  SentInv'
<1>1. CASE UsersRest /\ tty' = tty
  BY <1>1 DEF SentInv, UsersRest
<1>2. ASSUME NEW p \in Prompts, Submit(p) PROVE SentInv'
  <2>1. CASE attached
    <3>1. tty \in Seq(Prompts) /\ tty' = Append(tty, p)
      BY <1>2, <2>1 DEF Submit, Typed, TypeOK
    <3>2. \A i \in DOMAIN tty' : (i \in DOMAIN tty /\ tty'[i] = tty[i] /\ tty[i] \in Prompts) \/ tty'[i] = p
      BY <3>1, AppendProperties, LenProperties, ElementOfSeq
    <3>3. sending' = [sending EXCEPT ![p] = "accepted"] /\ sending[p] = "echoed"
      BY <1>2, <2>1 DEF Submit
    <3> QED BY <1>2, <2>1, <3>2, <3>3 DEF Submit, SentInv, Typed, TypeOK, Snapshot, rows, session
  <2>2. CASE ~attached
    <3>1. sending' = [sending EXCEPT ![p] = "refused"] /\ sending[p] = "echoed" /\ tty' = tty
      BY <1>2, <2>2 DEF Submit
    <3>2. tty \in Seq(Prompts) /\ \A i \in DOMAIN tty : tty[i] \in Prompts
      BY LenProperties, ElementOfSeq DEF Typed, TypeOK
    <3> QED BY <1>2, <2>2, <3>1, <3>2 DEF Submit, SentInv, Typed, TypeOK, Snapshot, rows, session
  <2> QED BY <2>1, <2>2
<1>a. \A i \in DOMAIN tty : tty[i] \in Prompts
  BY LenProperties, ElementOfSeq DEF Typed, TypeOK
<1>3. ASSUME NEW p \in Prompts, Rollback(p) PROVE SentInv'
  BY <1>3, <1>a DEF Rollback, SentInv, Typed, TypeOK, Snapshot, session, agent
<1>4. ASSUME NEW p \in Prompts, NEW b \in Bodies, Echo(p, b) PROVE SentInv'
  BY <1>4, <1>a DEF Echo, IsNext, SentInv, Typed, TypeOK, Snapshot, session, agent
<1>5. ASSUME NEW p \in Prompts, NEW b \in Bodies, Type(p, b) PROVE SentInv'
  <2>1. tty \in Seq(Prompts) /\ tty' = Append(tty, p)
    BY <1>5 DEF Type, Typed, TypeOK
  <2>2. \A i \in DOMAIN tty' : (i \in DOMAIN tty /\ tty'[i] = tty[i] /\ tty[i] \in Prompts) \/ tty'[i] = p
    BY <2>1, AppendProperties, LenProperties, ElementOfSeq
  <2> QED BY <1>5, <2>2 DEF Type, IsNext, SentInv, Typed, TypeOK, Snapshot, rows, session
<1>6. ASSUME echo' \subseteq echo, UNCHANGED <<body, sending, attached, tty, disk>> PROVE SentInv'
  BY <1>6 DEF SentInv
<1>7. ASSUME NEW w \in Projectors, Ingest(w) PROVE SentInv'
  <2>1. echo' \subseteq echo
    BY <1>7, ProjectTypes DEF Ingest, Typed, TypeOK
  <2> QED BY <1>6, <1>7, <2>1 DEF Ingest, session, agent
<1>8. CASE ReplayProject
  <2>1. echo' \subseteq echo
    BY <1>8, ProjectTypes DEF ReplayProject, Typed, TypeOK
  <2> QED BY <1>6, <1>8, <2>1 DEF ReplayProject, session, agent
<1>9. CASE Exit
  BY <1>9 DEF Exit, ChildGone, SentInv, rows
<1>10. CASE Resume
  BY <1>10 DEF Resume, SentInv, rows
<1>11. CASE Crash
  BY <1>11 DEF Crash, Stranded, ChildGone, SentInv, Typed, TypeOK, Snapshot, rows
<1>13. CASE Reload
  BY <1>13, <1>a DEF Reload, Stranded, SentInv, Typed, TypeOK, Snapshot, rows, session, agent
<1>12. CASE TakePrompt
  <2>1. \A i \in DOMAIN tty' : i + 1 \in DOMAIN tty /\ tty'[i] = tty[i + 1]
    BY <1>12, HeadTailProperties, LenProperties DEF TakePrompt, Typed, TypeOK
  <2>2. 1 \in DOMAIN tty /\ Head(tty) = tty[1]
    BY <1>12, LenProperties, EmptySeq DEF TakePrompt, Typed, TypeOK
  <2>3. disk'.prompts = disk.prompts \cup {Head(tty)}
    BY <1>12 DEF TakePrompt, WriteDisk, Typed, TypeOK, Snapshot
  <2> QED BY <1>12, <2>1, <2>2, <2>3 DEF TakePrompt, WriteDisk, SentInv, rows, session
<1> QED BY <1>1, <1>2, <1>3, <1>4, <1>5, <1>7, <1>8, <1>9, <1>10, <1>11, <1>12, <1>13,
           Moved DEF Moves

-----------------------------------------------------------------------------
(* Snapshots.                                                              *)

LEMMA DiskGrows ==
  ASSUME Typed, [Next]_vars
  PROVE  /\ disk.prompts \subseteq disk'.prompts /\ disk.done \subseteq disk'.done
         /\ disk.asked \subseteq disk'.asked
         /\ disk.done \subseteq disk.asked => disk'.done \subseteq disk'.asked
         /\ disk' = disk \/ dirty'
<1>1. CASE disk' = disk
  BY <1>1
<1>2. CASE TakePrompt
  BY <1>2 DEF TakePrompt, WriteDisk, Typed, TypeOK, Snapshot
<1>3. ASSUME NEW q \in Questions, WriteCall(q)
      PROVE  /\ disk'.prompts = disk.prompts /\ disk'.done = disk.done
             /\ disk'.asked = disk.asked \cup {q} /\ dirty'
  BY <1>3 DEF WriteCall, WriteDisk, Typed, TypeOK, Snapshot
<1>4. ASSUME NEW q \in Questions, WriteResult(q)
      PROVE  /\ disk'.prompts = disk.prompts /\ disk'.asked = disk.asked
             /\ disk'.done = disk.done \cup {q} /\ q \in disk.asked /\ dirty'
  BY <1>4 DEF WriteResult, WriteDisk, Typed, TypeOK, Snapshot
<1>5. ASSUME disk' # disk
      PROVE  \/ TakePrompt
             \/ \E q \in Questions : WriteCall(q) \/ WriteResult(q)
  <2>1. ASSUME NEW p \in Prompts, NEW b \in Bodies,
               Submit(p) \/ Rollback(p) \/ Echo(p, b) \/ Type(p, b)
        PROVE  FALSE
    BY <1>5, <2>1 DEF Submit, Rollback, Echo, Type, agent
  <2>2. ASSUME NEW p \in Prompts, Submit(p) \/ Rollback(p)
        PROVE  FALSE
    BY <1>5, <2>2 DEF Submit, Rollback, agent
  <2>3. ~Sending
    BY <2>1, <2>2 DEF Sending
  <2>4. ~Signals
    BY <1>5 DEF Signals, Receive, Read, Write, Backfilled, agent
  <2>5. ~Projecting
    BY <1>5 DEF Projecting, Watch, StopWatcher, Persist, Ingest, agent
  <2>6. ~Repair
    BY <1>5 DEF Repair, DeleteRequests, LoadRaw, ReplayRead, ReplayWrite, LoadStored, RepairFails,
                ReplayProject, agent
  <2>7. ~Life
    BY <1>5 DEF Life, Exit, Supersede, Resume, Crash, Reload, ChildGone, agent
  <2>8. ~(UNCHANGED vars)
    BY <1>5 DEF vars, agent
  <2>9. ~Stop /\ \A q \in Questions : ~Ask(q) /\ ~Answer(q)
    BY <1>5 DEF Stop, Ask, Answer, agent
  <2> QED BY <2>3, <2>4, <2>5, <2>6, <2>7, <2>8, <2>9 DEF Next, Agent
<1> QED BY <1>1, <1>2, <1>3, <1>4, <1>5

\* Where the snapshots come from.
Snaps == {Nothing, disk, stored, repair.snap} \cup {projector[w].snap : w \in Projectors}

LEMMA SnapsMove ==
  ASSUME Typed, [Next]_vars
  PROVE  stored' \in Snaps /\ repair'.snap \in Snaps /\ \A w \in Projectors : projector'[w].snap \in Snaps
<1> USE DEF Snaps
<1>0. Nothing \in Snaps /\ disk \in Snaps /\ stored \in Snaps /\ repair.snap \in Snaps
      /\ \A w \in Projectors : projector[w].snap \in Snaps
  OBVIOUS
<1>1. CASE UNCHANGED <<stored, repair, projector>>
  BY <1>1
<1>2. CASE Read
  BY <1>2 DEF Read, Typed, TypeOK, replaying
<1>3. CASE Watch
  BY <1>3 DEF Watch, Typed, TypeOK, replaying
<1>4. CASE StopWatcher
  BY <1>4 DEF StopWatcher, IdleProjector, Typed, TypeOK, replaying
<1>5. ASSUME NEW w \in Projectors, Persist(w)
      PROVE  stored' = projector[w].snap /\ repair' = repair
             /\ \A v \in Projectors : projector'[v].snap = projector[v].snap
  BY <1>5 DEF Persist, Typed, TypeOK, replaying
<1>6. ASSUME NEW w \in Projectors, Ingest(w)
      PROVE  stored' = stored /\ repair' = repair
             /\ \A v \in Projectors : projector'[v].snap \in {Nothing, projector[v].snap}
  BY <1>6 DEF Ingest, IdleProjector, Typed, TypeOK, replaying
<1>7. CASE Repair
  <2>1. stored' = stored /\ projector' = projector
    BY <1>7 DEF Repair, DeleteRequests, LoadRaw, ReplayRead, ReplayWrite, LoadStored, RepairFails, ReplayProject
  <2>2. CASE DeleteRequests \/ LoadRaw \/ ReplayRead \/ ReplayWrite
    BY <2>2, <2>1 DEF DeleteRequests, LoadRaw, ReplayRead, ReplayWrite, Typed, TypeOK
  <2>3. CASE LoadStored
    <3>1. repair'.snap = stored
      BY <2>3 DEF LoadStored, Typed, TypeOK
    <3> QED BY <2>1, <3>1
  <2>4. CASE ReplayProject
    <3>1. repair'.snap = Nothing
      BY <2>4 DEF ReplayProject, IdleRepair
    <3> QED BY <2>1, <3>1
  <2>5. CASE RepairFails
    <3>1. repair'.snap = Nothing
      BY <2>5 DEF RepairFails, IdleRepair
    <3> QED BY <2>1, <3>1
  <2> QED BY <1>7, <2>2, <2>3, <2>4, <2>5 DEF Repair
<1>8. CASE Crash \/ Reload
  BY <1>8 DEF Crash, Reload, IdleProjector, IdleRepair
<1>9. CASE Sending
  <2>1. UNCHANGED fibers
    BY <1>9 DEF Sending, Submit, Rollback, Echo, Type
  <2> QED BY <1>1, <2>1 DEF fibers, replaying
<1>10. CASE Agent
  BY <1>1, <1>10 DEF Agent, Stop, TakePrompt, WriteDisk, Ask, Answer, WriteCall, WriteResult, Hook,
                     fibers, replaying
<1>11. CASE Exit \/ Supersede \/ Resume \/ UNCHANGED vars
  BY <1>1, <1>11 DEF Exit, Supersede, Resume, vars, fibers, replaying
<1>12. CASE Receive \/ Write \/ Backfilled
  BY <1>1, <1>12 DEF Receive, Write, Backfilled, replaying
<1> HIDE DEF Snaps
<1>13. CASE Projecting
  BY <1>0, <1>3, <1>4, <1>5, <1>6, <1>13 DEF Projecting, Snaps
<1> QED BY <1>2, <1>7, <1>8, <1>9, <1>10, <1>11, <1>12, <1>13 DEF Next, Signals, Life

LEMMA SnapInit == Init => SnapInv
  BY DEF Init, SnapInv, Within, Nothing, IdleProjector, IdleRepair

LEMMA SnapStep ==
  ASSUME Typed, SnapInv, [Next]_vars
  PROVE  SnapInv'
<1>1. \A s \in Snaps : /\ s.prompts \subseteq disk'.prompts /\ s.asked \subseteq disk'.asked
                       /\ s.done \subseteq disk'.done /\ s.done \subseteq s.asked
  BY DiskGrows DEF Snaps, SnapInv, Within, Nothing
<1>2. Within(stored)' /\ Within(repair.snap)' /\ \A w \in Projectors : Within(projector[w].snap)'
  BY <1>1, SnapsMove DEF Within
<1>3. Within(disk)'
  BY DiskGrows DEF SnapInv, Within
<1>4. bubble' \subseteq disk'.prompts
  <2>1. CASE UNCHANGED bubble
    BY <2>1, DiskGrows DEF SnapInv
  <2>2. ASSUME NEW w \in Projectors, Ingest(w) PROVE bubble' = bubble \cup projector[w].snap.prompts
    BY <2>2 DEF Ingest, Project
  <2>3. ASSUME ReplayProject PROVE bubble' = bubble \cup repair.snap.prompts
    BY <2>3 DEF ReplayProject, Project
  <2>4. bubble \subseteq disk'.prompts /\ repair.snap.prompts \subseteq disk'.prompts
        /\ \A w \in Projectors : projector[w].snap.prompts \subseteq disk'.prompts
    BY <1>1, DiskGrows DEF SnapInv, Snaps
  <2>5. \/ UNCHANGED bubble \/ ReplayProject
        \/ \E w \in Projectors : Ingest(w)
    BY Moved DEF Moves, UsersRest, Submit, Rollback, Echo, Type, Exit, Resume, Crash, Reload,
                 TakePrompt, WriteDisk, rows
  <2> QED BY <2>1, <2>2, <2>3, <2>4, <2>5
<1> QED BY <1>2, <1>3, <1>4 DEF SnapInv

-----------------------------------------------------------------------------
(* The watcher.                                                            *)

\* The steps that leave what the watcher owes alone.
WatchRest ==
  /\ UNCHANGED <<attached, dirty, disk>> /\ bubble \subseteq bubble'
  /\ projector'[Watcher] = projector[Watcher]

LEMMA WatchMoves ==
  ASSUME Typed, [Next]_vars
  PROVE  \/ WatchRest
         \/ dirty' \/ ~attached'
         \/ Watch
         \/ Persist(Watcher) /\ attached /\ ~dirty
         \/ Ingest(Watcher) /\ attached /\ ~dirty
<1> SUFFICES ASSUME ~WatchRest, ~dirty', attached', ~Watch,
                    ~(Persist(Watcher) /\ attached /\ ~dirty),
                    ~(Ingest(Watcher) /\ attached /\ ~dirty)
             PROVE  FALSE
  OBVIOUS
<1>0. dirty' = dirty \/ disk' = disk
  BY DiskGrows DEF Typed, TypeOK
<1>1. CASE UNCHANGED vars
  BY <1>1 DEF vars, WatchRest, rows, fibers, session, agent
<1>2. CASE Sending
  BY <1>2 DEF Sending, Submit, Rollback, Echo, Type, WatchRest, rows, fibers, session, agent
<1>3. CASE Signals
  <2>1. CASE Read
    BY <2>1, ChatAssumption DEF Read, WatchRest, rows, session, agent, Typed, TypeOK, Projectors
  <2>2. CASE Receive \/ Write \/ Backfilled
    BY <2>2 DEF Receive, Write, Backfilled, WatchRest, rows, session, agent
  <2> QED BY <1>3, <2>1, <2>2 DEF Signals
<1>4. CASE Projecting
  <2>1. CASE StopWatcher
    BY <2>1 DEF StopWatcher, session
  <2>2. ASSUME NEW w \in Projectors, Persist(w) PROVE FALSE
    <3>1. w # Watcher => projector'[Watcher] = projector[Watcher]
      BY <2>2 DEF Persist, Typed, TypeOK, Projectors
    <3> QED BY <2>2, <3>1 DEF Persist, WatchRest, rows, session, agent
  <2>3. ASSUME NEW w \in Projectors, Ingest(w) PROVE FALSE
    <3>1. w # Watcher => projector'[Watcher] = projector[Watcher]
      BY <2>3 DEF Ingest, Typed, TypeOK, Projectors
    <3> QED BY <2>3, <3>1 DEF Ingest, Project, WatchRest, session, agent
  <2> QED BY <1>4, <2>1, <2>2, <2>3 DEF Projecting
<1>5. CASE Repair
  BY <1>5 DEF Repair, DeleteRequests, LoadRaw, ReplayRead, ReplayWrite, LoadStored, RepairFails,
              ReplayProject, Project, WatchRest, rows, session, agent
<1>6. CASE Life
  BY <1>6 DEF Life, Exit, Supersede, Resume, Crash, Reload, ChildGone, WatchRest, rows, session,
              agent, fibers
<1>7. CASE Agent
  BY <1>7 DEF Agent, Stop, TakePrompt, WriteDisk, Ask, Answer, WriteCall, WriteResult, Hook,
              WatchRest, rows, session, agent
<1> QED BY <1>1, <1>2, <1>3, <1>4, <1>5, <1>6, <1>7 DEF Next

LEMMA WatchInit == Init => WatchInv
  BY DEF Init, WatchInv, UpToDate, IdleProjector, Projectors, Nothing

LEMMA WatchStep ==
  ASSUME Typed, WatchInv, [Next]_vars
  PROVE  WatchInv'
<1>1. CASE WatchRest
  BY <1>1 DEF WatchRest, WatchInv, UpToDate
<1>2. CASE dirty' \/ ~attached'
  BY <1>2 DEF WatchInv, UpToDate
<1>3. CASE Watch
  BY <1>3 DEF Watch, WatchInv, Typed, TypeOK, Projectors
<1>4. CASE Persist(Watcher) /\ attached /\ ~dirty
  BY <1>4 DEF Persist, WatchInv, UpToDate, Typed, TypeOK, Projectors, rows, session, agent
<1>5. CASE Ingest(Watcher) /\ attached /\ ~dirty
  BY <1>5 DEF Ingest, Project, WatchInv, UpToDate, Typed, TypeOK, Projectors, IdleProjector, session, agent
<1> QED BY <1>1, <1>2, <1>3, <1>4, <1>5, WatchMoves

-----------------------------------------------------------------------------
(* No bubble twice.                                                        *)

LEMMA NoDuplicateInit == Init => NoDuplicateBubble
<1> SUFFICES ASSUME Init, NEW b \in Bodies
             PROVE  Cardinality(OfBody(bubble, b)) + Cardinality(OfBody(echo, b))
                      <= Cardinality(OfBody(Prompts, b))
  BY DEF NoDuplicateBubble
<1>1. OfBody(bubble, b) = {} /\ OfBody(echo, b) = {} /\ OfBody(Prompts, b) \in SUBSET Prompts
  BY DEF Init, OfBody
<1>2. Cardinality(OfBody(Prompts, b)) \in Nat /\ Cardinality({}) = 0
  BY <1>1, PromptsFinite, FS_EmptySet
<1> QED BY <1>1, <1>2

LEMMA NoDuplicateStep ==
  ASSUME Typed, NoDuplicateBubble, SentInv, SnapInv, [Next]_vars
  PROVE  NoDuplicateBubble'
<1>1. CASE UNCHANGED <<body, echo, bubble>>
  BY <1>1 DEF NoDuplicateBubble, OfBody
<1>2. ASSUME NEW p \in Prompts, Rollback(p) PROVE NoDuplicateBubble'
  <2> SUFFICES ASSUME NEW b \in Bodies
               PROVE  Cardinality(OfBody(bubble, b))' + Cardinality(OfBody(echo, b))'
                        <= Cardinality(OfBody(Prompts, b))'
    BY DEF NoDuplicateBubble
  <2>1. OfBody(bubble, b)' = OfBody(bubble, b) /\ OfBody(Prompts, b)' = OfBody(Prompts, b)
        /\ OfBody(echo, b)' \subseteq OfBody(echo, b)
    BY <1>2 DEF Rollback, OfBody
  <2>2. OfBody(echo, b) \in SUBSET Prompts /\ OfBody(bubble, b) \in SUBSET Prompts
        /\ OfBody(Prompts, b) \in SUBSET Prompts
    BY DEF OfBody, Typed, TypeOK
  <2>3. /\ Cardinality(OfBody(echo, b)') <= Cardinality(OfBody(echo, b))
        /\ Cardinality(OfBody(echo, b)') \in Nat /\ Cardinality(OfBody(echo, b)) \in Nat
        /\ Cardinality(OfBody(bubble, b)) \in Nat /\ Cardinality(OfBody(Prompts, b)) \in Nat
    BY <2>1, <2>2, PromptsFinite, FS_Subset
  <2> QED BY <2>1, <2>3 DEF NoDuplicateBubble
<1>3. ASSUME NEW p \in Prompts, NEW b \in Bodies, Echo(p, b) \/ Type(p, b)
      PROVE  NoDuplicateBubble'
  <2> SUFFICES ASSUME NEW c \in Bodies
               PROVE  Cardinality(OfBody(bubble, c))' + Cardinality(OfBody(echo, c))'
                        <= Cardinality(OfBody(Prompts, c))'
    BY DEF NoDuplicateBubble
  <2>1. /\ body[p] = Null /\ body' = [body EXCEPT ![p] = b] /\ bubble' = bubble
        /\ sending[p] = "no" /\ echo \subseteq echo' /\ echo' \subseteq echo \cup {p}
    BY <1>3 DEF Echo, Type, IsNext, SentInv, rows
  <2>2. p \notin bubble /\ bubble \in SUBSET Prompts /\ echo \in SUBSET Prompts
        /\ echo' \in SUBSET Prompts /\ Prompts \in SUBSET Prompts
    BY <2>1 DEF SentInv, SnapInv, Typed, TypeOK
  <2>3. OfBody(bubble, c)' = OfBody(bubble, c)
    BY <2>1, <2>2 DEF OfBody, Typed, TypeOK
  <2>4. OfBody(echo, c) \in SUBSET Prompts /\ OfBody(bubble, c) \in SUBSET Prompts
        /\ OfBody(Prompts, c) \in SUBSET Prompts
    BY <2>2 DEF OfBody
  <2>5. /\ IsFiniteSet(OfBody(echo, c)) /\ IsFiniteSet(OfBody(Prompts, c))
        /\ Cardinality(OfBody(echo, c)) \in Nat
        /\ Cardinality(OfBody(bubble, c)) \in Nat /\ Cardinality(OfBody(Prompts, c)) \in Nat
    BY <2>4, PromptsFinite
  <2>6. Cardinality(OfBody(bubble, c)) + Cardinality(OfBody(echo, c)) <= Cardinality(OfBody(Prompts, c))
    BY DEF NoDuplicateBubble
  <2>7. OfBody(echo, c)' = {x \in echo' : body'[x] = c} /\ OfBody(Prompts, c)' = {x \in Prompts : body'[x] = c}
    BY DEF OfBody
  <2>a. body[p] # c /\ \A x \in Prompts : body'[x] = IF x = p THEN b ELSE body[x]
    BY <2>1, ChatAssumption DEF Typed, TypeOK
  <2>8. CASE c # b
    <3>1. {x \in echo' : body'[x] = c} = OfBody(echo, c)
      BY <2>1, <2>2, <2>8, <2>a DEF OfBody
    <3>2. {x \in Prompts : body'[x] = c} = OfBody(Prompts, c)
      BY <2>1, <2>2, <2>8, <2>a DEF OfBody
    <3> QED BY <2>3, <2>6, <2>7, <3>1, <3>2
  <2>9. CASE c = b
    <3>1. OfBody(Prompts, c)' = OfBody(Prompts, c) \cup {p} /\ p \notin OfBody(Prompts, c)
      BY <2>1, <2>2, <2>7, <2>9, <2>a DEF OfBody
    <3>2. Cardinality(OfBody(Prompts, c) \cup {p}) = Cardinality(OfBody(Prompts, c)) + 1
      BY <2>5, <3>1, FS_AddElement
    <3>3. {x \in echo' : body'[x] = c} = OfBody(echo, c) \cup {p}
          \/ {x \in echo' : body'[x] = c} = OfBody(echo, c)
      <4>1. CASE p \in echo'
        BY <2>1, <2>2, <2>9, <2>a, <4>1 DEF OfBody
      <4>2. CASE p \notin echo'
        BY <2>1, <2>2, <2>9, <2>a, <4>2 DEF OfBody
      <4> QED BY <4>1, <4>2
    <3> DEFINE E == OfBody(echo, c)
               E2 == {x \in echo' : body'[x] = c}
    <3>4. Cardinality(E \cup {p}) = IF p \in E THEN Cardinality(E) ELSE Cardinality(E) + 1
      BY <2>5, FS_AddElement
    <3>5. Cardinality(E2) <= Cardinality(E) + 1 /\ Cardinality(E2) \in Nat
      <4>1. E2 = E \cup {p} \/ E2 = E
        BY <3>3
      <4>2. Cardinality(E) \in Nat
        BY <2>5
      <4> HIDE DEF E, E2
      <4> QED BY <3>4, <4>1, <4>2
    <3>6. Cardinality(OfBody(bubble, c)) + Cardinality(E2) <= Cardinality(OfBody(Prompts, c) \cup {p})
      <4> HIDE DEF E2
      <4> QED BY <2>5, <2>6, <3>2, <3>5
    <3> QED BY <2>3, <2>7, <3>1, <3>6
  <2> QED BY <2>8, <2>9
<1>4. ASSUME NEW w \in Projectors, Ingest(w) PROVE NoDuplicateBubble'
  <2>1. projector[w].snap \in Snapshot
    BY DEF Typed, TypeOK
  <2> QED BY <1>4, <2>1, NoDuplicateProject DEF Ingest
<1>5. CASE ReplayProject
  <2>1. repair.snap \in Snapshot
    BY DEF Typed, TypeOK
  <2> QED BY <1>5, <2>1, NoDuplicateProject DEF ReplayProject
<1>6. ASSUME NEW p \in Prompts, Submit(p) PROVE UNCHANGED <<body, echo, bubble>>
  BY <1>6 DEF Submit, rows
<1>7. CASE Exit \/ Resume \/ Crash \/ Reload \/ TakePrompt \/ UsersRest
  <2>1. UNCHANGED <<body, echo, bubble>>
    BY <1>7 DEF Exit, Resume, Crash, Reload, TakePrompt, WriteDisk, rows, UsersRest
  <2> QED BY <1>1, <2>1
<1> QED BY <1>1, <1>2, <1>3, <1>4, <1>5, <1>6, <1>7, Moved DEF Moves

-----------------------------------------------------------------------------
(* The composer rows of a chat whose transcript is shown.                  *)

FewRows == \A b \in Bodies : Cardinality(OfBody(echo, b)) <= Cardinality(Unshown(b))

LEMMA EchoInit == Init => EchoInv
<1> SUFFICES ASSUME Init, NEW b \in Bodies
             PROVE  Cardinality(OfBody(echo, b)) <= Cardinality(Unshown(b))
  BY DEF EchoInv
<1>1. OfBody(echo, b) = {} /\ Unshown(b) \in SUBSET Prompts
  BY DEF Init, OfBody, Unshown
<1> QED BY <1>1, PromptsFinite, FS_EmptySet

\* Once the transcript is shown, an older one changes nothing or claims all.
LEMMA LateProject ==
  ASSUME Typed, FewRows, NEW snap \in Snapshot, Project(snap), snap.prompts \subseteq bubble,
         UNCHANGED <<body, sending>>
  PROVE  FewRows'
<1> SUFFICES ASSUME NEW b \in Bodies
             PROVE  Cardinality(OfBody(echo, b))' <= Cardinality(Unshown(b))'
  BY DEF FewRows
<1> DEFINE T == OfBody(snap.prompts, b)
           E == OfBody(echo, b)
<1>1. T \in SUBSET Prompts /\ E \in SUBSET Prompts /\ Unshown(b) \in SUBSET Prompts
      /\ T \subseteq bubble
  BY DEF OfBody, Unshown, Snapshot, Typed, TypeOK
<1>2. OfBody(echo, b)' = Reconcile(T, E)
  BY ProjectRows
<1>3. Unshown(b)' = Unshown(b)
  BY DEF Project, Unshown, OfBody
<1>4. Reconcile(T, E) = E \/ Reconcile(T, E) = {}
  BY <1>1, ReconcileCases
<1>5. Cardinality(E) <= Cardinality(Unshown(b)) /\ 0 <= Cardinality(Unshown(b))
  BY <1>1, PromptsFinite DEF FewRows
<1> QED BY <1>2, <1>3, <1>4, <1>5, FS_EmptySet

\* The transcript itself claims a row for each of its prompts.
LEMMA FullProject ==
  ASSUME Typed, SentInv, SnapInv, attached, Project(disk), UNCHANGED <<body, sending>>
  PROVE  FewRows'
<1> SUFFICES ASSUME NEW b \in Bodies
             PROVE  Cardinality(OfBody(echo, b))' <= Cardinality(Unshown(b))'
  BY DEF FewRows
<1> DEFINE T == OfBody(disk.prompts, b)
           E == OfBody(echo, b)
           S == {p \in OfBody(Prompts, b) : sending[p] \in {"echoed", "accepted", "lost"}}
           R == Reconcile(T, E)
<1>1. disk \in Snapshot
  BY DEF Typed, TypeOK
<1>2. T \in SUBSET Prompts /\ E \in SUBSET Prompts /\ S \in SUBSET Prompts
      /\ T \subseteq S /\ E \subseteq S
  BY <1>1 DEF OfBody, Snapshot, Typed, TypeOK, SentInv
<1>3. OfBody(echo, b)' = R
  BY <1>1, ProjectRows
<1>4. bubble' = disk.prompts
  BY DEF Project, SnapInv
<1>5. Unshown(b)' = S \ T
  BY <1>4 DEF Unshown, OfBody
<1>6. R # {} => Cardinality(R) + Cardinality(T) <= Cardinality(E)
  BY <1>2, ReconcileCases
<1>a. R \subseteq E
  BY <1>2, ReconcileCases
<1> HIDE DEF T, E, S, R
<1>7. /\ IsFiniteSet(S) /\ Cardinality(S) \in Nat /\ Cardinality(T) \in Nat
      /\ Cardinality(E) \in Nat /\ Cardinality(S \ T) \in Nat
  BY <1>2, PromptsFinite
<1>8. Cardinality(S \ T) = Cardinality(S) - Cardinality(T)
  <2>1. Cardinality(S \ T) = Cardinality(S) - Cardinality(S \cap T)
    BY <1>7, FS_Difference
  <2>2. S \cap T = T
    BY <1>2
  <2> QED BY <2>1, <2>2
<1>9. Cardinality(E) <= Cardinality(S)
  BY <1>2, <1>7, FS_Subset
<1>10. Cardinality(R) <= Cardinality(S \ T)
  <2>1. CASE R = {}
    BY <1>7, <2>1, FS_EmptySet
  <2>2. CASE R # {}
    <3>1. Cardinality(R) \in Nat
      BY <1>2, <1>a, PromptsFinite
    <3> QED BY <1>6, <1>7, <1>8, <1>9, <2>2, <3>1
  <2> QED BY <2>1, <2>2
<1> QED BY <1>3, <1>5, <1>10

\* A prompt written counts once on either side.
LEMMA NewPrompt ==
  ASSUME Typed, SentInv, SnapInv, FewRows, NEW p \in Prompts, NEW b \in Bodies,
         Echo(p, b) \/ Type(p, b)
  PROVE  FewRows'
<1> SUFFICES ASSUME NEW c \in Bodies
             PROVE  Cardinality(OfBody(echo, c))' <= Cardinality(Unshown(c))'
  BY DEF FewRows
<1>1. /\ body[p] = Null /\ body' = [body EXCEPT ![p] = b] /\ bubble' = bubble
      /\ sending[p] = "no" /\ echo \subseteq echo' /\ echo' \subseteq echo \cup {p}
      /\ \A x \in Prompts : x # p => sending'[x] = sending[x]
      /\ sending'[p] \in {"echoed", "accepted"}
  BY DEF Echo, Type, IsNext, SentInv, rows, Typed, TypeOK
<1>2. /\ body[p] # c /\ p \notin bubble
      /\ \A x \in Prompts : body'[x] = IF x = p THEN b ELSE body[x]
  BY <1>1, ChatAssumption DEF Typed, TypeOK, SentInv, SnapInv
<1>a. echo \in SUBSET Prompts /\ echo' \in SUBSET Prompts
  BY <1>1 DEF Typed, TypeOK
<1>3. OfBody(echo, c)' = {x \in echo' : body'[x] = c}
      /\ Unshown(c)' = {x \in Prompts : /\ body'[x] = c /\ x \notin bubble
                                        /\ sending'[x] \in {"echoed", "accepted", "lost"}}
  BY <1>1 DEF OfBody, Unshown
<1> DEFINE E == OfBody(echo, c)
           U == Unshown(c)
<1>4. IsFiniteSet(E) /\ IsFiniteSet(U) /\ Cardinality(E) \in Nat /\ Cardinality(U) \in Nat
      /\ p \notin U /\ p \notin E
  <2>1. E \in SUBSET Prompts /\ U \in SUBSET Prompts /\ p \notin U /\ p \notin E
    BY <1>2, <1>a DEF OfBody, Unshown
  <2> QED BY <2>1, PromptsFinite
<1>5. Cardinality(E) <= Cardinality(U)
  BY DEF FewRows
<1>6. CASE c # b
  <2>1. OfBody(echo, c)' = E
    BY <1>1, <1>2, <1>3, <1>6, <1>a DEF OfBody
  <2>2. Unshown(c)' = U
    BY <1>1, <1>2, <1>3, <1>6 DEF OfBody, Unshown
  <2> QED BY <1>5, <2>1, <2>2
<1>7. CASE c = b
  <2>1. OfBody(echo, c)' = E \/ OfBody(echo, c)' = E \cup {p}
    <3>1. CASE p \in echo'
      BY <1>1, <1>2, <1>3, <1>7, <1>a, <3>1 DEF OfBody
    <3>2. CASE p \notin echo'
      BY <1>1, <1>2, <1>3, <1>7, <1>a, <3>2 DEF OfBody
    <3> QED BY <3>1, <3>2
  <2>2. Unshown(c)' = U \cup {p}
    BY <1>1, <1>2, <1>3, <1>7 DEF OfBody, Unshown
  <2> HIDE DEF E, U
  <2>3. Cardinality(U \cup {p}) = Cardinality(U) + 1 /\ Cardinality(E \cup {p}) = Cardinality(E) + 1
    BY <1>4, FS_AddElement
  <2> QED BY <1>4, <1>5, <2>1, <2>2, <2>3
<1> QED BY <1>6, <1>7

LEMMA EchoStep ==
  ASSUME Typed, SentInv, SnapInv, WatchInv, EchoInv, [Next]_vars
  PROVE  EchoInv'
<1> SUFFICES ASSUME attached', ~dirty', projector'[Watcher].pc = "idle"
             PROVE  FewRows'
  BY DEF EchoInv, FewRows, UpToDate
<1>1. CASE Ingest(Watcher) /\ attached /\ ~dirty
  <2>1. projector[Watcher].snap = disk
    BY <1>1 DEF Ingest, WatchInv, UpToDate
  <2> QED BY <1>1, <2>1, FullProject DEF Ingest
<1>2. CASE Watch \/ (Persist(Watcher) /\ attached /\ ~dirty)
  BY <1>2 DEF Watch, Persist, Typed, TypeOK, Projectors
<1>3. CASE WatchRest
  <2>1. attached /\ ~dirty /\ FewRows /\ disk.prompts \subseteq bubble
    BY <1>3 DEF WatchRest, WatchInv, EchoInv, UpToDate, FewRows
  <2>2. CASE UsersRest
    BY <2>1, <2>2 DEF UsersRest, FewRows, OfBody, Unshown
  <2>3. ASSUME NEW p \in Prompts, Submit(p) PROVE FewRows'
    <3>1. sending' = [sending EXCEPT ![p] = "accepted"] /\ sending[p] = "echoed"
          /\ UNCHANGED <<body, echo, bubble>>
      BY <2>1, <2>3 DEF Submit, rows
    <3>2. \A x \in Prompts : sending'[x] \in {"echoed", "accepted", "lost"}
                               <=> sending[x] \in {"echoed", "accepted", "lost"}
      BY <3>1 DEF Typed, TypeOK
    <3>3. \A b \in Bodies : Unshown(b)' = Unshown(b) /\ OfBody(echo, b)' = OfBody(echo, b)
      BY <3>1, <3>2 DEF Unshown, OfBody
    <3> QED BY <2>1, <3>3 DEF FewRows
  <2>4. ASSUME NEW p \in Prompts, Rollback(p) PROVE FALSE
    BY <2>1, <2>4 DEF Rollback, SentInv
  <2>5. ASSUME NEW p \in Prompts, NEW b \in Bodies, Echo(p, b) \/ Type(p, b) PROVE FewRows'
    BY <2>1, <2>5, NewPrompt
  <2>6. ASSUME NEW w \in Projectors, Ingest(w) PROVE FewRows'
    <3>1. projector[w].snap \in Snapshot /\ projector[w].snap.prompts \subseteq bubble
      BY <2>1 DEF Typed, TypeOK, SnapInv, Within
    <3> QED BY <2>1, <2>6, <3>1, LateProject DEF Ingest
  <2>7. CASE ReplayProject
    <3>1. repair.snap \in Snapshot /\ repair.snap.prompts \subseteq bubble
      BY <2>1 DEF Typed, TypeOK, SnapInv, Within
    <3> QED BY <2>1, <2>7, <3>1, LateProject DEF ReplayProject
  <2>8. ~Exit /\ ~Resume /\ ~Crash /\ ~TakePrompt
    BY <2>1 DEF Exit, Resume, Crash, ChildGone, TakePrompt, WriteDisk
  <2>9. CASE Reload
    <3>1. sending' = Stranded /\ UNCHANGED <<body, echo, bubble>>
      BY <2>9 DEF Reload, rows
    <3>2. \A x \in Prompts : sending'[x] \in {"echoed", "accepted", "lost"}
                               <=> sending[x] \in {"echoed", "accepted", "lost"}
      BY <2>1, <3>1 DEF Stranded, SentInv, Typed, TypeOK
    <3>3. \A b \in Bodies : Unshown(b)' = Unshown(b) /\ OfBody(echo, b)' = OfBody(echo, b)
      BY <3>1, <3>2 DEF Unshown, OfBody
    <3> QED BY <2>1, <3>3 DEF FewRows
  <2> QED BY <2>2, <2>3, <2>4, <2>5, <2>6, <2>7, <2>8, <2>9, Moved DEF Moves
<1> QED BY <1>1, <1>2, <1>3, WatchMoves

-----------------------------------------------------------------------------

LEMMA UsersInit == Init => UsersInv
  BY TypedInit, NoDuplicateInit, SentInit, SnapInit, WatchInit, EchoInit DEF UsersInv

LEMMA UsersStep == UsersInv /\ [Next]_vars => UsersInv'
  BY TypedStep, NoDuplicateStep, SentStep, SnapStep, WatchStep, EchoStep DEF UsersInv

\* At no time does a chat show more bubbles with one text than the user wrote
\* prompts with it, whatever is sent, refused, projected, repaired or lost, for
\* every number of prompts, texts and events.
THEOREM NoBubbleTwice == Spec => []NoDuplicateBubble
<1>1. UsersInv => NoDuplicateBubble
  BY DEF UsersInv
<1> QED BY <1>1, UsersInit, UsersStep, PTL DEF Spec

\* A chat at rest shows each prompt of the transcript once, and otherwise no
\* more rows than prompts with their text that never reached the agent.
THEOREM RestShowsTheTranscript == Spec => []SettledUsers
<1>1. UsersInv => SettledUsers
  <2> SUFFICES ASSUME UsersInv, Settled
               PROVE  /\ bubble = disk.prompts
                      /\ \A b \in Bodies : Cardinality(OfBody(echo, b)) <=
                           Cardinality({p \in OfBody(Prompts, b) \ disk.prompts :
                                          sending[p] \in {"accepted", "lost"}})
    BY DEF SettledUsers
  <2>1. UpToDate /\ projector[Watcher].pc = "idle"
    BY DEF Settled, UpToDate, Projectors
  <2>2. bubble = disk.prompts
    BY <2>1 DEF UsersInv, SnapInv, WatchInv
  <2>3. ASSUME NEW b \in Bodies
        PROVE  Unshown(b) = {p \in OfBody(Prompts, b) \ disk.prompts :
                               sending[p] \in {"accepted", "lost"}}
    BY <2>2 DEF Unshown, Settled, OfBody
  <2> QED BY <2>1, <2>2, <2>3 DEF UsersInv, EchoInv
<1> QED BY <1>1, UsersInit, UsersStep, PTL DEF Spec

-----------------------------------------------------------------------------
(* The cards: what each step does to them.                                 *)

LEMMA SignalKinds ==
  ASSUME NEW x \in Signal, NEW q \in Questions
  PROVE  /\ x \in Answers(q) <=> x.kind \in Resolved /\ x.q = q
         /\ x = Pending(q) <=> x.kind = "pending" /\ x.q = q
         /\ x \in Carded <=> x.kind # "stop"
         /\ x \in Carded /\ x.q = q => x = Pending(q) \/ x \in Answers(q)
         /\ ~(x = Pending(q) /\ x \in Answers(q))
<1>1. x \in Answers(q) <=> x.kind \in Resolved /\ x.q = q
  BY ChatAssumption DEF Signal, Answers
<1>2. x = Pending(q) <=> x.kind = "pending" /\ x.q = q
  BY ChatAssumption DEF Signal, Pending
<1>3. x \in Carded <=> x.kind # "stop"
  BY ChatAssumption DEF Signal, Carded
<1>4. x \in Carded => x.kind = "pending" \/ x.kind \in Resolved
  BY DEF Carded
<1> QED BY <1>1, <1>2, <1>3, <1>4, ChatAssumption

\* Steps that leave the cards and all that moves them alone.
CardRest ==
  /\ UNCHANGED <<card, fibers, attached, leaving, asking>>
  /\ disk'.asked = disk.asked /\ disk'.done = disk.done /\ (dirty => dirty')

CardMoves ==
  \/ CardRest \/ Receive \/ Read \/ Write \/ Backfilled
  \/ Watch \/ StopWatcher \/ \E w \in Projectors : Persist(w) \/ Ingest(w)
  \/ Repair \/ Exit \/ Supersede \/ Resume \/ Crash \/ Reload
  \/ Stop \/ \E q \in Questions : Ask(q) \/ Answer(q) \/ WriteCall(q) \/ WriteResult(q)

LEMMA CardMoved == Typed /\ [Next]_vars => CardMoves
<1> SUFFICES ASSUME Typed, [Next]_vars, ~CardMoves PROVE FALSE
  OBVIOUS
<1>1. CASE UNCHANGED vars
  BY <1>1 DEF vars, CardMoves, CardRest, rows, session, agent
<1>2. CASE Sending
  BY <1>2 DEF Sending, Submit, Rollback, Echo, Type, CardMoves, CardRest, rows, session, agent
<1>3. CASE TakePrompt
  <2>1. disk'.asked = disk.asked /\ disk'.done = disk.done
    BY <1>3 DEF TakePrompt, WriteDisk, Typed, TypeOK, Snapshot
  <2> QED BY <1>3, <2>1 DEF TakePrompt, WriteDisk, CardMoves, CardRest, rows, session
<1> QED BY <1>1, <1>2, <1>3 DEF Next, Signals, Projecting, Life, Agent, CardMoves

LEMMA ReceiveEffect ==
  ASSUME Typed, Receive, NEW q \in Questions
  PROVE  /\ Head(hooks) \in Signal
         /\ Holds(hooks, Answers(q)) <=> Head(hooks) \in Answers(q) \/ Holds(hooks', Answers(q))
         /\ Holds(hooks, {Pending(q)}) <=> Head(hooks) = Pending(q) \/ Holds(hooks', {Pending(q)})
         /\ Holds(raw', Answers(q)) <=> Holds(raw, Answers(q)) \/ Head(hooks) \in Answers(q)
         /\ Holds(raw', {Pending(q)}) <=> Holds(raw, {Pending(q)}) \/ Head(hooks) = Pending(q)
<1>1. hooks \in Seq(Signal) /\ hooks # <<>> /\ hooks' = Tail(hooks) /\ raw \in Seq(Signal)
      /\ raw' = IF Head(hooks).kind # "stop" THEN Append(raw, Head(hooks)) ELSE raw
  BY DEF Receive, IsQuestion, Typed, TypeOK
<1>2. Head(hooks) \in Signal
  BY <1>1, HoldsTail
<1>3. \A S : Holds(hooks, S) <=> Head(hooks) \in S \/ Holds(hooks', S)
  BY <1>1, HoldsTail
<1>4. \A S : Holds(Append(raw, Head(hooks)), S) <=> Holds(raw, S) \/ Head(hooks) \in S
  BY <1>1, <1>2, HoldsAppend
<1>5. Head(hooks) \in Answers(q) \/ Head(hooks) = Pending(q) => Head(hooks).kind # "stop"
  BY <1>2, SignalKinds, ChatAssumption
<1>6. \A S : (\A x \in S : x.kind # "stop") =>
               (Holds(raw', S) <=> Holds(raw, S) \/ Head(hooks) \in S)
  BY <1>1, <1>4
<1>7. (\A x \in Answers(q) : x.kind # "stop") /\ (\A x \in {Pending(q)} : x.kind # "stop")
  BY ChatAssumption DEF Answers, Pending
<1>8. Holds(raw', Answers(q)) <=> Holds(raw, Answers(q)) \/ Head(hooks) \in Answers(q)
  BY <1>6, <1>7
<1>9. Holds(raw', {Pending(q)}) <=> Holds(raw, {Pending(q)}) \/ Head(hooks) \in {Pending(q)}
  BY <1>6, <1>7
<1> QED BY <1>2, <1>3, <1>8, <1>9

LEMMA HookEffect ==
  ASSUME Typed, NEW s \in Signal, Hook(s)
  PROVE  /\ UNCHANGED <<raw, signal, projector, stored, repair, missed, torn>>
         /\ \A S : Holds(hooks', S) <=> Holds(hooks, S) \/ s \in S
<1>1. hooks \in Seq(Signal) /\ hooks' = Append(hooks, s)
  BY DEF Hook, Typed, TypeOK
<1> QED BY <1>1, HoldsAppend DEF Hook, replaying

\* The signal of each of the agent's steps.
LEMMA AgentEffect ==
  ASSUME Typed, NEW q \in Questions
  PROVE  /\ Ask(q) => /\ Hook(Pending(q)) /\ Pending(q) \in Signal /\ Pending(q) \in Carded
                      /\ asking[q] = "no" /\ asking' = [asking EXCEPT ![q] = "asking"]
                      /\ UNCHANGED <<card, attached, leaving, disk, dirty>>
         /\ Answer(q) => /\ \E s \in Answers(q) : Hook(s) /\ s \in Signal
                         /\ asking[q] = "asking" /\ asking' = [asking EXCEPT ![q] = "answered"]
                         /\ UNCHANGED <<card, attached, leaving, disk, dirty>>
         /\ WriteCall(q) => /\ disk'.asked = disk.asked \cup {q} /\ disk'.done = disk.done
                            /\ asking[q] \in {"asking", "answered"} /\ dirty'
                            /\ UNCHANGED <<card, fibers, attached, leaving, asking>>
         /\ WriteResult(q) => /\ disk'.done = disk.done \cup {q} /\ disk'.asked = disk.asked
                              /\ asking[q] = "answered" /\ dirty'
                              /\ UNCHANGED <<card, fibers, attached, leaving, asking>>
<1>1. Pending(q) \in Signal /\ Pending(q) \in Carded
  BY DEF Pending, Signal, Carded
<1>2. ASSUME Ask(q)
      PROVE  /\ Hook(Pending(q)) /\ asking[q] = "no" /\ asking' = [asking EXCEPT ![q] = "asking"]
             /\ UNCHANGED <<card, attached, leaving, disk, dirty>>
  BY <1>2 DEF Ask, Pending, rows, session
<1>3. ASSUME Answer(q)
      PROVE  /\ \E s \in Answers(q) : Hook(s) /\ s \in Signal
             /\ asking[q] = "asking" /\ asking' = [asking EXCEPT ![q] = "answered"]
             /\ UNCHANGED <<card, attached, leaving, disk, dirty>>
  <2>1. PICK kind \in Resolved : Hook([kind |-> kind, q |-> q])
    BY <1>3 DEF Answer
  <2>2. [kind |-> kind, q |-> q] \in Answers(q) /\ [kind |-> kind, q |-> q] \in Signal
    BY DEF Answers, Signal
  <2> QED BY <1>3, <2>1, <2>2 DEF Answer, rows, session
<1>4. ASSUME WriteCall(q)
      PROVE  /\ disk'.asked = disk.asked \cup {q} /\ disk'.done = disk.done
             /\ asking[q] \in {"asking", "answered"} /\ dirty'
             /\ UNCHANGED <<card, fibers, attached, leaving, asking>>
  BY <1>4 DEF WriteCall, WriteDisk, Typed, TypeOK, Snapshot, rows, session
<1>5. ASSUME WriteResult(q)
      PROVE  /\ disk'.done = disk.done \cup {q} /\ disk'.asked = disk.asked
             /\ asking[q] = "answered" /\ dirty'
             /\ UNCHANGED <<card, fibers, attached, leaving, asking>>
  BY <1>5 DEF WriteResult, WriteDisk, Typed, TypeOK, Snapshot, rows, session
<1> QED BY <1>1, <1>2, <1>3, <1>4, <1>5

\* A question only goes from asked to answered, or is dropped.
LEMMA AskingMoves ==
  ASSUME Typed, CardMoves, NEW q \in Questions
  PROVE  \/ asking'[q] = asking[q]
         \/ Ask(q) \/ Answer(q)
         \/ asking[q] # "no" /\ asking'[q] = "dropped" /\ (Exit \/ Crash)
<1>1. CASE asking' = asking
  BY <1>1
<1>2. ASSUME NEW p \in Questions, Ask(p) \/ Answer(p), p # q PROVE asking'[q] = asking[q]
  BY <1>2 DEF Ask, Answer, Typed, TypeOK
<1>3. CASE Exit \/ Crash
  BY <1>3 DEF Exit, Crash, ChildGone
<1>4. CASE CardRest \/ Receive \/ Read \/ Write \/ Backfilled \/ Watch \/ StopWatcher
  BY <1>1, <1>4 DEF CardRest, Receive, Read, Write, Backfilled, Watch, StopWatcher, agent
<1>5. ASSUME NEW w \in Projectors, Persist(w) \/ Ingest(w) PROVE asking' = asking
  BY <1>5 DEF Persist, Ingest, agent
<1>6. CASE Repair
  BY <1>1, <1>6 DEF Repair, DeleteRequests, LoadRaw, ReplayRead, ReplayWrite, LoadStored, RepairFails,
                    ReplayProject, agent
<1>7. CASE Supersede \/ Resume \/ Stop \/ Reload
  BY <1>1, <1>7 DEF Supersede, Resume, Stop, Reload, agent
<1>8. ASSUME NEW p \in Questions, WriteCall(p) \/ WriteResult(p) PROVE asking' = asking
  BY <1>8, AgentEffect
<1> QED BY <1>1, <1>2, <1>3, <1>4, <1>5, <1>6, <1>7, <1>8 DEF CardMoves

LEMMA UpsertEffect ==
  ASSUME card \in [Questions -> CardState], NEW s \in Carded, NEW prev \in CardState,
         Upsert(s.q, prev, s.kind), NEW q \in Questions
  PROVE  /\ s.q # q => card'[q] = card[q]
         /\ card[q] # "none" => card'[q] # "none"
         /\ s.q = q /\ prev = "none" => card'[q] = IF card[q] = "none" THEN s.kind ELSE card[q]
         /\ s.q = q /\ prev # "none" /\ card[q] # "none" => card'[q] = Merge(prev, s.kind)
         /\ s.q = q /\ prev # "none" /\ card[q] = "none" => card'[q] = "none"
<1>1. s.q \in Questions /\ s.kind # "none"
  BY ChatAssumption DEF Carded
<1>2. prev # "none" => Merge(prev, s.kind) # "none"
  BY <1>1 DEF Merge
<1> QED BY <1>1, <1>2 DEF Upsert

LEMMA ProjectEffect ==
  ASSUME card \in [Questions -> CardState], NEW snap \in Snapshot, Project(snap), NEW q \in Questions
  PROVE  /\ card[q] # "none" => card'[q] # "none"
         /\ card[q] \in Resolved => card'[q] \in Resolved
         /\ q \in snap.asked /\ q \in snap.done => card'[q] \in Resolved
         /\ q \notin snap.asked => card'[q] = card[q]
         /\ q \notin snap.done /\ card[q] \notin Resolved => card'[q] \in {"pending", card[q]}
  BY ChatAssumption DEF Project, Merge

LEMMA LeavingInit == Init => LeavingInv
  BY DEF Init, LeavingInv

LEMMA LeavingStep ==
  ASSUME Typed, LeavingInv, [Next]_vars
  PROVE  LeavingInv'
<1>1. CASE UNCHANGED <<attached, leaving>> /\ ~Exit /\ ~Crash
  <2>2. ASSUME ~attached PROVE \A q \in Questions : ~Ask(q) /\ ~Answer(q)
    BY <2>2 DEF Ask, Answer
  <2> QED BY <1>1, <2>2, AskingMoves, CardMoved DEF LeavingInv
<1>2. CASE Exit \/ Crash
  BY <1>2 DEF Exit, Crash, ChildGone, LeavingInv
<1>3. CASE Supersede
  BY <1>3 DEF Supersede, LeavingInv, agent
<1>4. CASE Resume
  BY <1>4 DEF Resume, LeavingInv
<1>5. ASSUME ~(UNCHANGED <<attached, leaving>>) PROVE Exit \/ Crash \/ Supersede \/ Resume
  <2>1. ~Repair
    BY <1>5 DEF Repair, DeleteRequests, LoadRaw, ReplayRead, ReplayWrite, LoadStored, RepairFails,
                ReplayProject, session
  <2>2. ASSUME NEW w \in Projectors, Persist(w) \/ Ingest(w) PROVE FALSE
    BY <1>5, <2>2 DEF Persist, Ingest, session
  <2>3. ASSUME NEW q \in Questions, Ask(q) \/ Answer(q) \/ WriteCall(q) \/ WriteResult(q) PROVE FALSE
    BY <1>5, <2>3, AgentEffect
  <2>4. ~Receive /\ ~Read /\ ~Write /\ ~Backfilled /\ ~Watch /\ ~StopWatcher /\ ~Stop
        /\ ~CardRest /\ ~Reload
    BY <1>5 DEF Receive, Read, Write, Backfilled, Watch, StopWatcher, Stop, CardRest, Reload, session
  <2> QED BY <2>1, <2>2, <2>3, <2>4, CardMoved DEF CardMoves
<1> QED BY <1>1, <1>2, <1>3, <1>4, <1>5

-----------------------------------------------------------------------------
(* Questions that are not answered.                                        *)

LEMMA FreshInit == Init => FreshInv /\ UnaskedInv /\ ReplayInv
  BY HoldsEmpty DEF Init, FreshInv, UnaskedInv, ReplayInv, Fresh, Unasked, Nothing, IdleSignal, IdleRepair

LEMMA FreshSignals ==
  ASSUME Typed, NEW q \in Questions, Fresh(q), Signals
  PROVE  Fresh(q)' /\ (Unasked(q) => Unasked(q)')
<1>1. CASE Receive
  <2>1. /\ Head(hooks) \notin Answers(q) /\ ~Holds(hooks', Answers(q)) /\ ~Holds(raw', Answers(q))
        /\ Unasked(q) => /\ Head(hooks) # Pending(q) /\ ~Holds(hooks', {Pending(q)})
                         /\ ~Holds(raw', {Pending(q)})
    BY <1>1, ReceiveEffect DEF Fresh, Unasked
  <2>2. /\ signal' = [pc |-> "read", of |-> Head(hooks), prev |-> Null]
        /\ UNCHANGED <<card, repair, disk>>
    BY <1>1 DEF Receive, rows, agent, replaying
  <2> QED BY <2>1, <2>2 DEF Fresh, Unasked
<1>2. CASE Read
  <2>1. /\ signal.pc = "read" /\ signal'.of = signal.of
        /\ signal'.pc = "write" => signal'.prev = card[signal.of.q]
        /\ UNCHANGED <<card, hooks, raw, repair, disk>>
    BY <1>2 DEF Read, rows, agent, replaying, Typed, TypeOK
  <2> QED BY <2>1 DEF Fresh, Unasked
<1>3. CASE Write
  <2>1. /\ signal.of \in Carded /\ signal.of \in Signal /\ signal.prev \in CardState
        /\ card \in [Questions -> CardState] /\ signal' = IdleSignal
        /\ Upsert(signal.of.q, signal.prev, signal.of.kind) /\ signal.pc = "write"
        /\ UNCHANGED <<hooks, raw, repair, disk>>
    BY <1>3 DEF Write, Typed, TypeOK, agent
  <2>2. CASE signal.of.q # q
    BY <2>1, <2>2, UpsertEffect DEF Fresh, Unasked, IdleSignal
  <2>3. CASE signal.of.q = q
    <3>1. signal.of = Pending(q) /\ signal.of.kind = "pending" /\ signal.prev \in {"none", "pending"}
      BY <2>1, <2>3, SignalKinds DEF Fresh
    <3>2. card'[q] \in {"none", "pending"}
      BY <2>1, <2>3, <3>1, UpsertEffect, ChatAssumption DEF Merge, Fresh
    <3> QED BY <2>1, <3>1, <3>2 DEF Fresh, Unasked, IdleSignal
  <2> QED BY <2>2, <2>3
<1>4. CASE Backfilled
  BY <1>4 DEF Backfilled, rows, agent, replaying, Fresh, Unasked, IdleSignal
<1> QED BY <1>1, <1>2, <1>3, <1>4 DEF Signals

LEMMA FreshProject ==
  ASSUME Typed, NEW q \in Questions, Fresh(q), NEW snap \in Snapshot, Project(snap), Within(snap)
  PROVE  /\ card'[q] \in {"none", "pending"}
         /\ Unasked(q) => card'[q] = "none"
  BY SMTT(60), ProjectEffect, ChatAssumption DEF Fresh, Unasked, Within, Typed, TypeOK

LEMMA FreshRepair ==
  ASSUME Typed, SnapInv, NEW q \in Questions, Fresh(q), Repair
  PROVE  Fresh(q)' /\ (Unasked(q) => Unasked(q)')
<1>1. CASE DeleteRequests
  BY <1>1 DEF DeleteRequests, agent, Fresh, Unasked, Typed, TypeOK
<1>2. CASE LoadRaw
  BY <1>2 DEF LoadRaw, rows, agent, Fresh, Unasked, Typed, TypeOK
<1>3. CASE ReplayRead
  BY <1>3 DEF ReplayRead, rows, agent, Fresh, Unasked, Typed, TypeOK
<1>4. CASE ReplayWrite
  <2> DEFINE h == Head(repair.todo)
             t == Tail(repair.todo)
  <2>1. /\ h \in Carded /\ h \in Signal
        /\ \A S : Holds(repair.todo, S) <=> h \in S \/ Holds(t, S)
    BY <1>4, HoldsTail DEF ReplayWrite, Typed, TypeOK
  <2>2. /\ repair.prev \in CardState /\ card \in [Questions -> CardState]
        /\ Upsert(h.q, repair.prev, h.kind) /\ repair.pc = "write"
        /\ repair'.pc = "replay" /\ repair'.todo = t
        /\ UNCHANGED <<hooks, raw, signal, disk>>
    BY <1>4 DEF ReplayWrite, Typed, TypeOK, agent
  <2>3. ~Holds(t, Answers(q)) /\ h \notin Answers(q)
        /\ (Unasked(q) => ~Holds(t, {Pending(q)}) /\ h # Pending(q))
    BY <2>1 DEF Fresh, Unasked
  <2>4. h.q = q => repair.prev \in {"none", "pending"}
    BY <2>2 DEF Fresh
  <2> HIDE DEF h, t
  <2>5. CASE h.q # q
    <3>1. card'[q] = card[q]
      BY <2>1, <2>2, <2>5, UpsertEffect
    <3> QED BY <2>2, <2>3, <3>1 DEF Fresh, Unasked
  <2>6. CASE h.q = q
    <3>1. h = Pending(q) /\ h.kind = "pending" /\ repair.prev \in {"none", "pending"}
      BY <2>1, <2>3, <2>4, <2>6, SignalKinds
    <3>2. card'[q] \in {"none", "pending"}
      BY <2>1, <2>2, <2>6, <3>1, UpsertEffect, ChatAssumption DEF Merge, Fresh
    <3> QED BY <2>2, <2>3, <3>1, <3>2 DEF Fresh, Unasked
  <2> QED BY <2>5, <2>6
<1>5. CASE LoadStored
  BY <1>5 DEF LoadStored, rows, agent, Fresh, Unasked, Typed, TypeOK
<1>6. CASE ReplayProject
  <2>1. repair.snap \in Snapshot /\ Within(repair.snap)
    BY DEF Typed, TypeOK, SnapInv
  <2>2. card'[q] \in {"none", "pending"} /\ (Unasked(q) => card'[q] = "none")
    BY <1>6, <2>1, FreshProject DEF ReplayProject
  <2> QED BY <1>6, <2>2, HoldsEmpty DEF ReplayProject, agent, Fresh, Unasked, IdleRepair
<1>7. CASE RepairFails
  BY <1>7, HoldsEmpty DEF RepairFails, rows, agent, Fresh, Unasked, IdleRepair
<1> QED BY <1>1, <1>2, <1>3, <1>4, <1>5, <1>6, <1>7 DEF Repair

LEMMA FreshRest ==
  ASSUME Typed, SnapInv, LeavingInv, NEW q \in Questions, Fresh(q), asking[q] = "no" => Unasked(q),
         asking[q] \in {"no", "asking"}, asking'[q] \in {"no", "asking"},
         CardMoves, ~Signals, ~Repair
  PROVE  Fresh(q)' /\ (asking'[q] = "no" => Unasked(q)')
<1>0. asking'[q] = "no" => asking[q] = "no"
  BY AskingMoves, AgentEffect DEF Typed, TypeOK
<1>1. CASE CardRest
  BY <1>0, <1>1 DEF CardRest, fibers, replaying, Fresh, Unasked
<1>2. CASE Watch \/ StopWatcher \/ Resume
  BY <1>0, <1>2 DEF Watch, StopWatcher, Resume, rows, fibers, replaying, agent, Fresh, Unasked
<1>3. ASSUME NEW w \in Projectors, Persist(w)
      PROVE  Fresh(q)' /\ (asking'[q] = "no" => Unasked(q)')
  BY <1>0, <1>3 DEF Persist, rows, agent, replaying, Fresh, Unasked
<1>4. ASSUME NEW w \in Projectors, Ingest(w)
      PROVE  Fresh(q)' /\ (asking'[q] = "no" => Unasked(q)')
  <2>1. projector[w].snap \in Snapshot /\ Within(projector[w].snap)
    BY DEF Typed, TypeOK, SnapInv
  <2>2. card'[q] \in {"none", "pending"} /\ (Unasked(q) => card'[q] = "none")
    BY <1>4, <2>1, FreshProject DEF Ingest
  <2> QED BY <1>0, <1>4, <2>2 DEF Ingest, agent, replaying, Fresh, Unasked
<1>5. CASE Exit
  BY <1>0, <1>5 DEF Exit, ChildGone, rows, fibers, replaying, Fresh, Unasked
<1>6. CASE Supersede
  <2>1. asking[q] = "no" /\ card[q] = "none"
    BY <1>6 DEF Supersede, LeavingInv, Unasked
  <2> QED BY <1>6, <2>1 DEF Supersede, fibers, replaying, agent, Fresh, Unasked
<1>7. CASE Crash
  BY <1>0, <1>7, HoldsEmpty DEF Crash, ChildGone, rows, IdleSignal, IdleRepair, Fresh, Unasked
<1>8. CASE Stop
  <2>1. [kind |-> "stop", q |-> Null] \in Signal /\ Hook([kind |-> "stop", q |-> Null])
    BY <1>8 DEF Stop, Signal
  <2>2. [kind |-> "stop", q |-> Null] \notin Answers(q) /\ [kind |-> "stop", q |-> Null] # Pending(q)
    BY ChatAssumption DEF Answers, Pending
  <2> QED BY <1>0, <1>8, <2>1, <2>2, HookEffect DEF Stop, rows, agent, Fresh, Unasked
<1>9. ASSUME NEW p \in Questions, Ask(p)
      PROVE  Fresh(q)' /\ (asking'[q] = "no" => Unasked(q)')
  <2>1. Pending(p) \notin Answers(q) /\ (asking'[q] = "no" => Pending(p) # Pending(q))
    BY <1>9, AgentEffect, ChatAssumption DEF Answers, Pending, Typed, TypeOK
  <2> QED BY <1>0, <1>9, <2>1, AgentEffect, HookEffect DEF Fresh, Unasked
<1>10. ASSUME NEW p \in Questions, Answer(p)
       PROVE  Fresh(q)' /\ (asking'[q] = "no" => Unasked(q)')
  <2>1. p # q
    BY <1>10, AgentEffect DEF Typed, TypeOK
  <2>2. PICK s \in Answers(p) : Hook(s) /\ s \in Signal
    BY <1>10, AgentEffect
  <2>3. s \notin Answers(q) /\ s # Pending(q)
    BY <2>1, <2>2, SignalKinds
  <2> QED BY <1>0, <1>10, <2>2, <2>3, AgentEffect, HookEffect DEF Fresh, Unasked
<1>11. ASSUME NEW p \in Questions, WriteCall(p) \/ WriteResult(p)
       PROVE  Fresh(q)' /\ (asking'[q] = "no" => Unasked(q)')
  <2>1. asking[p] \in {"asking", "answered"} /\ (WriteResult(p) => asking[p] = "answered")
    BY <1>11, AgentEffect
  <2> QED BY <1>0, <1>11, <2>1, AgentEffect DEF fibers, replaying, Fresh, Unasked
<1>12. CASE Reload
  BY <1>0, <1>12, HoldsEmpty DEF Reload, rows, agent, IdleRepair, Fresh, Unasked
<1> QED BY <1>1, <1>2, <1>3, <1>4, <1>5, <1>6, <1>7, <1>8, <1>9, <1>10, <1>11, <1>12
        DEF CardMoves, Signals

LEMMA FreshStep ==
  ASSUME Typed, SnapInv, LeavingInv, FreshInv, UnaskedInv, [Next]_vars
  PROVE  FreshInv' /\ UnaskedInv'
<1>1. SUFFICES ASSUME NEW q \in Questions, asking'[q] \in {"no", "asking"}
               PROVE  Fresh(q)' /\ (asking'[q] = "no" => Unasked(q)')
  BY DEF FreshInv, UnaskedInv, Fresh, Unasked
<1>2. CardMoves
  BY CardMoved
<1>3. asking[q] \in {"no", "asking"} /\ (asking'[q] = "no" => asking[q] = "no")
  BY <1>1, <1>2, AskingMoves, AgentEffect DEF Typed, TypeOK
<1>4. Fresh(q) /\ (asking[q] = "no" => Unasked(q))
  BY <1>3 DEF FreshInv, UnaskedInv, Fresh, Unasked
<1>5. CASE Signals
  BY <1>3, <1>4, <1>5, FreshSignals
<1>6. CASE Repair
  BY <1>3, <1>4, <1>6, FreshRepair
<1> QED BY <1>1, <1>2, <1>3, <1>4, <1>5, <1>6, FreshRest

-----------------------------------------------------------------------------
(* The cards of questions the agent waits on.                              *)

\* Only the repair deletes a card.
LEMMA CardStays ==
  ASSUME Typed, CardMoves, ~DeleteRequests, NEW q \in Questions, card[q] # "none"
  PROVE  card'[q] # "none"
<1>1. CASE UNCHANGED card
  BY <1>1
<1>2. CASE Write
  BY <1>2, UpsertEffect DEF Write, Typed, TypeOK
<1>3. CASE ReplayWrite
  <2>1. Head(repair.todo) \in Carded
    BY <1>3, HoldsTail DEF ReplayWrite, Typed
  <2> QED BY <1>3, <2>1, UpsertEffect DEF ReplayWrite, Typed, TypeOK
<1>4. ASSUME NEW w \in Projectors, Ingest(w) PROVE card'[q] # "none"
  <2>1. projector[w].snap \in Snapshot
    BY DEF Typed, TypeOK
  <2> QED BY <1>4, <2>1, ProjectEffect DEF Ingest, Typed, TypeOK
<1>5. CASE ReplayProject
  <2>1. repair.snap \in Snapshot
    BY DEF Typed, TypeOK
  <2> QED BY <1>5, <2>1, ProjectEffect DEF ReplayProject, Typed, TypeOK
<1>6. CASE Supersede
  BY <1>6 DEF Supersede, Typed, TypeOK
<1>7. ASSUME NEW p \in Questions, Ask(p) \/ Answer(p) \/ WriteCall(p) \/ WriteResult(p)
      PROVE  UNCHANGED card
  BY <1>7, AgentEffect
<1>8. CASE LoadRaw \/ ReplayRead \/ LoadStored \/ RepairFails \/ Receive \/ Read \/ Backfilled
  BY <1>1, <1>8 DEF LoadRaw, ReplayRead, LoadStored, RepairFails, Receive, Read, Backfilled, rows
<1>9. CASE CardRest \/ Watch \/ StopWatcher \/ Exit \/ Resume \/ Crash \/ Reload \/ Stop
  BY <1>1, <1>9 DEF CardRest, Watch, StopWatcher, Exit, Resume, Crash, Reload, Stop, rows
<1>10. ASSUME NEW w \in Projectors, Persist(w) PROVE UNCHANGED card
  BY <1>10 DEF Persist, rows
<1> QED BY <1>1, <1>2, <1>3, <1>4, <1>5, <1>6, <1>7, <1>8, <1>9, <1>10 DEF CardMoves, Repair

\* The steps of the repair, and those that leave it alone.
LEMMA RepairMoves ==
  ASSUME Typed, CardMoves
  PROVE  \/ repair' = repair /\ ~Repair
         \/ Repair
         \/ (Crash \/ Reload) /\ repair' = IdleRepair
<1> SUFFICES ASSUME ~Repair, ~Crash, ~Reload PROVE repair' = repair
  BY DEF Crash, Reload
<1>1. CASE CardRest \/ Receive \/ Read \/ Write \/ Backfilled \/ Watch \/ StopWatcher
  BY <1>1 DEF CardRest, Receive, Read, Write, Backfilled, Watch, StopWatcher, fibers, replaying
<1>2. CASE Exit \/ Supersede \/ Resume
  BY <1>2 DEF Exit, Supersede, Resume, fibers, replaying
<1>3. ASSUME NEW w \in Projectors, Persist(w) \/ Ingest(w) PROVE repair' = repair
  BY <1>3 DEF Persist, Ingest, replaying
<1>4. CASE Stop
  BY <1>4 DEF Stop, Hook, replaying
<1>5. ASSUME NEW p \in Questions, Ask(p) \/ Answer(p) \/ WriteCall(p) \/ WriteResult(p)
      PROVE  repair' = repair
  BY <1>5, AgentEffect, HookEffect DEF fibers, replaying
<1> QED BY <1>1, <1>2, <1>3, <1>4, <1>5 DEF CardMoves

LEMMA ReplayStep ==
  ASSUME Typed, ReplayInv, [Next]_vars
  PROVE  ReplayInv'
<1>1. CardMoves
  BY CardMoved
<1>2. CASE ReplayRead
  BY <1>2 DEF ReplayRead, ReplayInv, Typed, TypeOK, rows
<1>3. CASE repair' = repair /\ ~Repair
  <2> SUFFICES ASSUME repair.pc = "write", repair.prev # "none"
               PROVE  card'[Head(repair.todo).q] # "none"
    BY <1>3 DEF ReplayInv
  <2>1. Head(repair.todo) \in Carded
    BY HoldsTail DEF Typed
  <2>2. Head(repair.todo).q \in Questions /\ card[Head(repair.todo).q] # "none"
    BY <2>1 DEF ReplayInv, Carded
  <2> QED BY <1>1, <1>3, <2>2, CardStays DEF Repair
<1>4. CASE Crash \/ Reload \/ RepairFails
  BY <1>4 DEF Crash, Reload, RepairFails, IdleRepair, ReplayInv
<1>5. CASE DeleteRequests \/ LoadRaw \/ ReplayWrite \/ LoadStored \/ ReplayProject
  <2>1. CASE DeleteRequests \/ LoadRaw \/ LoadStored
    <3>1. repair'.pc # "write"
      BY <2>1 DEF DeleteRequests, LoadRaw, LoadStored, Typed, TypeOK
    <3> QED BY <3>1 DEF ReplayInv
  <2>2. CASE ReplayWrite
    <3>1. repair'.pc # "write"
      BY <2>2 DEF ReplayWrite, Typed, TypeOK
    <3> QED BY <3>1 DEF ReplayInv
  <2>3. CASE ReplayProject
    <3>1. repair'.pc # "write"
      BY <2>3 DEF ReplayProject, IdleRepair
    <3> QED BY <3>1 DEF ReplayInv
  <2> QED BY <1>5, <2>1, <2>2, <2>3
<1> QED BY <1>1, <1>2, <1>3, <1>4, <1>5, RepairMoves DEF Repair

\* Where the signal of a question or of its answer is.
LEMMA SignalMoves ==
  ASSUME Typed, CardMoves
  PROVE  \/ UNCHANGED <<hooks, raw, signal>> /\ ~Signals
         \/ UNCHANGED <<raw, signal>> /\ \E s \in Signal :
              Hook(s) /\ \A q \in Questions : s = Pending(q) => asking[q] = "no" /\ asking'[q] = "asking"
         \/ Signals
         \/ Crash
<1> DEFINE Sends == UNCHANGED <<raw, signal>> /\ \E s \in Signal :
              Hook(s) /\ \A q \in Questions : s = Pending(q) => asking[q] = "no" /\ asking'[q] = "asking"
<1> SUFFICES ASSUME ~Signals, ~Crash
             PROVE  UNCHANGED <<hooks, raw, signal>> \/ Sends
  OBVIOUS
<1>1. CASE CardRest \/ Watch \/ StopWatcher \/ Exit \/ Supersede \/ Resume \/ Reload
  BY <1>1 DEF CardRest, Watch, StopWatcher, Exit, Supersede, Resume, Reload, fibers
<1>2. ASSUME NEW w \in Projectors, Persist(w) \/ Ingest(w) PROVE UNCHANGED <<hooks, raw, signal>>
  BY <1>2 DEF Persist, Ingest
<1>3. CASE Stop
  <2>1. [kind |-> "stop", q |-> Null] \in Signal /\ Hook([kind |-> "stop", q |-> Null])
    BY <1>3 DEF Stop, Signal
  <2>2. \A q \in Questions : [kind |-> "stop", q |-> Null] # Pending(q)
    BY DEF Pending
  <2> QED BY <2>1, <2>2, HookEffect
<1>4. ASSUME NEW p \in Questions, Ask(p) PROVE Sends
  <2>1. /\ Hook(Pending(p)) /\ Pending(p) \in Signal
        /\ asking[p] = "no" /\ asking' = [asking EXCEPT ![p] = "asking"]
    BY <1>4, AgentEffect
  <2>2. ASSUME NEW q \in Questions, Pending(p) = Pending(q)
        PROVE  asking[q] = "no" /\ asking'[q] = "asking"
    <3>1. p = q
      BY <2>2 DEF Pending
    <3> QED BY <2>1, <3>1 DEF Typed, TypeOK
  <2> QED BY <2>1, <2>2, HookEffect
<1>5. ASSUME NEW p \in Questions, Answer(p) PROVE Sends
  <2>1. PICK s \in Answers(p) : Hook(s) /\ s \in Signal
    BY <1>5, AgentEffect
  <2>2. \A q \in Questions : s # Pending(q)
    BY <2>1, SignalKinds, ChatAssumption DEF Pending
  <2> QED BY <2>1, <2>2, HookEffect
<1>6. ASSUME NEW p \in Questions, WriteCall(p) \/ WriteResult(p) PROVE UNCHANGED <<hooks, raw, signal>>
  BY <1>6, AgentEffect DEF fibers
<1>7. CASE Repair
  BY <1>7 DEF Repair, DeleteRequests, LoadRaw, ReplayRead, ReplayWrite, LoadStored, RepairFails, ReplayProject
<1> QED BY <1>1, <1>2, <1>3, <1>4, <1>5, <1>6, <1>7 DEF CardMoves, Signals

LEMMA PendingInit == Init => PendingInv /\ AnswerInv /\ LostInv /\ DueInv
  BY DEF Init, PendingInv, AnswerInv, LostInv, DueInv, Answered, Nothing, IdleSignal, Follows

\* A card is torn by a repair that is cut short, and mended by a projection.
LEMMA TornMoves ==
  ASSUME Typed, CardMoves
  PROVE  \/ torn' = torn
         \/ \E w \in Projectors : Ingest(w) /\ torn' = torn \ Tells(projector[w].snap)
         \/ (RepairFails \/ Reload) /\ repair.pc # "idle" /\ torn' = Questions
<1>1. CASE CardRest \/ Receive \/ Read \/ Write \/ Backfilled \/ Watch \/ StopWatcher
  BY <1>1 DEF CardRest, Receive, Read, Write, Backfilled, Watch, StopWatcher, fibers, replaying
<1>2. CASE Exit \/ Supersede \/ Resume \/ Crash
  BY <1>2 DEF Exit, Supersede, Resume, Crash, fibers, replaying
<1>3. ASSUME NEW w \in Projectors, Persist(w) PROVE torn' = torn
  BY <1>3 DEF Persist, replaying
<1>4. ASSUME NEW w \in Projectors, Ingest(w) PROVE torn' = torn \ Tells(projector[w].snap)
  BY <1>4 DEF Ingest
<1>5. CASE Stop
  BY <1>5 DEF Stop, Hook, replaying
<1>6. ASSUME NEW p \in Questions, Ask(p) \/ Answer(p) \/ WriteCall(p) \/ WriteResult(p)
      PROVE  torn' = torn
  BY <1>6, AgentEffect, HookEffect DEF fibers, replaying
<1>7. CASE DeleteRequests \/ LoadRaw \/ ReplayRead \/ ReplayWrite \/ LoadStored \/ ReplayProject
  BY <1>7 DEF DeleteRequests, LoadRaw, ReplayRead, ReplayWrite, LoadStored, ReplayProject
<1>8. CASE RepairFails \/ Reload
  BY <1>8 DEF RepairFails, Reload, CutShort
<1> QED BY <1>1, <1>2, <1>3, <1>4, <1>5, <1>6, <1>7, <1>8 DEF CardMoves, Repair

\* The hook of a question stays underway or in the log until a crash.
LEMMA SentStays ==
  ASSUME Typed, CardMoves, ~Crash, NEW q \in Questions, Sent(q)
  PROVE  Sent(q)'
<1>1. CASE Receive
  BY <1>1, ReceiveEffect DEF Sent
<1>2. CASE Read \/ Write \/ Backfilled
  BY <1>2 DEF Read, Write, Backfilled, Sent
<1>3. ASSUME UNCHANGED <<raw, signal>>, NEW s \in Signal, Hook(s) PROVE Sent(q)'
  BY <1>3, HookEffect DEF Sent
<1>4. CASE UNCHANGED <<hooks, raw, signal>>
  BY <1>4 DEF Sent
<1> QED BY <1>1, <1>2, <1>3, <1>4, SignalMoves DEF Signals

LEMMA PendingStep ==
  ASSUME Typed, SnapInv, FreshInv, ReplayInv, PendingInv, FreshInv', [Next]_vars
  PROVE  PendingInv'
<1>0. CardMoves
  BY CardMoved
<1> SUFFICES ASSUME NEW q \in Questions, asking'[q] = "asking"
             PROVE  Sent(q)' /\ (q \in torn' \/ card'[q] = "pending" \/ OnItsWay(q)')
  BY DEF PendingInv, Sent, OnItsWay
<1>1. CASE Ask(q)
  <2>1. Holds(hooks', {Pending(q)})
    BY <1>1, AgentEffect, HookEffect
  <2> QED BY <2>1 DEF Sent, OnItsWay
<1>2. CASE ~Ask(q)
  <2>1. asking[q] = "asking" /\ ~Crash
    BY ZenonT(60), <1>0, <1>2, AskingMoves, AgentEffect DEF Crash, ChildGone, Typed, TypeOK
  <2>a. Fresh(q) /\ Sent(q) /\ Sent(q)' /\ (q \in torn \/ card[q] = "pending" \/ OnItsWay(q))
    BY <1>0, <2>1, SentStays DEF FreshInv, Fresh, PendingInv, Sent, OnItsWay
  <2>b. CASE q \in torn'
    BY <2>a, <2>b
  <2>c. CASE q \in torn /\ q \notin torn'
    <3>1. PICK w \in Projectors : Ingest(w) /\ q \in Tells(projector[w].snap)
      BY <1>0, <2>c, TornMoves
    <3>2. projector[w].snap \in Snapshot /\ projector[w].snap.done \subseteq disk.done
          /\ q \in projector[w].snap.asked
      BY <3>1 DEF Typed, TypeOK, SnapInv, Within, Tells
    <3>3. card[q] \in {"none", "pending"} /\ q \notin projector[w].snap.done
      BY <2>a, <3>2 DEF Fresh
    <3>4. card'[q] = "pending"
      BY <3>1, <3>2, <3>3, ChatAssumption DEF Ingest, Project, Merge
    <3> QED BY <2>a, <3>4
  <2>d. CASE RepairFails \/ Reload
    <3>1. \/ q \in torn'
          \/ repair.pc = "idle" /\ UNCHANGED <<torn, card, hooks, raw, signal>>
      BY <2>d DEF RepairFails, Reload, CutShort, rows
    <3> QED BY <2>a, <3>1 DEF OnItsWay
  <2> SUFFICES ASSUME q \notin torn, ~RepairFails, ~Reload
               PROVE  Sent(q)' /\ (card'[q] = "pending" \/ OnItsWay(q)')
    BY <2>b, <2>c, <2>d
  <2>2. Fresh(q) /\ Sent(q) /\ (card[q] = "pending" \/ OnItsWay(q))
    BY <2>a
  <2>3. card'[q] \in {"none", "pending"} /\ card[q] \in {"none", "pending"}
    BY <2>2 DEF FreshInv, Fresh
  <2>4. card[q] = "pending" /\ ~DeleteRequests => card'[q] = "pending"
    BY <1>0, <2>3, CardStays
  <2>5. CASE Receive
    <3>1. /\ Holds(hooks, {Pending(q)}) <=> Head(hooks) = Pending(q) \/ Holds(hooks', {Pending(q)})
          /\ Holds(raw', {Pending(q)}) <=> Holds(raw, {Pending(q)}) \/ Head(hooks) = Pending(q)
      BY <2>5, ReceiveEffect
    <3>2. signal' = [pc |-> "read", of |-> Head(hooks), prev |-> Null] /\ signal.pc = "idle"
          /\ UNCHANGED <<card, repair>>
      BY <2>5 DEF Receive, rows, replaying
    <3> QED BY <2>2, <3>1, <3>2 DEF Sent, OnItsWay
  <2>6. CASE Read
    <3>1. signal.of = Pending(q) => signal.of.kind # "stop" /\ signal.of.q = q
      BY DEF Pending
    <3>2. /\ UNCHANGED <<hooks, raw, card, repair>> /\ signal.pc = "read"
          /\ signal.of.kind # "stop" => signal'.of = signal.of /\ signal'.pc = "write"
                                        /\ signal'.prev = card[signal.of.q]
      BY <2>6 DEF Read, rows, replaying, Typed, TypeOK
    <3> QED BY <2>2, <2>3, <3>1, <3>2 DEF Sent, OnItsWay
  <2>7. CASE Write
    <3>1. UNCHANGED <<hooks, raw, repair>> /\ signal.pc = "write"
      BY <2>7 DEF Write
    <3>2. ASSUME signal.of = Pending(q), signal.prev = "none" PROVE card'[q] # "none"
      <4>1. /\ signal.of \in Carded /\ signal.prev \in CardState /\ card \in [Questions -> CardState]
            /\ Upsert(signal.of.q, signal.prev, signal.of.kind)
        BY <2>7 DEF Write, Typed, TypeOK
      <4>2. signal.of.q = q /\ signal.of.kind = "pending"
        BY <3>2 DEF Pending
      <4> QED BY <3>2, <4>1, <4>2, UpsertEffect
    <3>3. ~DeleteRequests
      BY <2>7 DEF Write, DeleteRequests, IdleSignal
    <3> QED BY <2>2, <2>3, <2>4, <3>1, <3>2, <3>3 DEF Sent, OnItsWay
  <2>8. CASE Backfilled
    BY <2>2, <2>8 DEF Backfilled, rows, replaying, Sent, OnItsWay
  <2>9. CASE DeleteRequests
    <3>1. repair'.pc = "deleted" /\ UNCHANGED <<hooks, raw>>
      BY <2>9 DEF DeleteRequests, Typed, TypeOK
    <3> QED BY <2>2, <3>1 DEF Sent, OnItsWay
  <2>10. CASE LoadRaw
    <3>1. /\ repair'.pc = "replay" /\ repair'.todo = raw /\ repair.pc = "deleted"
          /\ UNCHANGED <<hooks, raw, signal, card>>
      BY <2>10 DEF LoadRaw, Typed, TypeOK, rows
    <3> QED BY <2>2, <3>1 DEF Sent, OnItsWay
  <2>11. CASE ReplayRead
    <3>1. /\ repair'.pc = "write" /\ repair'.todo = repair.todo /\ repair.pc = "replay"
          /\ UNCHANGED <<hooks, raw, signal, card>>
      BY <2>11 DEF ReplayRead, Typed, TypeOK, rows
    <3> QED BY <2>2, <3>1 DEF Sent, OnItsWay
  <2>12. CASE ReplayWrite
    <3> DEFINE h == Head(repair.todo)
               t == Tail(repair.todo)
    <3>1. h \in Carded /\ (Holds(repair.todo, {Pending(q)}) <=> h = Pending(q) \/ Holds(t, {Pending(q)}))
      BY <2>12, HoldsTail DEF ReplayWrite, Typed, TypeOK
    <3>2. /\ repair.prev \in CardState /\ card \in [Questions -> CardState]
          /\ Upsert(h.q, repair.prev, h.kind) /\ repair.pc = "write"
          /\ repair'.pc = "replay" /\ repair'.todo = t /\ UNCHANGED <<hooks, raw, signal>>
      BY <2>12 DEF ReplayWrite, Typed, TypeOK
    <3>3. repair.prev # "none" => card[h.q] # "none"
      BY <3>2 DEF ReplayInv
    <3> HIDE DEF h, t
    <3>4. ASSUME h = Pending(q) PROVE card'[q] # "none"
      <4>1. h.q = q /\ h.kind = "pending"
        BY <3>4 DEF Pending
      <4>2. CASE repair.prev = "none"
        BY <3>1, <3>2, <4>1, <4>2, UpsertEffect
      <4>3. CASE repair.prev # "none"
        BY <3>1, <3>2, <3>3, <4>1, <4>3, UpsertEffect
      <4> QED BY <4>2, <4>3
    <3>5. ~DeleteRequests
      BY <3>2 DEF DeleteRequests
    <3> QED BY <2>2, <2>3, <2>4, <3>1, <3>2, <3>4, <3>5 DEF Sent, OnItsWay
  <2>13. CASE LoadStored \/ ReplayProject
    <3>1. UNCHANGED <<hooks, raw, signal>> /\ ~DeleteRequests
      BY <2>13 DEF LoadStored, ReplayProject, DeleteRequests
    <3>2. repair.pc \in {"replay", "write"} => ~Holds(repair.todo, {Pending(q)})
      BY <2>13, HoldsEmpty DEF LoadStored, ReplayProject
    <3>3. repair.pc # "deleted"
      BY <2>13 DEF LoadStored, ReplayProject
    <3> QED BY <2>2, <2>4, <3>1, <3>2, <3>3 DEF Sent, OnItsWay
  <2>14. ASSUME repair' = repair, ~Repair, ~Signals PROVE Sent(q)' /\ (card'[q] = "pending" \/ OnItsWay(q)')
    <3>1. ~DeleteRequests
      BY <2>14 DEF Repair
    <3>2. UNCHANGED <<raw, signal>> /\ (Holds(hooks, {Pending(q)}) => Holds(hooks', {Pending(q)}))
      BY <1>0, <2>1, <2>14, SignalMoves, HookEffect
    <3> QED BY <2>2, <2>4, <2>14, <3>1, <3>2 DEF Sent, OnItsWay
  <2>15. Signals => repair' = repair /\ (Receive \/ Read \/ Write \/ Backfilled)
    BY DEF Signals, Receive, Read, Write, Backfilled, replaying
  <2> QED BY <1>0, <2>1, <2>5, <2>6, <2>7, <2>8, <2>9, <2>10, <2>11, <2>12, <2>13, <2>14, <2>15,
             RepairMoves DEF Repair
<1> QED BY <1>1, <1>2

-----------------------------------------------------------------------------
(* Answers.                                                                *)

LEMMA FollowsTail ==
  ASSUME NEW s \in Seq(Signal), s # <<>>, NEW q, Follows(s, q)
  PROVE  Follows(Tail(s), q) /\ (Head(s) = Pending(q) => Holds(Tail(s), Answers(q)))
<1>1. /\ Head(s) = s[1] /\ Len(Tail(s)) = Len(s) - 1
      /\ \A i \in 1..Len(Tail(s)) : Tail(s)[i] = s[i + 1]
  BY HeadTailProperties
<1>2. /\ DOMAIN s = 1..Len(s) /\ DOMAIN Tail(s) = 1..(Len(s) - 1) /\ Len(s) \in Nat /\ Len(s) > 0
  BY <1>1, LenProperties, HeadTailProperties, EmptySeq
<1>3. ASSUME NEW i \in DOMAIN s, s[i] = Pending(q)
      PROVE  \E j \in DOMAIN Tail(s) : i <= j /\ Tail(s)[j] \in Answers(q)
  <2>1. PICK k \in DOMAIN s : i < k /\ s[k] \in Answers(q)
    BY <1>3 DEF Follows
  <2>2. k - 1 \in DOMAIN Tail(s) /\ i <= k - 1 /\ Tail(s)[k - 1] = s[k]
    BY <1>1, <1>2, <2>1
  <2> QED BY <2>1, <2>2
<1>4. ASSUME NEW i \in DOMAIN Tail(s), Tail(s)[i] = Pending(q)
      PROVE  \E j \in DOMAIN Tail(s) : i < j /\ Tail(s)[j] \in Answers(q)
  <2>1. i + 1 \in DOMAIN s /\ s[i + 1] = Pending(q)
    BY <1>1, <1>2, <1>4
  <2>2. PICK j \in DOMAIN Tail(s) : i + 1 <= j /\ Tail(s)[j] \in Answers(q)
    BY <1>3, <2>1
  <2>3. i < j
    BY <1>2, <2>2
  <2> QED BY <2>2, <2>3
<1>5. 1 \in DOMAIN s
  BY <1>2
<1> QED BY <1>1, <1>3, <1>4, <1>5 DEF Follows, Holds

LEMMA FollowsAppend ==
  ASSUME NEW s \in Seq(Signal), NEW x \in Signal, NEW q \in Questions
  PROVE  /\ x \in Answers(q) => Follows(Append(s, x), q)
         /\ Follows(s, q) /\ x # Pending(q) => Follows(Append(s, x), q)
<1>1. /\ Append(s, x)[Len(s) + 1] = x /\ \A i \in 1..Len(s) : Append(s, x)[i] = s[i]
      /\ DOMAIN s = 1..Len(s) /\ DOMAIN Append(s, x) = 1..(Len(s) + 1) /\ Len(s) \in Nat
  BY AppendProperties, LenProperties
<1>2. ASSUME x \in Answers(q) PROVE Follows(Append(s, x), q)
  <2>1. x # Pending(q)
    BY <1>2, SignalKinds
  <2>2. ASSUME NEW i \in DOMAIN Append(s, x), Append(s, x)[i] = Pending(q)
        PROVE  i < Len(s) + 1 /\ Len(s) + 1 \in DOMAIN Append(s, x)
    BY <1>1, <2>1, <2>2
  <2> QED BY <1>1, <1>2, <2>2 DEF Follows
<1>3. ASSUME Follows(s, q), x # Pending(q) PROVE Follows(Append(s, x), q)
  <2> SUFFICES ASSUME NEW i \in DOMAIN Append(s, x), Append(s, x)[i] = Pending(q)
               PROVE  \E j \in DOMAIN Append(s, x) : i < j /\ Append(s, x)[j] \in Answers(q)
    BY DEF Follows
  <2>1. i \in DOMAIN s /\ s[i] = Pending(q)
    BY <1>1, <1>3
  <2>2. PICK j \in DOMAIN s : i < j /\ s[j] \in Answers(q)
    BY <1>3, <2>1 DEF Follows
  <2>3. j \in DOMAIN Append(s, x) /\ Append(s, x)[j] = s[j]
    BY <1>1
  <2> QED BY <2>2, <2>3
<1> QED BY <1>2, <1>3

LEMMA FollowsEmpty == \A q : Follows(<<>>, q)
  BY DEF Follows

LEMMA DoneMoves ==
  ASSUME Typed, CardMoves, NEW q \in Questions, q \in disk'.done
  PROVE  q \in disk.done \/ WriteResult(q)
<1>1. CASE disk' = disk
  BY <1>1
<1>2. CASE CardRest
  BY <1>2 DEF CardRest
<1>3. ASSUME NEW p \in Questions, WriteCall(p) \/ WriteResult(p)
      PROVE  q \in disk.done \/ WriteResult(q)
  BY <1>3, AgentEffect
<1>4. ASSUME NEW p \in Questions, Ask(p) \/ Answer(p) PROVE disk' = disk
  BY <1>4, AgentEffect
<1>5. CASE Receive \/ Read \/ Write \/ Backfilled \/ Watch \/ StopWatcher \/ Exit \/ Supersede
           \/ Resume \/ Crash \/ Reload \/ Stop
  BY <1>1, <1>5 DEF Receive, Read, Write, Backfilled, Watch, StopWatcher, Exit, Supersede, Resume,
                    Crash, Reload, Stop, ChildGone, agent
<1>6. ASSUME NEW w \in Projectors, Persist(w) \/ Ingest(w) PROVE disk' = disk
  BY <1>6 DEF Persist, Ingest, agent
<1>7. CASE Repair
  BY <1>1, <1>7 DEF Repair, DeleteRequests, LoadRaw, ReplayRead, ReplayWrite, LoadStored, RepairFails,
                    ReplayProject, agent
<1> QED BY <1>1, <1>2, <1>3, <1>4, <1>5, <1>6, <1>7 DEF CardMoves

LEMMA AnswerStep ==
  ASSUME Typed, FreshInv, AnswerInv, [Next]_vars
  PROVE  AnswerInv'
<1>0. CardMoves
  BY CardMoved
<1> SUFFICES ASSUME NEW q \in Questions
             PROVE  /\ q \in disk'.done => asking'[q] \in {"answered", "dropped"}
                    /\ asking'[q] = "answered" => Holds(hooks', Answers(q)) \/ Holds(raw', Answers(q))
                    /\ Answered(q)' => Follows(hooks', q)
                    /\ Answered(q)' /\ signal'.pc # "idle" /\ signal'.of = Pending(q) =>
                         Holds(hooks', Answers(q))
  BY DEF AnswerInv, Follows
<1>1. /\ q \in disk.done => asking[q] \in {"answered", "dropped"}
      /\ asking[q] = "answered" => Holds(hooks, Answers(q)) \/ Holds(raw, Answers(q))
      /\ Answered(q) => Follows(hooks, q)
      /\ Answered(q) /\ signal.pc # "idle" /\ signal.of = Pending(q) => Holds(hooks, Answers(q))
  BY DEF AnswerInv, Follows
<1>2. q \in disk'.done => asking'[q] \in {"answered", "dropped"}
  BY <1>0, <1>1, AskingMoves, DoneMoves, AgentEffect
<1>3. CASE Answer(q)
  <2>1. PICK s \in Answers(q) : Hook(s) /\ s \in Signal
    BY <1>3, AgentEffect
  <2>2. Holds(hooks', Answers(q))
    BY <2>1, HookEffect
  <2>3. Follows(hooks', q)
    BY <2>1, FollowsAppend DEF Hook, Typed, TypeOK
  <2> QED BY <1>2, <2>2, <2>3
<1>4. CASE ~Answer(q) /\ ~Crash
  <2>1. /\ Answered(q)' => Answered(q)
        /\ asking'[q] = "answered" => asking[q] = "answered"
    <3>1. asking'[q] = "answered" => asking[q] = "answered"
      BY <1>0, <1>4, AskingMoves, AgentEffect DEF Typed, TypeOK
    <3> QED BY <1>0, <3>1, DoneMoves, AgentEffect DEF Answered
  <2>2. CASE UNCHANGED <<hooks, raw, signal>>
    BY <1>1, <1>2, <2>1, <2>2
  <2>3. ASSUME UNCHANGED <<raw, signal>>, NEW s \in Signal, Hook(s), s # Pending(q) \/ ~Answered(q)'
        PROVE  /\ asking'[q] = "answered" => Holds(hooks', Answers(q)) \/ Holds(raw', Answers(q))
               /\ Answered(q)' => Follows(hooks', q)
               /\ Answered(q)' /\ signal'.pc # "idle" /\ signal'.of = Pending(q) =>
                    Holds(hooks', Answers(q))
    <3>1. hooks \in Seq(Signal) /\ hooks' = Append(hooks, s)
      BY <2>3 DEF Hook, Typed, TypeOK
    <3>2. Answered(q)' => Follows(hooks', q)
      BY <1>1, <2>1, <2>3, <3>1, FollowsAppend
    <3>3. Holds(hooks, Answers(q)) => Holds(hooks', Answers(q))
      BY <2>3, HookEffect
    <3> QED BY <1>1, <2>1, <2>3, <3>2, <3>3
  <2>4. CASE UNCHANGED <<raw, signal>> /\ \E s \in Signal :
               Hook(s) /\ \A p \in Questions : s = Pending(p) => asking[p] = "no" /\ asking'[p] = "asking"
    <3>1. PICK s \in Signal :
            Hook(s) /\ \A p \in Questions : s = Pending(p) => asking[p] = "no" /\ asking'[p] = "asking"
      BY <2>4
    <3>2. s # Pending(q) \/ ~Answered(q)'
      BY <1>2, <3>1 DEF Answered
    <3> QED BY <1>2, <2>3, <2>4, <3>1, <3>2
  <2>5. CASE Receive
    <3>1. hooks \in Seq(Signal) /\ hooks # <<>> /\ hooks' = Tail(hooks)
          /\ signal'.of = Head(hooks)
      BY <2>5 DEF Receive, Typed, TypeOK
    <3>2. Answered(q)' => Follows(hooks', q) /\ (signal'.of = Pending(q) => Holds(hooks', Answers(q)))
      BY <1>1, <2>1, <3>1, FollowsTail
    <3>3. Holds(hooks, Answers(q)) => Holds(hooks', Answers(q)) \/ Holds(raw', Answers(q))
      BY <2>5, ReceiveEffect
    <3>4. Holds(raw, Answers(q)) => Holds(raw', Answers(q))
      BY <2>5, ReceiveEffect
    <3> QED BY <1>1, <1>2, <2>1, <3>2, <3>3, <3>4
  <2>6. CASE Read \/ Write \/ Backfilled
    <3>1. hooks' = hooks /\ raw' = raw /\ (signal'.pc # "idle" => signal'.of = signal.of /\ signal.pc # "idle")
      <4>1. CASE Read
        BY <4>1 DEF Read, Typed, TypeOK
      <4>2. CASE Write \/ Backfilled
        BY <4>2 DEF Write, Backfilled, IdleSignal
      <4> QED BY <2>6, <4>1, <4>2
    <3> QED BY <1>1, <1>2, <2>1, <3>1
  <2> QED BY <1>0, <1>4, <2>2, <2>4, <2>5, <2>6, SignalMoves DEF Signals
<1>5. CASE Crash
  <2>1. hooks' = <<>> /\ signal' = IdleSignal /\ asking'[q] # "answered"
    BY <1>5 DEF Crash, ChildGone
  <2> QED BY <1>2, <2>1, FollowsEmpty DEF IdleSignal
<1> QED BY <1>3, <1>4, <1>5

-----------------------------------------------------------------------------
(* Answers whose hook a crash dropped.                                     *)

LEMMA LostMoves ==
  ASSUME Typed, CardMoves, NEW q \in Questions, Lost(q)', ~Crash
  PROVE  Lost(q)
<1>1. CASE UNCHANGED <<hooks, raw, signal>>
  BY <1>1 DEF Lost
<1>2. ASSUME UNCHANGED <<raw, signal>>, NEW s \in Signal, Hook(s) PROVE Lost(q)
  BY <1>2, HookEffect DEF Lost
<1>3. CASE Receive
  BY <1>3, ReceiveEffect DEF Lost
<1>4. CASE Read \/ Write \/ Backfilled
  BY <1>4 DEF Read, Write, Backfilled, Lost
<1> QED BY <1>1, <1>2, <1>3, <1>4, SignalMoves DEF Signals

\* The steps of the projections, and those that leave them alone.
LEMMA ProjectorMoves ==
  ASSUME Typed, CardMoves
  PROVE  \/ UNCHANGED <<projector, stored>>
         \/ Read \/ Watch \/ StopWatcher \/ Crash
         \/ \E w \in Projectors : Persist(w) \/ Ingest(w)
<1>1. CASE CardRest \/ Receive \/ Write \/ Backfilled \/ Exit \/ Supersede \/ Resume \/ Reload
  BY <1>1 DEF CardRest, Receive, Write, Backfilled, Exit, Supersede, Resume, Reload, fibers
<1>2. CASE Repair
  BY <1>2 DEF Repair, DeleteRequests, LoadRaw, ReplayRead, ReplayWrite, LoadStored, RepairFails, ReplayProject
<1>3. CASE Stop
  BY <1>3 DEF Stop, Hook
<1>4. ASSUME NEW p \in Questions, Ask(p) \/ Answer(p) \/ WriteCall(p) \/ WriteResult(p)
      PROVE  UNCHANGED <<projector, stored>>
  BY <1>4, AgentEffect, HookEffect DEF fibers
<1> QED BY <1>1, <1>2, <1>3, <1>4 DEF CardMoves

LEMMA LostStep ==
  ASSUME Typed, AnswerInv, LostInv, [Next]_vars
  PROVE  LostInv'
<1>0. CardMoves
  BY CardMoved
<1> SUFFICES ASSUME NEW q \in Questions, q \in disk'.done, Lost(q)'
             PROVE  /\ \A w \in Projectors :
                         projector'[w].pc = "collected" => q \in projector'[w].snap.done
                    /\ UpToDate' /\ projector'[Watcher].pc # "collected" => q \in stored'.done
  BY DEF LostInv
<1>1. CASE Crash
  BY <1>1 DEF Crash, ChildGone, IdleProjector, UpToDate
<1>2. CASE ~Crash
  <2>1. Lost(q)
    BY <1>0, <1>2, LostMoves
  <2>2. q \in disk.done
    <3>1. ~WriteResult(q)
      BY <2>1, AgentEffect DEF AnswerInv, Lost
    <3> QED BY <1>0, <3>1, DoneMoves
  <2>3. /\ \A w \in Projectors : projector[w].pc = "collected" => q \in projector[w].snap.done
        /\ UpToDate /\ projector[Watcher].pc # "collected" => q \in stored.done
    BY <2>1, <2>2 DEF LostInv
  <2>4. Watcher \in Projectors /\ Backfill \in Projectors /\ Watcher # Backfill
    BY ChatAssumption DEF Projectors
  <2>5. CASE Watch
    BY <2>2, <2>3, <2>4, <2>5 DEF Watch, Typed, TypeOK
  <2>6. CASE Read
    <3>1. \A w \in Projectors : projector'[w] = projector[w] \/ projector'[w].snap = disk
      BY <2>4, <2>6 DEF Read, Typed, TypeOK
    <3>2. projector'[Watcher] = projector[Watcher] /\ stored' = stored /\ UpToDate' = UpToDate
      BY <2>4, <2>6 DEF Read, Typed, TypeOK, UpToDate, session, agent
    <3> QED BY <2>2, <2>3, <3>1, <3>2
  <2>7. CASE StopWatcher
    BY <2>3, <2>4, <2>7 DEF StopWatcher, IdleProjector, UpToDate, session, Typed, TypeOK
  <2>8. ASSUME NEW w \in Projectors, Persist(w)
        PROVE  /\ \A v \in Projectors :
                    projector'[v].pc = "collected" => q \in projector'[v].snap.done
               /\ UpToDate' /\ projector'[Watcher].pc # "collected" => q \in stored'.done
    <3>1. q \in stored'.done
      BY <2>3, <2>8 DEF Persist
    <3>2. \A v \in Projectors : projector'[v].pc = "collected" => projector'[v] = projector[v]
      BY <2>8 DEF Persist, Typed, TypeOK
    <3> QED BY <2>3, <3>1, <3>2
  <2>9. ASSUME NEW w \in Projectors, Ingest(w)
        PROVE  /\ \A v \in Projectors :
                    projector'[v].pc = "collected" => q \in projector'[v].snap.done
               /\ UpToDate' /\ projector'[Watcher].pc # "collected" => q \in stored'.done
    <3>1. \A v \in Projectors : projector'[v].pc = "collected" => projector'[v] = projector[v]
      BY <2>9 DEF Ingest, IdleProjector, Typed, TypeOK
    <3>2. projector[Watcher].pc = "collected" => projector'[Watcher].pc = "collected"
      BY <2>4, <2>9 DEF Ingest, Typed, TypeOK
    <3>3. stored' = stored /\ UpToDate' = UpToDate
      BY <2>9 DEF Ingest, UpToDate, session, agent
    <3> QED BY <2>3, <3>1, <3>2, <3>3
  <2>10. CASE UNCHANGED <<projector, stored>> /\ ~Watch
    <3>1. UpToDate' => UpToDate
      <4>1. CASE Resume \/ Exit
        BY <4>1 DEF Resume, Exit, ChildGone, UpToDate
      <4>2. attached' /\ ~attached => Resume
        <5>1. CASE CardRest \/ Receive \/ Read \/ Write \/ Backfilled \/ Supersede \/ Stop \/ StopWatcher \/ Exit
               \/ Reload
          BY <5>1 DEF CardRest, Receive, Read, Write, Backfilled, Supersede, Stop, StopWatcher, Exit,
                      Reload, ChildGone, session
        <5>2. CASE Repair
          BY <5>2 DEF Repair, DeleteRequests, LoadRaw, ReplayRead, ReplayWrite, LoadStored, RepairFails,
                      ReplayProject, session
        <5>3. ASSUME NEW w \in Projectors, Persist(w) \/ Ingest(w) PROVE attached' = attached
          BY <5>3 DEF Persist, Ingest, session
        <5>4. ASSUME NEW p \in Questions, Ask(p) \/ Answer(p) \/ WriteCall(p) \/ WriteResult(p)
              PROVE  attached' = attached
          BY <5>4, AgentEffect
        <5> QED BY <1>0, <1>2, <2>10, <5>1, <5>2, <5>3, <5>4 DEF CardMoves
      <4>3. dirty => dirty'
        <5>1. CASE CardRest \/ Receive \/ Read \/ Write \/ Backfilled \/ Supersede \/ Stop \/ StopWatcher \/ Exit \/ Resume
               \/ Reload
          BY <5>1 DEF CardRest, Receive, Read, Write, Backfilled, Supersede, Stop, StopWatcher, Exit,
                      Resume, Reload, ChildGone, agent
        <5>2. CASE Repair
          BY <5>2 DEF Repair, DeleteRequests, LoadRaw, ReplayRead, ReplayWrite, LoadStored, RepairFails,
                      ReplayProject, agent
        <5>3. ASSUME NEW w \in Projectors, Persist(w) \/ Ingest(w) PROVE dirty' = dirty
          BY <5>3 DEF Persist, Ingest, agent
        <5>4. ASSUME NEW p \in Questions, Ask(p) \/ Answer(p) \/ WriteCall(p) \/ WriteResult(p)
              PROVE  dirty' \/ dirty' = dirty
          BY <5>4, AgentEffect
        <5> QED BY <1>0, <1>2, <2>10, <5>1, <5>2, <5>3, <5>4 DEF CardMoves
      <4> QED BY <4>1, <4>2, <4>3 DEF UpToDate
    <3> QED BY <2>3, <2>10, <3>1
  <2> QED BY <1>0, <1>2, <2>5, <2>6, <2>7, <2>8, <2>9, <2>10, ProjectorMoves
<1> QED BY <1>1, <1>2

-----------------------------------------------------------------------------
(* An answered question reads as answered, or will.                        *)

LEMMA DueSignals ==
  ASSUME Typed, AnswerInv, NEW q \in Questions, q \in disk.done, q \notin missed', Coming(q), Signals
  PROVE  Coming(q)'
<1>1. CASE Receive
  <2>1. /\ Holds(hooks, Answers(q)) <=> Head(hooks) \in Answers(q) \/ Holds(hooks', Answers(q))
        /\ Holds(raw', Answers(q)) <=> Holds(raw, Answers(q)) \/ Head(hooks) \in Answers(q)
    BY <1>1, ReceiveEffect
  <2>2. /\ signal' = [pc |-> "read", of |-> Head(hooks), prev |-> Null] /\ signal.pc = "idle"
        /\ UNCHANGED <<card, repair, stored>>
    BY <1>1 DEF Receive, rows, replaying
  <2>3. Lost(q) => Lost(q)'
    BY <2>1 DEF Lost
  <2> QED BY <2>1, <2>2, <2>3 DEF Coming
<1>2. CASE Read
  <2>1. signal.of \in Answers(q) => signal.of.kind # "stop"
    BY ChatAssumption DEF Answers
  <2>2. /\ UNCHANGED <<card, hooks, raw, repair, stored>>
        /\ signal'.of = signal.of
        /\ signal.of.kind # "stop" => signal'.pc = "write"
    BY Zenon, <1>2 DEF Read, rows, replaying, Typed, TypeOK
  <2> QED BY <2>1, <2>2 DEF Coming, Lost
<1>3. CASE Write
  <2>1. /\ signal.of \in Carded /\ signal.of \in Signal /\ signal.prev \in CardState
        /\ card \in [Questions -> CardState] /\ signal.pc = "write"
        /\ Upsert(signal.of.q, signal.prev, signal.of.kind)
        /\ missed' = IF signal.of.kind \in Resolved /\ card[signal.of.q] # signal.prev
                       THEN missed \cup {signal.of.q} ELSE missed
        /\ UNCHANGED <<hooks, raw, repair, stored>>
    BY <1>3 DEF Write, Typed, TypeOK
  <2>2. CASE signal.of.q # q
    <3>1. card'[q] = card[q] /\ signal.of \notin Answers(q)
      BY <2>1, <2>2, UpsertEffect, SignalKinds
    <3> QED BY <2>1, <3>1 DEF Coming, Lost
  <2>3. CASE signal.of \in Answers(q)
    <3>1. signal.of.kind \in Resolved /\ signal.of.q = q
      BY <2>1, <2>3, SignalKinds
    <3>2. card[q] = signal.prev
      BY <2>1, <3>1
    <3>3. card'[q] = signal.of.kind
      <4>1. CASE signal.prev = "none"
        BY <2>1, <3>1, <3>2, <4>1, UpsertEffect
      <4>2. CASE signal.prev # "none"
        BY <2>1, <3>1, <3>2, <4>2, UpsertEffect, ChatAssumption DEF Merge
      <4> QED BY <4>1, <4>2
    <3> QED BY <3>1, <3>3 DEF Coming
  <2>4. CASE signal.of = Pending(q)
    BY <2>1, <2>4 DEF AnswerInv, Answered, Coming
  <2> QED BY <2>1, <2>2, <2>3, <2>4, SignalKinds
<1>4. CASE Backfilled
  BY <1>4 DEF Backfilled, rows, replaying, Coming, Lost
<1> QED BY <1>1, <1>2, <1>3, <1>4 DEF Signals

LEMMA DueRepair ==
  ASSUME Typed, SnapInv, LostInv, UpToDate, projector[Watcher].pc = "idle",
         NEW q \in Questions, q \in disk.done, q \notin missed', q \notin torn', Coming(q), Repair
  PROVE  Coming(q)'
<1>1. CASE DeleteRequests
  <2>1. Lost(q) => q \in stored.done
    BY DEF LostInv
  <2>2. repair'.pc = "deleted" /\ UNCHANGED <<hooks, raw, stored>>
    BY <1>1 DEF DeleteRequests, Typed, TypeOK
  <2> QED BY <2>1, <2>2 DEF Coming, Lost
<1>2. CASE LoadRaw
  <2>1. /\ repair.pc = "deleted" /\ repair'.pc = "replay" /\ repair'.todo = raw
        /\ UNCHANGED <<card, hooks, raw, signal, stored>>
    BY <1>2 DEF LoadRaw, rows, Typed, TypeOK
  <2> QED BY <2>1 DEF Coming, Lost
<1>3. CASE ReplayRead
  <2>1. /\ repair.pc = "replay" /\ repair'.pc = "write" /\ repair'.todo = repair.todo
        /\ UNCHANGED <<card, hooks, raw, signal, stored>>
    BY <1>3 DEF ReplayRead, rows, Typed, TypeOK
  <2> QED BY <2>1 DEF Coming, Lost
<1>4. CASE ReplayWrite
  <2> DEFINE h == Head(repair.todo)
             t == Tail(repair.todo)
  <2>1. /\ h \in Carded /\ h \in Signal
        /\ Holds(repair.todo, Answers(q)) <=> h \in Answers(q) \/ Holds(t, Answers(q))
    BY <1>4, HoldsTail DEF ReplayWrite, Typed, TypeOK
  <2>2. /\ repair.prev \in CardState /\ card \in [Questions -> CardState]
        /\ Upsert(h.q, repair.prev, h.kind) /\ repair.pc = "write"
        /\ repair'.pc = "replay" /\ repair'.todo = t
        /\ missed' = IF card[h.q] # repair.prev THEN missed \cup {h.q} ELSE missed
        /\ UNCHANGED <<hooks, raw, signal, stored>>
    BY <1>4 DEF ReplayWrite, Typed, TypeOK
  <2> HIDE DEF h, t
  <2>3. CASE h.q # q
    <3>1. card'[q] = card[q] /\ h \notin Answers(q)
      BY <2>1, <2>2, <2>3, UpsertEffect, SignalKinds
    <3> QED BY <2>1, <2>2, <3>1 DEF Coming, Lost
  <2>4. CASE h.q = q
    <3>1. card[q] = repair.prev
      BY <2>2, <2>4
    <3>2. CASE h \in Answers(q)
      <4>1. h.kind \in Resolved
        BY <2>1, <3>2, SignalKinds
      <4>2. card'[q] = h.kind
        <5>1. CASE repair.prev = "none"
          BY <2>1, <2>2, <2>4, <3>1, <5>1, UpsertEffect
        <5>2. CASE repair.prev # "none"
          BY <2>1, <2>2, <2>4, <3>1, <4>1, <5>2, UpsertEffect, ChatAssumption DEF Merge
        <5> QED BY <5>1, <5>2
      <4> QED BY <4>1, <4>2 DEF Coming
    <3>3. CASE h = Pending(q)
      <4>1. h.kind = "pending" /\ h \notin Answers(q)
        BY <2>1, <3>3, SignalKinds
      <4>2. card[q] \in Resolved => card'[q] \in Resolved
        BY <2>1, <2>2, <2>4, <3>1, <4>1, UpsertEffect, ChatAssumption DEF Merge
      <4> QED BY <2>1, <2>2, <4>1, <4>2 DEF Coming, Lost
    <3> QED BY <2>1, <2>4, <3>2, <3>3, SignalKinds
  <2> QED BY <2>3, <2>4
<1>5. CASE LoadStored
  <2>1. /\ repair.pc = "replay" /\ repair'.pc = "project" /\ repair'.snap = stored
        /\ ~Holds(repair.todo, Answers(q)) /\ UNCHANGED <<card, hooks, raw, signal, stored>>
    BY <1>5, HoldsEmpty DEF LoadStored, rows, Typed, TypeOK
  <2> QED BY <2>1 DEF Coming, Lost
<1>6. CASE ReplayProject
  <2>1. repair.snap \in Snapshot /\ repair.snap.done \subseteq repair.snap.asked
    BY DEF Typed, TypeOK, SnapInv, Within
  <2>2. /\ card[q] \in Resolved => card'[q] \in Resolved
        /\ q \in repair.snap.done => card'[q] \in Resolved
    BY <1>6, <2>1, ProjectEffect DEF ReplayProject, Typed, TypeOK
  <2>3. repair.pc = "project" /\ UNCHANGED <<hooks, raw, signal>>
    BY <1>6 DEF ReplayProject
  <2> QED BY <2>2, <2>3 DEF Coming
<1>7. ~RepairFails
  BY DEF RepairFails, CutShort
<1> QED BY <1>1, <1>2, <1>3, <1>4, <1>5, <1>6, <1>7 DEF Repair

LEMMA DueStep ==
  ASSUME Typed, SnapInv, WatchInv, LeavingInv, AnswerInv, LostInv, DueInv, [Next]_vars
  PROVE  DueInv'
<1>0. CardMoves
  BY CardMoved
<1> SUFFICES ASSUME NEW q \in Questions, q \in disk'.done, q \notin missed', q \notin torn',
                    attached', ~dirty', projector'[Watcher].pc = "idle"
             PROVE  Coming(q)'
  <2>1. disk'.done \subseteq Questions
    BY TypedStep DEF Typed, TypeOK, Snapshot
  <2> QED BY <2>1 DEF DueInv
<1>1. q \in disk.done
  BY <1>0, DoneMoves, AgentEffect
<1>2. missed \subseteq missed'
  <2>1. CASE Write \/ ReplayWrite
    BY <2>1 DEF Write, ReplayWrite
  <2>2. CASE Signals \/ Repair
    BY <2>1, <2>2 DEF Signals, Receive, Read, Backfilled, Repair, DeleteRequests, LoadRaw, ReplayRead,
                      LoadStored, ReplayProject, RepairFails, replaying
  <2>3. ASSUME NEW w \in Projectors, Persist(w) \/ Ingest(w) PROVE missed' = missed
    BY <2>3 DEF Persist, Ingest, replaying
  <2>4. ASSUME NEW p \in Questions, Ask(p) \/ Answer(p) \/ WriteCall(p) \/ WriteResult(p)
        PROVE  missed' = missed
    BY <2>4, AgentEffect, HookEffect DEF fibers, replaying
  <2>5. CASE CardRest \/ Watch \/ StopWatcher \/ Exit \/ Supersede \/ Resume \/ Crash \/ Reload \/ Stop
    BY <2>5 DEF CardRest, Watch, StopWatcher, Exit, Supersede, Resume, Crash, Reload, Stop, Hook, fibers,
                replaying
  <2> QED BY <1>0, <2>2, <2>3, <2>4, <2>5 DEF CardMoves, Signals
<1>3. CASE Ingest(Watcher) /\ attached /\ ~dirty
  <2>1. projector[Watcher].snap = disk /\ disk \in Snapshot /\ q \in disk.asked
    BY <1>1, <1>3 DEF Ingest, WatchInv, UpToDate, SnapInv, Within, Typed, TypeOK
  <2>2. card'[q] \in Resolved
    BY <1>1, <1>3, <2>1, ProjectEffect DEF Ingest, Typed, TypeOK
  <2> QED BY <2>2 DEF Coming
<1>a. CASE q \in torn
  <2>1. PICK w \in Projectors : Ingest(w) /\ q \in Tells(projector[w].snap)
    BY <1>0, <1>a, TornMoves
  <2>2. projector[w].snap \in Snapshot /\ q \in projector[w].snap.asked /\ q \in projector[w].snap.done
    BY <1>1, <2>1 DEF Typed, TypeOK, Tells
  <2>3. card'[q] \in Resolved
    BY <2>1, <2>2, ProjectEffect DEF Ingest, Typed, TypeOK
  <2> QED BY <2>3 DEF Coming
<1>4. ~Watch /\ ~(Persist(Watcher) /\ attached /\ ~dirty)
  BY DEF Watch, Persist, Typed, TypeOK, Projectors
<1>5. CASE WatchRest /\ q \notin torn
  <2>1. attached /\ ~dirty /\ projector[Watcher].pc = "idle" /\ UpToDate
    BY <1>5 DEF WatchRest, UpToDate
  <2>2. Coming(q)
    BY <1>1, <1>2, <1>5, <2>1 DEF DueInv
  <2>3. CASE Signals
    BY <1>1, <2>2, <2>3, DueSignals
  <2>4. CASE Repair
    BY <1>1, <2>1, <2>2, <2>4, DueRepair
  <2>5. ~StopWatcher /\ ~Supersede /\ ~Exit /\ ~Crash /\ ~Resume /\ ~Watch
    BY <2>1, <1>4 DEF StopWatcher, Supersede, Exit, Crash, Resume, ChildGone, LeavingInv
  <2>6. CASE CardRest
    BY <2>2, <2>6 DEF CardRest, fibers, replaying, Coming, Lost
  <2>7. ASSUME NEW w \in Projectors, Persist(w) PROVE Coming(q)'
    <3>1. Lost(q) => q \in stored'.done
      BY <1>1, <2>7 DEF LostInv, Persist
    <3>2. UNCHANGED <<card, hooks, raw, signal, repair>>
      BY <2>7 DEF Persist, rows, replaying
    <3> QED BY <2>2, <3>1, <3>2 DEF Coming, Lost
  <2>8. ASSUME NEW w \in Projectors, Ingest(w) PROVE Coming(q)'
    <3>1. projector[w].snap \in Snapshot
      BY DEF Typed, TypeOK
    <3>2. card[q] \in Resolved => card'[q] \in Resolved
      BY <2>8, <3>1, ProjectEffect DEF Ingest, Typed, TypeOK
    <3>3. UNCHANGED <<hooks, raw, signal, stored, repair>>
      BY <2>8 DEF Ingest, replaying
    <3> QED BY <2>2, <3>2, <3>3 DEF Coming, Lost
  <2>9. ASSUME NEW s \in Signal, Hook(s), card' = card PROVE Coming(q)'
    <3>1. /\ UNCHANGED <<raw, signal, stored, repair>>
          /\ Holds(hooks', Answers(q)) <=> Holds(hooks, Answers(q)) \/ s \in Answers(q)
      BY <2>9, HookEffect
    <3> QED BY <2>2, <2>9, <3>1 DEF Coming, Lost
  <2>10. CASE Stop
    <3>1. [kind |-> "stop", q |-> Null] \in Signal
      BY DEF Signal
    <3> QED BY <2>9, <2>10, <3>1 DEF Stop, rows
  <2>11. ASSUME NEW p \in Questions, Ask(p) \/ Answer(p) PROVE Coming(q)'
    BY <2>9, <2>11, AgentEffect
  <2>12. \A p \in Questions : ~WriteCall(p) /\ ~WriteResult(p)
    BY AgentEffect
  <2>13. CASE Reload
    <3>1. repair.pc = "idle" /\ UNCHANGED <<card, hooks, raw, signal, stored>>
      BY <2>13 DEF Reload, CutShort, rows
    <3> QED BY <2>2, <3>1 DEF Coming, Lost
  <2> QED BY <1>0, <2>3, <2>4, <2>5, <2>6, <2>7, <2>8, <2>10, <2>11, <2>12, <2>13
          DEF CardMoves, Signals
<1> QED BY <1>3, <1>4, <1>5, <1>a, WatchMoves

-----------------------------------------------------------------------------

ChatInv == Typed /\ SnapInv /\ WatchInv /\ CardsInv

LEMMA CardsInit == Init => ChatInv
  BY TypedInit, SnapInit, WatchInit, LeavingInit, FreshInit, PendingInit DEF ChatInv, CardsInv

LEMMA CardsStep == ChatInv /\ [Next]_vars => ChatInv'
<1> SUFFICES ASSUME ChatInv, [Next]_vars PROVE ChatInv'
  OBVIOUS
<1>1. Typed' /\ SnapInv' /\ WatchInv'
  BY TypedStep, SnapStep, WatchStep DEF ChatInv
<1>2. LeavingInv' /\ FreshInv' /\ UnaskedInv' /\ ReplayInv'
  BY LeavingStep, FreshStep, ReplayStep DEF ChatInv, CardsInv
<1>3. PendingInv' /\ AnswerInv' /\ LostInv'
  BY <1>2, PendingStep, AnswerStep, LostStep DEF ChatInv, CardsInv
<1>4. DueInv'
  BY DueStep DEF ChatInv, CardsInv
<1> QED BY <1>1, <1>2, <1>3, <1>4 DEF ChatInv, CardsInv

\* In a chat at rest an answered question reads as answered, unless its write
\* met another row than it had read, and one the agent waits on reads as pending,
\* but for those whose card a repair cut short has taken and no projection has
\* written again, for every number of questions, repairs, exits, reloads and
\* crashes.
THEOREM RestShowsTheAnswers == Spec => []SettledCards
<1>1. ChatInv => SettledCards
  <2> SUFFICES ASSUME ChatInv, Settled, NEW q \in Questions, q \notin torn
               PROVE  /\ q \in disk.done \ missed => card[q] \in Resolved
                      /\ asking[q] = "asking" => card[q] = "pending"
    BY DEF SettledCards
  <2>1. /\ attached /\ ~dirty /\ hooks = <<>> /\ signal.pc = "idle" /\ repair.pc = "idle"
        /\ projector[Watcher].pc = "idle"
    BY DEF Settled, Projectors
  <2>2. ~Holds(hooks, Answers(q)) /\ ~Holds(hooks, {Pending(q)})
    BY <2>1, HoldsEmpty
  <2>3. q \in disk.done \ missed => card[q] \in Resolved
    BY <2>1, <2>2 DEF ChatInv, CardsInv, DueInv, Coming
  <2>4. asking[q] = "asking" => card[q] = "pending"
    BY <2>1, <2>2 DEF ChatInv, CardsInv, PendingInv, OnItsWay
  <2> QED BY <2>3, <2>4
<1> QED BY <1>1, CardsInit, CardsStep, PTL DEF Spec

=============================================================================
