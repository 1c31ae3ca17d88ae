-------------------------- MODULE TargetInboxProofs --------------------------
(***************************************************************************)
(* Proofs about TargetInbox: type correctness, that a message is pasted at *)
(* most once per run of the application, that only pasted messages are     *)
(* acknowledged, the order of delivery, and that no message is forgotten.  *)
(***************************************************************************)
EXTENDS TargetInbox, SequenceTheorems, TLAPS

Holds(f) == flush[f].pc \in {"looked", "grouped", "written"}

\* Whoever is between the look and the end of its flush holds the lock.
LockInv == \A f \in Flushers : Holds(f) => lock = f

\* Who sent a message is known.
SenderInv == \A m \in Messages : msg[m].state # "none" => msg[m].from \in Senders

\* A sender flushes after its row is in, the signal consumer during a stop.
IdleInv ==
  /\ \A m \in Messages : msg[m].state \in {"none", "stamped"} => flush[m].pc = "none"
  /\ flush[Signal].pc # "none" => handling = "backfill"

\* What a flusher has grouped is still queued, since only it acknowledges.
GroupInv ==
  \A f \in Flushers : flush[f].pc \in {"grouped", "written"} =>
    \A m \in flush[f].group : msg[m].state = "pending"

\* What a flusher pasted and has yet to acknowledge is in the log.
WrittenInv ==
  \A f \in Flushers : flush[f].pc = "written" =>
    \A m \in flush[f].group : \E i \in DOMAIN writes : m \in writes[i].group

\* A group does not leave behind what came before.
ClosedInv ==
  \A f \in Flushers : flush[f].pc = "grouped" =>
    \A m \in flush[f].group : \A n \in msg[m].ahead :
      n \in flush[f].group \/ msg[n].state = "delivered"

\* What came before is queued or delivered, with an earlier stamp.
AheadInv ==
  \A m \in Messages : \A n \in msg[m].ahead :
    /\ msg[n].state \in {"pending", "delivered"}
    /\ msg[n].stamp < msg[m].stamp

\* Nothing is in the log that was not queued.
LoggedInv ==
  \A i \in DOMAIN writes : \A m \in writes[i].group :
    msg[m].state \in {"pending", "delivered"}

\* What this run pasted is acknowledged, or about to be by who holds the lock.
DoneInv ==
  \A i \in DOMAIN writes : \A m \in writes[i].group : writes[i].epoch = epoch =>
    \/ msg[m].state = "delivered"
    \/ \E f \in Flushers : flush[f].pc = "written" /\ m \in flush[f].group

EpochInv == \A i \in DOMAIN writes : writes[i].epoch <= epoch

IInv ==
  /\ SenderInv /\ IdleInv /\ LockInv /\ GroupInv /\ WrittenInv /\ ClosedInv /\ AheadInv /\ LoggedInv
  /\ DoneInv /\ EpochInv
  /\ PastedOnce /\ AckedWasPasted /\ Fifo

-----------------------------------------------------------------------------

MsgType == [state : {"none", "stamped", "pending", "delivered"},
            stamp : 0..MaxClock, from : Senders \cup {Null}, ahead : SUBSET Messages]
FlushType == [pc : {"none", "waiting", "looked", "grouped", "written"},
              group : SUBSET Messages]
WriteType == [group : SUBSET Messages, epoch : 0..MaxCrashes]

TtyType == [kind : {"text"}, from : Senders \cup {Human}] \cup [kind : {"enter"}, from : {Null}]
HookType == {"start", "prompt", "permission", "question", "answered", "stop"}

\* The part of TypeOK that the other invariants use.
InboxType ==
  /\ msg \in [Messages -> MsgType] /\ flush \in [Flushers -> FlushType]
  /\ writes \in Seq(WriteType) /\ epoch \in 0..MaxCrashes /\ clock \in 0..MaxClock

LEMMA TypeOKGives == TypeOK => InboxType
  BY DEF TypeOK, InboxType, MsgType, FlushType, WriteType

LEMMA Within ==
  ASSUME TypeOK
  PROVE  /\ \A n \in Messages : msg[n].ahead \subseteq Messages
         /\ \A f \in Flushers : flush[f].group \subseteq Messages
         /\ \A i \in DOMAIN writes : writes[i].group \subseteq Messages
<1>1. \A i \in DOMAIN writes : writes[i] \in WriteType
  BY TypeOKGives, ElementOfSeq, LenProperties DEF InboxType
<1>2. \A i \in DOMAIN writes : writes[i].group \subseteq Messages
  BY <1>1 DEF WriteType
<1>3. \A n \in Messages : msg[n].ahead \subseteq Messages
  BY TypeOKGives DEF InboxType, MsgType
<1>4. \A f \in Flushers : flush[f].group \subseteq Messages
  BY TypeOKGives DEF InboxType, FlushType
<1> QED BY <1>2, <1>3, <1>4

\* The initial state is well typed and satisfies the invariant.
LEMMA InitTyped == Init => TypeOK
<1> SUFFICES ASSUME Init PROVE TypeOK
  OBVIOUS
<1>1. msg \in [Messages -> MsgType]
  BY InboxAssumption DEF Init, NoMessage, MsgType
<1>2. flush \in [Flushers -> FlushType]
  BY DEF Init, NoFlush, FlushType
<1>3. /\ clock \in 0..MaxClock /\ bindings \in 0..MaxHooks /\ epoch \in 0..MaxCrashes
      /\ lives \in 1..MaxLives /\ typed \in 0..MaxTyped /\ enters \in Nat
  BY InboxAssumption DEF Init
<1>4. tty = <<>> /\ hooks = <<>> /\ writes = <<>>
  BY DEF Init
<1>5. \A S : <<>> \in Seq(S)
  BY EmptySeq
<1>6. /\ tty \in Seq(TtyType) /\ hooks \in Seq(HookType) /\ writes \in Seq(WriteType)
  BY <1>4, <1>5
<1> QED BY <1>1, <1>2, <1>3, <1>6 DEF Init, TypeOK, MsgType, FlushType, WriteType, TtyType, HookType

LEMMA InitIInv == Init => IInv
  BY InboxAssumption
  DEF Init, IInv, SenderInv, IdleInv, LockInv, Holds, GroupInv, WrittenInv, ClosedInv, AheadInv, LoggedInv,
      DoneInv, EpochInv, PastedOnce, AckedWasPasted, Fifo, NoMessage, NoFlush, Messages, Flushers

-----------------------------------------------------------------------------
(* Types are preserved, one group of variables at a time.                  *)

InboxT == /\ clock \in 0..MaxClock /\ msg \in [Messages -> MsgType]
          /\ lock \in Flushers \cup {Null} /\ flush \in [Flushers -> FlushType]
ArcT == /\ openTurn \in BOOLEAN /\ request \in {"none", "permission", "question"}
        /\ attached \in BOOLEAN /\ exiting \in BOOLEAN /\ leaving \in BOOLEAN
StreamT == /\ hooks \in Seq(HookType) /\ bindings \in 0..MaxHooks
           /\ handling \in {Null, "prompt", "stop", "backfill"}
ChildT == /\ agent \in {"down", "starting", "ready", "busy"}
          /\ draft \subseteq Senders \cup {Human}
          /\ asking \in {"none", "permission", "question"} /\ transcript \in BOOLEAN
WireT == enters \in Nat /\ tty \in Seq(TtyType) /\ writes \in Seq(WriteType)
BoundsT == stale \in BOOLEAN /\ epoch \in 0..MaxCrashes /\ lives \in 1..MaxLives /\ typed \in 0..MaxTyped

LEMMA TypeSplit ==
  /\ TypeOK => InboxT /\ ArcT /\ StreamT /\ ChildT /\ WireT /\ BoundsT
  /\ InboxT' /\ ArcT' /\ StreamT' /\ ChildT' /\ WireT' /\ BoundsT' => TypeOK'
  BY DEF TypeOK, InboxT, ArcT, StreamT, ChildT, WireT, BoundsT,
         MsgType, FlushType, WriteType, TtyType, HookType

LEMMA Frames ==
  /\ InboxT /\ UNCHANGED inbox => InboxT'
  /\ ArcT /\ UNCHANGED arc => ArcT'
  /\ StreamT /\ UNCHANGED stream => StreamT'
  /\ ChildT /\ UNCHANGED child => ChildT'
  /\ WireT /\ UNCHANGED wire => WireT'
  /\ BoundsT /\ UNCHANGED bounds => BoundsT'
  BY DEF InboxT, ArcT, StreamT, ChildT, WireT, BoundsT, inbox, arc, stream, child, wire, bounds

LEMMA WriteTextTyped ==
  ASSUME WireT, NEW from \in Senders \cup {Human}, WriteText(from)
  PROVE  tty' \in Seq(TtyType) /\ enters' \in Nat
<1>1. [kind |-> "text", from |-> from] \in TtyType
  BY DEF TtyType
<1>2. Append(tty, [kind |-> "text", from |-> from]) \in Seq(TtyType)
  BY <1>1, AppendProperties DEF WireT
<1>3. CASE agent = "down"
  BY <1>3 DEF WriteText, WireT
<1>4. CASE agent # "down"
  BY <1>2, <1>4 DEF WriteText, WireT
<1> QED BY <1>3, <1>4

LEMMA SendTyped ==
  ASSUME NEW m \in Messages, NEW s \in Senders, TypeOK, SenderInv, GroupInv, Send(m, s)
  PROVE  TypeOK'
<1>0. InboxT /\ ArcT /\ StreamT /\ ChildT /\ WireT /\ BoundsT
  BY TypeSplit
<1>1. InboxT'
  BY <1>0, InboxAssumption DEF Send, InboxT, MsgType, FlushType, NoFlush, NoMessage, Flushers, Group, Pending, inbox
<1>2. ArcT'
  BY <1>0, Frames DEF Send
<1>3. StreamT'
  BY <1>0, Frames DEF Send
<1>4. ChildT'
  BY <1>0, Frames DEF Send
<1>5. WireT'
  BY <1>0, Frames DEF Send
<1>6. BoundsT'
  BY <1>0, Frames DEF Send
<1> QED BY <1>1, <1>2, <1>3, <1>4, <1>5, <1>6, TypeSplit

LEMMA InsertTyped ==
  ASSUME NEW m \in Messages, TypeOK, SenderInv, GroupInv, Insert(m)
  PROVE  TypeOK'
<1>0. InboxT /\ ArcT /\ StreamT /\ ChildT /\ WireT /\ BoundsT
  BY TypeSplit
<1>1. InboxT'
  BY SMTT(60), <1>0 DEF Insert, InboxT, MsgType, FlushType, NoFlush, NoMessage, Flushers, Group, Pending, inbox
<1>2. ArcT'
  BY <1>0, Frames DEF Insert
<1>3. StreamT'
  BY <1>0, Frames DEF Insert
<1>4. ChildT'
  BY <1>0, Frames DEF Insert
<1>5. WireT'
  BY <1>0, Frames DEF Insert
<1>6. BoundsT'
  BY <1>0, Frames DEF Insert
<1> QED BY <1>1, <1>2, <1>3, <1>4, <1>5, <1>6, TypeSplit

LEMMA LookTyped ==
  ASSUME NEW f \in Flushers, TypeOK, SenderInv, GroupInv, Look(f)
  PROVE  TypeOK'
<1>0. InboxT /\ ArcT /\ StreamT /\ ChildT /\ WireT /\ BoundsT
  BY TypeSplit
<1>1. InboxT'
  BY <1>0 DEF Look, Finish, InboxT, MsgType, FlushType, NoFlush, NoMessage, Flushers, Group, Pending, inbox
<1>2. ArcT'
  BY <1>0, Frames DEF Look
<1>3. StreamT'
  BY <1>0, Frames DEF Look
<1>4. ChildT'
  BY <1>0, Frames DEF Look
<1>5. WireT'
  BY <1>0, Frames DEF Look
<1>6. BoundsT'
  BY <1>0, Frames DEF Look
<1> QED BY <1>1, <1>2, <1>3, <1>4, <1>5, <1>6, TypeSplit

LEMMA ReadPendingTyped ==
  ASSUME NEW f \in Flushers, TypeOK, SenderInv, GroupInv, ReadPending(f)
  PROVE  TypeOK'
<1>0. InboxT /\ ArcT /\ StreamT /\ ChildT /\ WireT /\ BoundsT
  BY TypeSplit
<1>1. InboxT'
  BY <1>0 DEF ReadPending, Finish, InboxT, MsgType, FlushType, NoFlush, NoMessage, Flushers, Group, Pending, inbox
<1>2. ArcT'
  BY <1>0, Frames DEF ReadPending
<1>3. StreamT'
  BY <1>0, Frames DEF ReadPending
<1>4. ChildT'
  BY <1>0, Frames DEF ReadPending
<1>5. WireT'
  BY <1>0, Frames DEF ReadPending
<1>6. BoundsT'
  BY <1>0, Frames DEF ReadPending
<1> QED BY <1>1, <1>2, <1>3, <1>4, <1>5, <1>6, TypeSplit

LEMMA SubmitTyped ==
  ASSUME NEW f \in Flushers, TypeOK, SenderInv, GroupInv, Submit(f)
  PROVE  TypeOK'
<1>0. InboxT /\ ArcT /\ StreamT /\ ChildT /\ WireT /\ BoundsT
  BY TypeSplit
<1>1. InboxT'
  BY <1>0 DEF Submit, Finish, WriteText, InboxT, MsgType, FlushType, NoFlush, NoMessage, Flushers, Group, Pending, inbox
<1>2. ArcT'
  BY <1>0, Frames DEF Submit
<1>3. StreamT'
  BY <1>0, Frames DEF Submit
<1>4. ChildT'
  BY <1>0, Frames DEF Submit
<1>5. WireT'
  <2>1. CASE attached
    <3>1. PICK m \in flush[f].group : WriteText(msg[m].from)
      BY <2>1 DEF Submit
    <3>2. flush[f].group \subseteq Messages
      BY <1>0 DEF InboxT, FlushType
    <3>3. msg[m].from \in Senders
      BY <3>2 DEF Submit, SenderInv, GroupInv
    <3>4. [group |-> flush[f].group, epoch |-> epoch] \in WriteType
      BY <1>0, <3>2 DEF BoundsT, WriteType
    <3>5. writes' \in Seq(WriteType)
      <4>1. writes' = Append(writes, [group |-> flush[f].group, epoch |-> epoch])
        BY <2>1 DEF Submit
      <4> QED BY <1>0, <3>4, <4>1, AppendProperties DEF WireT
    <3> QED BY <1>0, <3>1, <3>3, <3>5, WriteTextTyped DEF WireT
  <2>2. CASE ~attached
    BY <1>0, <2>2, Frames DEF Submit
  <2> QED BY <2>1, <2>2
<1>6. BoundsT'
  BY <1>0, Frames DEF Submit
<1> QED BY <1>1, <1>2, <1>3, <1>4, <1>5, <1>6, TypeSplit

LEMMA AckTyped ==
  ASSUME NEW f \in Flushers, TypeOK, SenderInv, GroupInv, Ack(f)
  PROVE  TypeOK'
<1>0. InboxT /\ ArcT /\ StreamT /\ ChildT /\ WireT /\ BoundsT
  BY TypeSplit
<1>1. InboxT'
  BY SMTT(60), <1>0 DEF Ack, Finish, InboxT, MsgType, FlushType, NoFlush, NoMessage, Flushers, Group, Pending, inbox
<1>2. ArcT'
  BY <1>0, Frames DEF Ack
<1>3. StreamT'
  BY <1>0, Frames DEF Ack
<1>4. ChildT'
  BY <1>0, Frames DEF Ack
<1>5. WireT'
  BY <1>0, Frames DEF Ack
<1>6. BoundsT'
  BY <1>0, Frames DEF Ack
<1> QED BY <1>1, <1>2, <1>3, <1>4, <1>5, <1>6, TypeSplit

LEMMA PressEnterTyped ==
  ASSUME TypeOK, SenderInv, GroupInv, PressEnter
  PROVE  TypeOK'
<1>0. InboxT /\ ArcT /\ StreamT /\ ChildT /\ WireT /\ BoundsT
  BY TypeSplit
<1>1. InboxT'
  BY <1>0, Frames DEF PressEnter
<1>2. ArcT'
  BY <1>0, Frames DEF PressEnter
<1>3. StreamT'
  BY <1>0, Frames DEF PressEnter
<1>4. ChildT'
  BY <1>0, Frames DEF PressEnter
<1>5. WireT'
  BY <1>0, InboxAssumption DEF PressEnter, WireT, TtyType, WriteType, wire
<1>6. BoundsT'
  BY <1>0, Frames DEF PressEnter
<1> QED BY <1>1, <1>2, <1>3, <1>4, <1>5, <1>6, TypeSplit

LEMMA SendPromptTyped ==
  ASSUME TypeOK, SenderInv, GroupInv, SendPrompt
  PROVE  TypeOK'
<1>0. InboxT /\ ArcT /\ StreamT /\ ChildT /\ WireT /\ BoundsT
  BY TypeSplit
<1>1. InboxT'
  BY <1>0, Frames DEF SendPrompt
<1>2. ArcT'
  BY <1>0, Frames DEF SendPrompt
<1>3. StreamT'
  BY <1>0, Frames DEF SendPrompt
<1>4. ChildT'
  BY <1>0, Frames DEF SendPrompt
<1>5. WireT'
  BY <1>0, WriteTextTyped DEF SendPrompt, WireT
<1>6. BoundsT'
  BY <1>0, InboxAssumption DEF SendPrompt, WriteText, BoundsT, bounds
<1> QED BY <1>1, <1>2, <1>3, <1>4, <1>5, <1>6, TypeSplit

LEMMA IngestTyped ==
  ASSUME TypeOK, SenderInv, GroupInv, Ingest
  PROVE  TypeOK'
<1>0. InboxT /\ ArcT /\ StreamT /\ ChildT /\ WireT /\ BoundsT
  BY TypeSplit
<1>1. InboxT'
  BY <1>0, Frames DEF Ingest
<1>2. ArcT'
  BY <1>0 DEF Ingest, ArcT, arc
<1>3. StreamT'
  BY <1>0, InboxAssumption DEF Ingest, StreamT, HookType, stream
<1>4. ChildT'
  BY <1>0, Frames DEF Ingest
<1>5. WireT'
  BY <1>0, Frames DEF Ingest
<1>6. BoundsT'
  BY <1>0, Frames DEF Ingest
<1> QED BY <1>1, <1>2, <1>3, <1>4, <1>5, <1>6, TypeSplit

LEMMA NoteTurnTyped ==
  ASSUME TypeOK, SenderInv, GroupInv, NoteTurn
  PROVE  TypeOK'
<1>0. InboxT /\ ArcT /\ StreamT /\ ChildT /\ WireT /\ BoundsT
  BY TypeSplit
<1>1. InboxT'
  BY <1>0 DEF NoteTurn, InboxT, MsgType, FlushType, NoFlush, NoMessage, Flushers, Group, Pending, inbox
<1>2. ArcT'
  BY <1>0 DEF NoteTurn, ArcT, arc
<1>3. StreamT'
  BY <1>0, InboxAssumption DEF NoteTurn, StreamT, HookType, stream
<1>4. ChildT'
  BY <1>0, Frames DEF NoteTurn
<1>5. WireT'
  BY <1>0, Frames DEF NoteTurn
<1>6. BoundsT'
  BY <1>0, Frames DEF NoteTurn
<1> QED BY <1>1, <1>2, <1>3, <1>4, <1>5, <1>6, TypeSplit

LEMMA BackfillTyped ==
  ASSUME TypeOK, SenderInv, GroupInv, Backfill
  PROVE  TypeOK'
<1>0. InboxT /\ ArcT /\ StreamT /\ ChildT /\ WireT /\ BoundsT
  BY TypeSplit
<1>1. InboxT'
  BY <1>0, Frames DEF Backfill
<1>2. ArcT'
  BY <1>0 DEF Backfill, Project, ArcT, arc
<1>3. StreamT'
  BY <1>0, InboxAssumption DEF Backfill, Project, StreamT, HookType, stream
<1>4. ChildT'
  BY <1>0 DEF Backfill, Project, ChildT, child
<1>5. WireT'
  BY <1>0, Frames DEF Backfill
<1>6. BoundsT'
  BY <1>0, Frames DEF Backfill
<1> QED BY <1>1, <1>2, <1>3, <1>4, <1>5, <1>6, TypeSplit

LEMMA WatchTyped ==
  ASSUME TypeOK, SenderInv, GroupInv, Watch
  PROVE  TypeOK'
<1>0. InboxT /\ ArcT /\ StreamT /\ ChildT /\ WireT /\ BoundsT
  BY TypeSplit
<1>1. InboxT'
  BY <1>0, Frames DEF Watch
<1>2. ArcT'
  BY <1>0 DEF Watch, Project, ArcT, arc
<1>3. StreamT'
  BY <1>0, Frames DEF Watch
<1>4. ChildT'
  BY <1>0 DEF Watch, Project, ChildT, child
<1>5. WireT'
  BY <1>0, Frames DEF Watch
<1>6. BoundsT'
  BY <1>0, Frames DEF Watch
<1> QED BY <1>1, <1>2, <1>3, <1>4, <1>5, <1>6, TypeSplit

LEMMA BindTyped ==
  ASSUME TypeOK, SenderInv, GroupInv, Bind
  PROVE  TypeOK'
<1>0. InboxT /\ ArcT /\ StreamT /\ ChildT /\ WireT /\ BoundsT
  BY TypeSplit
<1>1. InboxT'
  BY <1>0 DEF Bind, InboxT, MsgType, FlushType, NoFlush, NoMessage, Flushers, Group, Pending, inbox
<1>2. ArcT'
  BY <1>0, Frames DEF Bind
<1>3. StreamT'
  BY <1>0, InboxAssumption DEF Bind, StreamT, HookType, stream
<1>4. ChildT'
  BY <1>0, Frames DEF Bind
<1>5. WireT'
  BY <1>0, Frames DEF Bind
<1>6. BoundsT'
  BY <1>0, Frames DEF Bind
<1> QED BY <1>1, <1>2, <1>3, <1>4, <1>5, <1>6, TypeSplit

LEMMA HandleExitTyped ==
  ASSUME TypeOK, SenderInv, GroupInv, HandleExit
  PROVE  TypeOK'
<1>0. InboxT /\ ArcT /\ StreamT /\ ChildT /\ WireT /\ BoundsT
  BY TypeSplit
<1>1. InboxT'
  BY <1>0, Frames DEF HandleExit
<1>2. ArcT'
  BY <1>0 DEF HandleExit, ArcT, arc
<1>3. StreamT'
  BY <1>0, Frames DEF HandleExit
<1>4. ChildT'
  BY <1>0, Frames DEF HandleExit
<1>5. WireT'
  BY <1>0, Frames DEF HandleExit
<1>6. BoundsT'
  BY <1>0, Frames DEF HandleExit
<1> QED BY <1>1, <1>2, <1>3, <1>4, <1>5, <1>6, TypeSplit

LEMMA LeaveTyped ==
  ASSUME TypeOK, SenderInv, GroupInv, Leave
  PROVE  TypeOK'
<1>0. InboxT /\ ArcT /\ StreamT /\ ChildT /\ WireT /\ BoundsT
  BY TypeSplit
<1>1. InboxT'
  BY <1>0, Frames DEF Leave
<1>2. ArcT'
  BY <1>0 DEF Leave, ArcT, arc
<1>3. StreamT'
  BY <1>0, Frames DEF Leave
<1>4. ChildT'
  BY <1>0, Frames DEF Leave
<1>5. WireT'
  BY <1>0, Frames DEF Leave
<1>6. BoundsT'
  BY <1>0, Frames DEF Leave
<1> QED BY <1>1, <1>2, <1>3, <1>4, <1>5, <1>6, TypeSplit

LEMMA ResumeTyped ==
  ASSUME TypeOK, SenderInv, GroupInv, Resume
  PROVE  TypeOK'
<1>0. InboxT /\ ArcT /\ StreamT /\ ChildT /\ WireT /\ BoundsT
  BY TypeSplit
<1>1. InboxT'
  BY <1>0, Frames DEF Resume
<1>2. ArcT'
  BY <1>0 DEF Resume, ArcT, arc
<1>3. StreamT'
  BY <1>0, Frames DEF Resume
<1>4. ChildT'
  BY <1>0 DEF Resume, ChildT, child
<1>5. WireT'
  BY <1>0, Frames DEF Resume
<1>6. BoundsT'
  BY <1>0, InboxAssumption DEF Resume, BoundsT, bounds
<1> QED BY <1>1, <1>2, <1>3, <1>4, <1>5, <1>6, TypeSplit

LEMMA ChildDiesTyped ==
  ASSUME TypeOK, SenderInv, GroupInv, ChildDies
  PROVE  TypeOK'
<1>0. InboxT /\ ArcT /\ StreamT /\ ChildT /\ WireT /\ BoundsT
  BY TypeSplit
<1>1. InboxT'
  BY <1>0, Frames DEF ChildDies
<1>2. ArcT'
  BY <1>0 DEF ChildDies, ChildGone, ArcT, arc
<1>3. StreamT'
  BY <1>0, Frames DEF ChildDies
<1>4. ChildT'
  BY <1>0 DEF ChildDies, ChildGone, ChildT, child
<1>5. WireT'
  BY <1>0, InboxAssumption DEF ChildDies, ChildGone, WireT, TtyType, WriteType, wire
<1>6. BoundsT'
  BY <1>0, Frames DEF ChildDies
<1> QED BY <1>1, <1>2, <1>3, <1>4, <1>5, <1>6, TypeSplit

LEMMA CrashTyped ==
  ASSUME TypeOK, SenderInv, GroupInv, Crash
  PROVE  TypeOK'
<1>0. InboxT /\ ArcT /\ StreamT /\ ChildT /\ WireT /\ BoundsT
  BY TypeSplit
<1>1. InboxT'
  <2>1. NoMessage \in MsgType /\ NoFlush \in FlushType
    BY InboxAssumption DEF NoMessage, MsgType, NoFlush, FlushType
  <2>2. msg' \in [Messages -> MsgType]
    BY <1>0, <2>1 DEF Crash, InboxT
  <2> QED BY <1>0, <2>1, <2>2 DEF Crash, InboxT
<1>2. ArcT'
  BY <1>0 DEF Crash, ChildGone, ArcT, arc
<1>3. StreamT'
  BY <1>0, InboxAssumption DEF Crash, ChildGone, StreamT, HookType, stream
<1>4. ChildT'
  BY <1>0 DEF Crash, ChildGone, ChildT, child
<1>5. WireT'
  BY <1>0, InboxAssumption DEF Crash, ChildGone, WireT, TtyType, WriteType, wire
<1>6. BoundsT'
  BY <1>0, InboxAssumption DEF Crash, ChildGone, BoundsT, bounds
<1> QED BY <1>1, <1>2, <1>3, <1>4, <1>5, <1>6, TypeSplit

LEMMA AgentStartsTyped ==
  ASSUME TypeOK, SenderInv, GroupInv, AgentStarts
  PROVE  TypeOK'
<1>0. InboxT /\ ArcT /\ StreamT /\ ChildT /\ WireT /\ BoundsT
  BY TypeSplit
<1>1. InboxT'
  BY <1>0, Frames DEF AgentStarts
<1>2. ArcT'
  BY <1>0, Frames DEF AgentStarts
<1>3. StreamT'
  BY <1>0, InboxAssumption DEF AgentStarts, Hook, StreamT, HookType, stream
<1>4. ChildT'
  BY <1>0 DEF AgentStarts, Hook, ChildT, child
<1>5. WireT'
  BY <1>0, Frames DEF AgentStarts
<1>6. BoundsT'
  BY <1>0, Frames DEF AgentStarts
<1> QED BY <1>1, <1>2, <1>3, <1>4, <1>5, <1>6, TypeSplit

LEMMA AgentReadsTyped ==
  ASSUME TypeOK, SenderInv, GroupInv, AgentReads
  PROVE  TypeOK'
<1>0. InboxT /\ ArcT /\ StreamT /\ ChildT /\ WireT /\ BoundsT
  BY TypeSplit
<1>1. InboxT'
  BY <1>0, Frames DEF AgentReads
<1>2. ArcT'
  BY <1>0, Frames DEF AgentReads
<1>3. StreamT'
  <2>1. CASE UNCHANGED stream
    BY <1>0, <2>1, Frames
  <2>2. CASE Hook("prompt")
    <3>1. Append(hooks, "prompt") \in Seq(HookType)
      BY <1>0, AppendProperties DEF StreamT, HookType
    <3> QED BY <1>0, <2>2, <3>1, InboxAssumption DEF StreamT, Hook
  <2> QED BY <2>1, <2>2 DEF AgentReads
<1>4. ChildT'
  <2>1. Head(tty) \in TtyType
    BY <1>0, HeadTailProperties DEF AgentReads, WireT
  <2>2. Head(tty).kind = "text" => Head(tty).from \in Senders \cup {Human}
    BY <2>1 DEF TtyType
  <2> QED BY <1>0, <2>2 DEF AgentReads, ChildT
<1>5. WireT'
  BY <1>0, InboxAssumption DEF AgentReads, Hook, WireT, TtyType, WriteType, wire
<1>6. BoundsT'
  BY <1>0, Frames DEF AgentReads
<1> QED BY <1>1, <1>2, <1>3, <1>4, <1>5, <1>6, TypeSplit

LEMMA AgentAsksTyped ==
  ASSUME TypeOK, SenderInv, GroupInv, AgentAsks
  PROVE  TypeOK'
<1>0. InboxT /\ ArcT /\ StreamT /\ ChildT /\ WireT /\ BoundsT
  BY TypeSplit
<1>1. InboxT'
  BY <1>0, Frames DEF AgentAsks
<1>2. ArcT'
  BY <1>0, Frames DEF AgentAsks
<1>3. StreamT'
  BY <1>0, InboxAssumption DEF AgentAsks, Hook, StreamT, HookType, stream
<1>4. ChildT'
  BY <1>0 DEF AgentAsks, Hook, ChildT, child
<1>5. WireT'
  BY <1>0, Frames DEF AgentAsks
<1>6. BoundsT'
  BY <1>0, Frames DEF AgentAsks
<1> QED BY <1>1, <1>2, <1>3, <1>4, <1>5, <1>6, TypeSplit

LEMMA AgentIsAnsweredTyped ==
  ASSUME TypeOK, SenderInv, GroupInv, AgentIsAnswered
  PROVE  TypeOK'
<1>0. InboxT /\ ArcT /\ StreamT /\ ChildT /\ WireT /\ BoundsT
  BY TypeSplit
<1>1. InboxT'
  BY <1>0, Frames DEF AgentIsAnswered
<1>2. ArcT'
  BY <1>0, Frames DEF AgentIsAnswered
<1>3. StreamT'
  BY <1>0, InboxAssumption DEF AgentIsAnswered, Hook, StreamT, HookType, stream
<1>4. ChildT'
  BY <1>0 DEF AgentIsAnswered, Hook, ChildT, child
<1>5. WireT'
  BY <1>0, Frames DEF AgentIsAnswered
<1>6. BoundsT'
  BY <1>0, Frames DEF AgentIsAnswered
<1> QED BY <1>1, <1>2, <1>3, <1>4, <1>5, <1>6, TypeSplit

LEMMA AgentStopsTyped ==
  ASSUME TypeOK, SenderInv, GroupInv, AgentStops
  PROVE  TypeOK'
<1>0. InboxT /\ ArcT /\ StreamT /\ ChildT /\ WireT /\ BoundsT
  BY TypeSplit
<1>1. InboxT'
  BY <1>0, Frames DEF AgentStops
<1>2. ArcT'
  BY <1>0, Frames DEF AgentStops
<1>3. StreamT'
  BY <1>0, InboxAssumption DEF AgentStops, Hook, StreamT, HookType, stream
<1>4. ChildT'
  BY <1>0 DEF AgentStops, Hook, ChildT, child
<1>5. WireT'
  BY <1>0, Frames DEF AgentStops
<1>6. BoundsT'
  BY <1>0, Frames DEF AgentStops
<1> QED BY <1>1, <1>2, <1>3, <1>4, <1>5, <1>6, TypeSplit

-----------------------------------------------------------------------------
(* The invariant is preserved.                                             *)

\* A step that touches neither the messages, nor the flushes, nor the log.
LEMMA StillKeeps ==
  ASSUME IInv, UNCHANGED <<msg, lock, flush, writes, epoch>>,
         handling # "backfill" => handling' = handling \/ flush[Signal].pc = "none",
         handling = "backfill" => handling' = "backfill" \/ flush[Signal].pc = "none"
  PROVE  IInv'
<1>1. SenderInv'
  BY DEF IInv, SenderInv
<1>2. IdleInv'
  BY DEF IInv, IdleInv
<1>3. LockInv'
  BY DEF IInv, LockInv, Holds
<1>4. GroupInv'
  BY DEF IInv, GroupInv
<1>5. WrittenInv'
  BY DEF IInv, WrittenInv
<1>6. ClosedInv'
  BY DEF IInv, ClosedInv
<1>7. AheadInv'
  BY DEF IInv, AheadInv
<1>8. LoggedInv'
  BY DEF IInv, LoggedInv
<1>9. DoneInv'
  BY DEF IInv, DoneInv
<1>10. EpochInv'
  BY DEF IInv, EpochInv
<1>11. PastedOnce'
  BY DEF IInv, PastedOnce
<1>12. AckedWasPasted'
  BY DEF IInv, AckedWasPasted
<1>13. Fifo'
  BY DEF IInv, Fifo
<1> QED BY <1>1, <1>2, <1>3, <1>4, <1>5, <1>6, <1>7, <1>8, <1>9, <1>10, <1>11, <1>12, <1>13 DEF IInv

\* A flusher that was idle starts.
LEMMA WakeKeeps ==
  ASSUME TypeOK, IInv, NEW f \in Flushers, flush[f].pc = "none",
         flush' = [flush EXCEPT ![f].pc = "waiting"],
         f \in Messages => msg[f].state \notin {"none", "stamped"},
         f = Signal => handling' = "backfill", f # Signal => handling' = handling,
         UNCHANGED <<msg, lock, writes, epoch>>
  PROVE  IInv'
<1>1. InboxType
  BY TypeOKGives
<1>2. /\ \A g \in Flushers : g # f => flush'[g] = flush[g]
      /\ flush'[f].pc = "waiting"
  BY <1>1 DEF InboxType, FlushType
<1>3. Messages \subseteq Flushers /\ Signal \in Flushers
  BY DEF Flushers
<1>10. SenderInv'
  BY <1>2, <1>3 DEF IInv, SenderInv
<1>11. IdleInv'
  BY <1>2, <1>3 DEF IInv, IdleInv
<1>12. LockInv'
  BY <1>2, <1>3 DEF IInv, LockInv, Holds
<1>13. GroupInv'
  BY <1>2, <1>3 DEF IInv, GroupInv
<1>14. WrittenInv'
  BY <1>2, <1>3 DEF IInv, WrittenInv
<1>15. ClosedInv'
  BY <1>2, <1>3 DEF IInv, ClosedInv
<1>16. AheadInv'
  BY <1>2, <1>3 DEF IInv, AheadInv
<1>17. LoggedInv'
  BY <1>2, <1>3 DEF IInv, LoggedInv
<1>18. DoneInv'
  BY <1>2, <1>3 DEF IInv, DoneInv
<1>19. EpochInv'
  BY <1>2, <1>3 DEF IInv, EpochInv
<1>20. PastedOnce'
  BY <1>2, <1>3 DEF IInv, PastedOnce
<1>21. AckedWasPasted'
  BY <1>2, <1>3 DEF IInv, AckedWasPasted
<1>22. Fifo'
  BY <1>2, <1>3 DEF IInv, Fifo
<1> QED BY <1>10, <1>11, <1>12, <1>13, <1>14, <1>15, <1>16, <1>17, <1>18, <1>19, <1>20, <1>21, <1>22 DEF IInv

\* The row's timestamp is taken.
LEMMA SendKeeps ==
  ASSUME TypeOK, IInv, NEW m \in Messages, NEW s \in Senders, Send(m, s)
  PROVE  IInv'
<1>1. InboxType
  BY TypeOKGives
<1>2. /\ \A n \in Messages : n # m => msg'[n] = msg[n]
      /\ msg'[m].state = "stamped" /\ msg'[m].from = s /\ msg[m].state = "none"
      /\ msg'[m].stamp = clock'
      /\ msg'[m].ahead = {n \in Pending : msg[n].stamp < clock'}
      /\ UNCHANGED <<lock, flush, writes, epoch, handling>>
  BY <1>1 DEF Send, InboxType, MsgType, arc, stream, wire, child, bounds
<1>3. /\ \A n \in Messages : msg[n].ahead \subseteq Messages
      /\ \A f \in Flushers : flush[f].group \subseteq Messages
      /\ \A i \in DOMAIN writes : writes[i].group \subseteq Messages
  BY Within
<1>4. \A i \in DOMAIN writes : m \notin writes[i].group
  BY <1>2 DEF IInv, LoggedInv
<1>5. \A f \in Flushers : flush[f].pc \in {"grouped", "written"} => m \notin flush[f].group
  BY <1>2 DEF IInv, GroupInv
<1>10. SenderInv'
  BY <1>2, <1>3, <1>4, <1>5 DEF IInv, SenderInv
<1>11. IdleInv'
  BY <1>2, <1>3, <1>4, <1>5 DEF IInv, IdleInv
<1>12. LockInv'
  BY <1>2, <1>3, <1>4, <1>5 DEF IInv, LockInv, Holds
<1>13. GroupInv'
  BY <1>2, <1>3, <1>4, <1>5 DEF IInv, GroupInv
<1>14. WrittenInv'
  BY <1>2, <1>3, <1>4, <1>5 DEF IInv, WrittenInv
<1>15. ClosedInv'
  BY <1>2, <1>3, <1>4, <1>5 DEF IInv, ClosedInv
<1>16. AheadInv'
  BY <1>2, <1>3, <1>4, <1>5 DEF IInv, AheadInv, Pending
<1>17. LoggedInv'
  BY <1>2, <1>3, <1>4, <1>5 DEF IInv, LoggedInv
<1>18. DoneInv'
  BY <1>2, <1>3, <1>4, <1>5 DEF IInv, DoneInv
<1>19. EpochInv'
  BY <1>2, <1>3, <1>4, <1>5 DEF IInv, EpochInv
<1>20. PastedOnce'
  BY <1>2, <1>3, <1>4, <1>5 DEF IInv, PastedOnce
<1>21. AckedWasPasted'
  BY <1>2, <1>3, <1>4, <1>5 DEF IInv, AckedWasPasted
<1>22. Fifo'
  BY <1>2, <1>3, <1>4, <1>5 DEF IInv, Fifo
<1> QED BY <1>10, <1>11, <1>12, <1>13, <1>14, <1>15, <1>16, <1>17, <1>18, <1>19, <1>20, <1>21, <1>22 DEF IInv

\* The row is in, and its sender flushes.
LEMMA InsertKeeps ==
  ASSUME TypeOK, IInv, NEW m \in Messages, Insert(m)
  PROVE  IInv'
<1>1. InboxType
  BY TypeOKGives
<1>2. /\ \A n \in Messages : n # m => msg'[n] = msg[n]
      /\ msg'[m].state = "pending" /\ msg[m].state = "stamped"
      /\ msg'[m].stamp = msg[m].stamp /\ msg'[m].from = msg[m].from
      /\ msg'[m].ahead = msg[m].ahead
  BY <1>1 DEF Insert, InboxType, MsgType
<1>3. /\ \A g \in Flushers : g # m => flush'[g] = flush[g]
      /\ flush'[m].pc = "waiting" /\ flush[m].pc = "none"
  BY <1>1, <1>2 DEF Insert, InboxType, FlushType, Flushers, IInv, IdleInv
<1>4. UNCHANGED <<lock, writes, epoch, handling>>
  BY DEF Insert, arc, stream, wire, child, bounds
<1>5. /\ \A n \in Messages : msg[n].ahead \subseteq Messages
      /\ \A f \in Flushers : flush[f].group \subseteq Messages
      /\ \A i \in DOMAIN writes : writes[i].group \subseteq Messages
      /\ Messages \subseteq Flushers /\ Signal \in Flushers /\ Signal # m
  BY Within, InboxAssumption DEF Flushers
<1>6. \A n \in Messages : msg[n].state # "none" => msg'[n].state # "none"
  BY <1>2
<1>10. SenderInv'
  BY <1>2, <1>3, <1>4, <1>5 DEF IInv, SenderInv
<1>11. IdleInv'
  BY <1>2, <1>3, <1>4, <1>5 DEF IInv, IdleInv
<1>12. LockInv'
  BY <1>2, <1>3, <1>4, <1>5 DEF IInv, LockInv, Holds
<1>13. GroupInv'
  BY <1>2, <1>3, <1>4, <1>5 DEF IInv, GroupInv
<1>14. WrittenInv'
  BY <1>2, <1>3, <1>4, <1>5 DEF IInv, WrittenInv
<1>15. ClosedInv'
  BY <1>2, <1>3, <1>4, <1>5 DEF IInv, ClosedInv
<1>16. AheadInv'
  BY <1>2, <1>3, <1>4, <1>5 DEF IInv, AheadInv
<1>17. LoggedInv'
  BY <1>2, <1>3, <1>4, <1>5 DEF IInv, LoggedInv
<1>18. DoneInv'
  BY <1>2, <1>3, <1>4, <1>5 DEF IInv, DoneInv
<1>19. EpochInv'
  BY <1>2, <1>3, <1>4, <1>5 DEF IInv, EpochInv
<1>20. PastedOnce'
  BY <1>2, <1>3, <1>4, <1>5 DEF IInv, PastedOnce
<1>21. AckedWasPasted'
  BY <1>2, <1>3, <1>4, <1>5 DEF IInv, AckedWasPasted
<1>22. Fifo'
  BY <1>2, <1>3, <1>4, <1>5 DEF IInv, Fifo
<1> QED BY <1>10, <1>11, <1>12, <1>13, <1>14, <1>15, <1>16, <1>17, <1>18, <1>19, <1>20, <1>21, <1>22 DEF IInv

\* A flush that is over, or that found nothing to do, releases the lock.
LEMMA FinishKeeps ==
  ASSUME TypeOK, IInv, NEW f \in Flushers, Finish(f), Holds(f) \/ lock = Null,
         flush[f].pc # "written",
         UNCHANGED <<msg, writes, epoch, handling>>
  PROVE  IInv'
<1>1. InboxType
  BY TypeOKGives
<1>2. /\ \A g \in Flushers : g # f => flush'[g] = flush[g]
      /\ flush'[f].pc = "none"
  BY <1>1 DEF InboxType, FlushType, Finish, NoFlush
<1>3. \A g \in Flushers : g # f => ~Holds(g)
  BY InboxAssumption DEF IInv, LockInv
<1>4. Messages \subseteq Flushers /\ Signal \in Flushers
  BY DEF Flushers
<1>10. SenderInv'
  BY <1>2, <1>3, <1>4 DEF IInv, SenderInv
<1>11. IdleInv'
  BY <1>2, <1>3, <1>4 DEF IInv, IdleInv
<1>12. LockInv'
  BY <1>2, <1>3 DEF LockInv, Holds
<1>13. GroupInv'
  BY <1>2, <1>3, <1>4 DEF IInv, GroupInv
<1>14. WrittenInv'
  BY <1>2, <1>3, <1>4 DEF IInv, WrittenInv
<1>15. ClosedInv'
  BY <1>2, <1>3, <1>4 DEF IInv, ClosedInv
<1>16. AheadInv'
  BY <1>2, <1>3, <1>4 DEF IInv, AheadInv
<1>17. LoggedInv'
  BY <1>2, <1>3, <1>4 DEF IInv, LoggedInv
<1>18. DoneInv'
  BY <1>2, <1>3, <1>4 DEF IInv, DoneInv
<1>19. EpochInv'
  BY <1>2, <1>3, <1>4 DEF IInv, EpochInv
<1>20. PastedOnce'
  BY <1>2, <1>3, <1>4 DEF IInv, PastedOnce
<1>21. AckedWasPasted'
  BY <1>2, <1>3, <1>4 DEF IInv, AckedWasPasted
<1>22. Fifo'
  BY <1>2, <1>3, <1>4 DEF IInv, Fifo
<1> QED BY <1>10, <1>11, <1>12, <1>13, <1>14, <1>15, <1>16, <1>17, <1>18, <1>19, <1>20, <1>21, <1>22 DEF IInv

\* The lock is taken and the activity read.
LEMMA LookKeeps ==
  ASSUME TypeOK, IInv, NEW f \in Flushers, Look(f)
  PROVE  IInv'
<1>1. InboxType
  BY TypeOKGives
<1>2. UNCHANGED <<msg, writes, epoch, handling>>
  BY DEF Look, arc, stream, wire, child, bounds
<1>3. CASE Finish(f)
  BY <1>2, <1>3, FinishKeeps DEF Look
<1>4. CASE flush' = [flush EXCEPT ![f].pc = "looked"] /\ lock' = f
  <2>1. /\ \A g \in Flushers : g # f => flush'[g] = flush[g]
        /\ flush'[f].pc = "looked" /\ flush[f].pc = "waiting"
    BY <1>1, <1>4 DEF Look, InboxType, FlushType
  <2>2. \A g \in Flushers : ~Holds(g)
    BY InboxAssumption DEF IInv, LockInv, Look
  <2>3. Messages \subseteq Flushers /\ Signal \in Flushers
    BY DEF Flushers
  <2>10. SenderInv'
    BY <1>2, <1>4, <2>1, <2>2, <2>3 DEF IInv, SenderInv
  <2>11. IdleInv'
    BY <1>2, <1>4, <2>1, <2>2, <2>3 DEF IInv, IdleInv
  <2>12. LockInv'
    BY <1>4, <2>1, <2>2 DEF LockInv, Holds
  <2>13. GroupInv'
    BY <1>2, <1>4, <2>1, <2>2, <2>3 DEF IInv, GroupInv
  <2>14. WrittenInv'
    BY <1>2, <1>4, <2>1, <2>2, <2>3 DEF IInv, WrittenInv
  <2>15. ClosedInv'
    BY <1>2, <1>4, <2>1, <2>2, <2>3 DEF IInv, ClosedInv
  <2>16. AheadInv'
    BY <1>2, <1>4, <2>1, <2>2, <2>3 DEF IInv, AheadInv
  <2>17. LoggedInv'
    BY <1>2, <1>4, <2>1, <2>2, <2>3 DEF IInv, LoggedInv
  <2>18. DoneInv'
    BY <1>2, <1>4, <2>1, <2>2, <2>3 DEF IInv, DoneInv
  <2>19. EpochInv'
    BY <1>2, <1>4, <2>1, <2>2, <2>3 DEF IInv, EpochInv
  <2>20. PastedOnce'
    BY <1>2, <1>4, <2>1, <2>2, <2>3 DEF IInv, PastedOnce
  <2>21. AckedWasPasted'
    BY <1>2, <1>4, <2>1, <2>2, <2>3 DEF IInv, AckedWasPasted
  <2>22. Fifo'
    BY <1>2, <1>4, <2>1, <2>2, <2>3 DEF IInv, Fifo
  <2> QED BY <2>10, <2>11, <2>12, <2>13, <2>14, <2>15, <2>16, <2>17, <2>18, <2>19, <2>20, <2>21, <2>22 DEF IInv
<1> QED BY <1>3, <1>4 DEF Look

\* What is grouped is closed under what came before.
LEMMA GroupClosed ==
  ASSUME TypeOK, NEW m \in Group(Pending), NEW n \in Pending, msg[n].stamp < msg[m].stamp
  PROVE  n \in Group(Pending)
<1>1. \A k \in Messages : msg[k].stamp \in Int /\ k \in Int
  BY TypeOKGives DEF InboxType, MsgType, Messages
<1>2. /\ m \in Messages /\ n \in Messages /\ Pending \subseteq Messages
      /\ \A k \in Pending : ~Before(m, k) => msg[k].from = msg[m].from
  BY DEF Group, Pending
<1>3. msg[n].from = msg[m].from
  BY <1>1, <1>2 DEF Before
<1>4. ASSUME NEW k \in Pending, ~Before(n, k) PROVE ~Before(m, k)
  BY <1>1, <1>2, <1>4 DEF Before
<1>5. \A k \in Pending : ~Before(n, k) => msg[k].from = msg[n].from
  BY <1>2, <1>3, <1>4
<1> QED BY <1>5 DEF Group

\* The oldest sender's group is chosen.
LEMMA ReadPendingKeeps ==
  ASSUME TypeOK, IInv, NEW f \in Flushers, ReadPending(f)
  PROVE  IInv'
<1>1. InboxType
  BY TypeOKGives
<1>2. UNCHANGED <<msg, writes, epoch, handling>>
  BY DEF ReadPending, arc, stream, wire, child, bounds
<1>3. CASE Finish(f)
  BY <1>2, <1>3, FinishKeeps DEF ReadPending, Holds
<1>4. CASE flush' = [flush EXCEPT ![f] = [pc |-> "grouped", group |-> Group(Pending)]] /\ UNCHANGED lock
  <2>1. /\ \A g \in Flushers : g # f => flush'[g] = flush[g]
        /\ flush'[f].pc = "grouped" /\ flush'[f].group = Group(Pending)
        /\ flush[f].pc = "looked"
    BY <1>1, <1>4 DEF ReadPending, InboxType
  <2>2. Group(Pending) \subseteq Messages /\ \A m \in Group(Pending) : msg[m].state = "pending"
    BY DEF Group, Pending
  <2>3. Messages \subseteq Flushers /\ Signal \in Flushers
    BY DEF Flushers
  <2>4. ASSUME NEW m \in Group(Pending), NEW n \in msg[m].ahead
        PROVE  n \in Group(Pending) \/ msg[n].state = "delivered"
    <3>1. n \in Messages /\ m \in Messages
      BY <2>2, Within
    <3>2. msg[n].stamp < msg[m].stamp /\ msg[n].state \in {"pending", "delivered"}
      BY <3>1 DEF IInv, AheadInv
    <3> QED BY <3>1, <3>2, GroupClosed DEF Pending
  <2>10. SenderInv'
    BY <1>2, <1>4, <2>1, <2>2, <2>3, <2>4 DEF IInv, SenderInv
  <2>11. IdleInv'
    BY <1>2, <1>4, <2>1, <2>2, <2>3, <2>4 DEF IInv, IdleInv
  <2>12. LockInv'
    BY <1>2, <1>4, <2>1, <2>2, <2>3, <2>4 DEF IInv, LockInv, Holds
  <2>13. GroupInv'
    BY <1>2, <1>4, <2>1, <2>2, <2>3, <2>4 DEF IInv, GroupInv
  <2>14. WrittenInv'
    BY <1>2, <1>4, <2>1, <2>2, <2>3, <2>4 DEF IInv, WrittenInv
  <2>15. ClosedInv'
    BY <1>2, <1>4, <2>1, <2>2, <2>3, <2>4 DEF IInv, ClosedInv
  <2>16. AheadInv'
    BY <1>2, <1>4, <2>1, <2>2, <2>3, <2>4 DEF IInv, AheadInv
  <2>17. LoggedInv'
    BY <1>2, <1>4, <2>1, <2>2, <2>3, <2>4 DEF IInv, LoggedInv
  <2>18. DoneInv'
    BY <1>2, <1>4, <2>1, <2>2, <2>3, <2>4 DEF IInv, DoneInv
  <2>19. EpochInv'
    BY <1>2, <1>4, <2>1, <2>2, <2>3, <2>4 DEF IInv, EpochInv
  <2>20. PastedOnce'
    BY <1>2, <1>4, <2>1, <2>2, <2>3, <2>4 DEF IInv, PastedOnce
  <2>21. AckedWasPasted'
    BY <1>2, <1>4, <2>1, <2>2, <2>3, <2>4 DEF IInv, AckedWasPasted
  <2>22. Fifo'
    BY <1>2, <1>4, <2>1, <2>2, <2>3, <2>4 DEF IInv, Fifo
  <2> QED BY <2>10, <2>11, <2>12, <2>13, <2>14, <2>15, <2>16, <2>17, <2>18, <2>19, <2>20, <2>21, <2>22 DEF IInv
<1> QED BY <1>3, <1>4 DEF ReadPending

\* The group is pasted.
LEMMA SubmitKeeps ==
  ASSUME TypeOK, IInv, NEW f \in Flushers, Submit(f)
  PROVE  IInv'
<1>1. InboxType
  BY TypeOKGives
<1>2. UNCHANGED <<msg, epoch, handling>>
  BY DEF Submit, arc, stream, wire, child, bounds
<1>3. CASE ~attached
  <2>1. Finish(f) /\ UNCHANGED writes
    BY <1>3 DEF Submit, wire
  <2> QED BY <1>2, <2>1, FinishKeeps DEF Submit, Holds
<1>4. CASE attached
  <2> DEFINE new == [group |-> flush[f].group, epoch |-> epoch]
  <2>1. /\ \A g \in Flushers : g # f => flush'[g] = flush[g]
        /\ flush'[f].pc = "written" /\ flush'[f].group = flush[f].group
        /\ flush[f].pc = "grouped" /\ lock' = lock
    BY <1>1, <1>4 DEF Submit, InboxType, FlushType
  <2>2. writes' = Append(writes, new)
    BY <1>4 DEF Submit
  <2>3. /\ Len(writes) \in Nat /\ DOMAIN writes = 1..Len(writes)
        /\ DOMAIN writes' = 1..(Len(writes) + 1)
        /\ \A i \in DOMAIN writes : writes'[i] = writes[i]
        /\ writes'[Len(writes) + 1] = new
    <3>1. new \in WriteType
      BY <1>1, Within DEF InboxType, WriteType
    <3> HIDE DEF new
    <3> QED BY <1>1, <2>2, <3>1, AppendProperties, LenProperties DEF InboxType
  <2> DEFINE last == Len(writes) + 1
  <2>4. /\ last \in DOMAIN writes' /\ last \notin DOMAIN writes /\ DOMAIN writes \subseteq DOMAIN writes'
        /\ \A i \in DOMAIN writes' : i = last \/ i \in DOMAIN writes
        /\ \A i \in DOMAIN writes : i \in Nat /\ i < last /\ 1..i \subseteq DOMAIN writes
        /\ 1..last = DOMAIN writes'
        /\ writes'[last] = new
    BY <2>3
  <2>5. writes'[last].group = flush[f].group /\ writes'[last].epoch = epoch
    BY <2>4
  <2> HIDE DEF new, last
  <2>6. Messages \subseteq Flushers /\ Signal \in Flushers
    BY DEF Flushers
  <2>7. \A g \in Flushers : g # f => ~Holds(g)
    BY <2>1 DEF IInv, LockInv, Holds
  <2>8. \A m \in flush[f].group : m \in Messages /\ msg[m].state = "pending"
    BY <2>1, Within DEF IInv, GroupInv
  <2>9. \A i \in DOMAIN writes : \A m \in writes[i].group \cap flush[f].group : writes[i].epoch # epoch
    BY <2>1, <2>7, <2>8 DEF IInv, DoneInv, Holds
  <2>10. SenderInv'
    BY <1>2, <2>1, <2>3, <2>4, <2>5, <2>6, <2>7, <2>8 DEF IInv, SenderInv
  <2>11. IdleInv'
    BY <1>2, <2>1, <2>3, <2>4, <2>5, <2>6, <2>7, <2>8 DEF IInv, IdleInv
  <2>12. LockInv'
    BY <1>2, <2>1, <2>3, <2>4, <2>5, <2>6, <2>7, <2>8 DEF IInv, LockInv, Holds
  <2>13. GroupInv'
    BY <1>2, <2>1, <2>3, <2>4, <2>5, <2>6, <2>7, <2>8 DEF IInv, GroupInv
  <2>14. WrittenInv'
    BY <1>2, <2>1, <2>3, <2>4, <2>5, <2>6, <2>7, <2>8 DEF IInv, WrittenInv
  <2>15. ClosedInv'
    BY <1>2, <2>1, <2>3, <2>4, <2>5, <2>6, <2>7, <2>8 DEF IInv, ClosedInv
  <2>16. AheadInv'
    BY <1>2, <2>1, <2>3, <2>4, <2>5, <2>6, <2>7, <2>8 DEF IInv, AheadInv
  <2>17. LoggedInv'
    BY <1>2, <2>1, <2>3, <2>4, <2>5, <2>6, <2>7, <2>8 DEF IInv, LoggedInv
  <2>18. DoneInv'
    BY <1>2, <2>1, <2>3, <2>4, <2>5, <2>6, <2>7, <2>8 DEF IInv, DoneInv
  <2>19. EpochInv'
    <3>1. epoch \in Int /\ epoch <= epoch
      BY <1>1 DEF InboxType
    <3> QED BY <1>2, <2>3, <2>4, <2>5, <3>1 DEF IInv, EpochInv
  <2>20. PastedOnce'
    <3> SUFFICES ASSUME NEW i \in DOMAIN writes', NEW j \in DOMAIN writes',
                        NEW m \in writes'[i].group \cap writes'[j].group,
                        writes'[i].epoch = writes'[j].epoch
                 PROVE  i = j
      BY DEF PastedOnce
    <3>1. CASE i \in DOMAIN writes /\ j \in DOMAIN writes
      BY <2>3, <3>1 DEF IInv, PastedOnce
    <3>2. CASE i = last /\ j \in DOMAIN writes
      BY <2>3, <2>5, <2>9, <3>2
    <3>3. CASE i \in DOMAIN writes /\ j = last
      BY <2>3, <2>5, <2>9, <3>3
    <3> QED BY <2>4, <3>1, <3>2, <3>3
  <2>21. AckedWasPasted'
    BY <1>2, <2>1, <2>3, <2>4, <2>5, <2>6, <2>7, <2>8 DEF IInv, AckedWasPasted
  <2>22. Fifo'
    <3> SUFFICES ASSUME NEW i \in DOMAIN writes', NEW m \in writes'[i].group,
                        NEW n \in msg[m].ahead
                 PROVE  \E j \in 1..i : n \in writes'[j].group
      BY <1>2 DEF Fifo
    <3>1. CASE i \in DOMAIN writes
      <4>1. PICK j \in 1..i : n \in writes[j].group
        BY <2>3, <3>1 DEF IInv, Fifo
      <4> QED BY <2>3, <2>4, <3>1, <4>1
    <3>2. CASE i = last
      <4>1. m \in flush[f].group /\ m \in Messages /\ n \in Messages
        BY <2>5, <2>8, <3>2, Within
      <4>2. CASE n \in flush[f].group
        BY <2>4, <2>5, <3>2, <4>2 DEF last
      <4>3. CASE msg[n].state = "delivered"
        <5>1. PICK j \in DOMAIN writes : n \in writes[j].group
          BY <4>1, <4>3 DEF IInv, AckedWasPasted
        <5> QED BY <2>3, <2>4, <3>2, <5>1
      <4> QED BY <2>1, <4>1, <4>2, <4>3 DEF IInv, ClosedInv
    <3> QED BY <2>4, <3>1, <3>2
  <2> QED BY <2>10, <2>11, <2>12, <2>13, <2>14, <2>15, <2>16, <2>17, <2>18, <2>19, <2>20, <2>21, <2>22 DEF IInv
<1> QED BY <1>3, <1>4

\* The group is acknowledged.
LEMMA AckKeeps ==
  ASSUME TypeOK, IInv, NEW f \in Flushers, Ack(f)
  PROVE  IInv'
<1>1. InboxType
  BY TypeOKGives
<1>2. UNCHANGED <<writes, epoch, handling>> /\ flush[f].pc = "written"
  BY DEF Ack, arc, stream, wire, child, bounds
<1>3. /\ \A n \in Messages : /\ msg'[n].stamp = msg[n].stamp /\ msg'[n].from = msg[n].from
                              /\ msg'[n].ahead = msg[n].ahead
      /\ \A n \in flush[f].group : msg'[n].state = "delivered"
      /\ \A n \in Messages \ flush[f].group : msg'[n].state = msg[n].state
  BY <1>1, Within DEF Ack, InboxType, MsgType
<1>4. /\ \A g \in Flushers : g # f => flush'[g] = flush[g]
      /\ flush'[f].pc = "none"
  BY <1>1 DEF Ack, Finish, NoFlush, InboxType, FlushType
<1>5. \A g \in Flushers : g # f => ~Holds(g)
  BY <1>2 DEF IInv, LockInv, Holds
<1>6. \A g \in Flushers : flush'[g].pc \notin {"looked", "grouped", "written"}
  BY <1>4, <1>5 DEF Holds
<1>7. \A n \in flush[f].group : n \in Messages /\ msg[n].state = "pending"
  BY <1>2, Within DEF IInv, GroupInv
<1>8. /\ Messages \subseteq Flushers /\ Signal \in Flushers
      /\ \A n \in Messages : msg[n].ahead \subseteq Messages
      /\ \A i \in DOMAIN writes : writes[i].group \subseteq Messages
  BY Within DEF Flushers
<1>10. SenderInv'
  BY <1>2, <1>3, <1>4, <1>5, <1>6, <1>7, <1>8 DEF IInv, SenderInv
<1>11. IdleInv'
  BY <1>2, <1>3, <1>4, <1>5, <1>6, <1>7, <1>8 DEF IInv, IdleInv
<1>12. LockInv'
  BY <1>2, <1>3, <1>4, <1>5, <1>6, <1>7, <1>8 DEF IInv, LockInv, Holds
<1>13. GroupInv'
  BY <1>2, <1>3, <1>4, <1>5, <1>6, <1>7, <1>8 DEF IInv, GroupInv
<1>14. WrittenInv'
  BY <1>2, <1>3, <1>4, <1>5, <1>6, <1>7, <1>8 DEF IInv, WrittenInv
<1>15. ClosedInv'
  BY <1>2, <1>3, <1>4, <1>5, <1>6, <1>7, <1>8 DEF IInv, ClosedInv
<1>16. AheadInv'
  BY <1>2, <1>3, <1>4, <1>5, <1>6, <1>7, <1>8 DEF IInv, AheadInv
<1>17. LoggedInv'
  BY <1>2, <1>3, <1>4, <1>5, <1>6, <1>7, <1>8 DEF IInv, LoggedInv
<1>18. DoneInv'
  BY <1>2, <1>3, <1>4, <1>5, <1>6, <1>7, <1>8 DEF IInv, DoneInv
<1>19. EpochInv'
  BY <1>2, <1>3, <1>4, <1>5, <1>6, <1>7, <1>8 DEF IInv, EpochInv
<1>20. PastedOnce'
  BY <1>2, <1>3, <1>4, <1>5, <1>6, <1>7, <1>8 DEF IInv, PastedOnce
<1>21. AckedWasPasted'
  <2>1. ASSUME NEW n \in Messages, msg'[n].state = "delivered"
        PROVE  \E i \in DOMAIN writes : n \in writes[i].group
    <3>1. CASE n \in flush[f].group
      BY <1>2, <3>1 DEF IInv, WrittenInv
    <3>2. CASE n \notin flush[f].group
      BY <1>3, <2>1, <3>2 DEF IInv, AckedWasPasted
    <3> QED BY <3>1, <3>2
  <2> QED BY <1>2, <2>1 DEF AckedWasPasted
<1>22. Fifo'
  BY <1>2, <1>3, <1>4, <1>5, <1>6, <1>7, <1>8 DEF IInv, Fifo
<1> QED BY <1>10, <1>11, <1>12, <1>13, <1>14, <1>15, <1>16, <1>17, <1>18, <1>19, <1>20, <1>21, <1>22 DEF IInv

\* A crash ends the run, and with it every flush.
LEMMA CrashKeeps ==
  ASSUME TypeOK, IInv, Crash
  PROVE  IInv'
<1>1. InboxType
  BY TypeOKGives
<1>2. /\ \A n \in Messages : msg[n].state = "stamped" => msg'[n] = NoMessage
      /\ \A n \in Messages : msg[n].state # "stamped" => msg'[n] = msg[n]
      /\ NoMessage.state = "none" /\ NoMessage.ahead = {}
  BY <1>1 DEF Crash, InboxType, NoMessage
<1>3. \A g \in Flushers : flush'[g].pc = "none"
  BY DEF Crash, NoFlush
<1>4. writes' = writes /\ epoch' = epoch + 1 /\ epoch \in Nat
  BY <1>1, InboxAssumption DEF Crash, ChildGone, InboxType
<1>5. \A i \in DOMAIN writes : writes[i].epoch \in Nat /\ writes[i].epoch <= epoch
  <2>1. \A i \in DOMAIN writes : writes[i] \in WriteType
    BY <1>1, ElementOfSeq, LenProperties DEF InboxType
  <2> QED BY <2>1, InboxAssumption DEF WriteType, IInv, EpochInv
<1>6. \A i \in DOMAIN writes : writes[i].epoch # epoch' /\ writes[i].epoch <= epoch'
  BY <1>4, <1>5
<1>7. /\ Messages \subseteq Flushers /\ Signal \in Flushers
      /\ \A n \in Messages : msg[n].ahead \subseteq Messages
      /\ \A i \in DOMAIN writes : writes[i].group \subseteq Messages
  BY Within DEF Flushers
<1> HIDE DEF NoMessage
<1>10. SenderInv'
  BY <1>2, <1>3, <1>4, <1>6, <1>7 DEF IInv, SenderInv
<1>11. IdleInv'
  BY <1>2, <1>3, <1>4, <1>6, <1>7 DEF IInv, IdleInv
<1>12. LockInv'
  BY <1>2, <1>3, <1>4, <1>6, <1>7 DEF IInv, LockInv, Holds
<1>13. GroupInv'
  BY <1>2, <1>3, <1>4, <1>6, <1>7 DEF IInv, GroupInv
<1>14. WrittenInv'
  BY <1>2, <1>3, <1>4, <1>6, <1>7 DEF IInv, WrittenInv
<1>15. ClosedInv'
  BY <1>2, <1>3, <1>4, <1>6, <1>7 DEF IInv, ClosedInv
<1>16. AheadInv'
  BY <1>2, <1>3, <1>4, <1>6, <1>7 DEF IInv, AheadInv
<1>17. LoggedInv'
  BY <1>2, <1>3, <1>4, <1>6, <1>7 DEF IInv, LoggedInv
<1>18. DoneInv'
  BY <1>2, <1>3, <1>4, <1>6, <1>7 DEF IInv, DoneInv
<1>19. EpochInv'
  BY <1>2, <1>3, <1>4, <1>6, <1>7 DEF IInv, EpochInv
<1>20. PastedOnce'
  BY <1>2, <1>3, <1>4, <1>6, <1>7 DEF IInv, PastedOnce
<1>21. AckedWasPasted'
  BY <1>2, <1>3, <1>4, <1>6, <1>7 DEF IInv, AckedWasPasted
<1>22. Fifo'
  BY <1>2, <1>3, <1>4, <1>6, <1>7 DEF IInv, Fifo
<1> QED BY <1>10, <1>11, <1>12, <1>13, <1>14, <1>15, <1>16, <1>17, <1>18, <1>19, <1>20, <1>21, <1>22 DEF IInv

\* Every step keeps the types and the invariant.
LEMMA StepKeeps ==
  ASSUME TypeOK, IInv, [Next]_vars
  PROVE  TypeOK' /\ IInv'
<1>0. SenderInv /\ GroupInv
  BY DEF IInv
<1>s. Signal \in Flushers /\ Binding \in Flushers /\ Binding # Signal /\ Messages \subseteq Flushers
      /\ Signal \notin Messages /\ Binding \notin Messages
  BY InboxAssumption DEF Flushers
<1>i. handling # "backfill" => flush[Signal].pc = "none"
  BY DEF IInv, IdleInv
<1>1. ASSUME NEW m \in Messages, NEW s \in Senders, Send(m, s) PROVE TypeOK' /\ IInv'
  BY <1>0, <1>1, SendTyped, SendKeeps
<1>2. ASSUME NEW m \in Messages, Insert(m) PROVE TypeOK' /\ IInv'
  BY <1>0, <1>2, InsertTyped, InsertKeeps
<1>3. ASSUME NEW f \in Flushers, Look(f) PROVE TypeOK' /\ IInv'
  BY <1>0, <1>3, LookTyped, LookKeeps
<1>4. ASSUME NEW f \in Flushers, ReadPending(f) PROVE TypeOK' /\ IInv'
  BY <1>0, <1>4, ReadPendingTyped, ReadPendingKeeps
<1>5. ASSUME NEW f \in Flushers, Submit(f) PROVE TypeOK' /\ IInv'
  BY <1>0, <1>5, SubmitTyped, SubmitKeeps
<1>6. ASSUME NEW f \in Flushers, Ack(f) PROVE TypeOK' /\ IInv'
  BY <1>0, <1>6, AckTyped, AckKeeps
<1>7. CASE NoteTurn
  <2>1. TypeOK'
    BY <1>0, <1>7, NoteTurnTyped
  <2>2. CASE handling = "stop"
    <3>1. /\ flush' = [flush EXCEPT ![Signal].pc = "waiting"]
          /\ handling' = "backfill" /\ UNCHANGED <<msg, lock, writes, epoch>>
      BY <1>7, <2>2 DEF NoteTurn, wire, bounds
    <3>2. flush[Signal].pc = "none"
      BY <1>i, <2>2
    <3> QED BY <2>1, <1>s, <3>1, <3>2, WakeKeeps
  <2>3. CASE handling = "prompt"
    <3>1. UNCHANGED <<msg, lock, flush, writes, epoch>>
      BY <1>7, <2>3 DEF NoteTurn, wire, bounds
    <3>2. handling # "backfill" /\ flush[Signal].pc = "none"
      BY <1>i, <2>3
    <3> QED BY <2>1, <3>1, <3>2, StillKeeps
  <2> QED BY <1>7, <2>1, <2>2, <2>3 DEF NoteTurn
<1>8. CASE Bind
  <2>1. TypeOK'
    BY <1>0, <1>8, BindTyped
  <2>2. IInv'
    BY <1>s, <1>8, WakeKeeps DEF Bind, arc, wire, bounds
  <2> QED BY <2>1, <2>2
<1>9. CASE Crash
  BY <1>0, <1>9, CrashTyped, CrashKeeps
<1>10. CASE PressEnter
  <2>1. TypeOK'
    BY <1>0, <1>10, PressEnterTyped
  <2>2. IInv'
    BY <1>i, <1>10, StillKeeps DEF PressEnter, inbox, stream, wire, bounds
  <2> QED BY <2>1, <2>2
<1>11. CASE SendPrompt
  <2>1. TypeOK'
    BY <1>0, <1>11, SendPromptTyped
  <2>2. IInv'
    BY <1>i, <1>11, StillKeeps DEF SendPrompt, inbox, stream, wire, bounds
  <2> QED BY <2>1, <2>2
<1>12. CASE Ingest
  <2>1. TypeOK'
    BY <1>0, <1>12, IngestTyped
  <2>2. IInv'
    BY <1>i, <1>12, InboxAssumption, StillKeeps DEF Ingest, inbox, stream, wire, bounds
  <2> QED BY <2>1, <2>2
<1>13. CASE Backfill
  <2>1. TypeOK'
    BY <1>0, <1>13, BackfillTyped
  <2>2. IInv'
    BY <1>i, <1>13, StillKeeps DEF Backfill, inbox, stream, wire, bounds
  <2> QED BY <2>1, <2>2
<1>14. CASE Watch
  <2>1. TypeOK'
    BY <1>0, <1>14, WatchTyped
  <2>2. IInv'
    BY <1>i, <1>14, StillKeeps DEF Watch, inbox, stream, wire, bounds
  <2> QED BY <2>1, <2>2
<1>15. CASE HandleExit
  <2>1. TypeOK'
    BY <1>0, <1>15, HandleExitTyped
  <2>2. IInv'
    BY <1>i, <1>15, StillKeeps DEF HandleExit, inbox, stream, wire, bounds
  <2> QED BY <2>1, <2>2
<1>16. CASE Leave
  <2>1. TypeOK'
    BY <1>0, <1>16, LeaveTyped
  <2>2. IInv'
    BY <1>i, <1>16, StillKeeps DEF Leave, inbox, stream, wire, bounds
  <2> QED BY <2>1, <2>2
<1>17. CASE Resume
  <2>1. TypeOK'
    BY <1>0, <1>17, ResumeTyped
  <2>2. IInv'
    BY <1>i, <1>17, StillKeeps DEF Resume, inbox, stream, wire, bounds
  <2> QED BY <2>1, <2>2
<1>18. CASE ChildDies
  <2>1. TypeOK'
    BY <1>0, <1>18, ChildDiesTyped
  <2>2. IInv'
    BY <1>i, <1>18, StillKeeps DEF ChildDies, ChildGone, inbox, stream, wire, bounds
  <2> QED BY <2>1, <2>2
<1>19. CASE AgentStarts
  <2>1. TypeOK'
    BY <1>0, <1>19, AgentStartsTyped
  <2>2. IInv'
    BY <1>i, <1>19, StillKeeps DEF AgentStarts, Hook, inbox, stream, wire, bounds
  <2> QED BY <2>1, <2>2
<1>20. CASE AgentReads
  <2>1. TypeOK'
    BY <1>0, <1>20, AgentReadsTyped
  <2>2. IInv'
    BY <1>i, <1>20, StillKeeps DEF AgentReads, Hook, inbox, stream, wire, bounds
  <2> QED BY <2>1, <2>2
<1>21. CASE AgentAsks
  <2>1. TypeOK'
    BY <1>0, <1>21, AgentAsksTyped
  <2>2. IInv'
    BY <1>i, <1>21, StillKeeps DEF AgentAsks, Hook, inbox, stream, wire, bounds
  <2> QED BY <2>1, <2>2
<1>22. CASE AgentIsAnswered
  <2>1. TypeOK'
    BY <1>0, <1>22, AgentIsAnsweredTyped
  <2>2. IInv'
    BY <1>i, <1>22, StillKeeps DEF AgentIsAnswered, Hook, inbox, stream, wire, bounds
  <2> QED BY <2>1, <2>2
<1>23. CASE AgentStops
  <2>1. TypeOK'
    BY <1>0, <1>23, AgentStopsTyped
  <2>2. IInv'
    BY <1>i, <1>23, StillKeeps DEF AgentStops, Hook, inbox, stream, wire, bounds
  <2> QED BY <2>1, <2>2
<1>24. CASE UNCHANGED vars
  <2>1. TypeOK'
    <3>1. UNCHANGED <<inbox, arc, stream, child, wire, bounds>>
      BY <1>24 DEF vars
    <3> QED BY <3>1, TypeSplit, Frames
  <2>2. IInv'
    BY <1>24, StillKeeps DEF vars, inbox, stream, wire, bounds
  <2> QED BY <2>1, <2>2
<1> QED BY <1>1, <1>2, <1>3, <1>4, <1>5, <1>6, <1>7, <1>8, <1>9, <1>10, <1>11, <1>12, <1>13, <1>14, <1>15, <1>16, <1>17, <1>18, <1>19, <1>20, <1>21, <1>22, <1>23, <1>24 DEF Next, Sending, FlushTo, Streams, Life, Agent

LEMMA Inductive == Spec => [](TypeOK /\ IInv)
<1>1. Init => TypeOK /\ IInv
  BY InitTyped, InitIInv
<1>2. TypeOK /\ IInv /\ [Next]_vars => (TypeOK /\ IInv)'
  BY StepKeeps
<1> QED BY <1>1, <1>2, PTL DEF Spec

\* Every variable keeps its type, however many messages, senders and lives.
THEOREM TypeCorrect == Spec => []TypeOK
  BY Inductive, PTL

\* In one run of the application no message is pasted twice, by its sender, by
\* the end of a turn or by a binding.
THEOREM PastedAtMostOnce == Spec => []PastedOnce
<1>1. TypeOK /\ IInv => PastedOnce
  BY DEF IInv
<1> QED BY <1>1, Inductive, PTL

\* No message is acknowledged that no prompt writer took.
THEOREM AcknowledgedWasPasted == Spec => []AckedWasPasted
<1>1. TypeOK /\ IInv => AckedWasPasted
  BY DEF IInv
<1> QED BY <1>1, Inductive, PTL

\* Messages are pasted in the order of the milliseconds they were queued in,
\* across senders, flushers and crashes.
THEOREM PastedInOrder == Spec => []Fifo
<1>1. TypeOK /\ IInv => Fifo
  BY DEF IInv
<1> QED BY <1>1, Inductive, PTL

-----------------------------------------------------------------------------
(* No wakeup is missed.                                                    *)

\* The managers and the child: a child that is gone is either unhandled or let go.
DownInv ==
  /\ agent = "down" => exiting \/ ~attached
  /\ ~attached => agent = "down"
  /\ exiting => agent = "down" /\ attached
  /\ leaving => ~attached

\* A text that was written is submitted: the last thing on its way to the agent
\* is a submit keystroke.
TtyInv ==
  enters = 0 => IF tty = <<>> THEN draft = {} ELSE tty[Len(tty)].kind = "enter"

\* Only a working agent asks, and its answers are on disk unprojected only
\* while it works.
AskingInv == (asking # "none" => agent = "busy") /\ (transcript => agent = "busy")

\* The answer to a permission is not the last thing that is heard of a turn.
AnswerInv ==
  ~stale => \A i \in 1..Len(hooks) : hooks[i] = "answered" =>
    agent \in {"busy", "down"} \/ \E j \in 1..Len(hooks) : i < j /\ hooks[j] = "stop"

\* Something is on its way that ends in a flush.
WakeSignal == bindings > 0 \/ handling = "stop" \/ \E i \in 1..Len(hooks) : hooks[i] = "stop"
WakeAgent == agent # "ready" \/ draft # {} \/ \E i \in 1..Len(tty) : tty[i].kind = "text"
WakeFlush == \E f \in Flushers : flush[f].pc \in {"waiting", "looked", "grouped"}
Wake == WakeFlush \/ WakeSignal \/ WakeAgent

\* The session is in the middle of something whose end will be heard.
Blocked == attached /\ (openTurn \/ request # "none")

WakeInv == ~stale /\ Pending # {} => Wake \/ Blocked

SettledInv == DownInv /\ TtyInv /\ AskingInv /\ AnswerInv /\ WakeInv

LEMMA Appended ==
  ASSUME NEW S, NEW s \in Seq(S), NEW x \in S
  PROVE  /\ Len(s) \in Nat /\ Len(Append(s, x)) = Len(s) + 1
         /\ \A i \in 1..Len(s) : Append(s, x)[i] = s[i]
         /\ Append(s, x)[Len(s) + 1] = x /\ Append(s, x) # <<>>
<1>1. Len(s) \in Nat
  BY LenProperties
<1> QED BY <1>1, AppendProperties

LEMMA Popped ==
  ASSUME NEW S, NEW s \in Seq(S), s # <<>>
  PROVE  /\ Len(s) \in Nat \ {0} /\ Len(Tail(s)) = Len(s) - 1 /\ Head(s) = s[1]
         /\ \A i \in 1..Len(Tail(s)) : Tail(s)[i] = s[i + 1]
         /\ Tail(s) = <<>> => Len(s) = 1
<1>1. Len(s) \in Nat /\ (Len(s) = 0 <=> s = <<>>)
  BY LenProperties, EmptySeq
<1>2. Tail(s) \in Seq(S) /\ Len(Tail(s)) = Len(s) - 1
  BY HeadTailProperties
<1>3. \A i \in 1..Len(Tail(s)) : Tail(s)[i] = s[i + 1]
  BY <1>1, <1>2, HeadTailProperties
<1>4. Tail(s) = <<>> => Len(Tail(s)) = 0
  BY EmptySeq
<1> QED BY <1>1, <1>2, <1>3, <1>4, HeadTailProperties

\* Every step, by name.
LEMMA Steps ==
  ASSUME [Next]_vars
  PROVE  \/ \E m \in Messages : Insert(m) \/ \E s \in Senders : Send(m, s)
         \/ \E f \in Flushers : Look(f) \/ ReadPending(f) \/ Submit(f) \/ Ack(f)
         \/ PressEnter \/ SendPrompt
         \/ Ingest \/ NoteTurn \/ Backfill \/ Watch \/ Bind
         \/ HandleExit \/ Leave \/ Resume \/ ChildDies \/ Crash
         \/ AgentStarts \/ AgentReads \/ AgentAsks \/ AgentIsAnswered \/ AgentStops
         \/ UNCHANGED vars
  BY DEF Next, Sending, FlushTo, Streams, Life, Agent

LEMMA DownStep ==
  ASSUME DownInv, [Next]_vars
  PROVE  DownInv'
<1>1. ASSUME NEW m \in Messages, Insert(m) \/ \E s \in Senders : Send(m, s)
      PROVE  DownInv'
  BY <1>1 DEF Insert, Send, arc, child, DownInv
<1>2. ASSUME NEW f \in Flushers, Look(f) \/ ReadPending(f) \/ Submit(f) \/ Ack(f)
      PROVE  DownInv'
  BY <1>2 DEF Look, ReadPending, Submit, Ack, arc, child, DownInv
<1>3. CASE PressEnter \/ SendPrompt
  BY <1>3 DEF PressEnter, SendPrompt, arc, child, DownInv
<1>4. CASE Ingest \/ NoteTurn \/ Backfill \/ Watch \/ Bind
  BY <1>4 DEF Ingest, NoteTurn, Backfill, Watch, Bind, arc, child, DownInv
<1>5. CASE HandleExit \/ Leave \/ Resume \/ ChildDies \/ Crash
  BY <1>5 DEF HandleExit, Leave, Resume, ChildDies, ChildGone, Crash, arc, child, DownInv
<1>6. CASE AgentStarts \/ AgentReads \/ AgentAsks \/ AgentIsAnswered \/ AgentStops
  BY <1>6 DEF AgentStarts, AgentReads, AgentAsks, AgentIsAnswered, AgentStops, arc, child, DownInv
<1>7. CASE UNCHANGED vars
  BY <1>7 DEF vars, arc, child, DownInv
<1> QED BY <1>1, <1>2, <1>3, <1>4, <1>5, <1>6, <1>7, Steps

LEMMA AskingStep ==
  ASSUME DownInv, AskingInv, ~Lagging, [Next]_vars
  PROVE  AskingInv'
<1>1. ASSUME NEW m \in Messages, Insert(m) \/ \E s \in Senders : Send(m, s)
      PROVE  AskingInv'
  BY <1>1 DEF Insert, Send, child, AskingInv
<1>2. ASSUME NEW f \in Flushers, Look(f) \/ ReadPending(f) \/ Submit(f) \/ Ack(f)
      PROVE  AskingInv'
  BY <1>2 DEF Look, ReadPending, Submit, Ack, child, AskingInv
<1>3. CASE PressEnter \/ SendPrompt
  BY <1>3 DEF PressEnter, SendPrompt, child, AskingInv
<1>4. CASE Ingest \/ NoteTurn \/ Backfill \/ Watch \/ Bind
  <2>1. CASE Ingest \/ NoteTurn \/ Bind
    BY <2>1 DEF Ingest, NoteTurn, Bind, child, AskingInv
  <2>2. CASE Backfill \/ Watch
    BY <2>2 DEF Backfill, Watch, Project, AskingInv
  <2> QED BY <1>4, <2>1, <2>2
<1>5. CASE HandleExit \/ Leave \/ Resume \/ ChildDies \/ Crash
  <2>1. Resume => agent = "down"
    BY DEF Resume, DownInv
  <2> QED BY <1>5, <2>1 DEF HandleExit, Leave, Resume, ChildDies, ChildGone, Crash, child, AskingInv
<1>6. CASE AgentStarts \/ AgentReads \/ AgentAsks \/ AgentIsAnswered \/ AgentStops
  BY <1>6 DEF AgentStarts, AgentReads, AgentAsks, AgentIsAnswered, AgentStops, child, AskingInv
<1>7. CASE UNCHANGED vars
  BY <1>7 DEF vars, child, AskingInv
<1> QED BY <1>1, <1>2, <1>3, <1>4, <1>5, <1>6, <1>7, Steps

\* What the terminal holds, after a text or a keystroke is written to it.
LEMMA TextWritten ==
  ASSUME TypeOK, TtyInv, NEW from \in Senders \cup {Human}, WriteText(from)
  PROVE  /\ enters' = 0 => enters = 0 /\ tty' = tty
         /\ agent # "down" => \E i \in 1..Len(tty') : tty'[i].kind = "text"
         /\ \A i \in 1..Len(tty) : i \in 1..Len(tty') /\ tty'[i] = tty[i]
<1> DEFINE x == [kind |-> "text", from |-> from]
<1>1. x \in TtyType /\ x.kind = "text"
  BY DEF TtyType
<1>2. tty \in Seq(TtyType) /\ enters \in Nat
  BY TypeSplit DEF WireT
<1> HIDE DEF x
<1>3. /\ Len(tty) \in Nat /\ Len(Append(tty, x)) = Len(tty) + 1
      /\ \A i \in 1..Len(tty) : Append(tty, x)[i] = tty[i]
      /\ Append(tty, x)[Len(tty) + 1] = x
  BY <1>1, <1>2, Appended
<1>4. CASE agent = "down"
  BY <1>4 DEF WriteText
<1>5. CASE agent # "down"
  <2>1. tty' = Append(tty, x) /\ enters' = enters + 1
    BY <1>5 DEF WriteText, x
  <2> QED BY <1>1, <1>2, <1>3, <2>1
<1> QED BY <1>4, <1>5

LEMMA TtyStep ==
  ASSUME TypeOK, IInv, TtyInv, [Next]_vars
  PROVE  TtyInv'
<1>0. tty \in Seq(TtyType) /\ enters \in Nat
  BY TypeSplit DEF WireT
<1>s. ASSUME UNCHANGED <<enters, tty, draft>>
      PROVE  TtyInv'
  BY <1>s DEF TtyInv
<1>1. ASSUME NEW m \in Messages, Insert(m) \/ \E s \in Senders : Send(m, s)
      PROVE  TtyInv'
  BY <1>1, <1>s DEF Insert, Send, wire, child
<1>2. ASSUME NEW f \in Flushers, Submit(f)
      PROVE  TtyInv'
  <2>1. \A m \in flush[f].group : flush[f].pc = "grouped" => msg[m].from \in Senders
    BY DEF IInv, SenderInv, GroupInv, TypeOK
  <2>2. CASE UNCHANGED wire
    BY <1>2, <1>s, <2>2 DEF Submit, wire, child
  <2>3. ASSUME NEW m \in flush[f].group, WriteText(msg[m].from), flush[f].pc = "grouped"
        PROVE  TtyInv'
    <3>1. msg[m].from \in Senders \cup {Human}
      BY <2>1, <2>3
    <3> QED BY <1>2, <2>3, <3>1, TextWritten DEF Submit, child, TtyInv
  <2> QED BY <1>2, <2>2, <2>3 DEF Submit
<1>3. ASSUME NEW f \in Flushers, Look(f) \/ ReadPending(f) \/ Ack(f)
      PROVE  TtyInv'
  BY <1>3, <1>s DEF Look, ReadPending, Ack, wire, child
<1>4. CASE SendPrompt
  BY <1>4, TextWritten DEF SendPrompt, child, TtyInv
<1>5. CASE PressEnter
  <2> DEFINE x == [kind |-> "enter", from |-> Null]
  <2>1. x \in TtyType /\ x.kind = "enter" /\ tty' = Append(tty, x)
    BY <1>5 DEF TtyType, PressEnter
  <2> HIDE DEF x
  <2>2. tty' # <<>> /\ tty'[Len(tty')] = x
    BY <1>0, <2>1, Appended
  <2> QED BY <2>1, <2>2 DEF TtyInv
<1>6. CASE Ingest \/ NoteTurn \/ Backfill \/ Watch \/ Bind
  BY <1>6, <1>s DEF Ingest, NoteTurn, Backfill, Watch, Bind, wire, child
<1>7. CASE HandleExit \/ Leave \/ Resume
  BY <1>7, <1>s DEF HandleExit, Leave, Resume, wire, child
<1>8. CASE ChildDies \/ Crash
  BY <1>8 DEF ChildDies, Crash, ChildGone, TtyInv
<1>9. CASE AgentReads
  <2>1. tty # <<>> /\ tty' = Tail(tty) /\ enters' = enters
    BY <1>9 DEF AgentReads
  <2>2. /\ Len(tty) \in Nat \ {0} /\ Len(tty') = Len(tty) - 1 /\ Head(tty) = tty[1]
        /\ \A i \in 1..Len(tty') : tty'[i] = tty[i + 1]
        /\ tty' = <<>> => Len(tty) = 1
    BY <1>0, <2>1, Popped
  <2>3. ASSUME enters' = 0
        PROVE  IF tty' = <<>> THEN draft' = {} ELSE tty'[Len(tty')].kind = "enter"
    <3>1. tty[Len(tty)].kind = "enter"
      BY <2>1, <2>3 DEF TtyInv
    <3>2. CASE tty' = <<>>
      <4>1. Head(tty).kind = "enter"
        BY <2>2, <3>1, <3>2
      <4> QED BY <1>9, <3>2, <4>1 DEF AgentReads
    <3>3. CASE tty' # <<>>
      <4>1. Len(tty') \in Nat /\ Len(tty') # 0
        <5>1. tty' \in Seq(TtyType)
          BY <1>0, <2>1, HeadTailProperties
        <5> QED BY <3>3, <5>1, LenProperties, EmptySeq
      <4>2. tty'[Len(tty')] = tty[Len(tty)]
        BY <2>2, <4>1
      <4> QED BY <3>1, <3>3, <4>2
    <3> QED BY <3>2, <3>3
  <2> QED BY <2>3 DEF TtyInv
<1>10. CASE AgentStarts \/ AgentAsks \/ AgentIsAnswered \/ AgentStops
  BY <1>10, <1>s DEF AgentStarts, AgentAsks, AgentIsAnswered, AgentStops, wire
<1>11. CASE UNCHANGED vars
  BY <1>11, <1>s DEF vars, wire, child
<1> QED BY <1>1, <1>2, <1>3, <1>4, <1>5, <1>6, <1>7, <1>8, <1>9, <1>10, <1>11, Steps

LEMMA AnswerStep ==
  ASSUME TypeOK, DownInv, AskingInv, AnswerInv, [Next]_vars
  PROVE  AnswerInv'
<1>0. hooks \in Seq(HookType)
  BY TypeSplit DEF StreamT
<1>s. ASSUME hooks' = hooks, stale' = stale, agent \in {"busy", "down"} => agent' \in {"busy", "down"}
      PROVE  AnswerInv'
  BY <1>s DEF AnswerInv
<1>a. ASSUME NEW kind \in HookType, Hook(kind), stale' = stale,
             agent' = agent \/ kind = "stop" \/ agent \notin {"busy", "down"},
             kind = "answered" => agent' = "busy"
      PROVE  AnswerInv'
  <2>1. hooks' = Append(hooks, kind)
    BY <1>a DEF Hook
  <2>2. /\ Len(hooks) \in Nat /\ Len(hooks') = Len(hooks) + 1
        /\ \A i \in 1..Len(hooks) : hooks'[i] = hooks[i]
        /\ hooks'[Len(hooks) + 1] = kind
    BY <1>0, <2>1, Appended
  <2>3. ASSUME ~stale, NEW i \in 1..Len(hooks'), hooks'[i] = "answered",
               agent' \notin {"busy", "down"}
        PROVE  \E j \in 1..Len(hooks') : i < j /\ hooks'[j] = "stop"
    <3>1. i \in 1..Len(hooks) /\ hooks[i] = "answered"
      BY <1>a, <2>2, <2>3
    <3>2. CASE kind = "stop"
      BY <2>2, <3>1, <3>2
    <3>3. CASE kind # "stop"
      <4>1. \E j \in 1..Len(hooks) : i < j /\ hooks[j] = "stop"
        BY <1>a, <2>3, <3>1, <3>3 DEF AnswerInv
      <4> QED BY <2>2, <4>1
    <3> QED BY <3>2, <3>3
  <2> QED BY <1>a, <2>3 DEF AnswerInv
<1>1. ASSUME NEW m \in Messages, Insert(m) \/ \E s \in Senders : Send(m, s)
      PROVE  AnswerInv'
  BY <1>1, <1>s DEF Insert, Send, stream, child, bounds
<1>2. ASSUME NEW f \in Flushers, Look(f) \/ ReadPending(f) \/ Submit(f) \/ Ack(f)
      PROVE  AnswerInv'
  BY <1>2, <1>s DEF Look, ReadPending, Submit, Ack, stream, child, bounds
<1>3. CASE PressEnter \/ SendPrompt
  BY <1>3, <1>s DEF PressEnter, SendPrompt, stream, child, bounds
<1>4. CASE NoteTurn \/ Backfill \/ Watch \/ Bind
  BY <1>4, <1>s DEF NoteTurn, Backfill, Watch, Bind, stream, child, bounds
<1>5. CASE Ingest
  <2>1. hooks # <<>> /\ hooks' = Tail(hooks) /\ agent' = agent /\ stale' = stale
    BY <1>5 DEF Ingest, child, bounds
  <2>2. /\ Len(hooks) \in Nat \ {0} /\ Len(hooks') = Len(hooks) - 1
        /\ \A i \in 1..Len(hooks') : hooks'[i] = hooks[i + 1]
    BY <1>0, <2>1, Popped
  <2>3. ASSUME ~stale, NEW i \in 1..Len(hooks'), hooks'[i] = "answered",
               agent \notin {"busy", "down"}
        PROVE  \E j \in 1..Len(hooks') : i < j /\ hooks'[j] = "stop"
    <3>1. i + 1 \in 1..Len(hooks) /\ hooks[i + 1] = "answered"
      BY <2>2, <2>3
    <3>2. PICK j \in 1..Len(hooks) : i + 1 < j /\ hooks[j] = "stop"
      BY <2>3, <3>1 DEF AnswerInv
    <3>3. j - 1 \in 1..Len(hooks') /\ i < j - 1 /\ hooks'[j - 1] = hooks[(j - 1) + 1]
      BY <2>2, <3>1, <3>2
    <3> QED BY <3>2, <3>3
  <2> QED BY <2>1, <2>3 DEF AnswerInv
<1>6. CASE HandleExit \/ Leave
  BY <1>6, <1>s DEF HandleExit, Leave, stream, child, bounds
<1>7. CASE Resume
  <2>1. hooks' = hooks /\ (~stale' => hooks = <<>>)
    BY <1>7 DEF Resume, stream
  <2>2. hooks = <<>> => Len(hooks) = 0
    BY EmptySeq
  <2> QED BY <2>1, <2>2 DEF AnswerInv
<1>8. CASE ChildDies \/ Crash
  BY <1>8 DEF ChildDies, Crash, ChildGone, AnswerInv
<1>9. CASE AgentStarts
  BY <1>9, <1>a DEF AgentStarts, HookType, bounds
<1>10. CASE AgentReads
  <2>1. CASE Hook("prompt") /\ agent' = "busy"
    BY <1>10, <2>1, <1>a DEF AgentReads, HookType, bounds
  <2>2. CASE UNCHANGED <<agent, stream>>
    BY <1>10, <2>2, <1>s DEF AgentReads, stream, bounds
  <2> QED BY <1>10, <2>1, <2>2 DEF AgentReads
<1>11. CASE AgentAsks
  <2>1. asking' \in HookType /\ asking' # "answered"
    BY <1>11 DEF AgentAsks, HookType
  <2>2. PICK kind \in HookType : kind = asking'
    BY <2>1
  <2>3. Hook(kind) /\ agent' = agent /\ stale' = stale
    BY <1>11, <2>2 DEF AgentAsks, bounds
  <2> QED BY <1>a, <2>1, <2>2, <2>3
<1>12. CASE AgentIsAnswered
  <2>1. CASE Hook("answered")
    BY <1>12, <2>1, <1>a DEF AgentIsAnswered, AskingInv, HookType, bounds
  <2>2. CASE UNCHANGED stream
    BY <1>12, <2>2, <1>s DEF AgentIsAnswered, stream, bounds
  <2> QED BY <1>12, <2>1, <2>2 DEF AgentIsAnswered
<1>13. CASE AgentStops
  BY <1>13, <1>a DEF AgentStops, HookType, bounds
<1>14. CASE UNCHANGED vars
  BY <1>14, <1>s DEF vars, stream, child, bounds
<1> QED BY <1>1, <1>2, <1>3, <1>4, <1>5, <1>6, <1>7, <1>8, <1>9, <1>10, <1>11, <1>12, <1>13,
           <1>14, Steps

LEMMA WakeStep ==
  ASSUME TypeOK, IInv, DownInv, TtyInv, AskingInv, AnswerInv, WakeInv, [Next]_vars
  PROVE  WakeInv'
<1>0. /\ tty \in Seq(TtyType) /\ hooks \in Seq(HookType) /\ bindings \in Nat
      /\ flush \in [Flushers -> FlushType]
  BY TypeSplit DEF WireT, StreamT, InboxT
<1>s. ASSUME Pending' \subseteq Pending, stale' = stale, Wake => Wake', Blocked => Blocked' \/ Wake'
      PROVE  WakeInv'
  BY <1>s DEF WakeInv
<1>w. Wake' => WakeInv'
  BY DEF WakeInv
<1>f. ASSUME NEW f \in Flushers, flush'[f].pc \in {"waiting", "looked", "grouped"}
      PROVE  WakeInv'
  BY <1>f, <1>w DEF Wake, WakeFlush
<1>a. agent' # "ready" => WakeInv'
  BY <1>w DEF Wake, WakeAgent
<1>1. ASSUME NEW m \in Messages, Insert(m)
      PROVE  WakeInv'
  BY <1>0, <1>1, <1>f DEF Insert, Flushers
<1>2. ASSUME NEW m \in Messages, NEW s \in Senders, Send(m, s)
      PROVE  WakeInv'
  <2>1. Pending' \subseteq Pending
    BY <1>2 DEF Send, Pending, TypeOK
  <2>2. Wake => Wake'
    BY <1>2 DEF Send, stream, child, wire, Wake, WakeFlush, WakeSignal, WakeAgent
  <2> QED BY <1>2, <1>s, <2>1, <2>2 DEF Send, arc, bounds, Blocked
<1>3. ASSUME NEW f \in Flushers, Look(f)
      PROVE  WakeInv'
  <2>1. CASE Activity = "idle"
    BY <1>0, <1>3, <1>f, <2>1 DEF Look, FlushType
  <2>2. CASE Activity # "idle" /\ attached
    BY <1>3, <2>2 DEF Look, arc, Activity, Blocked, WakeInv
  <2>3. CASE ~attached
    BY <1>3, <1>a, <2>3 DEF Look, child, DownInv
  <2> QED BY <2>1, <2>2, <2>3
<1>4. ASSUME NEW f \in Flushers, ReadPending(f)
      PROVE  WakeInv'
  <2>1. CASE Pending = {}
    BY <1>4, <2>1 DEF ReadPending, Pending, WakeInv
  <2>2. CASE Pending # {}
    BY <1>0, <1>4, <1>f, <2>2 DEF ReadPending
  <2> QED BY <2>1, <2>2
<1>5. ASSUME NEW f \in Flushers, Submit(f)
      PROVE  WakeInv'
  <2>1. agent' = agent
    BY <1>5 DEF Submit, child
  <2>2. CASE agent = "down"
    BY <1>a, <2>1, <2>2
  <2>3. CASE agent # "down"
    <3>1. attached /\ flush[f].pc = "grouped"
      BY <1>5, <2>3 DEF Submit, DownInv
    <3>2. PICK m \in flush[f].group : WriteText(msg[m].from)
      BY <1>5, <3>1 DEF Submit
    <3>3. msg[m].from \in Senders \cup {Human}
      BY <3>1, <3>2 DEF IInv, SenderInv, GroupInv, TypeOK
    <3>4. \E i \in 1..Len(tty') : tty'[i].kind = "text"
      BY <2>3, <3>2, <3>3, TextWritten
    <3> QED BY <1>w, <3>4 DEF Wake, WakeAgent
  <2> QED BY <2>2, <2>3
<1>6. ASSUME NEW f \in Flushers, Ack(f)
      PROVE  WakeInv'
  <2>1. Pending' \subseteq Pending
    BY <1>6 DEF Ack, Pending, TypeOK
  <2>2. WakeFlush => WakeFlush'
    BY <1>0, <1>6 DEF Ack, Finish, WakeFlush
  <2>3. (WakeSignal => WakeSignal') /\ (WakeAgent => WakeAgent') /\ (Blocked => Blocked')
    BY <1>6 DEF Ack, stream, child, wire, arc, WakeSignal, WakeAgent, Blocked
  <2> QED BY <1>6, <1>s, <2>1, <2>2, <2>3 DEF Ack, bounds, Wake
<1>7. CASE PressEnter \/ SendPrompt
  <2>1. \A i \in 1..Len(tty) : i \in 1..Len(tty') /\ tty'[i] = tty[i]
    <3>1. CASE PressEnter
      <4> DEFINE x == [kind |-> "enter", from |-> Null]
      <4>1. x \in TtyType /\ tty' = Append(tty, x)
        BY <3>1 DEF TtyType, PressEnter
      <4> HIDE DEF x
      <4> QED BY <1>0, <4>1, Appended
    <3>2. CASE SendPrompt
      BY <3>2, TextWritten DEF SendPrompt
    <3> QED BY <1>7, <3>1, <3>2
  <2>2. WakeAgent => WakeAgent'
    BY <1>7, <2>1 DEF PressEnter, SendPrompt, child, WakeAgent
  <2>3. Pending' = Pending /\ (WakeFlush => WakeFlush')
    BY <1>7 DEF PressEnter, SendPrompt, inbox, Pending, WakeFlush
  <2>4. (WakeSignal => WakeSignal') /\ (Blocked => Blocked')
    BY <1>7 DEF PressEnter, SendPrompt, stream, arc, WakeSignal, Blocked
  <2>5. stale' = stale
    BY <1>7 DEF PressEnter, SendPrompt, bounds
  <2> QED BY <1>s, <2>2, <2>3, <2>4, <2>5 DEF Wake
<1>8. CASE Ingest
  <2>1. /\ hooks # <<>> /\ hooks' = Tail(hooks) /\ handling = Null /\ bindings' = bindings
        /\ stale' = stale /\ agent' = agent
    BY <1>8 DEF Ingest, bounds, child
  <2>2. /\ Len(hooks) \in Nat \ {0} /\ Len(hooks') = Len(hooks) - 1 /\ Head(hooks) = hooks[1]
        /\ \A i \in 1..Len(hooks') : hooks'[i] = hooks[i + 1]
    BY <1>0, <2>1, Popped
  <2>3. Pending' = Pending /\ (WakeFlush => WakeFlush') /\ (WakeAgent => WakeAgent')
    BY <1>8 DEF Ingest, inbox, child, wire, Pending, WakeFlush, WakeAgent
  <2>4. CASE hooks[1] = "stop"
    <3>1. handling' = "stop"
      BY <1>8, <2>2, <2>4 DEF Ingest
    <3> QED BY <1>w, <3>1 DEF Wake, WakeSignal
  <2>5. CASE hooks[1] # "stop"
    <3>1. ASSUME NEW j \in 1..Len(hooks), hooks[j] = "stop"
          PROVE  WakeSignal'
      <4>1. j - 1 \in 1..Len(hooks') /\ hooks'[j - 1] = hooks[(j - 1) + 1]
        BY <2>2, <2>5, <3>1
      <4> QED BY <3>1, <4>1 DEF WakeSignal
    <3>2. WakeSignal => WakeSignal'
      BY <2>1, <3>1, InboxAssumption DEF WakeSignal
    <3>3. CASE request' = "none" /\ request # "none"
      <4>1. hooks[1] = "answered"
        BY <1>8, <2>2, <2>5, <3>3 DEF Ingest
      <4>2. ASSUME ~stale
            PROVE  agent \in {"busy", "down"} \/ \E j \in 1..Len(hooks) : 1 < j /\ hooks[j] = "stop"
        <5>1. 1 \in 1..Len(hooks)
          BY <2>2
        <5> QED BY <4>1, <4>2, <5>1 DEF AnswerInv
      <4>3. stale => WakeInv'
        BY <2>1 DEF WakeInv
      <4> QED BY <1>a, <1>w, <2>1, <3>1, <4>2, <4>3 DEF Wake
    <3>4. CASE request' # "none" \/ request = "none"
      <4>1. Blocked => Blocked'
        BY <1>8, <3>4 DEF Ingest, Blocked
      <4> QED BY <1>s, <2>1, <2>3, <3>2, <4>1 DEF Wake
    <3> QED BY <3>3, <3>4
  <2> QED BY <2>4, <2>5
<1>9. CASE NoteTurn
  <2>1. CASE handling = "stop"
    BY <1>0, <1>9, <1>f, <2>1 DEF NoteTurn, Flushers, FlushType
  <2>2. CASE handling = "prompt"
    <3>1. Pending' = Pending /\ flush' = flush /\ (WakeAgent => WakeAgent')
      BY <1>9, <2>2 DEF NoteTurn, child, wire, Pending, WakeAgent
    <3>2. (WakeSignal => WakeSignal') /\ (Blocked => Blocked') /\ stale' = stale
      BY <1>9, <2>2 DEF NoteTurn, bounds, WakeSignal, Blocked
    <3> QED BY <1>s, <3>1, <3>2 DEF Wake, WakeFlush
  <2> QED BY <1>9, <2>1, <2>2 DEF NoteTurn
<1>10. CASE Backfill \/ Watch
  <2>1. Pending' = Pending /\ flush' = flush /\ (WakeAgent => WakeAgent') /\ stale' = stale
    BY <1>10 DEF Backfill, Watch, inbox, wire, bounds, Pending, WakeAgent
  <2>2. WakeSignal => WakeSignal'
    BY <1>10 DEF Backfill, Watch, stream, WakeSignal
  <2>3. CASE transcript
    <3>1. agent' # "ready"
      BY <1>10, <2>3 DEF Backfill, Watch, AskingInv
    <3> QED BY <1>a, <3>1
  <2>4. CASE ~transcript
    <3>1. Blocked => Blocked'
      BY <1>10, <2>4 DEF Backfill, Watch, Project, Blocked
    <3> QED BY <1>s, <2>1, <2>2, <3>1 DEF Wake, WakeFlush
  <2> QED BY <2>3, <2>4
<1>11. CASE Bind
  BY <1>0, <1>11, <1>f DEF Bind, Flushers
<1>12. CASE HandleExit \/ Leave
  BY <1>12, <1>a DEF HandleExit, Leave, child, DownInv
<1>13. CASE Resume \/ ChildDies \/ Crash
  BY <1>13, <1>a DEF Resume, ChildDies, Crash, ChildGone
<1>14. CASE AgentStarts \/ AgentStops
  <2>1. bindings' = bindings + 1
    BY <1>14 DEF AgentStarts, AgentStops, Hook
  <2> QED BY <1>0, <1>w, <2>1 DEF Wake, WakeSignal
<1>15. CASE AgentAsks \/ AgentIsAnswered
  BY <1>15, <1>a DEF AgentAsks, AgentIsAnswered, AskingInv
<1>16. CASE AgentReads
  <2>1. tty # <<>> /\ tty' = Tail(tty) /\ stale' = stale
    BY <1>16 DEF AgentReads, bounds
  <2>2. /\ Len(tty) \in Nat \ {0} /\ Len(tty') = Len(tty) - 1 /\ Head(tty) = tty[1]
        /\ \A i \in 1..Len(tty') : tty'[i] = tty[i + 1]
    BY <1>0, <2>1, Popped
  <2>3. CASE tty[1].kind = "text"
    <3>1. draft' # {}
      BY <1>16, <2>2, <2>3 DEF AgentReads
    <3> QED BY <1>w, <3>1 DEF Wake, WakeAgent
  <2>4. CASE tty[1].kind # "text" /\ draft # {}
    BY <1>16, <1>a, <2>2, <2>4 DEF AgentReads
  <2>5. CASE tty[1].kind # "text" /\ draft = {}
    <3>1. UNCHANGED <<agent, draft, stream>>
      BY <1>16, <2>2, <2>5 DEF AgentReads
    <3>2. ASSUME NEW i \in 1..Len(tty), tty[i].kind = "text"
          PROVE  WakeAgent'
      <4>1. i - 1 \in 1..Len(tty') /\ tty'[i - 1] = tty[(i - 1) + 1]
        BY <2>2, <2>5, <3>2
      <4> QED BY <3>2, <4>1 DEF WakeAgent
    <3>3. WakeAgent => WakeAgent'
      BY <3>1, <3>2 DEF WakeAgent
    <3>4. (WakeSignal => WakeSignal') /\ (WakeFlush => WakeFlush') /\ (Blocked => Blocked')
      BY <1>16, <3>1 DEF AgentReads, stream, inbox, arc, WakeSignal, WakeFlush, Blocked
    <3>5. Pending' = Pending
      BY <1>16 DEF AgentReads, inbox, Pending
    <3> QED BY <1>s, <2>1, <3>3, <3>4, <3>5 DEF Wake
  <2> QED BY <2>3, <2>4, <2>5
<1>17. CASE UNCHANGED vars
  <2>1. Pending' = Pending /\ (Wake => Wake') /\ (Blocked => Blocked') /\ stale' = stale
    BY <1>17 DEF vars, inbox, stream, child, wire, arc, bounds, Pending, Wake, WakeFlush,
                 WakeSignal, WakeAgent, Blocked
  <2> QED BY <1>s, <2>1
<1> QED BY <1>1, <1>2, <1>3, <1>4, <1>5, <1>6, <1>7, <1>8, <1>9, <1>10, <1>11, <1>12, <1>13,
           <1>14, <1>15, <1>16, <1>17, Steps

LEMMA InitSettled == Init => SettledInv
<1> SUFFICES ASSUME Init PROVE SettledInv
  OBVIOUS
<1>1. Len(hooks) = 0
  BY EmptySeq DEF Init
<1>2. Pending = {}
  BY DEF Init, NoMessage, Pending
<1> QED BY <1>1, <1>2 DEF Init, SettledInv, DownInv, TtyInv, AskingInv, AnswerInv, WakeInv

LEMMA SettledGives ==
  ASSUME TypeOK, SettledInv
  PROVE  NothingForgotten
<1> SUFFICES ASSUME Quiet, Activity = "idle", ~stale
             PROVE  Pending = {}
  BY DEF NothingForgotten
<1>1. Len(hooks) = 0 /\ Len(tty) = 0 /\ draft = {}
  BY EmptySeq DEF Quiet, SettledInv, TtyInv
<1>2. ~WakeSignal
  BY <1>1, InboxAssumption DEF Quiet, WakeSignal
<1>3. ~WakeAgent
  BY <1>1 DEF Quiet, WakeAgent
<1>4. ~WakeFlush
  BY DEF Quiet, WakeFlush
<1>5. ~Blocked
  <2>1. request \in {"none", "permission", "question"}
    BY TypeSplit DEF ArcT
  <2> QED BY <2>1 DEF Activity, Blocked
<1> QED BY <1>2, <1>3, <1>4, <1>5 DEF SettledInv, WakeInv, Wake

\* What was acknowledged was pasted, and once everything has settled nothing
\* waits in the inbox of an idle session: every flush that gives up has a
\* successor.  It assumes that a turn ends with its transcript projected.
THEOREM NothingIsLost == Spec => [](~Lagging => NoMessageIsLost)
<1>1. Init => (Lagging \/ SettledInv)
  BY InitSettled
<1>2. TypeOK /\ IInv /\ (Lagging \/ SettledInv) /\ [Next]_vars => (Lagging \/ SettledInv)'
  BY DownStep, TtyStep, AskingStep, AnswerStep, WakeStep DEF SettledInv
<1>3. TypeOK /\ IInv /\ (Lagging \/ SettledInv) => (~Lagging => NoMessageIsLost)
  BY SettledGives DEF NoMessageIsLost, IInv
<1> QED BY <1>1, <1>2, <1>3, Inductive, PTL DEF Spec
=============================================================================
