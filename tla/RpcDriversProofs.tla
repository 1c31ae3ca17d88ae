--------------------------- MODULE RpcDriversProofs ---------------------------
(***************************************************************************)
(* Proofs about RpcDrivers: type correctness, that turns are served one at *)
(* a time and given their own outcomes, that rows are whole, and that a    *)
(* stopped session has no cards.                                           *)
(***************************************************************************)
EXTENDS RpcDrivers, SequenceTheorems, FiniteSetTheorems, TLAPS

-----------------------------------------------------------------------------
(* How often, and in which order, frames stand in a queue.                 *)

At(q, X) == {i \in 1..Len(q) : q[i] \in X}
Occ(q, X) == Cardinality(At(q, X))

\* Nothing of Y comes after anything of X.
Closes(q, X, Y) == \A i, j \in 1..Len(q) : q[i] \in X /\ q[j] \in Y => j < i

LEMMA OccNat ==
  ASSUME NEW S, NEW q \in Seq(S), NEW X
  PROVE  /\ IsFiniteSet(At(q, X)) /\ Occ(q, X) \in Nat
         /\ Occ(q, X) = 0 <=> \A i \in 1..Len(q) : q[i] \notin X
<1>1. Len(q) \in Nat
  BY LenProperties
<1>2. IsFiniteSet(1..Len(q)) /\ At(q, X) \in SUBSET (1..Len(q))
  BY <1>1, FS_Interval DEF At
<1>3. IsFiniteSet(At(q, X))
  BY <1>2, FS_Subset
<1>4. Cardinality(At(q, X)) \in Nat
  BY <1>3, FS_CardinalityType
<1>5. Cardinality(At(q, X)) = 0 <=> At(q, X) = {}
  BY <1>3, FS_EmptySet
<1>6. At(q, X) = {} <=> \A i \in 1..Len(q) : q[i] \notin X
  BY DEF At
<1> QED BY <1>3, <1>4, <1>5, <1>6 DEF Occ

LEMMA OccEmpty ==
  ASSUME NEW X
  PROVE  Occ(<<>>, X) = 0
<1>1. <<>> \in Seq({}) /\ Len(<<>>) = 0
  BY EmptySeq
<1>2. \A i \in 1..Len(<<>>) : <<>>[i] \notin X
  BY <1>1
<1> QED BY <1>1, <1>2, OccNat

LEMMA OccAppend ==
  ASSUME NEW S, NEW q \in Seq(S), NEW x \in S, NEW X
  PROVE  Occ(Append(q, x), X) = IF x \in X THEN Occ(q, X) + 1 ELSE Occ(q, X)
<1>1. /\ Len(q) \in Nat /\ Len(Append(q, x)) = Len(q) + 1
      /\ \A i \in 1..Len(q) : Append(q, x)[i] = q[i]
      /\ Append(q, x)[Len(q) + 1] = x
  BY LenProperties, AppendProperties
<1>2. IsFiniteSet(At(q, X))
  BY OccNat
<1>3. CASE x \in X
  <2>1. At(Append(q, x), X) = At(q, X) \cup {Len(q) + 1}
    BY <1>1, <1>3 DEF At
  <2>2. Len(q) + 1 \notin At(q, X)
    BY <1>1 DEF At
  <2> QED BY <1>2, <1>3, <2>1, <2>2, FS_AddElement DEF Occ
<1>4. CASE x \notin X
  <2>1. At(Append(q, x), X) = At(q, X)
    BY <1>1, <1>4 DEF At
  <2> QED BY <1>4, <2>1 DEF Occ
<1> QED BY <1>3, <1>4

LEMMA OccTail ==
  ASSUME NEW S, NEW q \in Seq(S), q # <<>>, NEW X
  PROVE  Occ(q, X) = IF Head(q) \in X THEN Occ(Tail(q), X) + 1 ELSE Occ(Tail(q), X)
<1>1. /\ Len(q) \in Nat \ {0} /\ Len(Tail(q)) = Len(q) - 1 /\ Head(q) = q[1]
      /\ \A i \in 1..Len(Tail(q)) : Tail(q)[i] = q[i + 1]
      /\ Tail(q) \in Seq(S)
  BY EmptySeq, LenProperties, HeadTailProperties
<1>2. IsFiniteSet(At(q, X)) /\ IsFiniteSet(At(Tail(q), X))
  BY <1>1, OccNat
<1> DEFINE Later == At(q, X) \ {1}
           f == [i \in At(Tail(q), X) |-> i + 1]
<1>3. f \in Bijection(At(Tail(q), X), Later)
  <2>1. \A i \in At(Tail(q), X) : i + 1 \in Later
    BY <1>1 DEF At
  <2>2. \A i, j \in At(Tail(q), X) : f[i] = f[j] => i = j
    BY DEF At
  <2>3. \A j \in Later : \E i \in At(Tail(q), X) : f[i] = j
    <3> SUFFICES ASSUME NEW j \in Later PROVE j - 1 \in At(Tail(q), X) /\ (j - 1) + 1 = j
      OBVIOUS
    <3>1. j \in 1..Len(q) /\ j # 1 /\ q[j] \in X
      BY DEF At
    <3>2. j - 1 \in 1..Len(Tail(q)) /\ Tail(q)[j - 1] = q[(j - 1) + 1]
      BY <1>1, <3>1
    <3> QED BY <3>1, <3>2 DEF At
  <2> QED BY <2>1, <2>2, <2>3 DEF Bijection, Injection, Surjection, IsInjective
<1>4. Cardinality(Later) = Occ(Tail(q), X)
  BY <1>2, <1>3, FS_Bijection DEF ExistsBijection, Occ
<1>5. Cardinality(Later) = IF Head(q) \in X THEN Occ(q, X) - 1 ELSE Occ(q, X)
  <2>1. 1 \in At(q, X) <=> Head(q) \in X
    BY <1>1 DEF At
  <2>2. Cardinality(Later) = IF 1 \in At(q, X) THEN Cardinality(At(q, X)) - 1
                                              ELSE Cardinality(At(q, X))
    BY <1>2, FS_RemoveElement
  <2> QED BY <2>1, <2>2 DEF Occ
<1>6. Occ(q, X) \in Nat
  BY OccNat
<1> QED BY <1>4, <1>5, <1>6

LEMMA ClosesAppend ==
  ASSUME NEW S, NEW q \in Seq(S), NEW x \in S, NEW X, NEW Y, Closes(q, X, Y),
         x \in Y => x \notin X /\ \A i \in 1..Len(q) : q[i] \notin X
  PROVE  Closes(Append(q, x), X, Y)
<1>1. /\ Len(q) \in Nat /\ Len(Append(q, x)) = Len(q) + 1
      /\ \A i \in 1..Len(q) : Append(q, x)[i] = q[i]
      /\ Append(q, x)[Len(q) + 1] = x
  BY LenProperties, AppendProperties
<1> QED BY <1>1 DEF Closes

LEMMA ClosesTail ==
  ASSUME NEW S, NEW q \in Seq(S), q # <<>>, NEW X, NEW Y, Closes(q, X, Y)
  PROVE  /\ Closes(Tail(q), X, Y)
         /\ Head(q) \in X => \A i \in 1..Len(q) : q[i] \notin Y
<1>1. /\ Len(q) \in Nat \ {0} /\ Len(Tail(q)) = Len(q) - 1 /\ Head(q) = q[1]
      /\ \A i \in 1..Len(Tail(q)) : Tail(q)[i] = q[i + 1]
  BY EmptySeq, LenProperties, HeadTailProperties
<1>2. ASSUME NEW i \in 1..Len(Tail(q)), NEW j \in 1..Len(Tail(q)),
             Tail(q)[i] \in X, Tail(q)[j] \in Y
      PROVE  j < i
  <2>1. i + 1 \in 1..Len(q) /\ j + 1 \in 1..Len(q) /\ q[i + 1] \in X /\ q[j + 1] \in Y
    BY <1>1, <1>2
  <2>2. j + 1 < i + 1
    BY <2>1 DEF Closes
  <2> QED BY <1>1, <2>2
<1>3. ASSUME Head(q) \in X, NEW i \in 1..Len(q), q[i] \in Y
      PROVE  FALSE
  <2>1. i < 1
    BY <1>1, <1>3 DEF Closes
  <2> QED BY <2>1
<1> QED BY <1>2, <1>3 DEF Closes

LEMMA OccConcat ==
  ASSUME NEW S, NEW q \in Seq(S), NEW r \in Seq(S), NEW X
  PROVE  Occ(q \o r, X) = Occ(q, X) + Occ(r, X)
<1>1. /\ Len(q) \in Nat /\ Len(r) \in Nat /\ Len(q \o r) = Len(q) + Len(r)
      /\ \A i \in 1..(Len(q) + Len(r)) :
           (q \o r)[i] = IF i <= Len(q) THEN q[i] ELSE r[i - Len(q)]
  BY LenProperties, ConcatProperties
<1>2. IsFiniteSet(At(q, X)) /\ IsFiniteSet(At(r, X))
  BY OccNat
<1> DEFINE Later == {i \in (Len(q) + 1)..(Len(q) + Len(r)) : r[i - Len(q)] \in X}
           f == [i \in At(r, X) |-> i + Len(q)]
<1>3. f \in Bijection(At(r, X), Later)
  <2>1. \A i \in At(r, X) : i + Len(q) \in Later
    <3> SUFFICES ASSUME NEW i \in At(r, X) PROVE i + Len(q) \in Later
      OBVIOUS
    <3>1. i \in 1..Len(r) /\ r[i] \in X /\ (i + Len(q)) - Len(q) = i
      BY <1>1 DEF At
    <3> QED BY <1>1, <3>1
  <2>2. \A i, j \in At(r, X) : f[i] = f[j] => i = j
    BY <1>1 DEF At
  <2>3. \A j \in Later : \E i \in At(r, X) : f[i] = j
    <3> SUFFICES ASSUME NEW j \in Later
                 PROVE  j - Len(q) \in At(r, X) /\ (j - Len(q)) + Len(q) = j
      OBVIOUS
    <3> QED BY <1>1 DEF At
  <2> QED BY <2>1, <2>2, <2>3 DEF Bijection, Injection, Surjection, IsInjective
<1>4. IsFiniteSet(Later) /\ Cardinality(Later) = Occ(r, X)
  BY <1>2, <1>3, FS_Bijection DEF ExistsBijection, Occ
<1>5. At(q \o r, X) = At(q, X) \cup Later /\ At(q, X) \cap Later = {}
  BY <1>1 DEF At
<1>6. Cardinality(At(q, X) \cup Later) = Cardinality(At(q, X)) + Cardinality(Later)
  <2>1. Cardinality(At(q, X) \cup Later)
          = Cardinality(At(q, X)) + Cardinality(Later) - Cardinality(At(q, X) \cap Later)
    BY <1>2, <1>4, FS_Union
  <2>2. Cardinality(At(q, X) \cap Later) = 0
    BY <1>5, FS_EmptySet
  <2>3. Cardinality(At(q, X)) \in Nat /\ Cardinality(Later) \in Nat
    BY <1>2, <1>4, FS_CardinalityType
  <2> QED BY <2>1, <2>2, <2>3
<1> QED BY <1>4, <1>5, <1>6 DEF Occ

-----------------------------------------------------------------------------
(* Types, those of the queues included.                                    *)

ToChildType == [kind : {"turn"}, of : Turns] \cup [kind : {"answer"}, of : Asks]
LineType == [kind : {"ok", "error", "item", "completed"}, of : Turns]
            \cup [kind : {"ask", "withdrawn"}, of : Asks] \cup [kind : {"exit"}, of : {Null}]
NoteType == [kind : {"item", "completed"}, of : Turns] \cup [kind : {"withdrawn"}, of : Asks]
AskType == [kind : {"ask"}, of : Asks]
OutcomeType == [kind : {"completed"}, of : Turns, rows : Seq(Row)] \cup [kind : {"aborted"}]
CallType == [pc : {"idle", "queued", "made", "awaiting", "resolved", "rejected", "persist",
                   "returned", "failed", "interrupted"},
             got : Turns \cup {Null}, rows : Seq(Row)]

QueuesOK ==
  /\ stdin \in Seq(ToChildType) /\ inbound \in Seq(LineType)
  /\ notifications \in Seq(NoteType) /\ serverRequests \in Seq(AskType)
  /\ outcomes \in Seq(OutcomeType)

\* Cursor sends no notification but updates.
AcpLineType == [kind : {"ok", "error", "item"}, of : Turns] \cup [kind : {"exit"}, of : {Null}]
UpdateType == [kind : {"item"}, of : Turns]
AcpQueues ==
  protocol = "acp" =>
    /\ inbound \in Seq(AcpLineType)
    /\ notifications \in Seq(UpdateType)
    /\ outcomes = <<>>

TInv == TypeOK /\ QueuesOK /\ AcpQueues

-----------------------------------------------------------------------------
(* A turn's way to the child and back.                                     *)

\* The last that is heard of a turn: codex completes or refuses it, Cursor
\* answers its prompt.
FinalKinds == IF protocol = "acp" THEN {"ok", "error"} ELSE {"completed", "error"}
Final(t) == [kind : FinalKinds, of : {t}]
Item(t) == [kind : {"item"}, of : {t}]
Done(t) == [kind : {"completed"}, of : {t}]
Offer(t) == [kind : {"completed"}, of : {t}, rows : Seq(Row)]

\* Where the turn is: asked for, worked on, reported, or offered as an outcome.
TurnOf(t) == [kind : {"turn"}, of : {t}]
Asked(t) == Occ(stdin, TurnOf(t))
Working(t) == Occ(work, {t})
Reported(t) == Occ(inbound, Final(t))
Noted(t) == Occ(notifications, Done(t))
Offered(t) == Occ(outcomes, Offer(t))
Tokens(t) == Asked(t) + Working(t) + Reported(t) + Noted(t) + Offered(t)

\* Its items on their way to the driver's rows, and those that have arrived.
Arriving(t) == Occ(inbound, Item(t))
Waiting(t) == Occ(notifications, Item(t))
Arrived(t) == Occ(items, Item(t))
Flight(t) == Arriving(t) + Waiting(t) + Arrived(t)

Unasked(t) == call[t].pc \in {"idle", "queued", "made"}

\* A turn is in one place, and nothing is heard of it before it is asked for.
TokenInv ==
  \A t \in Turns : /\ Tokens(t) <= 1
                   /\ Unasked(t) => Tokens(t) = 0

\* A closed transport has nothing pending, and says so to who awaits an outcome.
ClosedInv ==
  /\ closed => pending = {}
  /\ shut => closed
  /\ Occ(outcomes, {Aborted}) > 0 => closed

\* As long as no submission is interrupted, what is on its way belongs to the
\* one turn that is served.
NoneInterrupted == \A t \in Turns : call[t].pc # "interrupted"
ServedInv ==
  NoneInterrupted /\ protocol = "jsonrpc" =>
    \A t \in Turns : Tokens(t) > 0 =>
      /\ ~closed => call[t].pc \in {"awaiting", "resolved"}
      /\ \A u \in Turns : call[u].pc = "resolved" => u = t

OwnInv == NoneInterrupted \/ protocol = "acp" => OwnOutcome

-----------------------------------------------------------------------------
(* The rows of a turn.                                                     *)

\* Cursor's answer comes after the last update of its turn.
Answered(t) == protocol = "acp" /\ call[t].pc = "resolved"
AnsweredInv ==
  \A t \in Turns : Answered(t) => Tokens(t) = 0 /\ Arriving(t) = 0

\* No item of a turn follows its last report.
OrderInv ==
  ~shut => \A t \in Turns :
    /\ Closes(inbound, Final(t), Item(t))
    /\ Closes(notifications, Done(t), Item(t))
    /\ Noted(t) > 0 => Arriving(t) = 0

\* What was sent of a turn in this life of the driver has not been lost.
SentInv ==
  \A t \in Turns :
    /\ Unasked(t) => sent[t] = 0 /\ Flight(t) = 0
    /\ ~shut /\ (Tokens(t) > 0 \/ Answered(t)) => sent[t] = Flight(t)

\* An outcome has every item of its turn, and so has the submission it is given to.
OfferInv ==
  \A i \in 1..Len(outcomes) : outcomes[i].kind = "completed" =>
    Occ(outcomes[i].rows, Item(outcomes[i].of)) = sent[outcomes[i].of]
GotInv ==
  \A t \in Turns : call[t].got = t =>
    /\ call[t].pc \in {"persist", "returned", "interrupted"}
    /\ Tokens(t) = 0
    /\ Occ(call[t].rows, Item(t)) = sent[t]

RowsInv == AnsweredInv /\ OrderInv /\ SentInv /\ OfferInv /\ GotInv

\* Rows that are in every outcome that is offered, and outcomes that follow each
\* other up to the rows its driver has.
Behind(r, q) ==
  \A i \in 1..Len(q) : q[i].kind = "completed" => IsPrefix(r, q[i].rows)
Ordered(q, rows) ==
  \A i \in 1..Len(q) : q[i].kind = "completed" =>
    /\ IsPrefix(q[i].rows, rows)
    /\ \A j \in (i + 1)..Len(q) : q[j].kind = "completed" => IsPrefix(q[i].rows, q[j].rows)

\* The rows of the launched driver only grow on their way to the store.
LaunchInv ==
  life = 1 =>
    /\ IsPrefix(stored, items) /\ Behind(stored, outcomes)
    /\ Ordered(outcomes, items)
    /\ \A t \in Turns : call[t].pc = "persist" =>
         /\ IsPrefix(stored, call[t].rows) /\ IsPrefix(call[t].rows, items)
         /\ Behind(call[t].rows, outcomes)

\* What Cursor may still send of a turn finds its prompt in the rows.
Prompted(t) == \E j \in 1..Len(items) : items[j] = [kind |-> "prompt", of |-> t]
PromptInv ==
  protocol = "acp" => \A t \in Turns :
    \/ call[t].pc \in {"made", "awaiting", "resolved"}
    \/ Tokens(t) > 0 \/ Arriving(t) > 0 \/ Waiting(t) > 0
    => Prompted(t)
PromptFirstInv == protocol = "acp" => PromptFirst

-----------------------------------------------------------------------------
(* Types are preserved, one group of variables at a time.                  *)

ChildT == /\ alive \in BOOLEAN /\ stdin \in Seq(ToChildType) /\ work \in Seq(Turns)
          /\ sent \in [Turns -> 0..MaxItems]
WireT == /\ inbound \in Seq(LineType) /\ draining \in BOOLEAN /\ closed \in BOOLEAN
         /\ pending \subseteq Turns /\ notifications \in Seq(NoteType)
         /\ serverRequests \in Seq(AskType) /\ shut \in BOOLEAN
SessionT == /\ scope \in {"open", "forgotten", "closed"} /\ life \in 1..MaxLives
            /\ permit \in Turns \cup {Null} /\ generating \in BOOLEAN
            /\ call \in [Turns -> CallType] /\ items \in Seq(Row) /\ stored \in Seq(Row)
CodexT == /\ asked \in [Asks -> {"never", "open", "settled"}] /\ folding \in BOOLEAN
          /\ approvals \subseteq Asks \ Queries /\ listed \subseteq Asks \ Queries
          /\ outcomes \in Seq(OutcomeType)
ProtocolT == protocol \in {"jsonrpc", "acp"} /\ AcpQueues

LEMMA TypeSplit ==
  /\ TInv => ChildT /\ WireT /\ SessionT /\ CodexT /\ ProtocolT
  /\ ChildT' /\ WireT' /\ SessionT' /\ CodexT' /\ ProtocolT' => TInv'
  BY DEF TInv, TypeOK, BaseTypeOK, QueuesOK, ChildT, WireT, SessionT, CodexT, ProtocolT, CallType

\* Every step, by name.
LEMMA Steps ==
  ASSUME [Next]_vars
  PROVE  \/ \E t \in Turns : \/ TakeOutcome(t) \/ TakeUpdates(t)
                             \/ /\ BeginTurn(t, Prompt(t)) \/ Request(t) \/ TurnFails(t)
                                   \/ Persist(t) \/ Submit(t)
                                /\ UNCHANGED <<protocol, codexVars>>
         \/ /\ RouteResponse \/ RouteRequest \/ RouteNotification \/ RouteExit
               \/ ChildDies \/ Reload
            /\ UNCHANGED <<protocol, codexVars>>
         \/ FoldItem \/ FoldCompleted \/ FoldResolved \/ FoldEnds \/ Collect \/ Mirror
         \/ ServeTurn \/ ServePrompt \/ ServeAnswer \/ Produce \/ FinishTurn \/ AnswerPrompt
         \/ \E a \in Asks : AskOrWithdraw(a) \/ AnswerApproval(a)
         \/ StopSession \/ Close \/ ResumeThread \/ ResumeSession
         \/ UNCHANGED vars
  BY DEF Next, RunTurn, Fibers, Others, Route

LEMMA InitTyped == Init => TInv
<1> SUFFICES ASSUME Init PROVE TInv
  OBVIOUS
<1>1. /\ stdin = <<>> /\ work = <<>> /\ inbound = <<>> /\ notifications = <<>>
      /\ serverRequests = <<>> /\ items = <<>> /\ stored = <<>> /\ outcomes = <<>>
  BY DEF Init, BaseInit
<1>2. \A S : <<>> \in Seq(S)
  BY EmptySeq
<1>3. call \in [Turns -> CallType]
  BY <1>2 DEF Init, BaseInit, NoCall, CallType
<1>4. /\ life \in 1..MaxLives /\ 0 \in 0..MaxItems
  BY DriversAssumption DEF Init, BaseInit
<1>5. /\ stdin \in Seq(ToChildType) /\ work \in Seq(Turns) /\ inbound \in Seq(LineType)
      /\ notifications \in Seq(NoteType) /\ serverRequests \in Seq(AskType)
      /\ items \in Seq(Row) /\ stored \in Seq(Row) /\ outcomes \in Seq(OutcomeType)
      /\ inbound \in Seq(AcpLineType) /\ notifications \in Seq(UpdateType)
  BY <1>1, <1>2
<1> QED BY <1>1, <1>3, <1>4, <1>5
        DEF Init, BaseInit, TInv, TypeOK, BaseTypeOK, QueuesOK, AcpQueues, CallType

\* Lines are appended to inbound, and routed from its head.
LEMMA EmitTyped ==
  ASSUME WireT, AcpQueues, NEW kind, NEW x, Emit(kind, x),
         \/ kind \in {"ok", "error", "item"} /\ x \in Turns
         \/ kind = "completed" /\ x \in Turns /\ protocol # "acp"
         \/ kind \in {"ask", "withdrawn"} /\ x \in Asks /\ protocol # "acp"
         \/ kind = "exit" /\ x = Null
  PROVE  /\ inbound' \in Seq(LineType)
         /\ protocol = "acp" => inbound' \in Seq(AcpLineType)
<1> DEFINE line == [kind |-> kind, of |-> x]
<1>1. line \in LineType /\ (protocol = "acp" => line \in AcpLineType)
  BY DEF LineType, AcpLineType
<1>2. inbound' = Append(inbound, line)
  BY DEF Emit
<1> HIDE DEF line
<1> QED BY <1>1, <1>2, AppendProperties DEF WireT, AcpQueues

LEMMA ToChildTyped ==
  ASSUME ChildT, NEW kind, NEW x, ToChild(kind, x),
         (kind = "turn" /\ x \in Turns) \/ (kind = "answer" /\ x \in Asks)
  PROVE  stdin' \in Seq(ToChildType)
<1> DEFINE frame == [kind |-> kind, of |-> x]
<1>1. frame \in ToChildType
  BY DEF ToChildType
<1>2. stdin' = Append(stdin, frame)
  BY DEF ToChild
<1> HIDE DEF frame
<1> QED BY <1>1, <1>2, AppendProperties DEF ChildT

\* What is read from a queue is one of its frames.
LEMMA Heads ==
  ASSUME TInv
  PROVE  /\ stdin # <<>> => Head(stdin) \in ToChildType /\ Tail(stdin) \in Seq(ToChildType)
         /\ work # <<>> => Head(work) \in Turns /\ Tail(work) \in Seq(Turns)
         /\ inbound # <<>> => Head(inbound) \in LineType /\ Tail(inbound) \in Seq(LineType)
         /\ notifications # <<>> =>
              Head(notifications) \in NoteType /\ Tail(notifications) \in Seq(NoteType)
         /\ serverRequests # <<>> =>
              Head(serverRequests) \in AskType /\ Tail(serverRequests) \in Seq(AskType)
         /\ outcomes # <<>> => Head(outcomes) \in OutcomeType /\ Tail(outcomes) \in Seq(OutcomeType)
         /\ protocol = "acp" /\ inbound # <<>> =>
              Head(inbound) \in AcpLineType /\ Tail(inbound) \in Seq(AcpLineType)
  BY HeadTailProperties, TypeSplit DEF ChildT, WireT, CodexT, ProtocolT, AcpQueues

LEMMA CallTyped ==
  ASSUME SessionT, NEW t \in Turns,
         NEW pc \in {"idle", "queued", "made", "awaiting", "resolved", "rejected", "persist",
                     "returned", "failed", "interrupted"},
         call' = [call EXCEPT ![t].pc = pc]
  PROVE  call' \in [Turns -> CallType]
<1>1. [call[t] EXCEPT !.pc = pc] \in CallType
  BY DEF SessionT, CallType
<1>2. call' = [call EXCEPT ![t] = [call[t] EXCEPT !.pc = pc]]
  OBVIOUS
<1> QED BY <1>1, <1>2 DEF SessionT

LEMMA PromptTyped ==
  ASSUME NEW t \in Turns
  PROVE  Prompt(t) \in Seq(Row)
<1> DEFINE row == [kind |-> "prompt", of |-> t]
<1>1. row \in Row
  BY DEF Row
<1>2. Prompt(t) = <<row>> \/ Prompt(t) = <<>>
  BY DEF Prompt
<1> HIDE DEF row
<1>3. <<row>> \in Seq(Row) /\ <<>> \in Seq(Row)
  BY <1>1
<1> QED BY <1>2, <1>3

LEMMA TurnTyped ==
  ASSUME TInv, NEW t \in Turns, UNCHANGED <<protocol, codexVars>>,
         BeginTurn(t, Prompt(t)) \/ Request(t) \/ TurnFails(t) \/ Persist(t) \/ Submit(t)
  PROVE  TInv'
<1>0. ChildT /\ WireT /\ SessionT /\ CodexT /\ ProtocolT
  BY TypeSplit
<1>1. CASE BeginTurn(t, Prompt(t))
  <2>1. Prompt(t) \in Seq(Row)
    BY PromptTyped
  <2>2. items' \in Seq(Row)
    BY <1>0, <1>1, <2>1, ConcatProperties DEF BeginTurn, SessionT
  <2>3. call' \in [Turns -> CallType]
    BY <1>0, <1>1, CallTyped DEF BeginTurn
  <2>4. SessionT'
    BY <1>0, <1>1, <2>2, <2>3 DEF BeginTurn, Leave, SessionT
  <2> QED BY <1>0, <1>1, <2>4, TypeSplit
          DEF BeginTurn, child, wire, codexVars, ChildT, WireT, CodexT, ProtocolT, AcpQueues
<1>2. CASE Request(t)
  <2>1. call' \in [Turns -> CallType]
    BY <1>0, <1>2, CallTyped DEF Request
  <2>2. stdin' \in Seq(ToChildType)
    BY <1>0, <1>2, ToChildTyped DEF Request, ChildT
  <2>3. ChildT' /\ WireT' /\ SessionT'
    BY <1>0, <1>2, <2>1, <2>2 DEF Request, Leave, ChildT, WireT, SessionT
  <2> QED BY <1>0, <1>2, <2>3, TypeSplit DEF Request, codexVars, CodexT, ProtocolT, AcpQueues
<1>3. CASE TurnFails(t) \/ Persist(t) \/ Submit(t)
  <2>1. call' \in [Turns -> CallType]
    BY <1>0, <1>3, CallTyped DEF TurnFails, Persist, Submit
  <2>2. stored' \in Seq(Row)
    BY <1>0, <1>3 DEF TurnFails, Persist, Submit, Replaced, SessionT, CallType
  <2>3. SessionT'
    BY <1>0, <1>3, <2>1, <2>2 DEF TurnFails, Persist, Submit, Leave, session, SessionT
  <2> QED BY <1>0, <1>3, <2>3, TypeSplit
          DEF TurnFails, Persist, Submit, child, wire, codexVars, ChildT, WireT, CodexT, ProtocolT, AcpQueues
<1> QED BY <1>1, <1>2, <1>3

LEMMA SettledTyped ==
  ASSUME SessionT, NEW S, NEW pc \in {"resolved", "rejected"}
  PROVE  Settled(S, pc) \in [Turns -> CallType]
<1>1. \A t \in Turns : [call[t] EXCEPT !.pc = pc] \in CallType
  BY DEF SessionT, CallType
<1> QED BY <1>1 DEF Settled, SessionT

LEMMA RouteTyped ==
  ASSUME TInv, UNCHANGED <<protocol, codexVars>>,
         RouteResponse \/ RouteRequest \/ RouteNotification \/ RouteExit
  PROVE  TInv'
<1>0. ChildT /\ WireT /\ SessionT /\ CodexT /\ ProtocolT
  BY TypeSplit
<1>1. /\ inbound # <<>> /\ inbound' = Tail(inbound)
      /\ Head(inbound) \in LineType /\ inbound' \in Seq(LineType)
      /\ protocol = "acp" => Head(inbound) \in AcpLineType /\ inbound' \in Seq(AcpLineType)
  BY Heads DEF RouteResponse, RouteRequest, RouteNotification, RouteExit, Routing
<1>2. call' \in [Turns -> CallType]
  BY <1>0, SettledTyped DEF RouteResponse, RouteRequest, RouteNotification, RouteExit,
                            FailAllPending, SessionT
<1>3. notifications' \in Seq(NoteType) /\ (protocol = "acp" => notifications' \in Seq(UpdateType))
  <2>1. CASE RouteNotification
    <3>1. Head(inbound) \in NoteType
      BY <1>1, <2>1 DEF RouteNotification, LineType, NoteType
    <3>2. protocol = "acp" => Head(inbound) \in UpdateType
      BY <1>1, <2>1 DEF RouteNotification, AcpLineType, UpdateType
    <3> QED BY <1>0, <2>1, <3>1, <3>2, AppendProperties
            DEF RouteNotification, WireT, ProtocolT, AcpQueues
  <2>2. CASE RouteExit
    BY <2>2, EmptySeq DEF RouteExit
  <2>3. CASE RouteResponse \/ RouteRequest
    BY <1>0, <2>3 DEF RouteResponse, RouteRequest, WireT, ProtocolT, AcpQueues
  <2> QED BY <2>1, <2>2, <2>3
<1>4. serverRequests' \in Seq(AskType)
  <2>1. CASE RouteRequest
    <3>1. Head(inbound) \in AskType
      BY <1>1, <2>1 DEF RouteRequest, LineType, AskType
    <3> QED BY <1>0, <2>1, <3>1, AppendProperties DEF RouteRequest, WireT
  <2>2. CASE RouteExit
    BY <2>2, EmptySeq DEF RouteExit
  <2>3. CASE RouteResponse \/ RouteNotification
    BY <1>0, <2>3 DEF RouteResponse, RouteNotification, WireT
  <2> QED BY <2>1, <2>2, <2>3
<1>5. WireT'
  BY <1>0, <1>1, <1>3, <1>4 DEF RouteResponse, RouteRequest, RouteNotification, RouteExit,
                                FailAllPending, WireT
<1>6. ChildT' /\ SessionT'
  BY <1>0, <1>2 DEF RouteResponse, RouteRequest, RouteNotification, RouteExit, child, session,
                    ChildT, SessionT
<1> QED BY <1>0, <1>1, <1>3, <1>5, <1>6, TypeSplit DEF codexVars, CodexT, ProtocolT, AcpQueues

LEMMA ChildTyped ==
  ASSUME TInv, ServeTurn \/ ServePrompt \/ ServeAnswer \/ Produce \/ FinishTurn \/ AnswerPrompt
  PROVE  TInv'
<1>0. ChildT /\ WireT /\ SessionT /\ CodexT /\ ProtocolT
  BY TypeSplit
<1>c. ASSUME stdin' \in Seq(ToChildType), work' \in Seq(Turns), sent' \in [Turns -> 0..MaxItems],
             inbound' \in Seq(LineType), protocol = "acp" => inbound' \in Seq(AcpLineType),
             asked' \in [Asks -> {"never", "open", "settled"}]
      PROVE  TInv'
  <2>1. ChildT'
    BY <1>0, <1>c DEF ServeTurn, ServePrompt, ServeAnswer, Produce, FinishTurn, AnswerPrompt, ChildT
  <2>2. WireT'
    BY <1>0, <1>c DEF ServeTurn, ServePrompt, ServeAnswer, Produce, FinishTurn, AnswerPrompt, wire, WireT
  <2>3. SessionT' /\ CodexT'
    BY <1>0, <1>c DEF ServeTurn, ServePrompt, ServeAnswer, Produce, FinishTurn, AnswerPrompt, session,
                      codexVars, SessionT, CodexT
  <2>4. UNCHANGED <<protocol, notifications, outcomes>>
    BY DEF ServeTurn, ServePrompt, ServeAnswer, Produce, FinishTurn, AnswerPrompt, Codex, Acp, wire, codexVars
  <2> QED BY <1>0, <1>c, <2>1, <2>2, <2>3, <2>4, TypeSplit DEF ProtocolT, AcpQueues
<1>t. ASSUME Reads("turn")
      PROVE  Head(stdin).of \in Turns /\ stdin' \in Seq(ToChildType)
  BY <1>t, Heads DEF Reads, ToChildType
<1>1. CASE ServeTurn
  <2>1. PICK t \in Turns : t = Head(stdin).of
    BY <1>1, <1>t DEF ServeTurn
  <2>2. inbound' \in Seq(LineType) /\ (protocol = "acp" => inbound' \in Seq(AcpLineType))
    BY <1>0, <1>1, <2>1, EmitTyped DEF ServeTurn, ProtocolT
  <2>3. work' \in Seq(Turns)
    <3>1. Append(work, t) \in Seq(Turns)
      BY <1>0, AppendProperties DEF ChildT
    <3>2. work' = work \/ work' = Append(work, t)
      BY <1>1, <2>1 DEF ServeTurn
    <3> QED BY <1>0, <3>1, <3>2 DEF ChildT
  <2> QED BY <1>0, <1>1, <1>c, <1>t, <2>2, <2>3 DEF ServeTurn, codexVars, ChildT, CodexT
<1>2. CASE ServePrompt
  <2>1. PICK t \in Turns : t = Head(stdin).of
    BY <1>2, <1>t DEF ServePrompt
  <2>2. work' \in Seq(Turns)
    BY <1>0, <1>2, <2>1, AppendProperties DEF ServePrompt, ChildT
  <2> QED BY <1>0, <1>2, <1>c, <1>t, <2>2
          DEF ServePrompt, wire, codexVars, ChildT, CodexT, WireT, ProtocolT, AcpQueues
<1>3. CASE ServeAnswer
  <2>1. PICK a \in Asks : a = Head(stdin).of
    BY <1>3, Heads DEF ServeAnswer, Reads, ToChildType
  <2>2. stdin' \in Seq(ToChildType)
    BY <1>3, Heads DEF ServeAnswer, Reads
  <2>3. protocol # "acp"
    BY <1>3 DEF ServeAnswer, Codex
  <2>4. CASE asked[a] = "open"
    <3>1. inbound' \in Seq(LineType)
      BY <1>0, <1>3, <2>1, <2>3, <2>4, EmitTyped DEF ServeAnswer, ProtocolT
    <3> QED BY <1>0, <1>3, <1>c, <2>1, <2>2, <2>3, <2>4, <3>1 DEF ServeAnswer, ChildT, CodexT
  <2>5. CASE asked[a] # "open"
    BY <1>0, <1>3, <1>c, <2>1, <2>2, <2>3, <2>5 DEF ServeAnswer, ChildT, CodexT, WireT
  <2> QED BY <2>4, <2>5
<1>4. CASE Produce
  <2>1. PICK t \in Turns : t = Head(work) /\ sent[t] < MaxItems
    BY <1>4, Heads DEF Produce
  <2>2. inbound' \in Seq(LineType) /\ (protocol = "acp" => inbound' \in Seq(AcpLineType))
    BY <1>0, <1>4, <2>1, EmitTyped DEF Produce, ProtocolT
  <2>3. sent' \in [Turns -> 0..MaxItems]
    BY <1>0, <1>4, <2>1, DriversAssumption DEF Produce, ChildT
  <2> QED BY <1>0, <1>4, <1>c, <2>2, <2>3 DEF Produce, codexVars, ChildT, CodexT
<1>5. CASE FinishTurn
  <2>1. PICK t \in Turns : t = Head(work) /\ work' \in Seq(Turns)
    BY <1>5, Heads DEF FinishTurn
  <2>2. inbound' \in Seq(LineType) /\ protocol # "acp"
    BY <1>0, <1>5, <2>1, EmitTyped DEF FinishTurn, ProtocolT, Codex
  <2> QED BY <1>0, <1>5, <1>c, <2>1, <2>2 DEF FinishTurn, codexVars, ChildT, CodexT
<1>6. CASE AnswerPrompt
  <2>1. PICK t \in Turns : t = Head(work) /\ work' \in Seq(Turns)
    BY <1>6, Heads DEF AnswerPrompt
  <2>2. inbound' \in Seq(LineType) /\ (protocol = "acp" => inbound' \in Seq(AcpLineType))
    BY <1>0, <1>6, <2>1, EmitTyped DEF AnswerPrompt, ProtocolT
  <2> QED BY <1>0, <1>6, <1>c, <2>1, <2>2 DEF AnswerPrompt, codexVars, ChildT, CodexT
<1> QED BY <1>1, <1>2, <1>3, <1>4, <1>5, <1>6

LEMMA AskTyped ==
  ASSUME TInv, NEW a \in Asks, AskOrWithdraw(a) \/ AnswerApproval(a)
  PROVE  TInv'
<1>0. ChildT /\ WireT /\ SessionT /\ CodexT /\ ProtocolT
  BY TypeSplit
<1>1. CASE AskOrWithdraw(a)
  <2>1. inbound' \in Seq(LineType) /\ protocol # "acp" /\ protocol' = protocol
    BY <1>0, <1>1, EmitTyped DEF AskOrWithdraw, ProtocolT, Codex
  <2> QED BY <1>0, <1>1, <2>1, TypeSplit
          DEF AskOrWithdraw, child, session, ChildT, WireT, SessionT, CodexT, ProtocolT, AcpQueues
<1>2. CASE AnswerApproval(a)
  <2>1. stdin' \in Seq(ToChildType) /\ protocol # "acp" /\ protocol' = protocol
    BY <1>0, <1>2, ToChildTyped DEF AnswerApproval, Codex
  <2> QED BY <1>0, <1>2, <2>1, TypeSplit
          DEF AnswerApproval, wire, session, ChildT, WireT, SessionT, CodexT, ProtocolT, AcpQueues
<1> QED BY <1>1, <1>2

LEMMA FoldTyped ==
  ASSUME TInv, FoldItem \/ FoldCompleted \/ FoldResolved \/ FoldEnds \/ Collect \/ Mirror
  PROVE  TInv'
<1>0. ChildT /\ WireT /\ SessionT /\ CodexT /\ ProtocolT
  BY TypeSplit
<1>p. protocol # "acp" /\ protocol' = protocol
  BY DEF FoldItem, FoldCompleted, FoldResolved, FoldEnds, Collect, Mirror, Folding, Codex
<1>1. CASE FoldItem
  <2>1. PICK t \in Turns : t = Head(notifications).of
    BY <1>1, Heads DEF FoldItem, Folding, NoteType
  <2> DEFINE row == [kind |-> "item", of |-> t]
  <2>2. row \in Row
    BY DEF Row
  <2>3. items' = items \o <<row>>
    BY <1>1, <2>1 DEF FoldItem, ItemRow
  <2> HIDE DEF row
  <2>4. items' \in Seq(Row)
    BY <1>0, <2>2, <2>3, ConcatProperties DEF SessionT
  <2>5. notifications' \in Seq(NoteType)
    BY <1>1, Heads DEF FoldItem, Folding
  <2> QED BY <1>0, <1>1, <1>p, <2>4, <2>5, TypeSplit
          DEF FoldItem, child, session, codexVars, ChildT, WireT, SessionT, CodexT, ProtocolT, AcpQueues
<1>2. CASE FoldCompleted
  <2>1. PICK t \in Turns : t = Head(notifications).of
    BY <1>2, Heads DEF FoldCompleted, Folding, NoteType
  <2>2. Completed(t) \in OutcomeType
    BY <1>0 DEF Completed, OutcomeType, SessionT
  <2>3. outcomes' \in Seq(OutcomeType)
    BY <1>0, <1>2, <2>1, <2>2, AppendProperties DEF FoldCompleted, CodexT
  <2>4. notifications' \in Seq(NoteType)
    BY <1>2, Heads DEF FoldCompleted, Folding
  <2> QED BY <1>0, <1>2, <1>p, <2>3, <2>4, TypeSplit
          DEF FoldCompleted, child, session, ChildT, WireT, SessionT, CodexT, ProtocolT, AcpQueues
<1>3. CASE FoldResolved
  <2>1. notifications' \in Seq(NoteType)
    BY <1>3, Heads DEF FoldResolved, Folding
  <2> QED BY <1>0, <1>3, <1>p, <2>1, TypeSplit
          DEF FoldResolved, child, session, ChildT, WireT, SessionT, CodexT, ProtocolT, AcpQueues
<1>4. CASE FoldEnds
  <2>1. Aborted \in OutcomeType
    BY DEF Aborted, OutcomeType
  <2>2. outcomes' \in Seq(OutcomeType)
    BY <1>0, <1>4, <2>1, AppendProperties DEF FoldEnds, CodexT
  <2> QED BY <1>0, <1>4, <1>p, <2>2, TypeSplit
          DEF FoldEnds, baseVars, child, wire, session, ChildT, WireT, SessionT, CodexT, ProtocolT, AcpQueues
<1>5. CASE Collect
  <2>1. PICK a \in Asks : a = Head(serverRequests).of
    BY <1>5, Heads DEF Collect, AskType
  <2>2. stdin' \in Seq(ToChildType)
    BY <1>0, <1>5, <2>1, ToChildTyped DEF Collect, ChildT
  <2>3. approvals' \subseteq Asks \ Queries
    BY <1>0, <1>5, <2>1 DEF Collect, CodexT
  <2>4. serverRequests' \in Seq(AskType)
    BY <1>5, Heads DEF Collect
  <2> QED BY <1>0, <1>5, <1>p, <2>2, <2>3, <2>4, TypeSplit
          DEF Collect, session, ChildT, WireT, SessionT, CodexT, ProtocolT, AcpQueues
<1>6. CASE Mirror
  BY <1>0, <1>6, <1>p, TypeSplit
  DEF Mirror, baseVars, child, wire, session, ChildT, WireT, SessionT, CodexT, ProtocolT, AcpQueues
<1> QED BY <1>1, <1>2, <1>3, <1>4, <1>5, <1>6

LEMMA LifeTyped ==
  ASSUME TInv, \/ /\ ChildDies \/ Reload
                  /\ UNCHANGED <<protocol, codexVars>>
               \/ StopSession \/ Close \/ ResumeThread \/ ResumeSession
  PROVE  TInv'
<1>0. ChildT /\ WireT /\ SessionT /\ CodexT /\ ProtocolT
  BY TypeSplit
<1>1. CASE ChildDies /\ UNCHANGED <<protocol, codexVars>>
  <2>1. inbound' \in Seq(LineType) /\ (protocol = "acp" => inbound' \in Seq(AcpLineType))
    BY <1>0, <1>1, EmitTyped DEF ChildDies, ProtocolT
  <2> QED BY <1>0, <1>1, <2>1, TypeSplit
          DEF ChildDies, session, codexVars, ChildT, WireT, SessionT, CodexT, ProtocolT, AcpQueues
<1>2. CASE Reload /\ UNCHANGED <<protocol, codexVars>>
  <2>1. \A t \in Turns : [call[t] EXCEPT !.pc = "interrupted"] \in CallType
    BY <1>0 DEF SessionT, CallType
  <2>2. call' \in [Turns -> CallType]
    BY <1>0, <1>2, <2>1 DEF Reload, SessionT
  <2> QED BY <1>0, <1>2, <2>2, TypeSplit
          DEF Reload, Leave, child, wire, codexVars, ChildT, WireT, SessionT, CodexT, ProtocolT, AcpQueues
<1>3. CASE StopSession
  BY <1>0, <1>3, TypeSplit
  DEF StopSession, Stop, Deregistered, child, wire, ChildT, WireT, SessionT, CodexT, ProtocolT, AcpQueues
<1>4. CASE Close
  <2>1. call' \in [Turns -> CallType]
    BY <1>0, <1>4, SettledTyped DEF Close, CloseScope, FailAllPending
  <2>2. Aborted \in OutcomeType
    BY DEF Aborted, OutcomeType
  <2>3. Append(outcomes, Aborted) \in Seq(OutcomeType)
    BY <1>0, <2>2, AppendProperties DEF CodexT
  <2>4. ChildT' /\ WireT' /\ SessionT'
    BY <1>0, <1>4, <2>1 DEF Close, CloseScope, FailAllPending, ChildT, WireT, SessionT
  <2>5. CodexT'
    BY <1>0, <1>4, <2>3 DEF Close, CodexT
  <2>6. ProtocolT'
    BY <1>0, <1>4 DEF Close, CloseScope, ProtocolT, AcpQueues
  <2> QED BY <2>4, <2>5, <2>6, TypeSplit
<1>5. CASE ResumeThread \/ ResumeSession
  <2>1. /\ stdin' = <<>> /\ work' = <<>> /\ inbound' = <<>> /\ notifications' = <<>>
        /\ serverRequests' = <<>> /\ items' = <<>>
    BY <1>5 DEF ResumeThread, ResumeSession, Resume, Discarded
  <2>2. \A S : <<>> \in Seq(S)
    BY EmptySeq
  <2>3. ChildT'
    BY <1>0, <1>5, <2>1, <2>2 DEF ResumeThread, ResumeSession, Resume, ChildT
  <2>4. WireT'
    BY <1>0, <1>5, <2>1, <2>2 DEF ResumeThread, ResumeSession, Resume, WireT
  <2>5. SessionT'
    <3>1. life' \in 1..MaxLives
      BY <1>0, <1>5, DriversAssumption DEF ResumeThread, ResumeSession, Resume, SessionT
    <3> QED BY <1>0, <1>5, <2>1, <2>2, <3>1 DEF ResumeThread, ResumeSession, Resume, SessionT
  <2>6. CodexT'
    BY <1>0, <1>5, <2>2 DEF ResumeThread, ResumeSession, codexVars, CodexT
  <2>7. ProtocolT'
    <3>1. protocol' = protocol /\ (protocol = "acp" => outcomes' = outcomes)
      BY <1>5 DEF ResumeThread, ResumeSession, Codex, Acp, codexVars
    <3> QED BY <1>0, <2>1, <2>2, <3>1 DEF ProtocolT, AcpQueues
  <2> QED BY <2>3, <2>4, <2>5, <2>6, <2>7, TypeSplit
<1> QED BY <1>1, <1>2, <1>3, <1>4, <1>5

\* An update is folded into the row of the same turn.
LEMMA FoldedIsSame ==
  ASSUME NEW q \in Seq(UpdateType)
  PROVE  Folded(q) = q /\ q \in Seq(Row)
<1>1. DOMAIN q = 1..Len(q) /\ q = [i \in 1..Len(q) |-> q[i]]
  BY LenProperties
<1>2. \A i \in 1..Len(q) : q[i] = [kind |-> "item", of |-> q[i].of]
  <2>1. \A u \in UpdateType : u = [kind |-> "item", of |-> u.of]
    BY DEF UpdateType
  <2>2. \A i \in 1..Len(q) : q[i] \in UpdateType
    BY ElementOfSeq
  <2> QED BY <2>1, <2>2
<1>3. UpdateType \subseteq Row
  BY DEF UpdateType, Row
<1>4. Folded(q) = [i \in 1..Len(q) |-> [kind |-> "item", of |-> q[i].of]]
  BY <1>1 DEF Folded
<1>5. Folded(q) = q
  BY <1>1, <1>2, <1>4
<1> QED BY <1>3, <1>5, SeqMonotonic

LEMMA TakeTyped ==
  ASSUME TInv, NEW t \in Turns, TakeOutcome(t) \/ TakeUpdates(t)
  PROVE  TInv'
<1>0. ChildT /\ WireT /\ SessionT /\ CodexT /\ ProtocolT
  BY TypeSplit
<1>1. CASE TakeOutcome(t)
  <2>1. Head(outcomes) \in OutcomeType /\ outcomes' \in Seq(OutcomeType)
    BY <1>1, Heads DEF TakeOutcome
  <2>2. call' \in [Turns -> CallType]
    <3>1. CASE Head(outcomes).kind = "aborted"
      BY <1>0, <1>1, <3>1, CallTyped DEF TakeOutcome
    <3>2. CASE Head(outcomes).kind # "aborted"
      <4>1. Head(outcomes).of \in Turns /\ Head(outcomes).rows \in Seq(Row)
        BY <2>1, <3>2 DEF OutcomeType
      <4>2. [pc |-> "persist", got |-> Head(outcomes).of, rows |-> Head(outcomes).rows] \in CallType
        BY <4>1 DEF CallType
      <4>3. call' = [call EXCEPT ![t] = [pc |-> "persist", got |-> Head(outcomes).of,
                                         rows |-> Head(outcomes).rows]]
        BY <1>1, <3>2 DEF TakeOutcome
      <4> QED BY <1>0, <4>2, <4>3 DEF SessionT
    <3> QED BY <3>1, <3>2
  <2>3. protocol # "acp" /\ protocol' = protocol
    BY <1>1 DEF TakeOutcome, Codex
  <2>4. SessionT'
    BY <1>0, <1>1, <2>2 DEF TakeOutcome, Leave, SessionT
  <2> QED BY <1>0, <1>1, <2>1, <2>3, <2>4, TypeSplit
          DEF TakeOutcome, child, wire, ChildT, WireT, CodexT, ProtocolT, AcpQueues
<1>2. CASE TakeUpdates(t)
  <2>1. protocol = "acp" /\ protocol' = protocol
    BY <1>2 DEF TakeUpdates, Acp
  <2>2. CASE shut
    <3>1. call' \in [Turns -> CallType]
      BY <1>0, <1>2, <2>2, CallTyped DEF TakeUpdates
    <3> QED BY <1>0, <1>2, <2>1, <2>2, <3>1, TypeSplit
            DEF TakeUpdates, Leave, child, codexVars, ChildT, WireT, SessionT, CodexT, ProtocolT, AcpQueues
  <2>3. CASE ~shut
    <3>1. Folded(notifications) \in Seq(Row)
      BY <1>0, <2>1, FoldedIsSame DEF ProtocolT, AcpQueues
    <3>2. items' \in Seq(Row)
      <4>1. items' = items \o Folded(notifications)
        BY <1>2, <2>3 DEF TakeUpdates
      <4> QED BY <1>0, <3>1, <4>1, ConcatProperties DEF SessionT
    <3>3. call' \in [Turns -> CallType]
      BY <1>0, <1>2, <2>3, <3>2 DEF TakeUpdates, SessionT, CallType
    <3>4. \A S : notifications' \in Seq(S)
      BY <1>2, <2>3, EmptySeq DEF TakeUpdates
    <3>5. SessionT'
      BY <1>0, <1>2, <2>3, <3>2, <3>3 DEF TakeUpdates, SessionT
    <3>6. ChildT' /\ WireT' /\ CodexT'
      BY <1>0, <1>2, <2>3, <3>4 DEF TakeUpdates, child, codexVars, ChildT, WireT, CodexT
    <3>7. ProtocolT'
      BY <1>0, <1>2, <2>1, <3>4 DEF TakeUpdates, codexVars, ProtocolT, AcpQueues
    <3> QED BY <3>5, <3>6, <3>7, TypeSplit
  <2> QED BY <2>2, <2>3
<1> QED BY <1>1, <1>2

LEMMA TypedStep ==
  ASSUME TInv, [Next]_vars
  PROVE  TInv'
<1>1. CASE UNCHANGED vars
  BY SMTT(60), <1>1 DEF vars, baseVars, child, wire, session, codexVars, TInv, TypeOK, BaseTypeOK, QueuesOK, AcpQueues
<1> QED BY <1>1, Steps, TurnTyped, RouteTyped, ChildTyped, AskTyped, FoldTyped, LifeTyped, TakeTyped

-----------------------------------------------------------------------------

LEMMA TypesHold == Spec => []TInv
  BY InitTyped, TypedStep, PTL DEF Spec

\* Every variable keeps its type, however many turns, requests and lives.
THEOREM TypeCorrect == Spec => []TypeOK
<1>1. TInv => TypeOK
  BY DEF TInv
<1> QED BY <1>1, TypesHold, PTL

LEMMA CardsStep ==
  ASSUME StoppedHasNoCards, [Next]_vars
  PROVE  StoppedHasNoCards'
  BY Zenon, Steps
  DEF TakeOutcome, TakeUpdates, BeginTurn, Request, TurnFails, Persist, Submit, RouteResponse,
      RouteRequest, RouteNotification, RouteExit, ChildDies, Reload, FoldItem, FoldCompleted,
      FoldResolved, FoldEnds, Collect, Mirror, ServeTurn, ServePrompt, ServeAnswer, Produce,
      FinishTurn, AnswerPrompt, AskOrWithdraw, AnswerApproval, StopSession, Stop, Deregistered,
      Close, CloseScope, ResumeThread, ResumeSession, Resume, vars, baseVars, session, codexVars,
      StoppedHasNoCards

\* No card comes back to the list of a session that was stopped.
THEOREM NoCardsOnceStopped == Spec => []StoppedHasNoCards
<1>1. Init => StoppedHasNoCards
  BY DEF Init, StoppedHasNoCards
<1> QED BY <1>1, CardsStep, PTL DEF Spec

-----------------------------------------------------------------------------
(* One turn at a time.                                                     *)

\* A step of one submission.
LEMMA Goes ==
  ASSUME TInv, NEW t \in Turns, NEW pc, call' = [call EXCEPT ![t].pc = pc]
  PROVE  /\ call'[t].pc = pc /\ call'[t].got = call[t].got /\ call'[t].rows = call[t].rows
         /\ \A u \in Turns \ {t} : call'[u] = call[u]
<1>1. call \in [Turns -> CallType]
  BY TypeSplit DEF SessionT
<1>2. call' = [call EXCEPT ![t] = [call[t] EXCEPT !.pc = pc]] /\ call[t] \in CallType
  BY <1>1
<1> QED BY <1>1, <1>2 DEF CallType

LEMMA OneTurnStep ==
  ASSUME TInv, OneTurn, [Next]_vars
  PROVE  OneTurn'
<1>0. /\ call \in [Turns -> CallType] /\ permit \in Turns \cup {Null} /\ Null \notin Turns
      /\ scope \in {"open", "forgotten", "closed"} /\ generating \in BOOLEAN
  BY TypeSplit, DriversAssumption DEF SessionT
<1>s. ASSUME \A t \in Turns : InTurn(t)' <=> InTurn(t),
             UNCHANGED <<scope, permit, generating>>
      PROVE  OneTurn'
  BY <1>s DEF OneTurn
<1>l. ASSUME NEW t \in Turns, InTurn(t), ~InTurn(t)', Leave,
             \A u \in Turns \ {t} : InTurn(u)' <=> InTurn(u)
      PROVE  OneTurn'
  BY <1>0, <1>l DEF OneTurn, Leave
<1>g. ASSUME NEW t \in Turns, NEW pc \in {"failed", "returned"}, InTurn(t), Leave, scope' = scope,
             call' = [call EXCEPT ![t].pc = pc]
      PROVE  OneTurn'
  <2>1. ~InTurn(t)' /\ \A u \in Turns \ {t} : InTurn(u)' <=> InTurn(u)
    BY <1>g, Goes DEF InTurn
  <2> QED BY <1>g, <1>l, <2>1
<1>h. ASSUME NEW t \in Turns, InTurn(t), UNCHANGED <<scope, permit, generating>>,
             call'[t].pc \in {"awaiting", "persist"}, \A u \in Turns \ {t} : call'[u] = call[u]
      PROVE  OneTurn'
  <2>1. \A u \in Turns : InTurn(u)' <=> InTurn(u)
    BY <1>h DEF InTurn
  <2> QED BY <1>h, <1>s, <2>1
<1>1. ASSUME NEW t \in Turns, TakeOutcome(t)
      PROVE  OneTurn'
  <2>1. InTurn(t) /\ scope' = scope
    BY <1>1 DEF TakeOutcome, InTurn
  <2>2. CASE Head(outcomes).kind = "aborted"
    BY <1>1, <1>g, <2>1, <2>2 DEF TakeOutcome
  <2>3. CASE Head(outcomes).kind # "aborted"
    <3>1. call'[t].pc = "persist" /\ \A u \in Turns \ {t} : call'[u] = call[u]
      BY <1>0, <1>1, <2>3 DEF TakeOutcome
    <3> QED BY <1>1, <1>h, <2>1, <2>3, <3>1 DEF TakeOutcome
  <2> QED BY <2>2, <2>3
<1>2. ASSUME NEW t \in Turns, TakeUpdates(t)
      PROVE  OneTurn'
  <2>1. InTurn(t) /\ scope' = scope
    BY <1>2 DEF TakeUpdates, InTurn
  <2>2. CASE shut
    BY <1>2, <1>g, <2>1, <2>2 DEF TakeUpdates
  <2>3. CASE ~shut
    <3>1. call'[t].pc = "persist" /\ \A u \in Turns \ {t} : call'[u] = call[u]
      BY <1>0, <1>2, <2>3 DEF TakeUpdates
    <3> QED BY <1>2, <1>h, <2>1, <2>3, <3>1 DEF TakeUpdates
  <2> QED BY <2>2, <2>3
<1>3. ASSUME NEW t \in Turns, BeginTurn(t, Prompt(t))
      PROVE  OneTurn'
  <2>1. \A u \in Turns : ~InTurn(u)
    BY <1>0, <1>3 DEF BeginTurn, OneTurn
  <2>2. CASE closed
    <3>1. \A u \in Turns : ~InTurn(u)'
      <4>1. call' = [call EXCEPT ![t].pc = "failed"]
        BY <1>3, <2>2 DEF BeginTurn
      <4>2. call'[t].pc = "failed" /\ \A u \in Turns \ {t} : call'[u] = call[u]
        BY <4>1, Goes
      <4> QED BY <2>1, <4>2 DEF InTurn
    <3> QED BY <1>0, <1>3, <2>2, <3>1 DEF BeginTurn, OneTurn, Leave
  <2>3. CASE ~closed
    <3>1. InTurn(t)' /\ \A u \in Turns \ {t} : ~InTurn(u)'
      BY <1>3, <2>1, <2>3, Goes DEF BeginTurn, InTurn
    <3> QED BY <1>0, <1>3, <2>3, <3>1 DEF BeginTurn, OneTurn
  <2> QED BY <2>2, <2>3
<1>4. ASSUME NEW t \in Turns, Request(t)
      PROVE  OneTurn'
  <2>1. InTurn(t) /\ scope' = scope
    BY <1>4 DEF Request, InTurn
  <2>2. CASE StillOpen(t)
    BY <1>4, <1>h, <2>1, <2>2, Goes DEF Request
  <2>3. CASE ~StillOpen(t)
    BY <1>4, <1>g, <2>1, <2>3 DEF Request
  <2> QED BY <2>2, <2>3
<1>a. ASSUME NEW t \in Turns, TurnFails(t) \/ Persist(t)
      PROVE  OneTurn'
  BY <1>a, <1>g DEF TurnFails, Persist, InTurn
<1>5. ASSUME NEW t \in Turns, Submit(t)
      PROVE  OneTurn'
  <2>1. \A u \in Turns : InTurn(u)' <=> InTurn(u)
    BY <1>5, Goes DEF Submit, InTurn
  <2> QED BY <1>5, <1>s, <2>1 DEF Submit, session
<1>6. CASE RouteResponse \/ RouteRequest \/ RouteNotification \/ RouteExit
  <2>1. ASSUME NEW S, NEW pc \in {"resolved", "rejected"}, call' = Settled(S, pc)
        PROVE  \A t \in Turns : InTurn(t)' <=> InTurn(t)
    BY <1>0, <2>1 DEF Settled, InTurn
  <2>2. CASE RouteResponse
    BY <1>s, <2>1, <2>2 DEF RouteResponse, session, InTurn
  <2>3. CASE RouteRequest \/ RouteNotification
    BY <1>s, <2>3 DEF RouteRequest, RouteNotification, session, InTurn
  <2>4. CASE RouteExit
    BY <1>s, <2>1, <2>4 DEF RouteExit, FailAllPending, session
  <2> QED BY <1>6, <2>2, <2>3, <2>4
<1>7. CASE ChildDies \/ FoldItem \/ FoldCompleted \/ FoldResolved \/ FoldEnds \/ Collect \/ Mirror
  BY <1>7, <1>s DEF ChildDies, FoldItem, FoldCompleted, FoldResolved, FoldEnds, Collect, Mirror,
                    baseVars, session, InTurn
<1>8. CASE Reload
  <2>1. \A t \in Turns : ~InTurn(t)'
    BY <1>0, <1>8 DEF Reload, InFlight, InTurn
  <2>2. permit' = Null /\ generating' = FALSE
    BY <1>0, <1>8 DEF Reload, Leave, OneTurn
  <2> QED BY <1>0, <2>1, <2>2 DEF OneTurn
<1>9. CASE ServeTurn \/ ServePrompt \/ ServeAnswer \/ Produce \/ FinishTurn \/ AnswerPrompt
  BY <1>9, <1>s DEF ServeTurn, ServePrompt, ServeAnswer, Produce, FinishTurn, AnswerPrompt,
                    session, InTurn
<1>10. ASSUME NEW a \in Asks, AskOrWithdraw(a) \/ AnswerApproval(a)
       PROVE  OneTurn'
  BY <1>10, <1>s DEF AskOrWithdraw, AnswerApproval, session, InTurn
<1>11. CASE StopSession
  BY <1>0, <1>11 DEF StopSession, Stop, OneTurn, InTurn
<1>12. CASE Close
  <2>1. \A t \in Turns : InTurn(t)' <=> InTurn(t)
    BY <1>0, <1>12 DEF Close, CloseScope, FailAllPending, Settled, InTurn
  <2> QED BY <1>12, <2>1 DEF Close, CloseScope, OneTurn
<1>13. CASE ResumeThread \/ ResumeSession
  <2>1. \A t \in Turns : ~InTurn(t)
    BY <1>13 DEF ResumeThread, ResumeSession, Resume, InFlight
  <2>2. permit = Null /\ ~generating
    BY <1>0, <2>1 DEF OneTurn
  <2>3. UNCHANGED <<permit, generating, call>>
    BY <1>13 DEF ResumeThread, ResumeSession, Resume
  <2> QED BY <1>0, <2>1, <2>2, <2>3 DEF OneTurn, InTurn
<1>14. CASE UNCHANGED vars
  BY <1>14, <1>s DEF vars, baseVars, session, InTurn
<1> QED BY <1>1, <1>2, <1>3, <1>4, <1>a, <1>5, <1>6, <1>7, <1>8, <1>9, <1>10, <1>11, <1>12, <1>13,
           <1>14, Steps

-----------------------------------------------------------------------------
(* How the queues move.                                                    *)

LEMMA Counts ==
  ASSUME TInv, NEW t \in Turns
  PROVE  /\ Asked(t) \in Nat /\ Working(t) \in Nat /\ Reported(t) \in Nat /\ Noted(t) \in Nat
         /\ Offered(t) \in Nat /\ Tokens(t) \in Nat
         /\ Arriving(t) \in Nat /\ Waiting(t) \in Nat /\ Arrived(t) \in Nat /\ Flight(t) \in Nat
<1>1. /\ stdin \in Seq(ToChildType) /\ work \in Seq(Turns) /\ inbound \in Seq(LineType)
      /\ notifications \in Seq(NoteType) /\ outcomes \in Seq(OutcomeType) /\ items \in Seq(Row)
  BY TypeSplit DEF ChildT, WireT, SessionT, CodexT
<1>2. /\ Asked(t) \in Nat /\ Working(t) \in Nat /\ Reported(t) \in Nat /\ Noted(t) \in Nat
      /\ Offered(t) \in Nat /\ Arriving(t) \in Nat /\ Waiting(t) \in Nat /\ Arrived(t) \in Nat
  BY <1>1, OccNat DEF Asked, Working, Reported, Noted, Offered, Arriving, Waiting, Arrived
<1> QED BY <1>2 DEF Tokens, Flight

LEMMA CountsNext ==
  ASSUME TInv', NEW t \in Turns
  PROVE  /\ Asked(t)' \in Nat /\ Working(t)' \in Nat /\ Reported(t)' \in Nat /\ Noted(t)' \in Nat
         /\ Offered(t)' \in Nat /\ Tokens(t)' \in Nat
         /\ Arriving(t)' \in Nat /\ Waiting(t)' \in Nat /\ Arrived(t)' \in Nat /\ Flight(t)' \in Nat
<1>1. /\ stdin' \in Seq(ToChildType) /\ work' \in Seq(Turns) /\ inbound' \in Seq(LineType)
      /\ notifications' \in Seq(NoteType) /\ outcomes' \in Seq(OutcomeType) /\ items' \in Seq(Row)
  BY DEF TInv, TypeOK, BaseTypeOK, QueuesOK
<1>2. /\ Asked(t)' \in Nat /\ Working(t)' \in Nat /\ Reported(t)' \in Nat /\ Noted(t)' \in Nat
      /\ Offered(t)' \in Nat /\ Arriving(t)' \in Nat /\ Waiting(t)' \in Nat /\ Arrived(t)' \in Nat
  BY <1>1, OccNat DEF Asked, Working, Reported, Noted, Offered, Arriving, Waiting, Arrived
<1> QED BY <1>2 DEF Tokens, Flight

LEMMA StdinPushed ==
  ASSUME TInv, NEW kind, NEW x, ToChild(kind, x),
         (kind = "turn" /\ x \in Turns) \/ (kind = "answer" /\ x \in Asks),
         NEW t \in Turns
  PROVE  Asked(t)' = IF kind = "turn" /\ x = t THEN Asked(t) + 1 ELSE Asked(t)
<1> DEFINE frame == [kind |-> kind, of |-> x]
<1>1. /\ frame \in ToChildType
      /\ frame \in TurnOf(t) <=> kind = "turn" /\ x = t
  BY DEF ToChildType, TurnOf
<1>2. stdin' = Append(stdin, frame) /\ stdin \in Seq(ToChildType)
  BY TypeSplit DEF ToChild, ChildT
<1> HIDE DEF frame
<1> QED BY <1>1, <1>2, OccAppend DEF Asked

LEMMA StdinRead ==
  ASSUME TInv, NEW kind, Reads(kind), NEW t \in Turns
  PROVE  Asked(t) = IF kind = "turn" /\ Head(stdin).of = t THEN Asked(t)' + 1 ELSE Asked(t)'
<1>1. stdin \in Seq(ToChildType) /\ stdin # <<>> /\ stdin' = Tail(stdin) /\ Head(stdin).kind = kind
  BY TypeSplit DEF Reads, ChildT
<1>2. Head(stdin) \in TurnOf(t) <=> kind = "turn" /\ Head(stdin).of = t
  <2>1. Head(stdin) \in ToChildType
    BY <1>1, Heads
  <2> QED BY <1>1, <2>1 DEF ToChildType, TurnOf
<1> QED BY <1>1, <1>2, OccTail DEF Asked

LEMMA WorkPushed ==
  ASSUME TInv, NEW u \in Turns, work' = Append(work, u), NEW t \in Turns
  PROVE  Working(t)' = IF u = t THEN Working(t) + 1 ELSE Working(t)
<1>1. work \in Seq(Turns)
  BY TypeSplit DEF ChildT
<1> QED BY <1>1, OccAppend DEF Working

LEMMA WorkPopped ==
  ASSUME TInv, work # <<>>, work' = Tail(work), NEW t \in Turns
  PROVE  Working(t) = IF Head(work) = t THEN Working(t)' + 1 ELSE Working(t)'
<1>1. work \in Seq(Turns)
  BY TypeSplit DEF ChildT
<1> QED BY <1>1, OccTail DEF Working

LEMMA LineEmitted ==
  ASSUME TInv, protocol' = protocol, NEW kind, NEW x, Emit(kind, x),
         \/ kind \in {"ok", "error", "item", "completed"} /\ x \in Turns
         \/ kind \in {"ask", "withdrawn"} /\ x \in Asks
         \/ kind = "exit" /\ x = Null,
         NEW t \in Turns
  PROVE  /\ Reported(t)' = IF kind \in FinalKinds /\ x = t THEN Reported(t) + 1 ELSE Reported(t)
         /\ Arriving(t)' = IF kind = "item" /\ x = t THEN Arriving(t) + 1 ELSE Arriving(t)
<1> DEFINE line == [kind |-> kind, of |-> x]
<1>1. /\ line \in LineType
      /\ line \in Final(t) <=> kind \in FinalKinds /\ x = t
      /\ line \in Item(t) <=> kind = "item" /\ x = t
  BY DEF LineType, Final, Item
<1>2. inbound' = Append(inbound, line) /\ inbound \in Seq(LineType)
  BY TypeSplit DEF Emit, WireT
<1>3. Final(t)' = Final(t) /\ Item(t)' = Item(t)
  BY DEF Final, FinalKinds, Item
<1> HIDE DEF line
<1> QED BY <1>1, <1>2, <1>3, OccAppend DEF Reported, Arriving

LEMMA LineRouted ==
  ASSUME TInv, protocol' = protocol, inbound # <<>>, inbound' = Tail(inbound), NEW t \in Turns
  PROVE  /\ Reported(t) = IF Head(inbound).kind \in FinalKinds /\ Head(inbound).of = t
                            THEN Reported(t)' + 1 ELSE Reported(t)'
         /\ Arriving(t) = IF Head(inbound).kind = "item" /\ Head(inbound).of = t
                            THEN Arriving(t)' + 1 ELSE Arriving(t)'
<1>1. inbound \in Seq(LineType) /\ Head(inbound) \in LineType
  BY TypeSplit, Heads DEF WireT
<1>2. /\ Head(inbound) \in Final(t) <=> Head(inbound).kind \in FinalKinds /\ Head(inbound).of = t
      /\ Head(inbound) \in Item(t) <=> Head(inbound).kind = "item" /\ Head(inbound).of = t
  BY <1>1 DEF LineType, Final, Item
<1>3. Final(t)' = Final(t) /\ Item(t)' = Item(t)
  BY DEF Final, FinalKinds, Item
<1> QED BY <1>1, <1>2, <1>3, OccTail DEF Reported, Arriving

LEMMA NotePushed ==
  ASSUME TInv, inbound # <<>>, Head(inbound).kind \in {"item", "completed", "withdrawn"},
         notifications' = Append(notifications, Head(inbound)), NEW t \in Turns
  PROVE  /\ Noted(t)' = IF Head(inbound).kind = "completed" /\ Head(inbound).of = t
                          THEN Noted(t) + 1 ELSE Noted(t)
         /\ Waiting(t)' = IF Head(inbound).kind = "item" /\ Head(inbound).of = t
                            THEN Waiting(t) + 1 ELSE Waiting(t)
<1>1. notifications \in Seq(NoteType) /\ Head(inbound) \in LineType
  BY TypeSplit, Heads DEF WireT
<1>2. /\ Head(inbound) \in NoteType
      /\ Head(inbound) \in Done(t) <=> Head(inbound).kind = "completed" /\ Head(inbound).of = t
      /\ Head(inbound) \in Item(t) <=> Head(inbound).kind = "item" /\ Head(inbound).of = t
  BY <1>1 DEF LineType, NoteType, Done, Item
<1> QED BY <1>1, <1>2, OccAppend DEF Noted, Waiting

LEMMA NotePopped ==
  ASSUME TInv, notifications # <<>>, notifications' = Tail(notifications), NEW t \in Turns
  PROVE  /\ Noted(t) = IF Head(notifications).kind = "completed" /\ Head(notifications).of = t
                         THEN Noted(t)' + 1 ELSE Noted(t)'
         /\ Waiting(t) = IF Head(notifications).kind = "item" /\ Head(notifications).of = t
                           THEN Waiting(t)' + 1 ELSE Waiting(t)'
<1>1. notifications \in Seq(NoteType) /\ Head(notifications) \in NoteType
  BY TypeSplit, Heads DEF WireT
<1>2. /\ Head(notifications) \in Done(t)
           <=> Head(notifications).kind = "completed" /\ Head(notifications).of = t
      /\ Head(notifications) \in Item(t)
           <=> Head(notifications).kind = "item" /\ Head(notifications).of = t
  BY <1>1 DEF NoteType, Done, Item
<1> QED BY <1>1, <1>2, OccTail DEF Noted, Waiting

LEMMA OutcomeOffered ==
  ASSUME TInv, NEW o \in OutcomeType, outcomes' = Append(outcomes, o), NEW t \in Turns
  PROVE  Offered(t)' = IF o.kind = "completed" /\ o.of = t THEN Offered(t) + 1 ELSE Offered(t)
<1>1. outcomes \in Seq(OutcomeType)
  BY TypeSplit DEF CodexT
<1>2. o \in Offer(t) <=> o.kind = "completed" /\ o.of = t
  BY DEF OutcomeType, Offer
<1> QED BY <1>1, <1>2, OccAppend DEF Offered

LEMMA OutcomeTaken ==
  ASSUME TInv, outcomes # <<>>, outcomes' = Tail(outcomes), NEW t \in Turns
  PROVE  Offered(t) = IF Head(outcomes).kind = "completed" /\ Head(outcomes).of = t
                        THEN Offered(t)' + 1 ELSE Offered(t)'
<1>1. outcomes \in Seq(OutcomeType) /\ Head(outcomes) \in OutcomeType
  BY TypeSplit, Heads DEF CodexT
<1>2. Head(outcomes) \in Offer(t) <=> Head(outcomes).kind = "completed" /\ Head(outcomes).of = t
  BY <1>1 DEF OutcomeType, Offer
<1> QED BY <1>1, <1>2, OccTail DEF Offered

\* A turn appears when it is asked for; nothing else adds to what is on its way.
LEMMA TokensFall ==
  ASSUME TInv, TInv', [Next]_vars, NEW t \in Turns
  PROVE  \/ Tokens(t)' <= Tokens(t)
         \/ Request(t) /\ ~closed /\ Tokens(t)' = Tokens(t) + 1
<1>0. /\ Asked(t) \in Nat /\ Working(t) \in Nat /\ Reported(t) \in Nat /\ Noted(t) \in Nat
      /\ Offered(t) \in Nat /\ Tokens(t) \in Nat
      /\ Asked(t)' \in Nat /\ Working(t)' \in Nat /\ Reported(t)' \in Nat /\ Noted(t)' \in Nat
      /\ Offered(t)' \in Nat /\ Tokens(t)' \in Nat
  BY Counts, CountsNext
<1>a. stdin' = stdin => Asked(t)' = Asked(t)
  BY DEF Asked
<1>b. work' = work => Working(t)' = Working(t)
  BY DEF Working
<1>c. inbound' = inbound /\ protocol' = protocol => Reported(t)' = Reported(t)
  BY DEF Reported, Final, FinalKinds
<1>d. notifications' = notifications => Noted(t)' = Noted(t)
  BY DEF Noted
<1>e. outcomes' = outcomes => Offered(t)' = Offered(t)
  BY DEF Offered
<1>f. ASSUME Asked(t)' <= Asked(t), Working(t)' <= Working(t), Reported(t)' <= Reported(t),
             Noted(t)' <= Noted(t), Offered(t)' <= Offered(t)
      PROVE  Tokens(t)' <= Tokens(t)
  BY <1>0, <1>f DEF Tokens
<1>1. ASSUME NEW u \in Turns, TakeOutcome(u)
      PROVE  Tokens(t)' <= Tokens(t)
  <2>1. UNCHANGED <<stdin, work, inbound, notifications, protocol>>
    BY <1>1 DEF TakeOutcome, child, wire, Codex
  <2>2. outcomes # <<>> /\ outcomes' = Tail(outcomes)
    BY <1>1 DEF TakeOutcome
  <2>3. Offered(t)' <= Offered(t)
    BY SMTT(60), <1>0, <2>2, OutcomeTaken
  <2> QED BY <1>0, <1>a, <1>b, <1>c, <1>d, <1>f, <2>1, <2>3
<1>2. ASSUME NEW u \in Turns, TakeUpdates(u)
      PROVE  Tokens(t)' <= Tokens(t)
  <2>1. UNCHANGED <<stdin, work, inbound, outcomes, protocol>>
    BY <1>2 DEF TakeUpdates, child, codexVars, Acp
  <2>2. Noted(t)' <= Noted(t)
    <3>1. CASE shut
      BY <1>0, <1>2, <1>d, <3>1 DEF TakeUpdates
    <3>2. CASE ~shut
      <4>1. Noted(t)' = 0
        BY <1>2, <3>2, OccEmpty DEF TakeUpdates, Noted
      <4> QED BY <1>0, <4>1
    <3> QED BY <3>1, <3>2
  <2> QED BY <1>0, <1>a, <1>b, <1>c, <1>e, <1>f, <2>1, <2>2
<1>3. ASSUME NEW u \in Turns, UNCHANGED <<protocol, codexVars>>,
             BeginTurn(u, Prompt(u)) \/ TurnFails(u) \/ Persist(u) \/ Submit(u)
      PROVE  Tokens(t)' <= Tokens(t)
  <2>1. UNCHANGED <<stdin, work, inbound, notifications, outcomes>>
    BY <1>3 DEF BeginTurn, TurnFails, Persist, Submit, child, wire, codexVars
  <2> QED BY <1>0, <1>3, <1>a, <1>b, <1>c, <1>d, <1>e, <1>f, <2>1
<1>4. ASSUME NEW u \in Turns, Request(u), UNCHANGED <<protocol, codexVars>>
      PROVE  \/ Tokens(t)' <= Tokens(t)
             \/ u = t /\ ~closed /\ Tokens(t)' = Tokens(t) + 1
  <2>1. UNCHANGED <<work, inbound, notifications, outcomes>>
    BY <1>4 DEF Request, codexVars
  <2>2. CASE ~closed
    <3>1. ToChild("turn", u)
      BY <1>4, <2>2 DEF Request, StillOpen
    <3>2. Asked(t)' = IF u = t THEN Asked(t) + 1 ELSE Asked(t)
      BY <3>1, StdinPushed
    <3> QED BY <1>0, <1>4, <1>b, <1>c, <1>d, <1>e, <2>1, <2>2, <3>2 DEF Tokens
  <2>3. CASE closed
    BY <1>0, <1>4, <1>a, <1>b, <1>c, <1>d, <1>e, <1>f, <2>1, <2>3 DEF Request, StillOpen
  <2> QED BY <2>2, <2>3
<1>5. ASSUME RouteResponse \/ RouteRequest \/ RouteNotification \/ RouteExit,
             UNCHANGED <<protocol, codexVars>>
      PROVE  Tokens(t)' <= Tokens(t)
  <2>1. inbound # <<>> /\ inbound' = Tail(inbound) /\ UNCHANGED <<stdin, work, outcomes>>
    BY <1>5 DEF RouteResponse, RouteRequest, RouteNotification, RouteExit, Routing, child, codexVars
  <2>2. Reported(t) = IF Head(inbound).kind \in FinalKinds /\ Head(inbound).of = t
                        THEN Reported(t)' + 1 ELSE Reported(t)'
    BY <1>5, <2>1, LineRouted
  <2>3. CASE RouteNotification /\ ~shut
    <3>1. Noted(t)' = IF Head(inbound).kind = "completed" /\ Head(inbound).of = t
                        THEN Noted(t) + 1 ELSE Noted(t)
      BY <2>1, <2>3, NotePushed DEF RouteNotification
    <3>2. Head(inbound).kind = "completed" => "completed" \in FinalKinds
      <4>1. protocol = "acp" => Head(inbound).kind # "completed"
        BY <2>1, Heads DEF AcpLineType
      <4> QED BY <4>1 DEF FinalKinds
    <3>3. Reported(t)' + Noted(t)' <= Reported(t) + Noted(t)
      BY <1>0, <2>2, <3>1, <3>2
    <3>4. Asked(t)' = Asked(t) /\ Working(t)' = Working(t) /\ Offered(t)' = Offered(t)
      BY <1>a, <1>b, <1>e, <2>1
    <3> QED BY <1>0, <3>3, <3>4 DEF Tokens
  <2>4. CASE RouteExit
    <3>1. Noted(t)' = 0
      BY <2>4, OccEmpty DEF RouteExit, Noted
    <3> QED BY <1>0, <1>a, <1>b, <1>e, <1>f, <2>1, <2>2, <3>1
  <2>5. CASE RouteResponse \/ RouteRequest \/ (RouteNotification /\ shut)
    <3>1. notifications' = notifications
      BY <2>5 DEF RouteResponse, RouteRequest, RouteNotification
    <3> QED BY <1>0, <1>a, <1>b, <1>d, <1>e, <1>f, <2>1, <2>2, <3>1
  <2> QED BY <1>5, <2>3, <2>4, <2>5
<1>6. ASSUME FoldItem \/ FoldResolved \/ FoldCompleted
      PROVE  Tokens(t)' <= Tokens(t)
  <2>1. /\ notifications # <<>> /\ notifications' = Tail(notifications)
        /\ UNCHANGED <<stdin, work, inbound, protocol>>
    BY <1>6 DEF FoldItem, FoldResolved, FoldCompleted, Folding, child, Codex
  <2>2. Noted(t) = IF Head(notifications).kind = "completed" /\ Head(notifications).of = t
                     THEN Noted(t)' + 1 ELSE Noted(t)'
    BY <2>1, NotePopped
  <2>3. CASE FoldItem \/ FoldResolved
    <3>1. outcomes' = outcomes
      BY <2>3 DEF FoldItem, FoldResolved, codexVars
    <3> QED BY <1>0, <1>a, <1>b, <1>c, <1>e, <1>f, <2>1, <2>2, <3>1
  <2>4. CASE FoldCompleted
    <3>1. PICK u \in Turns : u = Head(notifications).of
      BY <2>1, <2>4, Heads DEF FoldCompleted, Folding, NoteType
    <3>2. Completed(u) \in OutcomeType /\ Completed(u).of = u
      BY TypeSplit DEF Completed, OutcomeType, SessionT
    <3>3. outcomes' = Append(outcomes, Completed(u)) /\ Head(notifications).kind = "completed"
      BY <2>4, <3>1 DEF FoldCompleted, Folding
    <3>4. Offered(t)' = IF u = t THEN Offered(t) + 1 ELSE Offered(t)
      BY <3>2, <3>3, OutcomeOffered DEF Completed
    <3> QED BY SMTT(60), <1>0, <1>a, <1>b, <1>c, <2>1, <2>2, <3>1, <3>3, <3>4 DEF Tokens
  <2> QED BY <1>6, <2>3, <2>4
<1>7. ASSUME FoldEnds \/ Close
      PROVE  Tokens(t)' <= Tokens(t)
  <2>1. UNCHANGED <<stdin, work, inbound, notifications, protocol>>
    BY <1>7 DEF FoldEnds, Close, CloseScope, baseVars, child, wire, Codex
  <2>2. Aborted \in OutcomeType /\ Aborted.kind # "completed"
    BY DEF Aborted, OutcomeType
  <2>3. outcomes' = outcomes \/ outcomes' = Append(outcomes, Aborted)
    BY <1>7 DEF FoldEnds, Close
  <2>4. Offered(t)' = Offered(t)
    BY <1>e, <2>2, <2>3, OutcomeOffered
  <2> QED BY <1>0, <1>a, <1>b, <1>c, <1>d, <1>f, <2>1, <2>4
<1>8. ASSUME Collect
      PROVE  Tokens(t)' <= Tokens(t)
  <2>1. UNCHANGED <<work, inbound, notifications, outcomes, protocol>>
    BY <1>8 DEF Collect, Codex
  <2>2. PICK a \in Asks : a = Head(serverRequests).of
    BY <1>8, Heads DEF Collect, AskType
  <2>3. stdin' = stdin \/ ToChild("answer", a)
    BY <1>8, <2>2 DEF Collect
  <2>4. Asked(t)' = Asked(t)
    BY <1>a, <2>3, StdinPushed
  <2> QED BY <1>0, <1>b, <1>c, <1>d, <1>e, <1>f, <2>1, <2>4
<1>9. ASSUME Mirror \/ StopSession \/ UNCHANGED vars
      PROVE  Tokens(t)' <= Tokens(t)
  <2>1. UNCHANGED <<stdin, work, inbound, notifications, outcomes, protocol>>
    BY <1>9 DEF Mirror, StopSession, Stop, vars, baseVars, child, wire, codexVars, Codex
  <2> QED BY <1>0, <1>a, <1>b, <1>c, <1>d, <1>e, <1>f, <2>1
<1>10. ASSUME Reload, UNCHANGED <<protocol, codexVars>>
       PROVE  Tokens(t)' <= Tokens(t)
  <2>1. UNCHANGED <<stdin, work, inbound, notifications, outcomes>>
    BY <1>10 DEF Reload, child, wire, codexVars
  <2> QED BY <1>0, <1>10, <1>a, <1>b, <1>c, <1>d, <1>e, <1>f, <2>1
<1>11. ASSUME ServeTurn \/ ServePrompt
       PROVE  Tokens(t)' <= Tokens(t)
  <2>1. PICK u \in Turns : u = Head(stdin).of
    BY <1>11, Heads DEF ServeTurn, ServePrompt, Reads, ToChildType
  <2>2. UNCHANGED <<notifications, outcomes, protocol>>
    BY <1>11 DEF ServeTurn, ServePrompt, wire, codexVars, Codex, Acp
  <2>3. Asked(t) = IF u = t THEN Asked(t)' + 1 ELSE Asked(t)'
    BY <1>11, <2>1, StdinRead DEF ServeTurn, ServePrompt
  <2>4. CASE work' = Append(work, u) /\ (Emit("ok", u) \/ inbound' = inbound)
    <3>1. Working(t)' = IF u = t THEN Working(t) + 1 ELSE Working(t)
      BY <2>4, WorkPushed
    <3>2. Reported(t)' = Reported(t)
      <4>1. CASE inbound' = inbound
        BY <1>c, <2>2, <4>1
      <4>2. CASE Emit("ok", u) /\ inbound' # inbound
        <5>1. protocol # "acp"
          BY <1>11, <4>2 DEF ServeTurn, ServePrompt, Codex, wire
        <5>2. "ok" \notin FinalKinds
          BY <5>1 DEF FinalKinds
        <5> QED BY <2>2, <4>2, <5>2, LineEmitted
      <4> QED BY <2>4, <4>1, <4>2
    <3> QED BY <1>0, <1>d, <1>e, <2>2, <2>3, <3>1, <3>2 DEF Tokens
  <2>5. CASE work' = work /\ Emit("error", u)
    <3>1. "error" \in FinalKinds
      BY DEF FinalKinds
    <3>2. Reported(t)' = IF u = t THEN Reported(t) + 1 ELSE Reported(t)
      BY <2>2, <2>5, <3>1, LineEmitted
    <3> QED BY <1>0, <1>b, <1>d, <1>e, <2>2, <2>3, <2>5, <3>2 DEF Tokens
  <2> QED BY <1>11, <2>1, <2>4, <2>5 DEF ServeTurn, ServePrompt, wire
<1>12. ASSUME FinishTurn \/ AnswerPrompt
       PROVE  Tokens(t)' <= Tokens(t)
  <2>1. PICK u \in Turns : u = Head(work)
    BY <1>12, Heads DEF FinishTurn, AnswerPrompt
  <2>2. /\ UNCHANGED <<stdin, notifications, outcomes, protocol>>
        /\ work # <<>> /\ work' = Tail(work)
    BY <1>12 DEF FinishTurn, AnswerPrompt, codexVars, Codex, Acp
  <2>3. Working(t) = IF u = t THEN Working(t)' + 1 ELSE Working(t)'
    BY <2>1, <2>2, WorkPopped
  <2>4. PICK kind \in {"completed", "ok", "error"} : Emit(kind, u)
    BY <1>12, <2>1 DEF FinishTurn, AnswerPrompt
  <2>5. Reported(t)' = IF kind \in FinalKinds /\ u = t THEN Reported(t) + 1 ELSE Reported(t)
    BY <2>2, <2>4, LineEmitted
  <2>6. Working(t)' + Reported(t)' <= Working(t) + Reported(t)
    BY <1>0, <2>3, <2>5
  <2>7. Asked(t)' = Asked(t) /\ Noted(t)' = Noted(t) /\ Offered(t)' = Offered(t)
    BY <1>a, <1>d, <1>e, <2>2
  <2> QED BY <1>0, <2>6, <2>7 DEF Tokens
<1>13. ASSUME Produce \/ ServeAnswer
       PROVE  Tokens(t)' <= Tokens(t)
  <2>1. UNCHANGED <<work, notifications, outcomes, protocol>>
    BY <1>13 DEF Produce, ServeAnswer, codexVars, Codex
  <2>2. Asked(t)' <= Asked(t)
    BY <1>0, <1>13, <1>a, StdinRead DEF Produce, ServeAnswer
  <2>3. \/ inbound' = inbound
        \/ \E u \in Turns : Emit("item", u)
        \/ \E a \in Asks : Emit("withdrawn", a)
    <3>1. CASE Produce
      BY <3>1, Heads DEF Produce
    <3>2. CASE ServeAnswer
      <4>1. Head(stdin).of \in Asks
        BY <3>2, Heads DEF ServeAnswer, Reads, ToChildType
      <4> QED BY <3>2, <4>1 DEF ServeAnswer
    <3> QED BY <1>13, <3>1, <3>2
  <2>4. Reported(t)' = Reported(t)
    <3>1. "item" \notin FinalKinds /\ "withdrawn" \notin FinalKinds
      BY DEF FinalKinds
    <3> QED BY <1>c, <2>1, <2>3, <3>1, LineEmitted
  <2> QED BY <1>0, <1>b, <1>d, <1>e, <1>f, <2>1, <2>2, <2>4
<1>14. ASSUME NEW a \in Asks, AskOrWithdraw(a) \/ AnswerApproval(a)
       PROVE  Tokens(t)' <= Tokens(t)
  <2>1. UNCHANGED <<work, notifications, outcomes, protocol>>
    BY <1>14 DEF AskOrWithdraw, AnswerApproval, child, wire, Codex
  <2>2. Asked(t)' = Asked(t)
    BY <1>14, <1>a, StdinPushed DEF AskOrWithdraw, AnswerApproval, child
  <2>3. inbound' = inbound \/ Emit("ask", a) \/ Emit("withdrawn", a)
    BY <1>14 DEF AskOrWithdraw, AnswerApproval, wire
  <2>4. Reported(t)' = Reported(t)
    <3>1. "ask" \notin FinalKinds /\ "withdrawn" \notin FinalKinds
      BY DEF FinalKinds
    <3> QED BY <1>c, <2>1, <2>3, <3>1, LineEmitted
  <2> QED BY <1>0, <1>b, <1>d, <1>e, <1>f, <2>1, <2>2, <2>4
<1>15. ASSUME ChildDies, UNCHANGED <<protocol, codexVars>>
       PROVE  Tokens(t)' <= Tokens(t)
  <2>1. UNCHANGED <<stdin, work, notifications, outcomes>> /\ Emit("exit", Null)
    BY <1>15 DEF ChildDies, codexVars
  <2>2. Reported(t)' = Reported(t)
    <3>1. "exit" \notin FinalKinds
      BY DEF FinalKinds
    <3> QED BY <1>15, <2>1, <3>1, LineEmitted
  <2> QED BY <1>0, <1>a, <1>b, <1>d, <1>e, <1>f, <2>1, <2>2
<1>16. ASSUME ResumeThread \/ ResumeSession
       PROVE  Tokens(t)' <= Tokens(t)
  <2>1. /\ stdin' = <<>> /\ work' = <<>> /\ inbound' = <<>> /\ notifications' = <<>>
        /\ outcomes' \in {outcomes, <<>>}
    BY <1>16 DEF ResumeThread, ResumeSession, Resume, Discarded, codexVars
  <2>2. Asked(t)' = 0 /\ Working(t)' = 0 /\ Reported(t)' = 0 /\ Noted(t)' = 0
    BY <2>1, OccEmpty DEF Asked, Working, Reported, Noted
  <2>3. Offered(t)' <= Offered(t)
    <3>1. outcomes' = <<>> => Offered(t)' = 0
      BY OccEmpty DEF Offered
    <3> QED BY <1>0, <1>e, <2>1, <3>1
  <2> QED BY <1>0, <1>f, <2>2, <2>3
<1> QED BY <1>1, <1>2, <1>3, <1>4, <1>5, <1>6, <1>7, <1>8, <1>9, <1>10, <1>11, <1>12, <1>13,
           <1>14, <1>15, <1>16, Steps

\* What can happen to a submission.
Moved(t) ==
  \/ call'[t] = call[t]
  \/ /\ call'[t].got = call[t].got /\ call'[t].rows = call[t].rows
     /\ \/ call[t].pc = "idle" /\ call'[t].pc = "queued"
        \/ call[t].pc = "queued" /\ call'[t].pc = "made" /\ BeginTurn(t, Prompt(t)) /\ ~closed
        \/ call[t].pc = "made" /\ call'[t].pc = "awaiting" /\ Request(t) /\ ~closed
        \/ /\ call[t].pc = "awaiting" /\ call'[t].pc = "resolved" /\ t \in pending
           /\ RouteResponse /\ Head(inbound).kind = "ok" /\ Head(inbound).of = t
           /\ UNCHANGED <<protocol, codexVars>>
        \/ /\ call[t].pc = "awaiting" /\ call'[t].pc = "rejected"
           /\ \/ closed'
              \/ /\ RouteResponse /\ Head(inbound).kind = "error" /\ Head(inbound).of = t
                 /\ UNCHANGED <<protocol, codexVars>>
        \/ call[t].pc \in {"queued", "made", "rejected"} /\ call'[t].pc = "failed"
        \/ /\ call[t].pc = "resolved" /\ call'[t].pc = "failed"
           /\ TakeUpdates(t) \/ (TakeOutcome(t) /\ Head(outcomes).kind = "aborted")
        \/ call[t].pc = "persist" /\ call'[t].pc = "returned" /\ Persist(t)
        \/ call[t].pc # "interrupted" /\ call'[t].pc = "interrupted"
  \/ /\ call[t].pc = "resolved" /\ call'[t].pc = "persist"
     /\ \/ /\ TakeUpdates(t) /\ ~shut
           /\ call'[t].got = t /\ call'[t].rows = items'
        \/ /\ TakeOutcome(t) /\ Head(outcomes).kind = "completed"
           /\ call'[t].got = Head(outcomes).of /\ call'[t].rows = Head(outcomes).rows

LEMMA CallMoves ==
  ASSUME TInv, [Next]_vars, NEW t \in Turns
  PROVE  Moved(t)
<1>0. call \in [Turns -> CallType]
  BY TypeSplit DEF SessionT
<1>s. ASSUME NEW S, NEW pc \in {"resolved", "rejected"}, call' = Settled(S, pc)
      PROVE  \/ call'[t] = call[t]
             \/ /\ call'[t].got = call[t].got /\ call'[t].rows = call[t].rows
                /\ t \in S /\ call[t].pc = "awaiting" /\ call'[t].pc = pc
  <2>1. [call[t] EXCEPT !.pc = pc].pc = pc /\ [call[t] EXCEPT !.pc = pc].got = call[t].got
        /\ [call[t] EXCEPT !.pc = pc].rows = call[t].rows
    BY <1>0 DEF CallType
  <2> QED BY <1>s, <2>1 DEF Settled
<1>1. ASSUME NEW u \in Turns, TakeOutcome(u)
      PROVE  \/ call'[t] = call[t]
             \/ /\ u = t /\ call[t].pc = "resolved"
                /\ \/ /\ call'[t].got = call[t].got /\ call'[t].rows = call[t].rows
                      /\ call'[t].pc = "failed" /\ Head(outcomes).kind = "aborted"
                   \/ /\ call'[t].pc = "persist" /\ Head(outcomes).kind = "completed"
                      /\ call'[t].got = Head(outcomes).of /\ call'[t].rows = Head(outcomes).rows
                /\ TakeOutcome(t)
  <2>0. u = t => TakeOutcome(t)
    BY <1>1 DEF TakeOutcome
  <2>1. CASE Head(outcomes).kind = "aborted"
    <3>1. call' = [call EXCEPT ![u].pc = "failed"] /\ call[u].pc = "resolved"
      BY <1>1, <2>1 DEF TakeOutcome
    <3>2. /\ call'[u].pc = "failed" /\ call'[u].got = call[u].got /\ call'[u].rows = call[u].rows
          /\ \A v \in Turns \ {u} : call'[v] = call[v]
      BY <3>1, Goes
    <3> QED BY <2>0, <2>1, <3>1, <3>2
  <2>2. CASE Head(outcomes).kind # "aborted"
    <3>1. Head(outcomes).kind = "completed"
      BY <1>1, <2>2, Heads DEF TakeOutcome, OutcomeType
    <3>2. call' = [call EXCEPT ![u] = [pc |-> "persist", got |-> Head(outcomes).of,
                                       rows |-> Head(outcomes).rows]]
      BY <1>1, <2>2 DEF TakeOutcome
    <3> QED BY <1>0, <1>1, <2>0, <3>1, <3>2 DEF TakeOutcome
  <2> QED BY <2>1, <2>2
<1>2. ASSUME NEW u \in Turns, TakeUpdates(u)
      PROVE  \/ call'[t] = call[t]
             \/ /\ u = t /\ call[t].pc = "resolved"
                /\ \/ /\ call'[t].got = call[t].got /\ call'[t].rows = call[t].rows
                      /\ call'[t].pc = "failed"
                   \/ /\ call'[t].pc = "persist" /\ ~shut
                      /\ call'[t].got = t /\ call'[t].rows = items'
                /\ TakeUpdates(t)
  <2>0. u = t => TakeUpdates(t)
    BY <1>2 DEF TakeUpdates
  <2>1. CASE shut
    BY <1>2, <2>0, <2>1, Goes DEF TakeUpdates
  <2>2. CASE ~shut
    <3>1. call' = [call EXCEPT ![u] = [pc |-> "persist", got |-> u, rows |-> items']]
      BY <1>2, <2>2 DEF TakeUpdates
    <3> QED BY <1>0, <1>2, <2>0, <2>2, <3>1 DEF TakeUpdates
  <2> QED BY <2>1, <2>2
<1>3. ASSUME NEW u \in Turns, BeginTurn(u, Prompt(u))
      PROVE  \/ call'[t] = call[t]
             \/ /\ u = t /\ call'[t].got = call[t].got /\ call'[t].rows = call[t].rows
                /\ call[t].pc = "queued"
                /\ \/ call'[t].pc = "failed"
                   \/ call'[t].pc = "made" /\ ~closed /\ BeginTurn(t, Prompt(t))
  BY ZenonT(60), <1>3, Goes DEF BeginTurn, Prompt
<1>4. ASSUME NEW u \in Turns, Request(u)
      PROVE  \/ call'[t] = call[t]
             \/ /\ u = t /\ call'[t].got = call[t].got /\ call'[t].rows = call[t].rows
                /\ call[t].pc = "made"
                /\ \/ call'[t].pc = "failed"
                   \/ call'[t].pc = "awaiting" /\ ~closed /\ Request(t)
  <2>1. call[u].pc = "made"
    BY <1>4 DEF Request
  <2>2. CASE closed
    BY <1>4, <2>1, <2>2, Goes DEF Request, StillOpen
  <2>3. CASE ~closed
    <3>1. call' = [call EXCEPT ![u].pc = "awaiting"]
      BY <1>4, <2>3 DEF Request, StillOpen
    <3>2. u = t => Request(t)
      BY <1>4 DEF Request, StillOpen, ToChild
    <3> QED BY <2>1, <2>3, <3>1, <3>2, Goes
  <2> QED BY <2>2, <2>3
<1>5. ASSUME NEW u \in Turns, TurnFails(u) \/ Submit(u) \/ Persist(u)
      PROVE  \/ call'[t] = call[t]
             \/ /\ u = t /\ call'[t].got = call[t].got /\ call'[t].rows = call[t].rows
                /\ \/ TurnFails(t) /\ call[t].pc = "rejected" /\ call'[t].pc = "failed"
                   \/ Submit(t) /\ call[t].pc = "idle" /\ call'[t].pc = "queued"
                   \/ Persist(t) /\ call[t].pc = "persist" /\ call'[t].pc = "returned"
  BY <1>5, Goes DEF TurnFails, Submit, Persist
<1>6. ASSUME RouteResponse
      PROVE  \/ call'[t] = call[t]
             \/ /\ call'[t].got = call[t].got /\ call'[t].rows = call[t].rows
                /\ call[t].pc = "awaiting" /\ t \in pending /\ Head(inbound).of = t
                /\ \/ Head(inbound).kind = "ok" /\ call'[t].pc = "resolved"
                   \/ Head(inbound).kind = "error" /\ call'[t].pc = "rejected"
  <2>1. Head(inbound).kind \in {"ok", "error"}
    BY <1>6 DEF RouteResponse
  <2>2. CASE Head(inbound).of \in pending
    <3>1. CASE Head(inbound).kind = "ok"
      <4>1. call' = Settled({Head(inbound).of}, "resolved")
        BY <1>6, <2>2, <3>1 DEF RouteResponse
      <4> QED BY <1>s, <2>2, <3>1, <4>1
    <3>2. CASE Head(inbound).kind = "error"
      <4>1. call' = Settled({Head(inbound).of}, "rejected")
        BY <1>6, <2>2, <3>2 DEF RouteResponse
      <4> QED BY <1>s, <2>2, <3>2, <4>1
    <3> QED BY <2>1, <3>1, <3>2
  <2>3. CASE Head(inbound).of \notin pending
    BY <1>6, <2>3 DEF RouteResponse
  <2> QED BY <2>2, <2>3
<1>7. ASSUME RouteExit \/ Close
      PROVE  \/ call'[t] = call[t]
             \/ /\ call'[t].got = call[t].got /\ call'[t].rows = call[t].rows /\ closed'
                /\ call[t].pc = "awaiting" /\ call'[t].pc = "rejected"
  BY <1>7, <1>s DEF RouteExit, Close, CloseScope, FailAllPending
<1>8. ASSUME Reload
      PROVE  \/ call'[t] = call[t]
             \/ /\ call'[t].got = call[t].got /\ call'[t].rows = call[t].rows
                /\ call[t].pc # "interrupted" /\ call'[t].pc = "interrupted"
  <2>1. [call[t] EXCEPT !.pc = "interrupted"].pc = "interrupted"
        /\ [call[t] EXCEPT !.pc = "interrupted"].got = call[t].got
        /\ [call[t] EXCEPT !.pc = "interrupted"].rows = call[t].rows
    BY <1>0 DEF CallType
  <2> QED BY <1>0, <1>8, <2>1 DEF Reload, InFlight, InTurn
<1>9. ASSUME \/ RouteRequest \/ RouteNotification \/ ChildDies \/ FoldItem \/ FoldCompleted
             \/ FoldResolved \/ FoldEnds \/ Collect \/ Mirror \/ ServeTurn \/ ServePrompt
             \/ ServeAnswer \/ Produce \/ FinishTurn \/ AnswerPrompt
             \/ \E a \in Asks : AskOrWithdraw(a) \/ AnswerApproval(a)
             \/ StopSession \/ ResumeThread \/ ResumeSession \/ UNCHANGED vars
      PROVE  call' = call
  BY <1>9 DEF RouteRequest, RouteNotification, ChildDies, FoldItem, FoldCompleted, FoldResolved,
              FoldEnds, Collect, Mirror, ServeTurn, ServePrompt, ServeAnswer, Produce, FinishTurn,
              AnswerPrompt, AskOrWithdraw, AnswerApproval, StopSession, Stop, ResumeThread,
              ResumeSession, Resume, vars, baseVars
<1>10. ASSUME NEW u \in Turns,
              TakeOutcome(u) \/ TakeUpdates(u) \/ BeginTurn(u, Prompt(u)) \/ Request(u)
       PROVE  Moved(t)
  <2>1. CASE TakeOutcome(u)
    BY <1>1, <2>1 DEF Moved
  <2>2. CASE TakeUpdates(u)
    BY <1>2, <2>2 DEF Moved
  <2>3. CASE BeginTurn(u, Prompt(u))
    BY <1>3, <2>3 DEF Moved
  <2>4. CASE Request(u)
    BY <1>4, <2>4 DEF Moved
  <2> QED BY <1>10, <2>1, <2>2, <2>3, <2>4
<1>11. ASSUME NEW u \in Turns, TurnFails(u) \/ Persist(u) \/ Submit(u)
       PROVE  Moved(t)
  BY <1>5, <1>11 DEF Moved
<1>12. CASE RouteResponse /\ UNCHANGED <<protocol, codexVars>>
  BY <1>6, <1>12 DEF Moved
<1>13. CASE RouteExit \/ Close \/ Reload
  BY <1>7, <1>8, <1>13 DEF Moved
<1>14. ASSUME call' = call PROVE Moved(t)
  BY <1>14 DEF Moved
<1> QED BY <1>9, <1>10, <1>11, <1>12, <1>13, <1>14, Steps

LEMMA TokenStep ==
  ASSUME TInv, TInv', TokenInv, [Next]_vars
  PROVE  TokenInv'
<1> SUFFICES ASSUME NEW t \in Turns
             PROVE  Tokens(t)' <= 1 /\ (Unasked(t)' => Tokens(t)' = 0)
  BY DEF TokenInv
<1>1. Tokens(t) \in Nat /\ Tokens(t)' \in Nat
  BY Counts, CountsNext
<1>2. Unasked(t)' => Unasked(t)
  BY CallMoves DEF Moved, Unasked
<1>3. CASE Tokens(t)' <= Tokens(t)
  BY <1>1, <1>2, <1>3 DEF TokenInv
<1>4. CASE Request(t) /\ ~closed /\ Tokens(t)' = Tokens(t) + 1
  <2>1. Unasked(t) /\ ~Unasked(t)'
    BY <1>4, Goes DEF Request, StillOpen, Unasked
  <2> QED BY <1>4, <2>1 DEF TokenInv
<1> QED BY <1>3, <1>4, TokensFall

\* The transport closes once in a life of the driver, and a resumed driver is codex's own.
LEMMA Closing ==
  ASSUME TInv, [Next]_vars
  PROVE  /\ protocol' = protocol
         /\ closed' # closed => \/ RouteExit \/ Close
                                \/ ResumeThread \/ ResumeSession
         /\ RouteExit \/ Close => closed' /\ pending' = {}
         /\ ResumeThread \/ ResumeSession => ~closed' /\ pending' = {} /\ ~shut'
         /\ shut' # shut => RouteExit \/ ResumeThread \/ ResumeSession
         /\ pending' \subseteq pending \/ ~closed'
<1>1. RouteExit \/ Close => closed' /\ pending' = {}
  BY DEF RouteExit, Close, CloseScope, FailAllPending
<1>2. ResumeThread \/ ResumeSession => ~closed' /\ pending' = {} /\ ~shut'
  BY DEF ResumeThread, ResumeSession, Resume
<1>3. ASSUME NEW u \in Turns,
             \/ TakeOutcome(u) \/ TakeUpdates(u)
             \/ /\ BeginTurn(u, Prompt(u)) \/ Request(u) \/ TurnFails(u) \/ Persist(u) \/ Submit(u)
                /\ UNCHANGED <<protocol, codexVars>>
      PROVE  /\ UNCHANGED <<protocol, closed, shut>>
             /\ pending' \subseteq pending \/ ~closed'
  BY <1>3 DEF TakeOutcome, TakeUpdates, BeginTurn, Request, StillOpen, TurnFails, Persist, Submit,
              wire, Codex, Acp
<1>4. ASSUME RouteResponse \/ RouteRequest \/ RouteNotification \/ ChildDies \/ Reload,
             UNCHANGED <<protocol, codexVars>>
      PROVE  UNCHANGED <<protocol, closed, shut>> /\ pending' \subseteq pending
  BY <1>4 DEF RouteResponse, RouteRequest, RouteNotification, ChildDies, Reload, wire
<1>5. ASSUME \/ FoldItem \/ FoldCompleted \/ FoldResolved \/ FoldEnds \/ Collect \/ Mirror
             \/ ServeTurn \/ ServePrompt \/ ServeAnswer \/ Produce \/ FinishTurn \/ AnswerPrompt
             \/ \E a \in Asks : AskOrWithdraw(a) \/ AnswerApproval(a)
             \/ StopSession \/ UNCHANGED vars
      PROVE  UNCHANGED <<protocol, closed, shut, pending>>
  BY <1>5 DEF FoldItem, FoldCompleted, FoldResolved, FoldEnds, Folding, Collect, Mirror, ServeTurn,
              ServePrompt, ServeAnswer, Produce, FinishTurn, AnswerPrompt, AskOrWithdraw,
              AnswerApproval, StopSession, Stop, vars, baseVars, wire, Codex, Acp
<1>6. Close => UNCHANGED <<protocol, shut>>
  BY DEF Close, CloseScope
<1>7. ResumeThread \/ ResumeSession => protocol' = protocol
  BY DEF ResumeThread, ResumeSession, Codex, Acp
<1>8. RouteExit /\ UNCHANGED <<protocol, codexVars>> => protocol' = protocol
  OBVIOUS
<1> QED BY <1>1, <1>2, <1>3, <1>4, <1>5, <1>6, <1>7, <1>8, Steps

LEMMA ClosedStep ==
  ASSUME TInv, ClosedInv, [Next]_vars
  PROVE  ClosedInv'
<1>1. closed' => pending' = {}
  BY Closing DEF ClosedInv
<1>2. shut' => closed'
  BY Closing DEF ClosedInv
<1>3. Occ(outcomes, {Aborted})' > 0 => closed'
  <2> DEFINE n == Occ(outcomes, {Aborted})
  <2>0. /\ outcomes \in Seq(OutcomeType) /\ Aborted \in OutcomeType
        /\ n \in Nat /\ (n > 0 => closed)
        /\ \A x \in OutcomeType : x.kind = "completed" => x # Aborted
    BY TypeSplit, OccNat DEF CodexT, Aborted, OutcomeType, ClosedInv
  <2>a. Aborted' = Aborted
    BY DEF Aborted
  <2>1. CASE closed' = closed /\ outcomes' = outcomes
    BY <2>0, <2>1, <2>a
  <2>2. ASSUME NEW t \in Turns, TakeOutcome(t)
        PROVE  closed' = closed /\ n' <= n
    <3>1. outcomes # <<>> /\ outcomes' = Tail(outcomes) /\ closed' = closed
      BY <2>2 DEF TakeOutcome, wire
    <3>2. Tail(outcomes) \in Seq(OutcomeType)
      BY <3>1, Heads
    <3>3. Occ(Tail(outcomes), {Aborted}) \in Nat
      BY <3>2, OccNat
    <3>4. n = IF Head(outcomes) \in {Aborted} THEN Occ(Tail(outcomes), {Aborted}) + 1
                                              ELSE Occ(Tail(outcomes), {Aborted})
      BY <2>0, <3>1, OccTail
    <3> QED BY <2>a, <3>1, <3>3, <3>4
  <2>3. CASE FoldCompleted
    <3>1. PICK u \in Turns : u = Head(notifications).of
      BY <2>3, Heads DEF FoldCompleted, Folding, NoteType
    <3>2. Completed(u) \in OutcomeType /\ Completed(u) # Aborted
      BY <2>0, TypeSplit DEF Completed, OutcomeType, SessionT
    <3>3. outcomes' = Append(outcomes, Completed(u)) /\ closed' = closed
      BY <2>3, <3>1 DEF FoldCompleted, Folding
    <3>4. Occ(outcomes', {Aborted}) = n
      BY <2>0, <3>2, <3>3, OccAppend
    <3> QED BY <2>0, <2>a, <3>3, <3>4
  <2>4. CASE FoldEnds
    BY <2>4 DEF FoldEnds, Codex, ClosedInv, baseVars, wire
  <2>5. CASE RouteExit \/ Close
    BY <2>5, Closing
  <2>6. CASE ResumeThread \/ ResumeSession
    <3>1. outcomes' = <<>>
      <4>1. CASE ResumeThread
        BY <4>1 DEF ResumeThread
      <4>2. CASE ResumeSession
        BY <4>2, TypeSplit DEF ResumeSession, Acp, codexVars, ProtocolT, AcpQueues
      <4> QED BY <2>6, <4>1, <4>2
    <3> QED BY <3>1, <2>a, OccEmpty
  <2>7. ASSUME NEW t \in Turns, UNCHANGED <<protocol, codexVars>>,
               BeginTurn(t, Prompt(t)) \/ Request(t) \/ TurnFails(t) \/ Persist(t) \/ Submit(t)
        PROVE  closed' = closed /\ outcomes' = outcomes
    BY <2>7 DEF BeginTurn, Request, TurnFails, Persist, Submit, wire, codexVars
  <2>8. ASSUME NEW t \in Turns, TakeUpdates(t)
        PROVE  closed' = closed /\ outcomes' = outcomes
    BY <2>8 DEF TakeUpdates, codexVars
  <2>9. ASSUME RouteResponse \/ RouteRequest \/ RouteNotification \/ ChildDies \/ Reload,
               UNCHANGED <<protocol, codexVars>>
        PROVE  closed' = closed /\ outcomes' = outcomes
    BY <2>9 DEF RouteResponse, RouteRequest, RouteNotification, ChildDies, Reload, wire, codexVars
  <2>10. ASSUME \/ FoldItem \/ FoldResolved \/ Collect \/ Mirror
                \/ ServeTurn \/ ServePrompt \/ ServeAnswer \/ Produce \/ FinishTurn \/ AnswerPrompt
                \/ \E a \in Asks : AskOrWithdraw(a) \/ AnswerApproval(a)
                \/ StopSession \/ UNCHANGED vars
         PROVE  closed' = closed /\ outcomes' = outcomes
    BY <2>10 DEF FoldItem, FoldResolved, Collect, Mirror, ServeTurn, ServePrompt, ServeAnswer,
                 Produce, FinishTurn, AnswerPrompt, AskOrWithdraw, AnswerApproval, StopSession,
                 Stop, vars, baseVars, wire, codexVars
  <2>11. ASSUME closed' = closed, n' <= n, n' \in Nat PROVE n' > 0 => closed'
    BY <2>0, <2>11
  <2>12. n' \in Nat
    <3>1. outcomes' \in Seq(OutcomeType)
      BY TypedStep DEF TInv, QueuesOK
    <3> QED BY <3>1, OccNat
  <2>13. (\E t \in Turns : TakeOutcome(t)) => (n' > 0 => closed')
    BY <2>2, <2>11, <2>12
  <2>14. CASE \E t \in Turns : \/ TakeUpdates(t)
                                \/ /\ \/ BeginTurn(t, Prompt(t)) \/ Request(t) \/ TurnFails(t)
                                      \/ Persist(t) \/ Submit(t)
                                   /\ UNCHANGED <<protocol, codexVars>>
    BY <2>1, <2>7, <2>8, <2>14
  <2>15. CASE /\ RouteResponse \/ RouteRequest \/ RouteNotification \/ ChildDies \/ Reload
              /\ UNCHANGED <<protocol, codexVars>>
    BY <2>1, <2>9, <2>15
  <2>16. CASE \/ FoldItem \/ FoldResolved \/ Collect \/ Mirror
              \/ ServeTurn \/ ServePrompt \/ ServeAnswer \/ Produce \/ FinishTurn \/ AnswerPrompt
              \/ \E a \in Asks : AskOrWithdraw(a) \/ AnswerApproval(a)
              \/ StopSession \/ UNCHANGED vars
    BY <2>1, <2>10, <2>16
  <2> QED BY <2>3, <2>4, <2>5, <2>6, <2>13, <2>14, <2>15, <2>16, Steps
<1> QED BY <1>1, <1>2, <1>3 DEF ClosedInv

-----------------------------------------------------------------------------
(* Every turn is given its own outcome.                                    *)

\* A final response is the last that is heard of a turn.
LEMMA Heard ==
  ASSUME TInv, TInv', RouteResponse, UNCHANGED <<protocol, codexVars>>, NEW t \in Turns,
         Head(inbound).kind \in FinalKinds, Head(inbound).of = t
  PROVE  Tokens(t) = Tokens(t)' + 1
<1>1. /\ inbound # <<>> /\ inbound' = Tail(inbound)
      /\ UNCHANGED <<stdin, work, notifications, outcomes, protocol>>
  BY DEF RouteResponse, Routing, child, codexVars
<1>2. Reported(t) = Reported(t)' + 1
  BY <1>1, LineRouted
<1>3. /\ Asked(t)' = Asked(t) /\ Working(t)' = Working(t) /\ Noted(t)' = Noted(t)
      /\ Offered(t)' = Offered(t)
  BY <1>1 DEF Asked, Working, Noted, Offered
<1> QED BY <1>2, <1>3, Counts, CountsNext DEF Tokens

\* So is the outcome, for the turn it is the outcome of.
LEMMA Taken ==
  ASSUME TInv, TInv', NEW u \in Turns, TakeOutcome(u), Head(outcomes).kind = "completed"
  PROVE  /\ Head(outcomes).of \in Turns
         /\ \A t \in Turns : t = Head(outcomes).of => Tokens(t) = Tokens(t)' + 1
<1>1. /\ outcomes # <<>> /\ outcomes' = Tail(outcomes)
      /\ UNCHANGED <<stdin, work, inbound, notifications, protocol>>
  BY DEF TakeOutcome, child, wire, Codex
<1>2. Head(outcomes).of \in Turns
  BY <1>1, Heads DEF OutcomeType
<1>3. ASSUME NEW t \in Turns, t = Head(outcomes).of
      PROVE  Tokens(t) = Tokens(t)' + 1
  <2>1. Offered(t) = Offered(t)' + 1
    BY <1>1, <1>3, OutcomeTaken
  <2>2. /\ Asked(t)' = Asked(t) /\ Working(t)' = Working(t) /\ Reported(t)' = Reported(t)
        /\ Noted(t)' = Noted(t)
    BY <1>1 DEF Asked, Working, Reported, Final, FinalKinds, Noted
  <2> QED BY <2>1, <2>2, Counts, CountsNext DEF Tokens
<1> QED BY <1>2, <1>3

LEMMA AbortHeard ==
  ASSUME TInv, ClosedInv, outcomes # <<>>, Head(outcomes).kind = "aborted"
  PROVE  closed
<1>1. Head(outcomes) = Aborted /\ outcomes \in Seq(OutcomeType)
  BY TypeSplit, Heads DEF CodexT, OutcomeType, Aborted
<1>2. Occ(outcomes, {Aborted}) = Occ(Tail(outcomes), {Aborted}) + 1
  BY <1>1, OccTail
<1>3. Occ(Tail(outcomes), {Aborted}) \in Nat
  BY Heads, OccNat
<1> QED BY <1>2, <1>3 DEF ClosedInv

LEMMA StaysUninterrupted ==
  ASSUME TInv, [Next]_vars, NoneInterrupted'
  PROVE  NoneInterrupted
  BY CallMoves DEF Moved, NoneInterrupted

LEMMA Resumed ==
  ASSUME TInv, TInv', ResumeThread \/ ResumeSession, NEW t \in Turns
  PROVE  Tokens(t)' = 0
<1>1. /\ stdin' = <<>> /\ work' = <<>> /\ inbound' = <<>> /\ notifications' = <<>>
      /\ outcomes' = <<>>
  <2>1. CASE ResumeThread
    BY <2>1 DEF ResumeThread, Resume
  <2>2. CASE ResumeSession
    BY <2>2, TypeSplit DEF ResumeSession, Resume, Discarded, Acp, codexVars, ProtocolT, AcpQueues
  <2> QED BY <2>1, <2>2
<1>2. /\ Asked(t)' = 0 /\ Working(t)' = 0 /\ Reported(t)' = 0 /\ Noted(t)' = 0 /\ Offered(t)' = 0
  BY <1>1, OccEmpty DEF Asked, Working, Reported, Noted, Offered
<1> QED BY <1>2 DEF Tokens

LEMMA ServedStep ==
  ASSUME TInv, TInv', OneTurn, TokenInv, ClosedInv, ServedInv, [Next]_vars
  PROVE  ServedInv'
<1> SUFFICES ASSUME NoneInterrupted', protocol' = "jsonrpc", NEW t \in Turns, Tokens(t)' > 0
             PROVE  /\ ~closed' => call'[t].pc \in {"awaiting", "resolved"}
                    /\ \A u \in Turns : call'[u].pc = "resolved" => u = t
  BY DEF ServedInv
<1>0. /\ protocol = "jsonrpc" /\ NoneInterrupted
      /\ Tokens(t) \in Nat /\ Tokens(t)' \in Nat /\ Tokens(t) <= 1
  BY Closing, StaysUninterrupted, Counts, CountsNext DEF TokenInv
<1>1. CASE Request(t) /\ ~closed
  <2>1. /\ call[t].pc = "made" /\ call' = [call EXCEPT ![t].pc = "awaiting"]
    BY <1>1 DEF Request, StillOpen
  <2>2. call'[t].pc = "awaiting" /\ \A u \in Turns \ {t} : call'[u] = call[u]
    BY <2>1, Goes
  <2>3. \A u \in Turns \ {t} : call[u].pc # "resolved"
    BY <2>1 DEF OneTurn, InTurn
  <2> QED BY <2>2, <2>3
<1>2. CASE ~(Request(t) /\ ~closed)
  <2>1. Tokens(t) > 0 /\ Tokens(t) = 1
    BY <1>0, <1>2, TokensFall
  <2>2. /\ ~closed => call[t].pc \in {"awaiting", "resolved"}
        /\ \A u \in Turns : call[u].pc = "resolved" => u = t
    BY <1>0, <2>1 DEF ServedInv
  <2>3. ASSUME ~closed'
        PROVE  call'[t].pc \in {"awaiting", "resolved"}
    <3>1. ~closed
      BY <1>0, <2>3, Closing, Resumed
    <3>2. ~(RouteResponse /\ UNCHANGED <<protocol, codexVars>>
            /\ Head(inbound).kind = "error" /\ Head(inbound).of = t)
      BY <1>0, <2>1, Heard DEF FinalKinds
    <3>3. ~TakeUpdates(t)
      BY <1>0 DEF TakeUpdates, Acp
    <3>4. ~(TakeOutcome(t) /\ Head(outcomes).kind = "aborted")
      BY <3>1, AbortHeard DEF TakeOutcome
    <3>5. ~(call[t].pc = "resolved" /\ TakeOutcome(t) /\ Head(outcomes).kind = "completed")
      <4> SUFFICES ASSUME TakeOutcome(t), call[t].pc = "resolved", Head(outcomes).kind = "completed"
                   PROVE  FALSE
        OBVIOUS
      <4>1. PICK x \in Turns : x = Head(outcomes).of
        BY Taken
      <4>2. Tokens(x) = Tokens(x)' + 1 /\ Tokens(x)' \in Nat /\ Tokens(x) > 0
        BY <4>1, Taken, CountsNext
      <4>3. x = t
        BY <1>0, <4>2 DEF ServedInv
      <4> QED BY <1>0, <2>1, <4>2, <4>3
    <3>6. call'[t].pc # "interrupted"
      BY DEF NoneInterrupted
    <3> QED BY <2>2, <2>3, <3>1, <3>2, <3>3, <3>4, <3>5, <3>6, CallMoves DEF Moved
  <2>4. ASSUME NEW u \in Turns, call'[u].pc = "resolved"
        PROVE  u = t
    <3>1. CASE call[u].pc = "resolved"
      BY <2>2, <3>1
    <3>2. CASE call[u].pc = "awaiting" /\ u \in pending
      <4>1. InTurn(u) /\ InTurn(t)
        BY <2>2, <3>2 DEF ClosedInv, InTurn
      <4> QED BY <4>1 DEF OneTurn
    <3> QED BY <2>4, <3>1, <3>2, CallMoves DEF Moved
  <2> QED BY <2>3, <2>4
<1> QED BY <1>1, <1>2

LEMMA OwnStep ==
  ASSUME TInv, TInv', ServedInv, OwnInv, [Next]_vars
  PROVE  OwnInv'
<1> SUFFICES ASSUME NoneInterrupted' \/ protocol' = "acp", NEW t \in Turns
             PROVE  call'[t].got \in {Null, t}
  BY DEF OwnInv, OwnOutcome
<1>0. /\ NoneInterrupted \/ protocol = "acp"
      /\ call[t].got \in {Null, t}
      /\ protocol \in {"jsonrpc", "acp"}
  BY Closing, StaysUninterrupted, TypeSplit DEF OwnInv, OwnOutcome, ProtocolT
<1>1. ASSUME TakeOutcome(t), call[t].pc = "resolved", Head(outcomes).kind = "completed"
      PROVE  Head(outcomes).of = t
  <2>1. PICK x \in Turns : x = Head(outcomes).of
    BY <1>1, Taken
  <2>2. Tokens(x) = Tokens(x)' + 1 /\ Tokens(x)' \in Nat /\ Tokens(x) > 0
    BY <1>1, <2>1, Taken, CountsNext
  <2>3. protocol = "jsonrpc" /\ NoneInterrupted
    BY <1>0, <1>1 DEF TakeOutcome, Codex
  <2> QED BY <1>1, <2>1, <2>2, <2>3 DEF ServedInv
<1> QED BY <1>0, <1>1, CallMoves DEF Moved

\* The invariant: who is served follows from where the turns are.
TurnsInv == TInv /\ OneTurn /\ ClosedInv /\ TokenInv /\ ServedInv /\ OwnInv

LEMMA TurnsInit == Init => TurnsInv
<1> SUFFICES ASSUME Init PROVE TurnsInv
  OBVIOUS
<1>0. TInv
  BY InitTyped
<1>1. /\ stdin = <<>> /\ work = <<>> /\ inbound = <<>> /\ notifications = <<>> /\ outcomes = <<>>
      /\ \A t \in Turns : call[t] = NoCall
      /\ ~closed /\ pending = {} /\ ~shut /\ permit = Null /\ ~generating
  BY DEF Init, BaseInit
<1>2. \A t \in Turns : Tokens(t) = 0
  <2>1. \A t \in Turns : /\ Asked(t) = 0 /\ Working(t) = 0 /\ Reported(t) = 0 /\ Noted(t) = 0
                         /\ Offered(t) = 0
    BY <1>1, OccEmpty DEF Asked, Working, Reported, Noted, Offered
  <2> QED BY <2>1 DEF Tokens
<1>3. OneTurn
  BY <1>1, DriversAssumption DEF OneTurn, InTurn, NoCall
<1>4. ClosedInv
  <2>1. Occ(outcomes, {Aborted}) = 0
    BY <1>1, OccEmpty
  <2> QED BY <1>1, <2>1 DEF ClosedInv
<1>5. OwnInv
  BY <1>1 DEF OwnInv, OwnOutcome, NoCall
<1> QED BY <1>0, <1>2, <1>3, <1>4, <1>5 DEF TurnsInv, TokenInv, ServedInv

LEMMA TurnsStep ==
  ASSUME TurnsInv, [Next]_vars
  PROVE  TurnsInv'
<1>1. TInv'
  BY TypedStep DEF TurnsInv
<1> QED BY <1>1, OneTurnStep, ClosedStep, TokenStep, ServedStep, OwnStep DEF TurnsInv

LEMMA TurnsHold == Spec => []TurnsInv
  BY TurnsInit, TurnsStep, PTL DEF Spec

\* One turn at a time is served, whatever closes, reloads or resumes in
\* between, and while no submission was interrupted the next outcome of the
\* unkeyed queue is the outcome of the turn that takes it.
THEOREM OutcomesFindTheirTurns == Spec => []TurnsAreServed
<1>1. TurnsInv => TurnsAreServed
  BY DEF TurnsInv, OwnInv, TurnsAreServed, OwnOutcomeUninterrupted, NoneInterrupted
<1> QED BY <1>1, TurnsHold, PTL

-----------------------------------------------------------------------------
(* How the items move.                                                     *)

LEMMA RowFolded ==
  ASSUME TInv, NEW u \in Turns, items' = items \o ItemRow(u), NEW t \in Turns
  PROVE  Arrived(t)' = IF u = t THEN Arrived(t) + 1 ELSE Arrived(t)
<1> DEFINE row == [kind |-> "item", of |-> u]
<1>1. row \in Row /\ (row \in Item(t) <=> u = t) /\ ItemRow(u) = <<row>>
  BY DEF Row, Item, ItemRow
<1>2. items \in Seq(Row)
  BY TypeSplit DEF SessionT
<1> HIDE DEF row
<1>3. items \o <<row>> = Append(items, row)
  BY <1>1, <1>2, AppendIsConcat
<1>4. Occ(Append(items, row), Item(t)) = IF u = t THEN Occ(items, Item(t)) + 1 ELSE Occ(items, Item(t))
  BY <1>1, <1>2, OccAppend
<1>5. Item(t)' = Item(t)
  BY DEF Item
<1> QED BY <1>1, <1>3, <1>4, <1>5 DEF Arrived

\* What was sent is kept; what was lost was lost with the transport.
Kept(t) ==
  /\ sent'[t] = sent[t]
  /\ Flight(t)' = Flight(t) \/ (shut' /\ Flight(t)' <= Flight(t))
  /\ Arriving(t)' <= Arriving(t)
  /\ Waiting(t)' <= Waiting(t) + Arriving(t)
Sends(t) ==
  /\ Produce /\ Working(t) > 0
  /\ sent'[t] = sent[t] + 1 /\ Flight(t)' = Flight(t) + 1 /\ Arriving(t)' = Arriving(t) + 1
  /\ Waiting(t)' = Waiting(t)
Anew(t) ==
  /\ ResumeThread \/ ResumeSession
  /\ sent'[t] = sent[t] /\ Flight(t)' = 0 /\ Arriving(t)' = 0 /\ Waiting(t)' = 0

LEMMA ItemsMove ==
  ASSUME TInv, TInv', [Next]_vars, NEW t \in Turns
  PROVE  Kept(t) \/ Sends(t) \/ Anew(t)
<1>0. /\ Arriving(t) \in Nat /\ Waiting(t) \in Nat /\ Arrived(t) \in Nat
      /\ Arriving(t)' \in Nat /\ Waiting(t)' \in Nat /\ Arrived(t)' \in Nat
  BY Counts, CountsNext
<1>t. /\ notifications \in Seq(NoteType) /\ items \in Seq(Row) /\ inbound \in Seq(LineType)
      /\ sent \in [Turns -> 0..MaxItems]
  BY TypeSplit DEF WireT, SessionT, ChildT
<1>a. inbound' = inbound => Arriving(t)' = Arriving(t)
  BY DEF Arriving
<1>b. notifications' = notifications => Waiting(t)' = Waiting(t)
  BY DEF Waiting
<1>c. items' = items => Arrived(t)' = Arrived(t)
  BY DEF Arrived
<1>k. ASSUME sent' = sent, Arriving(t)' <= Arriving(t), Waiting(t)' <= Waiting(t) + Arriving(t),
             Arriving(t)' + Waiting(t)' + Arrived(t)' = Arriving(t) + Waiting(t) + Arrived(t)
      PROVE  Kept(t)
  BY <1>k DEF Kept, Flight
<1>l. ASSUME sent' = sent, shut', Arriving(t)' <= Arriving(t), Waiting(t)' <= Waiting(t),
             Arrived(t)' = Arrived(t)
      PROVE  Kept(t)
  <2>1. Arriving(t)' + Waiting(t)' + Arrived(t)' <= Arriving(t) + Waiting(t) + Arrived(t)
    BY <1>0, <1>l
  <2>2. Waiting(t)' <= Waiting(t) + Arriving(t)
    BY <1>0, <1>l
  <2> QED BY <1>l, <2>1, <2>2 DEF Kept, Flight
<1>1. ASSUME UNCHANGED <<inbound, notifications, items, sent>>
      PROVE  Kept(t)
  BY <1>0, <1>1, <1>a, <1>b, <1>c, <1>k
<1>2. ASSUME NEW u \in Turns, \/ TakeOutcome(u)
                              \/ Request(u) \/ TurnFails(u) \/ Persist(u) \/ Submit(u)
      PROVE  Kept(t)
  BY <1>1, <1>2 DEF TakeOutcome, Request, TurnFails, Persist, Submit, child, wire
<1>3. ASSUME NEW u \in Turns, BeginTurn(u, Prompt(u)), UNCHANGED <<protocol, codexVars>>
      PROVE  Kept(t)
  <2>1. UNCHANGED <<inbound, notifications, sent>> /\ items' = items \o Prompt(u)
    BY <1>3 DEF BeginTurn, child, wire
  <2>2. Prompt(u) \in Seq(Row) /\ Occ(Prompt(u), Item(t)) = 0
    <3>1. CASE protocol = "acp"
      <4>1. Prompt(u) = Append(<<>>, [kind |-> "prompt", of |-> u])
        BY <3>1 DEF Prompt
      <4>2. [kind |-> "prompt", of |-> u] \in Row /\ [kind |-> "prompt", of |-> u] \notin Item(t)
        BY DEF Row, Item
      <4>3. <<>> \in Seq(Row)
        BY EmptySeq
      <4>4. Append(<<>>, [kind |-> "prompt", of |-> u]) \in Seq(Row)
        BY <4>2, <4>3, AppendProperties
      <4>5. ASSUME NEW r \in Row, r \notin Item(t)
            PROVE  Occ(Append(<<>>, r), Item(t)) = 0
        BY ZenonT(60), <4>3, <4>5, OccAppend, OccEmpty
      <4> QED BY <4>1, <4>2, <4>4, <4>5
    <3>2. CASE protocol # "acp"
      BY <3>2, EmptySeq, OccEmpty DEF Prompt
    <3> QED BY <3>1, <3>2
  <2>3. Arrived(t)' = Arrived(t)
    BY SMTT(60), <1>0, <1>t, <2>1, <2>2, OccConcat DEF Arrived, Item
  <2> QED BY <1>0, <1>a, <1>b, <1>k, <2>1, <2>3
<1>4. ASSUME NEW u \in Turns, TakeUpdates(u)
      PROVE  Kept(t)
  <2>1. UNCHANGED <<inbound, sent>>
    BY <1>4 DEF TakeUpdates, child
  <2>2. CASE shut
    BY <1>1, <1>4, <2>1, <2>2 DEF TakeUpdates
  <2>3. CASE ~shut
    <3>1. items' = items \o Folded(notifications) /\ notifications' = <<>>
      BY <1>4, <2>3 DEF TakeUpdates
    <3>2. Folded(notifications) = notifications /\ notifications \in Seq(Row)
      BY <1>4, FoldedIsSame, TypeSplit DEF TakeUpdates, Acp, ProtocolT, AcpQueues
    <3>3. Arrived(t)' = Arrived(t) + Waiting(t)
      BY <1>t, <3>1, <3>2, OccConcat DEF Arrived, Waiting, Item
    <3>4. Waiting(t)' = 0
      BY <3>1, OccEmpty DEF Waiting
    <3> QED BY <1>0, <1>a, <1>k, <2>1, <3>3, <3>4
  <2> QED BY <2>2, <2>3
<1>5. ASSUME RouteResponse \/ RouteRequest \/ RouteNotification \/ RouteExit,
             UNCHANGED <<protocol, codexVars>>
      PROVE  Kept(t)
  <2>1. /\ inbound # <<>> /\ inbound' = Tail(inbound) /\ UNCHANGED <<sent, items, protocol>>
    BY <1>5 DEF RouteResponse, RouteRequest, RouteNotification, RouteExit, Routing, child
  <2>2. Arriving(t) = IF Head(inbound).kind = "item" /\ Head(inbound).of = t
                        THEN Arriving(t)' + 1 ELSE Arriving(t)'
    BY <2>1, LineRouted
  <2>3. CASE RouteResponse \/ RouteRequest
    <3>1. notifications' = notifications /\ Head(inbound).kind # "item"
      BY <2>3 DEF RouteResponse, RouteRequest
    <3> QED BY <1>0, <1>b, <1>c, <1>k, <2>1, <2>2, <3>1
  <2>4. CASE RouteNotification /\ ~shut
    <3>1. Waiting(t)' = IF Head(inbound).kind = "item" /\ Head(inbound).of = t
                          THEN Waiting(t) + 1 ELSE Waiting(t)
      BY <2>1, <2>4, NotePushed DEF RouteNotification
    <3>2. /\ Arriving(t)' + Waiting(t)' = Arriving(t) + Waiting(t)
          /\ Arriving(t)' <= Arriving(t) /\ Waiting(t)' <= Waiting(t) + Arriving(t)
      BY <1>0, <2>2, <3>1
    <3> QED BY <1>0, <1>c, <1>k, <2>1, <3>2
  <2>5. CASE (RouteNotification /\ shut) \/ RouteExit
    <3>1. shut' /\ notifications' \in {notifications, <<>>}
      BY <2>5 DEF RouteNotification, RouteExit
    <3>2. Waiting(t)' <= Waiting(t)
      <4>1. notifications' = <<>> => Waiting(t)' = 0
        BY OccEmpty DEF Waiting
      <4> QED BY <1>0, <1>b, <3>1, <4>1
    <3> QED BY <1>0, <1>c, <1>l, <2>1, <2>2, <3>1, <3>2
  <2> QED BY <1>5, <2>3, <2>4, <2>5
<1>6. ASSUME FoldItem \/ FoldCompleted \/ FoldResolved
      PROVE  Kept(t)
  <2>1. /\ notifications # <<>> /\ notifications' = Tail(notifications)
        /\ UNCHANGED <<inbound, sent>>
    BY <1>6 DEF FoldItem, FoldCompleted, FoldResolved, Folding, child
  <2>2. Waiting(t) = IF Head(notifications).kind = "item" /\ Head(notifications).of = t
                       THEN Waiting(t)' + 1 ELSE Waiting(t)'
    BY <2>1, NotePopped
  <2>3. CASE FoldCompleted \/ FoldResolved
    <3>1. items' = items /\ Head(notifications).kind # "item"
      BY <2>3 DEF FoldCompleted, FoldResolved, Folding
    <3> QED BY <1>0, <1>a, <1>c, <1>k, <2>1, <2>2, <3>1
  <2>4. CASE FoldItem
    <3>1. PICK u \in Turns : u = Head(notifications).of
      BY <2>1, <2>4, Heads DEF FoldItem, Folding, NoteType
    <3>2. items' = items \o ItemRow(u) /\ Head(notifications).kind = "item"
      BY <2>4, <3>1 DEF FoldItem, Folding
    <3>4. Arrived(t)' = IF u = t THEN Arrived(t) + 1 ELSE Arrived(t)
      BY <3>2, RowFolded
    <3>5. Waiting(t)' + Arrived(t)' = Waiting(t) + Arrived(t)
      BY <1>0, <2>2, <3>1, <3>2, <3>4
    <3>6. Arriving(t)' = Arriving(t) /\ Waiting(t)' <= Waiting(t) + Arriving(t)
      BY <1>0, <1>a, <2>1, <2>2
    <3>7. Arriving(t)' + Waiting(t)' + Arrived(t)' = Arriving(t) + Waiting(t) + Arrived(t)
      BY <1>0, <3>5, <3>6
    <3> QED BY <1>0, <1>k, <2>1, <3>6, <3>7
  <2> QED BY <1>6, <2>3, <2>4
<1>7. ASSUME FoldEnds \/ Collect \/ Mirror \/ ServePrompt \/ StopSession \/ Close \/ UNCHANGED vars
      PROVE  Kept(t)
  BY <1>1, <1>7 DEF FoldEnds, Collect, Mirror, ServePrompt, StopSession, Stop, Close, CloseScope,
                    vars, baseVars, child, wire
<1>8. ASSUME Reload \/ \E a \in Asks : AnswerApproval(a)
      PROVE  Kept(t)
  BY <1>1, <1>8 DEF Reload, AnswerApproval, child, wire
<1>9. ASSUME ServeTurn \/ ServeAnswer \/ FinishTurn \/ AnswerPrompt
             \/ (\E a \in Asks : AskOrWithdraw(a)) \/ (ChildDies /\ UNCHANGED <<protocol, codexVars>>)
      PROVE  Kept(t)
  <2>1. UNCHANGED <<notifications, items, sent, protocol>>
    BY <1>9 DEF ServeTurn, ServeAnswer, FinishTurn, AnswerPrompt, AskOrWithdraw, ChildDies, child,
                Codex, Acp
  <2>2. \/ inbound' = inbound
        \/ \E u \in Turns, kind \in {"ok", "error", "completed"} : Emit(kind, u)
        \/ \E a \in Asks, kind \in {"ask", "withdrawn"} : Emit(kind, a)
        \/ Emit("exit", Null)
    <3>1. CASE ServeTurn
      <4>1. PICK u \in Turns : u = Head(stdin).of
        BY <3>1, Heads DEF ServeTurn, Reads, ToChildType
      <4> QED BY <3>1, <4>1 DEF ServeTurn
    <3>2. CASE ServeAnswer
      <4>1. Head(stdin).of \in Asks
        BY <3>2, Heads DEF ServeAnswer, Reads, ToChildType
      <4> QED BY <3>2, <4>1 DEF ServeAnswer
    <3>3. CASE FinishTurn \/ AnswerPrompt
      <4>1. PICK u \in Turns : u = Head(work)
        BY <3>3, Heads DEF FinishTurn, AnswerPrompt
      <4> QED BY <3>3, <4>1 DEF FinishTurn, AnswerPrompt
    <3> QED BY <1>9, <3>1, <3>2, <3>3 DEF AskOrWithdraw, ChildDies
  <2>3. Arriving(t)' = Arriving(t)
    <3>1. CASE \E u \in Turns, kind \in {"ok", "error", "completed"} : Emit(kind, u)
      BY <2>1, <3>1, LineEmitted
    <3>2. CASE \E a \in Asks, kind \in {"ask", "withdrawn"} : Emit(kind, a)
      BY <2>1, <3>2, LineEmitted
    <3>3. CASE Emit("exit", Null)
      BY <2>1, <3>3, LineEmitted
    <3> QED BY <1>a, <2>2, <3>1, <3>2, <3>3
  <2> QED BY <1>0, <1>b, <1>c, <1>k, <2>1, <2>3
<1>10. ASSUME Produce
       PROVE  Kept(t) \/ Sends(t)
  <2>1. PICK u \in Turns : u = Head(work)
    BY <1>10, Heads DEF Produce
  <2>2. /\ sent' = [sent EXCEPT ![u] = @ + 1] /\ Emit("item", u)
        /\ UNCHANGED <<protocol, notifications, items>>
    BY <1>10, <2>1 DEF Produce
  <2>3. Arriving(t)' = IF u = t THEN Arriving(t) + 1 ELSE Arriving(t)
    BY <2>2, LineEmitted
  <2>4. CASE u = t
    <3>1. Working(t) > 0
      <4>1. work # <<>> /\ work \in Seq(Turns) /\ Head(work) \in {t}
        BY <1>10, <2>1, <2>4, TypeSplit DEF Produce, ChildT
      <4>2. Occ(work, {t}) = Occ(Tail(work), {t}) + 1 /\ Occ(Tail(work), {t}) \in Nat
        BY <4>1, OccTail, OccNat, Heads
      <4> QED BY <4>2 DEF Working
    <3>2. sent'[t] = sent[t] + 1
      BY <1>t, <2>2, <2>4
    <3> QED BY <1>0, <1>10, <1>b, <1>c, <2>2, <2>3, <2>4, <3>1, <3>2 DEF Sends, Flight
  <2>5. CASE u # t
    <3>1. sent'[t] = sent[t]
      BY <1>t, <2>2, <2>5
    <3> QED BY <1>0, <1>b, <1>c, <2>2, <2>3, <2>5, <3>1 DEF Kept, Flight
  <2> QED BY <2>4, <2>5
<1>11. ASSUME ResumeThread \/ ResumeSession
       PROVE  Anew(t)
  <2>1. inbound' = <<>> /\ notifications' = <<>> /\ items' = <<>> /\ sent' = sent
    BY <1>11 DEF ResumeThread, ResumeSession, Resume, Discarded
  <2>2. Arriving(t)' = 0 /\ Waiting(t)' = 0 /\ Arrived(t)' = 0
    BY <2>1, OccEmpty DEF Arriving, Waiting, Arrived
  <2> QED BY <1>11, <2>1, <2>2 DEF Anew, Flight
<1> QED BY <1>2, <1>3, <1>4, <1>5, <1>6, <1>7, <1>8, <1>9, <1>10, <1>11, Steps

-----------------------------------------------------------------------------
(* Rows are whole.                                                         *)

LEMMA InboundMoves ==
  ASSUME TInv, [Next]_vars, NEW t \in Turns
  PROVE  \/ inbound' \in {inbound, <<>>}
         \/ inbound # <<>> /\ inbound' = Tail(inbound)
         \/ \E line \in LineType : /\ inbound' = Append(inbound, line)
                                   /\ line \in Item(t) => Working(t) > 0
<1>e. ASSUME NEW kind, NEW x, Emit(kind, x),
             \/ kind \in {"ok", "error", "completed"} /\ x \in Turns
             \/ kind \in {"ask", "withdrawn"} /\ x \in Asks
             \/ kind = "exit" /\ x = Null
             \/ kind = "item" /\ x \in Turns /\ (x = t => Working(t) > 0)
      PROVE  \E line \in LineType : /\ inbound' = Append(inbound, line)
                                    /\ line \in Item(t) => Working(t) > 0
  <2>1. [kind |-> kind, of |-> x] \in LineType
    BY <1>e DEF LineType
  <2>2. [kind |-> kind, of |-> x] \in Item(t) => Working(t) > 0
    BY <1>e DEF Item
  <2> QED BY <1>e, <2>1, <2>2 DEF Emit
<1>1. ASSUME NEW u \in Turns,
             \/ TakeOutcome(u) \/ TakeUpdates(u) \/ BeginTurn(u, Prompt(u)) \/ Request(u)
             \/ TurnFails(u) \/ Persist(u) \/ Submit(u)
      PROVE  inbound' = inbound
  BY <1>1 DEF TakeOutcome, TakeUpdates, BeginTurn, Request, TurnFails, Persist, Submit, wire
<1>2. RouteResponse \/ RouteRequest \/ RouteNotification \/ RouteExit
      => inbound # <<>> /\ inbound' = Tail(inbound)
  BY DEF RouteResponse, RouteRequest, RouteNotification, RouteExit, Routing
<1>3. FoldItem \/ FoldCompleted \/ FoldResolved \/ FoldEnds \/ Collect \/ Mirror \/ ServePrompt
      \/ StopSession \/ Close \/ Reload \/ UNCHANGED vars => inbound' = inbound
  BY DEF FoldItem, FoldCompleted, FoldResolved, FoldEnds, Collect, Mirror, ServePrompt, StopSession,
         Stop, Close, CloseScope, Reload, vars, baseVars, wire
<1>4. ASSUME NEW a \in Asks, AnswerApproval(a) PROVE inbound' = inbound
  BY <1>4 DEF AnswerApproval, wire
<1>5. ASSUME NEW a \in Asks, AskOrWithdraw(a) PROVE Emit("ask", a) \/ Emit("withdrawn", a)
  BY <1>5 DEF AskOrWithdraw
<1>6. ResumeThread \/ ResumeSession => inbound' = <<>>
  BY DEF ResumeThread, ResumeSession, Resume
<1>7. ChildDies => Emit("exit", Null)
  BY DEF ChildDies
<1>8. ASSUME FinishTurn \/ AnswerPrompt
      PROVE  \E u \in Turns, kind \in {"ok", "error", "completed"} : Emit(kind, u)
  BY <1>8, Heads DEF FinishTurn, AnswerPrompt
<1>9. ASSUME ServeTurn
      PROVE  \E u \in Turns, kind \in {"ok", "error", "completed"} : Emit(kind, u)
  <2>1. PICK u \in Turns : u = Head(stdin).of
    BY <1>9, Heads DEF ServeTurn, Reads, ToChildType
  <2> QED BY <1>9, <2>1 DEF ServeTurn
<1>10. ASSUME ServeAnswer
       PROVE  inbound' = inbound \/ \E a \in Asks : Emit("withdrawn", a)
  <2>1. Head(stdin).of \in Asks
    BY <1>10, Heads DEF ServeAnswer, Reads, ToChildType
  <2> QED BY <1>10, <2>1 DEF ServeAnswer
<1>11. ASSUME Produce
       PROVE  \E u \in Turns : Emit("item", u) /\ (u = t => Working(t) > 0)
  <2>1. PICK u \in Turns : u = Head(work)
    BY <1>11, Heads DEF Produce
  <2>2. work # <<>> /\ work \in Seq(Turns) /\ Emit("item", u)
    BY <1>11, <2>1, TypeSplit DEF Produce, ChildT
  <2>3. u = t => Working(t) > 0
    <3>1. u = t => Occ(work, {t}) = Occ(Tail(work), {t}) + 1
      BY <2>1, <2>2, OccTail
    <3>2. Occ(Tail(work), {t}) \in Nat
      BY <2>2, OccNat, Heads
    <3> QED BY <3>1, <3>2 DEF Working
  <2> QED BY <2>2, <2>3
<1> QED BY <1>e, <1>1, <1>2, <1>3, <1>4, <1>5, <1>6, <1>7, <1>8, <1>9, <1>10, <1>11, Steps

LEMMA NotesMove ==
  ASSUME TInv, [Next]_vars
  PROVE  \/ notifications' \in {notifications, <<>>}
         \/ notifications # <<>> /\ notifications' = Tail(notifications)
         \/ /\ ~shut /\ inbound # <<>> /\ inbound' = Tail(inbound)
            /\ Head(inbound).kind \in {"item", "completed", "withdrawn"}
            /\ notifications' = Append(notifications, Head(inbound))
<1>1. ASSUME NEW u \in Turns,
             \/ TakeOutcome(u) \/ TakeUpdates(u) \/ BeginTurn(u, Prompt(u)) \/ Request(u)
             \/ TurnFails(u) \/ Persist(u) \/ Submit(u)
      PROVE  notifications' \in {notifications, <<>>}
  BY <1>1 DEF TakeOutcome, TakeUpdates, BeginTurn, Request, TurnFails, Persist, Submit, wire
<1>2. RouteResponse \/ RouteRequest \/ RouteExit => notifications' \in {notifications, <<>>}
  BY DEF RouteResponse, RouteRequest, RouteExit
<1>3. RouteNotification =>
        \/ notifications' = notifications
        \/ /\ ~shut /\ inbound # <<>> /\ inbound' = Tail(inbound)
           /\ Head(inbound).kind \in {"item", "completed", "withdrawn"}
           /\ notifications' = Append(notifications, Head(inbound))
  BY DEF RouteNotification, Routing
<1>4. FoldItem \/ FoldCompleted \/ FoldResolved =>
        notifications # <<>> /\ notifications' = Tail(notifications)
  BY DEF FoldItem, FoldCompleted, FoldResolved, Folding
<1>5. ASSUME \/ FoldEnds \/ Collect \/ Mirror \/ ServeTurn \/ ServePrompt \/ ServeAnswer \/ Produce
             \/ FinishTurn \/ AnswerPrompt \/ StopSession \/ Close \/ Reload \/ ChildDies
             \/ \E a \in Asks : AskOrWithdraw(a) \/ AnswerApproval(a)
             \/ UNCHANGED vars
      PROVE  notifications' = notifications
  BY <1>5 DEF FoldEnds, Collect, Mirror, ServeTurn, ServePrompt, ServeAnswer, Produce, FinishTurn,
              AnswerPrompt, StopSession, Stop, Close, CloseScope, Reload, ChildDies, AskOrWithdraw,
              AnswerApproval, vars, baseVars, wire
<1>6. ResumeThread \/ ResumeSession => notifications' = <<>>
  BY DEF ResumeThread, ResumeSession, Resume, Discarded
<1> QED BY <1>1, <1>2, <1>3, <1>4, <1>5, <1>6, Steps

LEMMA ClosesEmpty ==
  ASSUME NEW X, NEW Y
  PROVE  Closes(<<>>, X, Y)
  BY DEF Closes

\* What stands behind the last report of a turn is not an item of it.
LEMMA NothingBehind ==
  ASSUME TInv, OrderInv, ~shut, inbound # <<>>, NEW t \in Turns, Head(inbound) \in Final(t)
  PROVE  Arriving(t) = 0
<1>1. inbound \in Seq(LineType)
  BY TypeSplit DEF WireT
<1>2. \A i \in 1..Len(inbound) : inbound[i] \notin Item(t)
  BY <1>1, ClosesTail DEF OrderInv
<1> QED BY <1>1, <1>2, OccNat DEF Arriving

LEMMA OrderStep ==
  ASSUME TInv, TInv', TokenInv, OrderInv, [Next]_vars
  PROVE  OrderInv'
<1> SUFFICES ASSUME ~shut', NEW t \in Turns
             PROVE  /\ Closes(inbound, Final(t), Item(t))'
                    /\ Closes(notifications, Done(t), Item(t))'
                    /\ Noted(t)' > 0 => Arriving(t)' = 0
  BY DEF OrderInv
<1>0. /\ inbound \in Seq(LineType) /\ notifications \in Seq(NoteType)
      /\ Arriving(t) \in Nat /\ Arriving(t)' \in Nat /\ Noted(t) \in Nat /\ Noted(t)' \in Nat
      /\ Final(t)' = Final(t) /\ Item(t)' = Item(t) /\ Done(t)' = Done(t)
  BY Counts, CountsNext, Closing, TypeSplit DEF WireT, Final, FinalKinds, Item, Done
<1>1. CASE shut
  <2>1. ResumeThread \/ ResumeSession
    BY <1>1, Closing DEF RouteExit
  <2>2. inbound' = <<>> /\ notifications' = <<>>
    BY <2>1 DEF ResumeThread, ResumeSession, Resume, Discarded
  <2>3. Noted(t)' = 0
    BY <2>2, OccEmpty DEF Noted
  <2> QED BY <1>0, <2>2, <2>3, ClosesEmpty
<1>2. CASE ~shut
  <2>0. /\ Closes(inbound, Final(t), Item(t)) /\ Closes(notifications, Done(t), Item(t))
        /\ Noted(t) > 0 => Arriving(t) = 0
    BY <1>2 DEF OrderInv
  <2>t. /\ Working(t) > 0 => Reported(t) = 0 /\ Noted(t) = 0
    BY Counts DEF TokenInv, Tokens
  <2>n. Done(t) \cap Item(t) = {} /\ Final(t) \cap Item(t) = {}
    BY DEF Done, Item, Final, FinalKinds
  <2>h. ASSUME inbound # <<>>, Head(inbound) \in Done(t)
        PROVE  Head(inbound) \in Final(t)
    <3>1. protocol # "acp"
      BY <2>h, Heads DEF Done, AcpLineType
    <3> QED BY <2>h, <3>1 DEF Done, Final, FinalKinds
  <2>1. Closes(inbound', Final(t), Item(t))
    <3>1. CASE inbound' \in {inbound, <<>>}
      BY <2>0, <3>1, ClosesEmpty
    <3>2. CASE inbound # <<>> /\ inbound' = Tail(inbound)
      BY <1>0, <2>0, <3>2, ClosesTail
    <3>3. ASSUME NEW line \in LineType, inbound' = Append(inbound, line),
                 line \in Item(t) => Working(t) > 0
          PROVE  Closes(inbound', Final(t), Item(t))
      <4>1. ASSUME line \in Item(t)
            PROVE  line \notin Final(t) /\ \A i \in 1..Len(inbound) : inbound[i] \notin Final(t)
        BY <1>0, <2>t, <2>n, <3>3, <4>1, OccNat DEF Reported
      <4> QED BY <1>0, <2>0, <3>3, <4>1, ClosesAppend
    <3> QED BY <3>1, <3>2, <3>3, InboundMoves
  <2>2. Closes(notifications', Done(t), Item(t))
    <3>1. CASE notifications' \in {notifications, <<>>}
      BY <2>0, <3>1, ClosesEmpty
    <3>2. CASE notifications # <<>> /\ notifications' = Tail(notifications)
      BY <1>0, <2>0, <3>2, ClosesTail
    <3>3. ASSUME inbound # <<>>, Head(inbound).kind \in {"item", "completed", "withdrawn"},
                 notifications' = Append(notifications, Head(inbound))
          PROVE  Closes(notifications', Done(t), Item(t))
      <4>1. Head(inbound) \in NoteType
        BY <3>3, Heads DEF LineType, NoteType
      <4>2. ASSUME Head(inbound) \in Item(t)
            PROVE  /\ Head(inbound) \notin Done(t)
                   /\ \A i \in 1..Len(notifications) : notifications[i] \notin Done(t)
        <5>1. Arriving(t) # 0
          <6>1. Occ(inbound, Item(t)) = Occ(Tail(inbound), Item(t)) + 1
            BY <1>0, <3>3, <4>2, OccTail
          <6>2. Occ(Tail(inbound), Item(t)) \in Nat
            BY <3>3, Heads, OccNat
          <6> QED BY <6>1, <6>2 DEF Arriving
        <5>2. Noted(t) = 0
          BY <1>0, <2>0, <5>1
        <5> QED BY <1>0, <2>n, <4>2, <5>2, OccNat DEF Noted
      <4> QED BY <1>0, <2>0, <3>3, <4>1, <4>2, ClosesAppend
    <3> QED BY <3>1, <3>2, <3>3, NotesMove
  <2>3. ASSUME Noted(t)' > 0
        PROVE  Arriving(t)' = 0
    <3>1. Arriving(t) = 0
      <4>1. CASE Noted(t) > 0
        BY <2>0, <4>1
      <4>2. CASE Noted(t) = 0
        <5>1. notifications' # notifications
          BY <2>3, <4>2 DEF Noted
        <5>2. notifications' # <<>>
          BY <2>3, OccEmpty DEF Noted
        <5>3. ASSUME notifications # <<>>, notifications' = Tail(notifications)
              PROVE  FALSE
          <6>1. Noted(t)' <= Noted(t)
            BY <1>0, <5>3, NotePopped
          <6> QED BY <1>0, <2>3, <4>2, <6>1
        <5>4. /\ inbound # <<>> /\ Head(inbound).kind \in {"item", "completed", "withdrawn"}
              /\ notifications' = Append(notifications, Head(inbound))
          BY <5>1, <5>2, <5>3, NotesMove
        <5>5. Head(inbound).kind = "completed" /\ Head(inbound).of = t
          BY <2>3, <4>2, <5>4, NotePushed
        <5>6. Head(inbound) \in Done(t)
          BY <5>4, <5>5, Heads DEF LineType, Done
        <5> QED BY <1>2, <2>h, <5>4, <5>6, NothingBehind
      <4> QED BY <1>0, <4>1, <4>2
    <3>2. ~Sends(t)
      <4> SUFFICES ASSUME Sends(t) PROVE FALSE
        OBVIOUS
      <4>1. Noted(t) = 0 /\ notifications' = notifications
        BY <2>t DEF Sends, Produce
      <4> QED BY <2>3, <4>1 DEF Noted
    <3> QED BY <1>0, <3>1, <3>2, ItemsMove DEF Kept, Anew
  <2> QED BY <1>0, <2>1, <2>2, <2>3
<1> QED BY <1>1, <1>2

LEMMA NotWorking ==
  ASSUME TInv, NEW t \in Turns, Tokens(t) = 0
  PROVE  Working(t) = 0
  BY Counts DEF Tokens

LEMMA AnsweredStep ==
  ASSUME TInv, TInv', TokenInv, ClosedInv, OrderInv, AnsweredInv, [Next]_vars
  PROVE  AnsweredInv'
<1> SUFFICES ASSUME NEW t \in Turns, protocol' = "acp", call'[t].pc = "resolved"
             PROVE  Tokens(t)' = 0 /\ Arriving(t)' = 0
  BY DEF AnsweredInv, Answered
<1>0. /\ protocol = "acp" /\ Tokens(t) \in Nat /\ Tokens(t)' \in Nat /\ Tokens(t) <= 1
      /\ Arriving(t) \in Nat /\ Arriving(t)' \in Nat
      /\ Tokens(t) = 0 => Working(t) = 0
  BY Closing, Counts, CountsNext, NotWorking DEF TokenInv
<1>1. CASE call[t].pc = "resolved"
  <2>1. Tokens(t) = 0 /\ Arriving(t) = 0
    BY <1>0, <1>1 DEF AnsweredInv, Answered
  <2>2. Tokens(t)' = 0
    BY <1>0, <1>1, <2>1, TokensFall DEF Request
  <2> QED BY <1>0, <2>1, <2>2, ItemsMove DEF Kept, Sends, Anew
<1>2. CASE call[t].pc # "resolved"
  <2>1. /\ t \in pending /\ RouteResponse /\ Head(inbound).kind = "ok" /\ Head(inbound).of = t
        /\ UNCHANGED <<protocol, codexVars>>
    BY <1>2, CallMoves DEF Moved
  <2>2. Tokens(t)' = 0
    BY <1>0, <2>1, Heard DEF FinalKinds
  <2>3. ~shut /\ inbound # <<>> /\ inbound' = Tail(inbound)
    BY <2>1 DEF ClosedInv, RouteResponse, Routing
  <2>4. Head(inbound) \in Final(t)
    BY <1>0, <2>1, <2>3, Heads DEF LineType, Final, FinalKinds
  <2>5. Arriving(t) = 0
    BY <2>3, <2>4, NothingBehind
  <2>6. Arriving(t) = Arriving(t)'
    BY <2>1, <2>3, LineRouted
  <2> QED BY <2>2, <2>5, <2>6
<1> QED BY <1>1, <1>2

LEMMA SentStep ==
  ASSUME TInv, TInv', TokenInv, ClosedInv, SentInv, [Next]_vars
  PROVE  SentInv'
<1> SUFFICES ASSUME NEW t \in Turns
             PROVE  /\ Unasked(t)' => sent'[t] = 0 /\ Flight(t)' = 0
                    /\ ~shut' /\ (Tokens(t)' > 0 \/ Answered(t)') => sent'[t] = Flight(t)'
  BY DEF SentInv
<1>0. /\ Tokens(t) \in Nat /\ Tokens(t)' \in Nat /\ Tokens(t) <= 1
      /\ Tokens(t) = 0 => Working(t) = 0
      /\ Flight(t) \in Nat /\ Flight(t)' \in Nat
      /\ sent[t] \in Nat
  BY Counts, CountsNext, NotWorking, TypeSplit, DriversAssumption DEF TokenInv, ChildT
<1>1. ASSUME Unasked(t)'
      PROVE  sent'[t] = 0 /\ Flight(t)' = 0
  <2>1. Unasked(t)
    BY <1>1, CallMoves DEF Moved, Unasked
  <2>2. sent[t] = 0 /\ Flight(t) = 0 /\ Working(t) = 0
    BY <1>0, <2>1 DEF SentInv, TokenInv
  <2> QED BY <1>0, <2>2, ItemsMove DEF Kept, Sends, Anew
<1>2. ASSUME ~shut', Tokens(t)' > 0 \/ Answered(t)'
      PROVE  sent'[t] = Flight(t)'
  <2>1. ~(ResumeThread \/ ResumeSession)
    <3> SUFFICES ASSUME ResumeThread \/ ResumeSession PROVE FALSE
      OBVIOUS
    <3>1. Tokens(t)' = 0
      BY Resumed
    <3>2. call'[t].pc # "resolved"
      BY DEF ResumeThread, ResumeSession, Resume, InFlight, InTurn
    <3> QED BY <1>2, <3>1, <3>2 DEF Answered
  <2>2. ~shut
    BY <1>2, <2>1, Closing DEF RouteExit
  <2>3. sent[t] = Flight(t)
    <3>1. CASE Tokens(t) > 0 \/ Answered(t)
      BY <2>2, <3>1 DEF SentInv
    <3>2. CASE Tokens(t)' > 0 /\ ~(Tokens(t) > 0)
      <4>1. Request(t)
        BY <1>0, <3>2, TokensFall
      <4>2. Unasked(t)
        BY <4>1 DEF Request, Unasked
      <4> QED BY <4>2 DEF SentInv
    <3>3. CASE Answered(t)' /\ ~Answered(t)
      <4>1. call'[t].pc = "resolved" /\ call[t].pc # "resolved" /\ protocol = "acp"
        BY <3>3, Closing DEF Answered
      <4>2. /\ RouteResponse /\ Head(inbound).kind = "ok" /\ Head(inbound).of = t
            /\ UNCHANGED <<protocol, codexVars>>
        BY <4>1, CallMoves DEF Moved
      <4>3. Tokens(t) > 0
        BY <1>0, <4>1, <4>2, Heard DEF FinalKinds
      <4> QED BY <2>2, <4>3 DEF SentInv
    <3> QED BY <1>2, <3>1, <3>2, <3>3
  <2> QED BY <1>0, <1>2, <2>1, <2>3, ItemsMove DEF Kept, Sends, Anew
<1> QED BY <1>1, <1>2

\* How outcomes are offered and taken.
LEMMA OutcomesMove ==
  ASSUME TInv, [Next]_vars
  PROVE  \/ outcomes' \in {outcomes, <<>>, Append(outcomes, Aborted)}
         \/ outcomes # <<>> /\ outcomes' = Tail(outcomes) /\ items' = items
         \/ FoldCompleted /\ outcomes' = Append(outcomes, Completed(Head(notifications).of))
<1>1. ASSUME NEW u \in Turns, TakeOutcome(u)
      PROVE  outcomes # <<>> /\ outcomes' = Tail(outcomes) /\ items' = items
  BY <1>1 DEF TakeOutcome
<1>2. ASSUME NEW u \in Turns, TakeUpdates(u) PROVE outcomes' = outcomes
  BY <1>2 DEF TakeUpdates, codexVars
<1>3. UNCHANGED <<protocol, codexVars>> => outcomes' = outcomes
  BY DEF codexVars
<1>4. FoldCompleted => outcomes' = Append(outcomes, Completed(Head(notifications).of))
  BY DEF FoldCompleted
<1>5. FoldEnds \/ Close => outcomes' \in {outcomes, Append(outcomes, Aborted)}
  BY DEF FoldEnds, Close
<1>6. ASSUME \/ FoldItem \/ FoldResolved \/ Collect \/ Mirror \/ ServeTurn \/ ServePrompt
             \/ ServeAnswer \/ Produce \/ FinishTurn \/ AnswerPrompt \/ StopSession
             \/ \E a \in Asks : AskOrWithdraw(a) \/ AnswerApproval(a)
             \/ UNCHANGED vars
      PROVE  outcomes' = outcomes
  BY <1>6 DEF FoldItem, FoldResolved, Collect, Mirror, ServeTurn, ServePrompt, ServeAnswer, Produce,
              FinishTurn, AnswerPrompt, StopSession, AskOrWithdraw, AnswerApproval, vars, codexVars
<1>7. ResumeThread \/ ResumeSession => outcomes' \in {outcomes, <<>>}
  BY DEF ResumeThread, ResumeSession, codexVars
<1> QED BY <1>1, <1>2, <1>3, <1>4, <1>5, <1>6, <1>7, Steps

\* An outcome that is offered is that of a turn which has nothing else on its way.
LEMMA OfferedIsLast ==
  ASSUME TInv, TokenInv, NEW i \in 1..Len(outcomes), outcomes[i].kind = "completed"
  PROVE  /\ outcomes[i].of \in Turns /\ outcomes[i].rows \in Seq(Row)
         /\ \A t \in Turns : t = outcomes[i].of => Offered(t) > 0 /\ Working(t) = 0
<1>1. outcomes \in Seq(OutcomeType) /\ outcomes[i] \in OutcomeType
  BY TypeSplit, ElementOfSeq DEF CodexT
<1>2. outcomes[i].of \in Turns /\ outcomes[i].rows \in Seq(Row)
  BY <1>1 DEF OutcomeType
<1>3. ASSUME NEW t \in Turns, t = outcomes[i].of
      PROVE  Offered(t) > 0 /\ Working(t) = 0
  <2>1. outcomes[i] \in Offer(t)
    BY <1>1, <1>2, <1>3 DEF OutcomeType, Offer
  <2>2. Offered(t) # 0 /\ Offered(t) \in Nat
    BY <1>1, <2>1, OccNat DEF Offered
  <2>3. Working(t) + Offered(t) <= 1
    BY SMTT(60), Counts DEF TokenInv, Tokens
  <2> QED BY SMTT(60), <2>2, <2>3, Counts
<1> QED BY <1>2, <1>3

LEMMA OfferStep ==
  ASSUME TInv, TInv', TokenInv, OrderInv, SentInv, OfferInv, [Next]_vars
  PROVE  OfferInv'
<1>0. outcomes \in Seq(OutcomeType) /\ Len(outcomes) \in Nat
  BY TypeSplit, LenProperties DEF CodexT
<1>1. ASSUME NEW i \in 1..Len(outcomes), outcomes[i].kind = "completed"
      PROVE  Occ(outcomes[i].rows, Item(outcomes[i].of)) = sent'[outcomes[i].of]
  <2>2. PICK t \in Turns : t = outcomes[i].of
    BY <1>1, OfferedIsLast
  <2>3. Working(t) = 0
    BY <1>1, <2>2, OfferedIsLast
  <2>4. sent'[t] = sent[t]
    BY <2>3, ItemsMove DEF Kept, Sends, Anew
  <2> QED BY <1>1, <2>2, <2>4 DEF OfferInv
<1>2. CASE outcomes' \in {outcomes, <<>>}
  <2>1. outcomes' = <<>> => Len(outcomes') = 0
    OBVIOUS
  <2> QED BY <1>1, <1>2, <2>1 DEF OfferInv
<1>3. CASE outcomes' = Append(outcomes, Aborted)
  <2>1. Aborted \in OutcomeType /\ Aborted.kind # "completed"
    BY DEF Aborted, OutcomeType
  <2> HIDE DEF Aborted
  <2>2. /\ Len(outcomes') = Len(outcomes) + 1
        /\ \A i \in 1..Len(outcomes) : outcomes'[i] = outcomes[i]
        /\ outcomes'[Len(outcomes) + 1] = Aborted
    BY <1>0, <1>3, <2>1, AppendProperties
  <2> QED BY <1>0, <1>1, <2>1, <2>2 DEF OfferInv
<1>4. CASE outcomes # <<>> /\ outcomes' = Tail(outcomes)
  <2>1. /\ Len(outcomes') = Len(outcomes) - 1
        /\ \A i \in 1..Len(outcomes') : outcomes'[i] = outcomes[i + 1]
    BY <1>0, <1>4, HeadTailProperties
  <2>2. \A i \in 1..Len(outcomes') : i + 1 \in 1..Len(outcomes)
    BY <1>0, <2>1
  <2> QED BY <1>1, <2>1, <2>2 DEF OfferInv
<1>5. CASE FoldCompleted /\ outcomes' = Append(outcomes, Completed(Head(notifications).of))
  <2>1. PICK t \in Turns : t = Head(notifications).of
    BY <1>5, Heads DEF FoldCompleted, Folding, NoteType
  <2>2. /\ notifications # <<>> /\ Head(notifications).kind = "completed" /\ ~shut
        /\ notifications' = Tail(notifications) /\ notifications \in Seq(NoteType)
        /\ sent' = sent
    BY <1>5, TypeSplit DEF FoldCompleted, Folding, child, WireT
  <2>3. Head(notifications) \in Done(t)
    BY <2>1, <2>2, Heads DEF NoteType, Done
  <2>4. Noted(t) > 0
    <3>1. Noted(t) = Noted(t)' + 1
      BY <2>1, <2>2, NotePopped
    <3> QED BY <3>1, CountsNext
  <2>5. Arriving(t) = 0 /\ Waiting(t) = 0
    <3>1. \A i \in 1..Len(notifications) : notifications[i] \notin Item(t)
      BY <2>2, <2>3, ClosesTail DEF OrderInv
    <3>2. Waiting(t) = 0
      BY <2>2, <3>1, OccNat DEF Waiting
    <3> QED BY <2>2, <2>4, <3>2 DEF OrderInv
  <2>6. sent[t] = Flight(t)
    <3>1. Tokens(t) > 0
      BY <2>4, Counts DEF Tokens
    <3> QED BY <2>2, <3>1 DEF SentInv
  <2>7. Occ(items, Item(t)) = sent[t]
    BY <2>5, <2>6, Counts DEF Flight, Arrived
  <2> DEFINE o == Completed(t)
  <2>8. o \in OutcomeType /\ o.of = t /\ o.rows = items
    BY TypeSplit DEF Completed, OutcomeType, SessionT
  <2>9. outcomes' = Append(outcomes, o)
    BY <1>5, <2>1
  <2> HIDE DEF o
  <2>10. /\ Len(outcomes') = Len(outcomes) + 1
         /\ \A i \in 1..Len(outcomes) : outcomes'[i] = outcomes[i]
         /\ outcomes'[Len(outcomes) + 1] = o
    BY <1>0, <2>8, <2>9, AppendProperties
  <2> QED BY <1>0, <1>1, <2>2, <2>7, <2>8, <2>10 DEF OfferInv
<1> QED BY <1>2, <1>3, <1>4, <1>5, OutcomesMove

LEMMA GotStep ==
  ASSUME TInv, TInv', TokenInv, AnsweredInv, SentInv, OfferInv, GotInv, [Next]_vars
  PROVE  GotInv'
<1> SUFFICES ASSUME NEW t \in Turns, call'[t].got = t
             PROVE  /\ call'[t].pc \in {"persist", "returned", "interrupted"}
                    /\ Tokens(t)' = 0
                    /\ Occ(call'[t].rows, Item(t)) = sent'[t]
  BY DEF GotInv, Item
<1>0. /\ Tokens(t) \in Nat /\ Tokens(t)' \in Nat /\ Tokens(t) <= 1
      /\ Tokens(t) = 0 => Working(t) = 0
      /\ Arriving(t) \in Nat /\ Waiting(t) \in Nat /\ Arrived(t) \in Nat
      /\ Arriving(t)' \in Nat /\ Waiting(t)' \in Nat /\ Arrived(t)' \in Nat
  BY Counts, CountsNext, NotWorking DEF TokenInv
<1>1. CASE call[t].got = t
  <2>1. /\ call[t].pc \in {"persist", "returned", "interrupted"} /\ Tokens(t) = 0
        /\ Occ(call[t].rows, Item(t)) = sent[t]
    BY <1>1 DEF GotInv
  <2>2. call'[t].pc \in {"persist", "returned", "interrupted"} /\ call'[t].rows = call[t].rows
    BY <2>1, CallMoves DEF Moved
  <2>3. Tokens(t)' = 0
    BY <1>0, <2>1, TokensFall DEF Request
  <2>4. sent'[t] = sent[t]
    BY <1>0, <2>1, ItemsMove DEF Kept, Sends, Anew
  <2> QED BY <2>1, <2>2, <2>3, <2>4
<1>2. CASE TakeUpdates(t) /\ ~shut /\ call[t].pc = "resolved" /\ call'[t].pc = "persist"
           /\ call'[t].rows = items'
  <2>1. Tokens(t) = 0 /\ Arriving(t) = 0 /\ sent[t] = Flight(t)
    BY <1>2 DEF AnsweredInv, Answered, SentInv, TakeUpdates, Acp
  <2>2. notifications' = <<>> /\ shut' = shut /\ sent' = sent
    BY <1>2 DEF TakeUpdates, child
  <2>3. Waiting(t)' = 0
    BY <2>2, OccEmpty DEF Waiting
  <2>4. ~(ResumeThread \/ ResumeSession)
    BY <1>2 DEF ResumeThread, ResumeSession, Resume, InFlight, InTurn
  <2>5. Flight(t)' = Flight(t) /\ Arriving(t)' <= Arriving(t)
    BY <1>0, <1>2, <2>1, <2>2, <2>4, ItemsMove DEF Kept, Sends, Anew
  <2>6. Arrived(t)' = sent'[t]
    BY <1>0, <2>1, <2>2, <2>3, <2>5 DEF Flight
  <2>7. Tokens(t)' = 0
    BY <1>0, <1>2, <2>1, TokensFall DEF Request
  <2> QED BY <1>2, <2>6, <2>7 DEF Arrived, Item
<1>3. CASE TakeOutcome(t) /\ Head(outcomes).kind = "completed" /\ Head(outcomes).of = t
           /\ call'[t].pc = "persist" /\ call'[t].rows = Head(outcomes).rows
  <2>1. Tokens(t)' = 0
    BY <1>0, <1>3, Taken
  <2>2. outcomes \in Seq(OutcomeType) /\ outcomes # <<>> /\ sent' = sent
    BY <1>3, TypeSplit DEF TakeOutcome, child, CodexT
  <2>3. Head(outcomes) = outcomes[1] /\ 1 \in 1..Len(outcomes)
    BY <2>2, EmptySeq, LenProperties, HeadTailProperties
  <2>4. Occ(Head(outcomes).rows, Item(t)) = sent[t]
    BY <1>3, <2>3 DEF OfferInv
  <2> QED BY <1>3, <2>1, <2>2, <2>4
<1> QED BY <1>1, <1>2, <1>3, CallMoves DEF Moved

-----------------------------------------------------------------------------
(* Rows only grow.                                                         *)

LEMMA PrefixIs ==
  ASSUME NEW S, NEW s \in Seq(S), NEW r \in Seq(S)
  PROVE  IsPrefix(s, r) <=> Len(s) <= Len(r) /\ \A i \in 1..Len(s) : r[i] = s[i]
<1>1. Len(s) \in Nat /\ Len(r) \in Nat /\ \A i \in 1..Len(r) : r[i] \in S
  BY LenProperties, ElementOfSeq
<1>2. ASSUME Len(s) <= Len(r)
      PROVE  SubSeq(r, 1, Len(s)) = s <=> \A i \in 1..Len(s) : r[i] = s[i]
  <2>1. \A i \in 1..Len(s) : r[i] \in S
    BY <1>1, <1>2
  <2>2. /\ SubSeq(r, 1, Len(s)) \in Seq(S)
        /\ Len(SubSeq(r, 1, Len(s))) = IF 1 <= Len(s) THEN Len(s) - 1 + 1 ELSE 0
        /\ \A i \in 1..(Len(s) - 1 + 1) : SubSeq(r, 1, Len(s))[i] = r[1 + i - 1]
    BY <1>1, <2>1, SubSeqProperties
  <2>3. Len(SubSeq(r, 1, Len(s))) = Len(s)
    BY <1>1, <2>2
  <2>4. \A i \in 1..Len(s) : SubSeq(r, 1, Len(s))[i] = r[i]
    BY <1>1, <2>2
  <2>5. SubSeq(r, 1, Len(s)) = s <=> \A i \in 1..Len(s) : SubSeq(r, 1, Len(s))[i] = s[i]
    BY <2>2, <2>3, SeqEqual
  <2> QED BY <2>4, <2>5
<1> QED BY <1>2 DEF IsPrefix

LEMMA PrefixRefl ==
  ASSUME NEW S, NEW s \in Seq(S)
  PROVE  IsPrefix(s, s)
  BY PrefixIs, LenProperties

LEMMA PrefixTrans ==
  ASSUME NEW S, NEW s \in Seq(S), NEW r \in Seq(S), NEW q \in Seq(S), IsPrefix(s, r), IsPrefix(r, q)
  PROVE  IsPrefix(s, q)
<1>1. Len(s) <= Len(r) /\ \A i \in 1..Len(s) : r[i] = s[i]
  BY PrefixIs
<1>2. Len(r) <= Len(q) /\ \A i \in 1..Len(r) : q[i] = r[i]
  BY PrefixIs
<1>3. Len(s) \in Nat /\ Len(r) \in Nat /\ Len(q) \in Nat
  BY LenProperties
<1>4. Len(s) <= Len(q) /\ \A i \in 1..Len(s) : q[i] = s[i]
  BY <1>1, <1>2, <1>3
<1> QED BY <1>4, PrefixIs

LEMMA PrefixConcat ==
  ASSUME NEW S, NEW s \in Seq(S), NEW r \in Seq(S)
  PROVE  IsPrefix(s, s \o r) /\ s \o r \in Seq(S)
<1>1. /\ Len(s) \in Nat /\ Len(r) \in Nat /\ s \o r \in Seq(S) /\ Len(s \o r) = Len(s) + Len(r)
      /\ \A i \in 1..(Len(s) + Len(r)) : (s \o r)[i] = IF i <= Len(s) THEN s[i] ELSE r[i - Len(s)]
  BY LenProperties, ConcatProperties
<1>2. Len(s) <= Len(s \o r) /\ \A i \in 1..Len(s) : (s \o r)[i] = s[i]
  BY <1>1
<1> QED BY <1>1, <1>2, PrefixIs

LEMMA OfferRows ==
  ASSUME NEW o \in OutcomeType, o.kind = "completed"
  PROVE  o.rows \in Seq(Row)
  BY DEF OutcomeType

LEMMA BehindTail ==
  ASSUME NEW q \in Seq(OutcomeType), q # <<>>, NEW r, Behind(r, q)
  PROVE  Behind(r, Tail(q)) /\ (Head(q).kind = "completed" => IsPrefix(r, Head(q).rows))
<1>1. /\ Len(q) \in Nat \ {0} /\ Len(Tail(q)) = Len(q) - 1 /\ Head(q) = q[1]
      /\ \A i \in 1..Len(Tail(q)) : Tail(q)[i] = q[i + 1]
  BY EmptySeq, LenProperties, HeadTailProperties
<1>2. \A i \in 1..Len(Tail(q)) : i + 1 \in 1..Len(q)
  BY <1>1
<1> QED BY <1>1, <1>2 DEF Behind

LEMMA BehindAppend ==
  ASSUME NEW q \in Seq(OutcomeType), NEW o \in OutcomeType, NEW r, Behind(r, q),
         o.kind = "completed" => IsPrefix(r, o.rows)
  PROVE  Behind(r, Append(q, o))
<1>1. /\ Len(q) \in Nat /\ Len(Append(q, o)) = Len(q) + 1
      /\ \A i \in 1..Len(q) : Append(q, o)[i] = q[i]
      /\ Append(q, o)[Len(q) + 1] = o
  BY LenProperties, AppendProperties
<1> QED BY <1>1 DEF Behind

LEMMA OrderedTail ==
  ASSUME NEW q \in Seq(OutcomeType), q # <<>>, NEW rows, Ordered(q, rows)
  PROVE  /\ Ordered(Tail(q), rows)
         /\ Head(q).kind = "completed" =>
              IsPrefix(Head(q).rows, rows) /\ Behind(Head(q).rows, Tail(q))
<1>1. /\ Len(q) \in Nat \ {0} /\ Len(Tail(q)) = Len(q) - 1 /\ Head(q) = q[1]
      /\ \A i \in 1..Len(Tail(q)) : Tail(q)[i] = q[i + 1]
  BY EmptySeq, LenProperties, HeadTailProperties
<1>2. ASSUME NEW i \in 1..Len(Tail(q)), Tail(q)[i].kind = "completed"
      PROVE  /\ IsPrefix(Tail(q)[i].rows, rows)
             /\ \A j \in (i + 1)..Len(Tail(q)) :
                  Tail(q)[j].kind = "completed" => IsPrefix(Tail(q)[i].rows, Tail(q)[j].rows)
  <2>1. i + 1 \in 1..Len(q) /\ q[i + 1].kind = "completed"
    BY <1>1, <1>2
  <2>2. \A j \in (i + 1)..Len(Tail(q)) :
          j \in 1..Len(Tail(q)) /\ j + 1 \in ((i + 1) + 1)..Len(q)
    BY <1>1
  <2> QED BY <1>1, <2>1, <2>2 DEF Ordered
<1>3. ASSUME Head(q).kind = "completed"
      PROVE  IsPrefix(Head(q).rows, rows) /\ Behind(Head(q).rows, Tail(q))
  <2>1. \A i \in 1..Len(Tail(q)) : i + 1 \in (1 + 1)..Len(q)
    BY <1>1
  <2> QED BY <1>1, <1>3, <2>1 DEF Ordered, Behind
<1> QED BY <1>2, <1>3 DEF Ordered

LEMMA OrderedAppend ==
  ASSUME NEW q \in Seq(OutcomeType), NEW o \in OutcomeType, NEW rows \in Seq(Row), Ordered(q, rows),
         o.kind = "completed" => o.rows = rows
  PROVE  Ordered(Append(q, o), rows)
<1>1. /\ Len(q) \in Nat /\ Len(Append(q, o)) = Len(q) + 1
      /\ \A i \in 1..Len(q) : Append(q, o)[i] = q[i]
      /\ Append(q, o)[Len(q) + 1] = o
  BY LenProperties, AppendProperties
<1>2. IsPrefix(rows, rows)
  BY PrefixRefl
<1>3. ASSUME NEW i \in 1..Len(Append(q, o)), Append(q, o)[i].kind = "completed"
      PROVE  /\ IsPrefix(Append(q, o)[i].rows, rows)
             /\ \A j \in (i + 1)..Len(Append(q, o)) :
                  Append(q, o)[j].kind = "completed" =>
                    IsPrefix(Append(q, o)[i].rows, Append(q, o)[j].rows)
  <2>1. CASE i = Len(q) + 1
    BY <1>1, <1>2, <1>3, <2>1
  <2>2. CASE i \in 1..Len(q)
    <3>1. /\ IsPrefix(q[i].rows, rows)
          /\ \A j \in (i + 1)..Len(q) : q[j].kind = "completed" => IsPrefix(q[i].rows, q[j].rows)
      BY <1>1, <1>3, <2>2 DEF Ordered
    <3>2. \A j \in (i + 1)..(Len(q) + 1) : j \in (i + 1)..Len(q) \/ j = Len(q) + 1
      BY <1>1
    <3>3. \A j \in (i + 1)..Len(q) : j \in 1..Len(q)
      BY <1>1, <2>2
    <3> QED BY <1>1, <2>2, <3>1, <3>2, <3>3
  <2> QED BY <1>1, <2>1, <2>2
<1> QED BY <1>3 DEF Ordered

LEMMA OrderedGrow ==
  ASSUME NEW q \in Seq(OutcomeType), NEW rows \in Seq(Row), NEW more \in Seq(Row),
         Ordered(q, rows), IsPrefix(rows, more)
  PROVE  Ordered(q, more)
<1>1. ASSUME NEW i \in 1..Len(q), q[i].kind = "completed"
      PROVE  IsPrefix(q[i].rows, more)
  <2>1. q[i] \in OutcomeType
    BY ElementOfSeq
  <2>2. q[i].rows \in Seq(Row)
    BY <1>1, <2>1, OfferRows
  <2>3. IsPrefix(q[i].rows, rows)
    BY <1>1 DEF Ordered
  <2> QED BY <2>2, <2>3, PrefixTrans
<1> QED BY <1>1 DEF Ordered

LEMMA RowsMove ==
  ASSUME TInv, [Next]_vars
  PROVE  \/ items' = items
         \/ ResumeThread \/ ResumeSession
         \/ \E u \in Turns : BeginTurn(u, Prompt(u)) /\ items' = items \o Prompt(u)
         \/ \E u \in Turns : /\ TakeUpdates(u) /\ ~shut /\ protocol = "acp"
                             /\ items' = items \o Folded(notifications)
         \/ \E u \in Turns : protocol = "jsonrpc" /\ items' = items \o ItemRow(u)
<1>1. ASSUME NEW u \in Turns,
             TakeOutcome(u) \/ Request(u) \/ TurnFails(u) \/ Persist(u) \/ Submit(u)
      PROVE  items' = items
  BY <1>1 DEF TakeOutcome, Request, TurnFails, Persist, Submit
<1>2. ASSUME NEW u \in Turns, BeginTurn(u, Prompt(u))
      PROVE  items' = items \o Prompt(u)
  BY <1>2 DEF BeginTurn
<1>3. ASSUME NEW u \in Turns, TakeUpdates(u)
      PROVE  \/ items' = items
             \/ ~shut /\ protocol = "acp" /\ items' = items \o Folded(notifications)
  BY <1>3 DEF TakeUpdates, Acp
<1>4. ASSUME FoldItem
      PROVE  \E u \in Turns : protocol = "jsonrpc" /\ items' = items \o ItemRow(u)
  <2>1. PICK u \in Turns : u = Head(notifications).of
    BY <1>4, Heads DEF FoldItem, Folding, NoteType
  <2> QED BY <1>4, <2>1 DEF FoldItem, Folding, Codex
<1>5. ASSUME \/ RouteResponse \/ RouteRequest \/ RouteNotification \/ RouteExit \/ ChildDies \/ Reload
             \/ FoldCompleted \/ FoldResolved \/ FoldEnds \/ Collect \/ Mirror \/ ServeTurn
             \/ ServePrompt \/ ServeAnswer \/ Produce \/ FinishTurn \/ AnswerPrompt \/ StopSession
             \/ Close \/ \E a \in Asks : AskOrWithdraw(a) \/ AnswerApproval(a)
             \/ UNCHANGED vars
      PROVE  items' = items
  BY <1>5 DEF RouteResponse, RouteRequest, RouteNotification, RouteExit, ChildDies, Reload,
              FoldCompleted, FoldResolved, FoldEnds, Collect, Mirror, ServeTurn, ServePrompt,
              ServeAnswer, Produce, FinishTurn, AnswerPrompt, StopSession, Stop, Close, CloseScope,
              AskOrWithdraw, AnswerApproval, vars, baseVars
<1> QED BY <1>1, <1>2, <1>3, <1>4, <1>5, Steps

LEMMA RowTyped ==
  ASSUME NEW t \in Turns
  PROVE  ItemRow(t) \in Seq(Row)
<1>1. ASSUME NEW r \in Row PROVE <<r>> \in Seq(Row)
  OBVIOUS
<1>2. [kind |-> "item", of |-> t] \in Row
  BY DEF Row
<1> QED BY <1>1, <1>2 DEF ItemRow

\* The rows of a driver only grow.
LEMMA RowsGrow ==
  ASSUME TInv, [Next]_vars
  PROVE  ResumeThread \/ ResumeSession \/ (items' \in Seq(Row) /\ IsPrefix(items, items'))
<1>0. items \in Seq(Row)
  BY TypeSplit DEF SessionT
<1>1. ASSUME NEW r \in Seq(Row), items' = items \o r
      PROVE  items' \in Seq(Row) /\ IsPrefix(items, items')
  BY <1>0, <1>1, PrefixConcat
<1>2. protocol = "acp" => Folded(notifications) \in Seq(Row)
  BY FoldedIsSame, TypeSplit DEF ProtocolT, AcpQueues
<1>3. CASE items' = items
  BY <1>0, <1>3, PrefixRefl
<1>4. ASSUME NEW u \in Turns, items' = items \o Prompt(u) \/ items' = items \o ItemRow(u)
      PROVE  items' \in Seq(Row) /\ IsPrefix(items, items')
  <2>1. Prompt(u) \in Seq(Row) /\ ItemRow(u) \in Seq(Row)
    BY PromptTyped, RowTyped
  <2> QED BY <1>1, <1>4, <2>1
<1>5. CASE protocol = "acp" /\ items' = items \o Folded(notifications)
  BY <1>1, <1>2, <1>5
<1> QED BY <1>3, <1>4, <1>5, RowsMove

LEMMA StoredMoves ==
  ASSUME TInv, [Next]_vars
  PROVE  stored' = stored \/ \E t \in Turns : Persist(t)
<1>1. ASSUME NEW u \in Turns,
             \/ TakeOutcome(u) \/ TakeUpdates(u) \/ BeginTurn(u, Prompt(u)) \/ Request(u)
             \/ TurnFails(u) \/ Submit(u)
      PROVE  stored' = stored
  BY <1>1 DEF TakeOutcome, TakeUpdates, BeginTurn, Request, TurnFails, Submit
<1>2. ASSUME \/ RouteResponse \/ RouteRequest \/ RouteNotification \/ RouteExit \/ ChildDies \/ Reload
             \/ FoldItem \/ FoldCompleted \/ FoldResolved \/ FoldEnds \/ Collect \/ Mirror \/ ServeTurn
             \/ ServePrompt \/ ServeAnswer \/ Produce \/ FinishTurn \/ AnswerPrompt \/ StopSession
             \/ Close \/ ResumeThread \/ ResumeSession
             \/ \E a \in Asks : AskOrWithdraw(a) \/ AnswerApproval(a)
             \/ UNCHANGED vars
      PROVE  stored' = stored
  BY <1>2 DEF RouteResponse, RouteRequest, RouteNotification, RouteExit, ChildDies, Reload, FoldItem,
              FoldCompleted, FoldResolved, FoldEnds, Collect, Mirror, ServeTurn, ServePrompt,
              ServeAnswer, Produce, FinishTurn, AnswerPrompt, StopSession, Stop, Close, CloseScope,
              ResumeThread, ResumeSession, Resume, AskOrWithdraw, AnswerApproval, vars, baseVars
<1> QED BY <1>1, <1>2, Steps

LEMMA LifeMoves ==
  ASSUME TInv, [Next]_vars
  PROVE  life' = life \/ (life' = life + 1 /\ (ResumeThread \/ ResumeSession))
<1>1. ASSUME NEW u \in Turns,
             \/ TakeOutcome(u) \/ TakeUpdates(u) \/ BeginTurn(u, Prompt(u)) \/ Request(u)
             \/ TurnFails(u) \/ Persist(u) \/ Submit(u)
      PROVE  life' = life
  BY <1>1 DEF TakeOutcome, TakeUpdates, BeginTurn, Request, TurnFails, Persist, Submit, session
<1>2. ASSUME \/ RouteResponse \/ RouteRequest \/ RouteNotification \/ RouteExit \/ ChildDies \/ Reload
             \/ FoldItem \/ FoldCompleted \/ FoldResolved \/ FoldEnds \/ Collect \/ Mirror \/ ServeTurn
             \/ ServePrompt \/ ServeAnswer \/ Produce \/ FinishTurn \/ AnswerPrompt \/ StopSession
             \/ Close \/ \E a \in Asks : AskOrWithdraw(a) \/ AnswerApproval(a)
             \/ UNCHANGED vars
      PROVE  life' = life
  BY <1>2 DEF RouteResponse, RouteRequest, RouteNotification, RouteExit, ChildDies, Reload, FoldItem,
              FoldCompleted, FoldResolved, FoldEnds, Collect, Mirror, ServeTurn, ServePrompt,
              ServeAnswer, Produce, FinishTurn, AnswerPrompt, StopSession, Stop, Close, CloseScope,
              AskOrWithdraw, AnswerApproval, vars, baseVars, session
<1>3. ResumeThread \/ ResumeSession => life' = life + 1
  BY DEF ResumeThread, ResumeSession, Resume
<1> QED BY <1>1, <1>2, <1>3, Steps

LEMMA LaunchStep ==
  ASSUME TInv, TInv', OneTurn, TokenInv, LaunchInv, [Next]_vars
  PROVE  LaunchInv' /\ LaunchedOnlyGrows
<1>t. /\ items \in Seq(Row) /\ stored \in Seq(Row) /\ outcomes \in Seq(OutcomeType)
      /\ items' \in Seq(Row) /\ stored' \in Seq(Row) /\ outcomes' \in Seq(OutcomeType)
      /\ \A t \in Turns : call[t].rows \in Seq(Row)
      /\ life \in Nat \ {0} /\ life' \in Nat \ {0}
  <2>1. items \in Seq(Row) /\ stored \in Seq(Row) /\ outcomes \in Seq(OutcomeType) /\ life \in 1..MaxLives
    BY TypeSplit DEF SessionT, CodexT
  <2>2. /\ items' \in Seq(Row) /\ stored' \in Seq(Row) /\ outcomes' \in Seq(OutcomeType)
        /\ life' \in 1..MaxLives
    BY DEF TInv, TypeOK, BaseTypeOK, QueuesOK
  <2>3. \A t \in Turns : call[t] \in CallType
    BY TypeSplit DEF SessionT
  <2>4. \A t \in Turns : call[t].rows \in Seq(Row)
    BY <2>3 DEF CallType
  <2> QED BY <2>1, <2>2, <2>4, DriversAssumption
<1>0. ASSUME life = 1
      PROVE  /\ IsPrefix(stored, items) /\ Behind(stored, outcomes) /\ Ordered(outcomes, items)
             /\ \A t \in Turns : call[t].pc = "persist" =>
                  /\ IsPrefix(stored, call[t].rows) /\ IsPrefix(call[t].rows, items)
                  /\ Behind(call[t].rows, outcomes)
  BY <1>0 DEF LaunchInv
<1>g. LaunchedOnlyGrows
  <2>1. ASSUME NEW t \in Turns, Persist(t), life = 1
        PROVE  IsPrefix(stored, stored')
    BY <1>0, <2>1 DEF Persist, Replaced
  <2>2. stored' = stored => IsPrefix(stored, stored')
    BY <1>t, PrefixRefl
  <2> QED BY <2>1, <2>2, StoredMoves DEF LaunchedOnlyGrows
<1> SUFFICES ASSUME life' = 1 PROVE LaunchInv'
  BY <1>g DEF LaunchInv
<1>1. life = 1 /\ (ResumeThread \/ ResumeSession => FALSE)
  <2>1. ResumeThread \/ ResumeSession => life' = life + 1
    BY DEF ResumeThread, ResumeSession, Resume
  <2> QED BY <1>t, <2>1, LifeMoves
<1>2. IsPrefix(items, items')
  BY <1>1, RowsGrow
<1>q. ASSUME NEW r \in Seq(Row), IsPrefix(r, items), Behind(r, outcomes)
      PROVE  IsPrefix(r, items') /\ Behind(r, outcomes')
  <2>1. IsPrefix(r, items')
    BY <1>t, <1>2, <1>q, PrefixTrans
  <2>2. CASE outcomes' \in {outcomes, <<>>}
    BY <1>q, <2>1, <2>2 DEF Behind
  <2>3. CASE outcomes' = Append(outcomes, Aborted)
    <3>1. Aborted \in OutcomeType /\ Aborted.kind # "completed"
      BY DEF Aborted, OutcomeType
    <3> HIDE DEF Aborted
    <3> QED BY <1>t, <1>q, <2>1, <2>3, <3>1, BehindAppend
  <2>4. CASE outcomes # <<>> /\ outcomes' = Tail(outcomes)
    BY <1>t, <1>q, <2>1, <2>4, BehindTail
  <2>5. CASE FoldCompleted /\ outcomes' = Append(outcomes, Completed(Head(notifications).of))
    <3>1. PICK t \in Turns : t = Head(notifications).of
      BY <2>5, Heads DEF FoldCompleted, Folding, NoteType
    <3> DEFINE o == Completed(t)
    <3>2. o \in OutcomeType /\ o.rows = items /\ outcomes' = Append(outcomes, o)
      BY <1>t, <2>5, <3>1 DEF Completed, OutcomeType
    <3> HIDE DEF o
    <3> QED BY <1>t, <1>q, <2>1, <3>2, BehindAppend
  <2> QED BY <2>2, <2>3, <2>4, <2>5, OutcomesMove
<1>3. Ordered(outcomes', items')
  <2>0. Ordered(outcomes, items)
    BY <1>0, <1>1
  <2>1. Ordered(outcomes, items')
    BY <1>t, <1>2, <2>0, OrderedGrow
  <2>2. CASE outcomes' \in {outcomes, <<>>}
    BY <2>1, <2>2 DEF Ordered
  <2>3. CASE outcomes' = Append(outcomes, Aborted)
    <3>1. Aborted \in OutcomeType /\ Aborted.kind # "completed"
      BY DEF Aborted, OutcomeType
    <3> HIDE DEF Aborted
    <3> QED BY <1>t, <2>1, <2>3, <3>1, OrderedAppend
  <2>4. CASE outcomes # <<>> /\ outcomes' = Tail(outcomes)
    BY <1>t, <2>1, <2>4, OrderedTail
  <2>5. CASE FoldCompleted /\ outcomes' = Append(outcomes, Completed(Head(notifications).of))
    <3>1. PICK t \in Turns : t = Head(notifications).of
      BY <2>5, Heads DEF FoldCompleted, Folding, NoteType
    <3> DEFINE o == Completed(t)
    <3>2. o \in OutcomeType /\ o.rows = items /\ outcomes' = Append(outcomes, o)
      BY <1>t, <2>5, <3>1 DEF Completed, OutcomeType
    <3>3. items' = items
      BY <2>5 DEF FoldCompleted
    <3> HIDE DEF o
    <3> QED BY <1>t, <2>0, <3>2, <3>3, OrderedAppend
  <2> QED BY <2>2, <2>3, <2>4, <2>5, OutcomesMove
<1>4. IsPrefix(stored, items') /\ Behind(stored, outcomes')
  BY <1>t, <1>0, <1>1, <1>q
<1>5. ASSUME NEW t \in Turns, Persist(t)
      PROVE  LaunchInv'
  <2>1. /\ call[t].pc = "persist" /\ stored' = call[t].rows
        /\ call' = [call EXCEPT ![t].pc = "returned"]
    BY <1>5 DEF Persist, Replaced
  <2>2. IsPrefix(stored', items') /\ Behind(stored', outcomes')
    BY <1>t, <1>0, <1>1, <1>q, <2>1
  <2>3. \A u \in Turns : call'[u].pc # "persist"
    <3>1. \A u \in Turns \ {t} : call[u].pc # "persist"
      BY <2>1 DEF OneTurn, InTurn
    <3>2. call'[t].pc = "returned" /\ \A u \in Turns \ {t} : call'[u] = call[u]
      BY <2>1, Goes
    <3> QED BY <3>1, <3>2
  <2> QED BY <1>3, <2>2, <2>3 DEF LaunchInv
<1>6. ASSUME stored' = stored, NEW t \in Turns, call'[t].pc = "persist"
      PROVE  /\ IsPrefix(stored, call'[t].rows) /\ IsPrefix(call'[t].rows, items')
             /\ Behind(call'[t].rows, outcomes')
  <2>1. CASE call'[t] = call[t]
    BY <1>t, <1>0, <1>1, <1>6, <1>q, <2>1
  <2>2. CASE TakeUpdates(t) /\ call'[t].rows = items'
    <3>1. outcomes' = <<>>
      BY <2>2, TypeSplit DEF TakeUpdates, Acp, codexVars, ProtocolT, AcpQueues
    <3> QED BY <1>t, <1>4, <2>2, <3>1, PrefixRefl DEF Behind
  <2>3. CASE TakeOutcome(t) /\ Head(outcomes).kind = "completed"
             /\ call'[t].rows = Head(outcomes).rows
    <3>1. outcomes # <<>> /\ outcomes' = Tail(outcomes) /\ items' = items
      BY <2>3 DEF TakeOutcome
    <3> QED BY <1>t, <1>0, <1>1, <2>3, <3>1, BehindTail, OrderedTail
  <2> QED BY <1>6, <2>1, <2>2, <2>3, CallMoves DEF Moved
<1>7. stored' = stored => LaunchInv'
  BY <1>3, <1>4, <1>6 DEF LaunchInv
<1> QED BY <1>5, <1>7, StoredMoves

-----------------------------------------------------------------------------
(* Prompts come first.                                                     *)

LEMMA PromptStep ==
  ASSUME TInv, TInv', TokenInv, PromptInv, [Next]_vars
  PROVE  PromptInv'
<1> SUFFICES ASSUME protocol' = "acp", NEW t \in Turns,
                    \/ call'[t].pc \in {"made", "awaiting", "resolved"}
                    \/ Tokens(t)' > 0 \/ Arriving(t)' > 0 \/ Waiting(t)' > 0
             PROVE  Prompted(t)'
  BY DEF PromptInv
<1>t. /\ protocol = "acp" /\ items \in Seq(Row) /\ items' \in Seq(Row)
      /\ Tokens(t) \in Nat /\ Tokens(t)' \in Nat /\ Arriving(t) \in Nat /\ Waiting(t) \in Nat
      /\ Arriving(t)' \in Nat /\ Waiting(t)' \in Nat
  BY Closing, Counts, CountsNext DEF TInv, TypeOK, BaseTypeOK
<1>1. ~(ResumeThread \/ ResumeSession)
  <2> SUFFICES ASSUME ResumeThread \/ ResumeSession PROVE FALSE
    OBVIOUS
  <2>1. inbound' = <<>> /\ notifications' = <<>>
    BY DEF ResumeThread, ResumeSession, Resume, Discarded
  <2>2. Tokens(t)' = 0 /\ Arriving(t)' = 0 /\ Waiting(t)' = 0
    BY <2>1, Resumed, OccEmpty DEF Arriving, Waiting
  <2>3. call'[t].pc \notin {"made", "awaiting", "resolved"}
    BY DEF ResumeThread, ResumeSession, Resume, InFlight, InTurn
  <2> QED BY <2>2, <2>3
<1>2. ASSUME Prompted(t)
      PROVE  Prompted(t)'
  <2>1. Len(items) <= Len(items') /\ \A i \in 1..Len(items) : items'[i] = items[i]
    BY <1>t, <1>1, RowsGrow, PrefixIs
  <2>2. Len(items) \in Nat /\ Len(items') \in Nat
    BY <1>t, LenProperties
  <2> QED BY <1>2, <2>1, <2>2 DEF Prompted
<1>3. ASSUME BeginTurn(t, Prompt(t))
      PROVE  Prompted(t)'
  <2> DEFINE row == [kind |-> "prompt", of |-> t]
  <2>1. row \in Row /\ items' = items \o <<row>>
    BY <1>t, <1>3 DEF BeginTurn, Prompt, Row
  <2> HIDE DEF row
  <2>2. items' = Append(items, row)
    BY <1>t, <2>1, AppendIsConcat
  <2>3. Len(items') = Len(items) + 1 /\ items'[Len(items) + 1] = row /\ Len(items) \in Nat
    BY <1>t, <2>1, <2>2, LenProperties, AppendProperties
  <2>4. \E j \in 1..Len(items') : items'[j] = row
    BY <2>3
  <2> QED BY <2>4 DEF Prompted, row
<1>4. CASE Tokens(t)' > 0
  <2>1. Tokens(t) > 0 \/ call[t].pc = "made"
    BY <1>t, <1>4, TokensFall DEF Request
  <2> QED BY <1>t, <1>2, <2>1 DEF PromptInv
<1>5. CASE Arriving(t)' > 0 \/ Waiting(t)' > 0
  <2>1. Tokens(t) > 0 \/ Arriving(t) > 0 \/ Waiting(t) > 0
    <3>1. CASE Kept(t)
      BY <1>t, <1>5, <3>1 DEF Kept
    <3>2. CASE Sends(t)
      <4>1. Working(t) > 0
        BY <3>2 DEF Sends
      <4> QED BY <1>t, <4>1, NotWorking
    <3>3. CASE Anew(t)
      BY <1>1, <3>3 DEF Anew
    <3> QED BY <3>1, <3>2, <3>3, ItemsMove
  <2> QED BY <1>t, <1>2, <2>1 DEF PromptInv
<1>6. CASE call'[t].pc \in {"made", "awaiting", "resolved"}
  <2>1. CASE call[t].pc \in {"made", "awaiting", "resolved"}
    BY <1>t, <1>2, <2>1 DEF PromptInv
  <2>2. CASE call[t].pc \notin {"made", "awaiting", "resolved"}
    <3>1. BeginTurn(t, Prompt(t))
      BY <1>6, <2>2, CallMoves DEF Moved
    <3> QED BY <1>3, <3>1
  <2> QED BY <2>1, <2>2
<1> QED BY <1>4, <1>5, <1>6

LEMMA PromptFirstStep ==
  ASSUME TInv, PromptInv, PromptFirstInv, [Next]_vars
  PROVE  PromptFirstInv'
<1> SUFFICES ASSUME protocol' = "acp", NEW i \in DOMAIN items', items'[i].kind = "item"
             PROVE  \E j \in 1..(i - 1) : items'[j] = [kind |-> "prompt", of |-> items'[i].of]
  BY DEF PromptFirstInv, PromptFirst
<1>t. protocol = "acp" /\ items \in Seq(Row) /\ Len(items) \in Nat /\ DOMAIN items = 1..Len(items)
  BY Closing, TypeSplit, LenProperties DEF SessionT
<1>0. ASSUME NEW k \in 1..Len(items), items[k].kind = "item"
      PROVE  \E j \in 1..(k - 1) : items[j] = [kind |-> "prompt", of |-> items[k].of]
  BY <1>t, <1>0 DEF PromptFirstInv, PromptFirst
<1>1. CASE items' = items
  BY <1>t, <1>0, <1>1
<1>2. CASE ResumeThread \/ ResumeSession
  <2>1. items' = <<>>
    BY <1>2 DEF ResumeThread, ResumeSession, Resume
  <2> QED BY <2>1
<1>3. ASSUME NEW r \in Seq(Row), items' = items \o r,
             \A k \in 1..Len(r) : r[k].kind = "item" =>
               \E j \in 1..Len(items) : items[j] = [kind |-> "prompt", of |-> r[k].of]
      PROVE  \E j \in 1..(i - 1) : items'[j] = [kind |-> "prompt", of |-> items'[i].of]
  <2>1. /\ Len(r) \in Nat /\ items' \in Seq(Row) /\ Len(items') = Len(items) + Len(r)
        /\ \A k \in 1..(Len(items) + Len(r)) :
             items'[k] = IF k <= Len(items) THEN items[k] ELSE r[k - Len(items)]
    BY <1>t, <1>3, LenProperties, ConcatProperties
  <2>2. i \in 1..(Len(items) + Len(r))
    BY <2>1, LenProperties
  <2>3. CASE i <= Len(items)
    <3>1. i \in 1..Len(items) /\ items'[i] = items[i]
      BY <1>t, <2>1, <2>2, <2>3
    <3>2. PICK j \in 1..(i - 1) : items[j] = [kind |-> "prompt", of |-> items[i].of]
      BY <1>0, <3>1
    <3>3. items'[j] = items[j]
      BY <1>t, <2>1, <3>1, <3>2
    <3> QED BY <3>1, <3>2, <3>3
  <2>4. CASE i > Len(items)
    <3>1. i - Len(items) \in 1..Len(r) /\ items'[i] = r[i - Len(items)]
      BY <1>t, <2>1, <2>2, <2>4
    <3>2. PICK j \in 1..Len(items) : items[j] = [kind |-> "prompt", of |-> r[i - Len(items)].of]
      BY <1>3, <3>1
    <3>3. items'[j] = items[j] /\ j \in 1..(i - 1)
      BY <1>t, <2>1, <2>2, <2>4
    <3> QED BY <3>1, <3>2, <3>3
  <2> QED BY <1>t, <2>2, <2>3, <2>4
<1>4. ASSUME NEW u \in Turns, items' = items \o Prompt(u)
      PROVE  \E j \in 1..(i - 1) : items'[j] = [kind |-> "prompt", of |-> items'[i].of]
  <2>1. Prompt(u) \in Seq(Row) /\ \A k \in 1..Len(Prompt(u)) : Prompt(u)[k].kind # "item"
    BY <1>t, PromptTyped DEF Prompt
  <2> QED BY <1>3, <1>4, <2>1
<1>5. CASE items' = items \o Folded(notifications)
  <2>1. /\ notifications \in Seq(UpdateType) /\ Folded(notifications) = notifications
        /\ notifications \in Seq(Row)
    BY <1>t, FoldedIsSame, TypeSplit DEF ProtocolT, AcpQueues
  <2>2. ASSUME NEW k \in 1..Len(notifications)
        PROVE  \E j \in 1..Len(items) : items[j] = [kind |-> "prompt", of |-> notifications[k].of]
    <3>1. notifications[k] \in UpdateType
      BY <2>1, ElementOfSeq
    <3>2. PICK u \in Turns : u = notifications[k].of
      BY <3>1 DEF UpdateType
    <3>3. notifications[k] \in Item(u)
      BY <3>1, <3>2 DEF UpdateType, Item
    <3>4. Waiting(u) # 0 /\ Waiting(u) \in Nat
      BY <2>1, <3>3, OccNat DEF Waiting
    <3> QED BY <1>t, <3>2, <3>4 DEF PromptInv, Prompted
  <2> QED BY <1>3, <1>5, <2>1, <2>2
<1> QED BY <1>t, <1>1, <1>2, <1>4, <1>5, RowsMove

-----------------------------------------------------------------------------

RowsAllInv == TurnsInv /\ RowsInv /\ LaunchInv /\ PromptInv /\ PromptFirstInv

LEMMA RowsInit == Init => RowsAllInv
<1> SUFFICES ASSUME Init PROVE RowsAllInv
  OBVIOUS
<1>1. /\ stdin = <<>> /\ work = <<>> /\ inbound = <<>> /\ notifications = <<>> /\ outcomes = <<>>
      /\ items = <<>> /\ stored = <<>>
      /\ \A t \in Turns : sent[t] = 0 /\ call[t].pc = "idle" /\ call[t].got = Null
      /\ Null \notin Turns
  BY DriversAssumption DEF Init, BaseInit, NoCall
<1>2. \A t \in Turns : /\ Asked(t) = 0 /\ Working(t) = 0 /\ Reported(t) = 0 /\ Noted(t) = 0
                       /\ Offered(t) = 0
                       /\ Arriving(t) = 0 /\ Waiting(t) = 0 /\ Arrived(t) = 0
  BY <1>1, OccEmpty DEF Asked, Working, Reported, Noted, Offered, Arriving, Waiting, Arrived
<1>3. \A t \in Turns : Tokens(t) = 0 /\ Flight(t) = 0
  BY <1>2 DEF Tokens, Flight
<1>4. AnsweredInv /\ SentInv
  BY <1>1, <1>2, <1>3 DEF AnsweredInv, SentInv, Answered
<1>5. OrderInv
  BY <1>1, <1>2, ClosesEmpty DEF OrderInv
<1>6. OfferInv /\ GotInv
  BY <1>1 DEF OfferInv, GotInv
<1>7. LaunchInv
  <2>1. <<>> \in Seq(Row)
    BY EmptySeq
  <2>2. IsPrefix(stored, items)
    BY <1>1, <2>1, PrefixRefl
  <2> QED BY <1>1, <2>2 DEF LaunchInv, Behind, Ordered
<1>8. PromptInv
  BY <1>1, <1>2, <1>3 DEF PromptInv
<1>9. PromptFirstInv
  BY <1>1 DEF PromptFirstInv, PromptFirst
<1> QED BY <1>4, <1>5, <1>6, <1>7, <1>8, <1>9, TurnsInit DEF RowsAllInv, RowsInv

LEMMA RowsStep ==
  ASSUME RowsAllInv, [Next]_vars
  PROVE  RowsAllInv' /\ LaunchedOnlyGrows
<1>1. TurnsInv' /\ TInv /\ TInv' /\ TokenInv /\ ClosedInv /\ OneTurn
  BY TurnsStep DEF RowsAllInv, TurnsInv
<1>2. AnsweredInv' /\ OrderInv' /\ SentInv' /\ OfferInv' /\ GotInv'
  BY <1>1, AnsweredStep, OrderStep, SentStep, OfferStep, GotStep DEF RowsAllInv, RowsInv
<1>3. LaunchInv' /\ LaunchedOnlyGrows
  BY <1>1, LaunchStep DEF RowsAllInv
<1>4. PromptInv' /\ PromptFirstInv'
  BY <1>1, PromptStep, PromptFirstStep DEF RowsAllInv
<1> QED BY <1>1, <1>2, <1>3, <1>4 DEF RowsAllInv, RowsInv

LEMMA RowsComplete ==
  ASSUME TInv, GotInv
  PROVE  CompleteRows
<1> SUFFICES ASSUME NEW t \in Turns, call[t].got = t
             PROVE  Cardinality(ItemsOf(call[t].rows, t)) = sent[t]
  BY DEF CompleteRows
<1>1. call[t].rows \in Seq(Row)
  BY TypeSplit DEF SessionT, CallType
<1>2. ASSUME NEW r \in Row
      PROVE  r \in Item(t) <=> r = [kind |-> "item", of |-> t]
  BY DEF Row, Item
<1>3. ASSUME NEW rows \in Seq(Row)
      PROVE  ItemsOf(rows, t) = At(rows, Item(t))
  <2>1. DOMAIN rows = 1..Len(rows) /\ \A i \in 1..Len(rows) : rows[i] \in Row
    BY LenProperties, ElementOfSeq
  <2> QED BY <1>2, <2>1 DEF ItemsOf, At
<1> QED BY <1>1, <1>3 DEF GotInv, Occ

\* A turn that completed comes with every item of it, a Cursor update after its
\* prompt, and no turn of the launched driver drops an earlier row: in every
\* step, for every number of turns, items and lives.
THEOREM RowsStayWhole == Spec => RowsAreWhole
<1>1. Spec => []RowsAllInv
  BY RowsInit, RowsStep, PTL DEF Spec
<1>2. RowsAllInv => CompleteRows
  BY RowsComplete DEF RowsAllInv, TurnsInv, RowsInv
<1>3. ASSUME RowsAllInv, RowsAllInv', [Next]_vars
      PROVE  (protocol = "acp" => PromptFirst') /\ LaunchedOnlyGrows
  <2>1. LaunchedOnlyGrows
    BY <1>3, RowsStep
  <2>2. TInv /\ protocol' = protocol
    BY <1>3, Closing DEF RowsAllInv, TurnsInv
  <2>3. protocol = "acp" => PromptFirst'
    BY <1>3, <2>2 DEF RowsAllInv, PromptFirstInv
  <2> QED BY <2>1, <2>3
<1> QED BY <1>1, <1>2, <1>3, PTL DEF Spec, RowsAreWhole

=============================================================================
