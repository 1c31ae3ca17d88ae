----------------------------- MODULE DisplayOrder -----------------------------
(***************************************************************************)
(* When the messages and the tool calls of a session are said to have      *)
(* happened, which is the order its chat shows them in.  A transcript      *)
(* numbers both in one sequence; a tool call has no clock of its own, a    *)
(* Cursor message has none either, and the pieces of text that a tool call *)
(* cuts a Claude record in have that of the record.  Every projection      *)
(* works the times out again from the transcript and the rows of the       *)
(* projection before it.                                                   *)
(*                                                                         *)
(* A message is its role and text; times are milliseconds.                 *)
(***************************************************************************)
EXTENDS Integers, Sequences, FiniteSets, SequencesExt

CONSTANTS
  Texts,
  MaxItems,   \* bound: messages and tool calls of the transcript
  MaxPasses,  \* bound: projections
  Tick,       \* bound: the agent's pace; more than the tool calls between two records
  NoTime

Tool == "tool"

VARIABLES
  agent,      \* "claude" stamps its messages, "cursor" does not
  started,    \* the transcript's own start, or NoTime
  items,      \* [text, at]: the transcript; an item's ordinal is its place
  now,
  passes,
  occurredAt  \* the rows: their times by ordinal

vars == <<agent, started, items, now, passes, occurredAt>>

Messages == {i \in DOMAIN items : items[i].text # Tool}
Tools == DOMAIN items \ Messages

-----------------------------------------------------------------------------
(* One projection.                                                         *)

neighbourBefore(i) == {m \in Messages : m < i /\ \A k \in Messages : k < i => k <= m}
neighbourAfter(i) == {m \in Messages : m > i /\ \A k \in Messages : k > i => k >= m}

\* The rows are read in their display order and the first of a text counts.
indexedProjectedTime(m) ==
  LET alike == {k \in DOMAIN occurredAt : items[k].text = items[m].text}
  IN IF alike = {} THEN NoTime
     ELSE CHOOSE t \in {occurredAt[k] : k \in alike} : \A k \in alike : t <= occurredAt[k]

fallbackTime(i) == (IF started = NoTime THEN now ELSE started) + i

messageTime(m) == IF items[m].at # NoTime THEN items[m].at ELSE fallbackTime(m)

Anchor(m) == IF items[m].at # NoTime THEN items[m].at ELSE indexedProjectedTime(m)

Anchored(ms) == {m \in ms : Anchor(m) # NoTime}

\* A plausible bug: a tool call is put right after the message before it.
JustAfter(i) ==
  LET before == Anchored(neighbourBefore(i))
  IN IF before # {} THEN Anchor(CHOOSE m \in before : TRUE) + 1 ELSE fallbackTime(i)

artifactToolOccurredAt(i) ==
  LET before == Anchored(neighbourBefore(i))
      after == Anchored(neighbourAfter(i))
      From(m) == Anchor(m) + (i - m)
  IN IF before # {} THEN From(CHOOSE m \in before : TRUE)
     ELSE IF after # {} THEN From(CHOOSE m \in after : TRUE)
     ELSE fallbackTime(i)

Time(i) == IF i \in Tools THEN artifactToolOccurredAt(i) ELSE messageTime(i)

\* Only a Cursor session moves the rows it has.
Project ==
  /\ passes < MaxPasses
  /\ passes' = passes + 1
  /\ occurredAt' = [i \in DOMAIN items |->
                      IF i \in DOMAIN occurredAt /\ agent # "cursor" THEN occurredAt[i] ELSE Time(i)]
  /\ UNCHANGED <<agent, started, items, now>>

-----------------------------------------------------------------------------
(* The agent (external).                                                   *)

Init ==
  /\ agent \in {"claude", "cursor"}
  /\ now = Tick
  /\ started \in {Tick} \union (IF agent = "cursor" THEN {NoTime} ELSE {})
  /\ items = <<>>
  /\ passes = 0
  /\ occurredAt = <<>>

\* A record holds pieces of text and the tool calls between them.
Records == {<<t>> : t \in Texts \union {Tool}} \union {<<t, Tool>> : t \in Texts}
             \union {<<Tool, t>> : t \in Texts} \union {<<t, Tool, u>> : t, u \in Texts}

\* assistantTurn: each piece is a message, of Claude's with the clock of the record.
Emit(pieces) ==
  /\ Len(items) + Len(pieces) <= MaxItems
  /\ items' = items \o [i \in DOMAIN pieces |->
                 [text |-> pieces[i],
                  at |-> IF pieces[i] = Tool \/ agent = "cursor" THEN NoTime ELSE now]]
  /\ now' = now + Tick
  /\ UNCHANGED <<agent, started, passes, occurredAt>>

Next == Project \/ \E pieces \in Records : Emit(pieces)

Spec == Init /\ [][Next]_vars

-----------------------------------------------------------------------------
(* Properties.                                                             *)

InOrder == \A i, j \in DOMAIN occurredAt : i < j => occurredAt[i] < occurredAt[j]

\* Two pieces of text of one record, and the tool calls after each, share a clock.
Behind(i) == IF i \in Messages THEN {i} ELSE neighbourBefore(i)
OfOneClock(i, j) ==
  \E m \in Behind(i), n \in Behind(j) : m # n /\ items[m].at # NoTime /\ items[m].at = items[n].at

TextsDiffer == \A i, j \in Messages : i # j => items[i].text # items[j].text

\* "Messages and tool calls keep their interleaved order", after however many
\* projections of a transcript that grows between them: where the session has a
\* clock and no two of its messages read alike; and where messages carry one, but
\* for what shares the one clock of a record.
KeepsInterleaving ==
  /\ agent = "cursor" /\ started # NoTime /\ TextsDiffer => InOrder
  /\ agent = "claude" => \A i, j \in DOMAIN occurredAt :
       i < j /\ ~OfOneClock(i, j) => occurredAt[i] < occurredAt[j]

\* "The true display order is recovered by flushing the accumulated text+thinking
\* as its own message chunk at each tool boundary" (session-row-builder.ts:122): of a
\* Claude record as well.  The code does not keep this: see OfOneClock.
ChunksInterleave == agent = "claude" => InOrder

\* The same of every session with a clock, whatever its messages say.
AlwaysInterleaved == started # NoTime => InOrder
=============================================================================
