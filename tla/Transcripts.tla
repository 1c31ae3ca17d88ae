----------------------------- MODULE Transcripts -----------------------------
(***************************************************************************)
(* Reading a session's transcript (ingest/providers/claude.ts with         *)
(* claude-dag.ts, codex.ts, pi.ts) into rows (session-row-builder.ts), and *)
(* the rows into the chat (chat-message/artifact-projection.ts).           *)
(*                                                                         *)
(* The agent's CLI appends one record per line.  Claude's records form a   *)
(* tree: a record names its parent, a rewind continues from an older one,  *)
(* a compaction starts a new root, a subagent's first record has no parent *)
(* and a resumed session writes records again.  Codex and pi write a plain *)
(* stream.  A line cut short does not parse.                               *)
(*                                                                         *)
(* A record is known by its number, the body of a message by the record    *)
(* and the chunk of it that the message holds.                             *)
(***************************************************************************)
EXTENDS Integers, Sequences, SequencesExt, FiniteSetsExt

CONSTANTS
  Providers,  \* of "claude", "codex", "pi": whose transcript this may be
  KindsAt(_), \* bound: what the CLI may write as the n-th line
  UuidOf(_),  \* the uuid of the n-th record, in the order of strings
  MaxLines,   \* bound: lines of the file
  MaxCuts     \* bound: lines cut short

VARIABLES
  provider,
  lines,  \* the file: records, each whole or cut
  chat,   \* the artifact rows of the chat: dedup key -> body and status
  read    \* how many lines the last read saw

vars == <<provider, lines, chat, read>>

NoUuid == 0
Whole == SelectSeq(lines, LAMBDA l : l.whole)
UuidsOf(records) == {records[i].uuid : i \in DOMAIN records}

-----------------------------------------------------------------------------
(* Claude: the log of records to one conversation in order.                *)

\* A sidechain's first record hangs from the record before it.
rewriteSidechains(records) ==
  [i \in DOMAIN records |->
    IF records[i].side /\ records[i].parent = NoUuid /\ i > 1
    THEN [records[i] EXCEPT !.parent = records[i - 1].uuid] ELSE records[i]]

\* A stable sort: each record goes after the last that it does not come before.
SortedBy(records, ComesFirst(_, _)) ==
  LET insert(sorted, r) ==
        InsertAt(sorted, 1 + Max({0} \cup {i \in DOMAIN sorted : ~ComesFirst(r, sorted[i])}), r)
  IN FoldLeft(insert, <<>>, records)

\* Of the copies of a record the earliest counts.
dedupeByUuid(records) ==
  LET keep(kept, r) ==
        IF r.uuid \notin UuidsOf(kept) THEN Append(kept, r)
        ELSE [i \in DOMAIN kept |-> IF kept[i].uuid = r.uuid /\ r.time < kept[i].time THEN r ELSE kept[i]]
  IN SortedBy(FoldLeft(keep, <<>>, records), LAMBDA a, b : a.time < b.time)

\* A root, and after each record what hangs from it.
DagFrom(records, root) ==
  LET children(r) == SelectSeq(records, LAMBDA c : c.parent = r.uuid)
      dag[r \in ToSet(records)] ==
        <<r>> \o FlattenSeq([i \in DOMAIN children(r) |-> dag[children(r)[i]]])
  IN dag[root]

Roots(records) == SelectSeq(records, LAMBDA r : r.parent = NoUuid)

buildDags(records) ==
  [i \in DOMAIN Roots(records) |-> DagFrom(records, Roots(records)[i])]

\* The records of a file carry one session id: its dags are one session.
mergeBySessionId(dags) == FlattenSeq(dags)

\* The comparator of flattenDag: time, then parent before child, then uuid.
ComesBefore(a, b) ==
  \/ a.time < b.time
  \/ /\ a.time = b.time
     /\ a.parent # b.uuid
     /\ b.parent = a.uuid \/ a.uuid < b.uuid

\* (The comparator is not transitive: where three records share a time, which
\* of them the sort compares matters.)
flattenDag(records) == SortedBy(records, ComesBefore)

parseClaudeSessions(records) ==
  flattenDag(mergeBySessionId(buildDags(dedupeByUuid(rewriteSidechains(records)))))

-----------------------------------------------------------------------------
(* Records to rows.                                                        *)

Message(role, id, body) == <<[op |-> "message", role |-> role, id |-> id, body |-> body]>>
Tool(id) == <<[op |-> "tool", role |-> "tool", id |-> id, body |-> {}]>>
Result(id) == <<[op |-> "result", role |-> "tool", id |-> id, body |-> {}]>>

Said(r, chunks) == {<<r.uuid, k>> : k \in chunks}
RoleOf(r) == IF r.kind \in {"user", "meta", "recap"} THEN r.kind
             ELSE IF r.kind = "call" THEN "tool" ELSE "assistant"

\* What normalizeClaudeSession makes of a record.  A tool call cuts the text of
\* its record in two messages, both with the id of the record.
ClaudeSteps(r) ==
  CASE r.kind = "chrome" -> <<>>
    [] r.kind = "result" -> Result(r.of)
    [] r.kind = "call" -> Tool(r.uuid)
    [] r.kind = "mixed" -> Message("assistant", r.uuid, Said(r, {1}))
                             \o Tool(r.uuid) \o Message("assistant", r.uuid, Said(r, {2}))
    [] OTHER -> Message(RoleOf(r), r.uuid, Said(r, {1}))

\* normalizeCodexRecords: the messages of a rollout have no ids.
CodexSteps(r) ==
  CASE r.kind = "result" -> Result(r.of)
    [] r.kind = "call" -> Tool(r.uuid)
    [] r.kind \in {"user", "text"} -> Message(RoleOf(r), NoUuid, Said(r, {1}))
    [] OTHER -> <<>>

\* normalizePiRecords: the texts of a record are one message before its calls.
PiSteps(r) ==
  CASE r.kind = "result" -> Result(r.of)
    [] r.kind = "call" -> Tool(r.uuid)
    [] r.kind = "mixed" -> Message("assistant", r.uuid, Said(r, {1, 2})) \o Tool(r.uuid)
    [] r.kind \in {"user", "text"} -> Message(RoleOf(r), r.uuid, Said(r, {1}))
    [] OTHER -> <<>>

Steps(records) ==
  FlattenSeq([i \in DOMAIN records |->
    CASE provider = "claude" -> ClaudeSteps(records[i])
      [] provider = "codex" -> CodexSteps(records[i])
      [] provider = "pi" -> PiSteps(records[i])])

\* SessionRowBuilder: messages and tool calls in one order; a result goes to
\* the call it names, if that call has been seen.
Build(rows, step) ==
  IF step.op = "result"
  THEN LET calls == {i \in DOMAIN rows : rows[i].role = "tool" /\ rows[i].id = step.id}
       IN IF calls = {} THEN rows ELSE [rows EXCEPT ![Max(calls)].final = TRUE]
  ELSE Append(rows, [role |-> step.role, id |-> step.id, body |-> step.body,
                     final |-> step.op = "message"])

\* A message is known by its native id, or else by its place among the messages.
KeyOf(rows, i) ==
  <<rows[i].role,
    IF rows[i].id # NoUuid THEN rows[i].id
    ELSE -Cardinality({j \in 1..i : rows[j].role # "tool"})>>

\* projectArtifactSession: each row replaces the one with its key.
Projected(before, rows) ==
  FoldLeft(LAMBDA c, i : (KeyOf(rows, i) :> [body |-> rows[i].body, final |-> rows[i].final]) @@ c,
           before, [i \in DOMAIN rows |-> i])

-----------------------------------------------------------------------------

\* The CLI appends a record, at the time of the last or later.  A write that
\* fails leaves a part of the line, and the CLI goes on from that record.
WriteRecord(kind, parent, time, side, of, whole) ==
  /\ Len(lines) < MaxLines
  /\ lines' = Append(lines, [uuid |-> UuidOf(Len(lines) + 1), parent |-> parent, time |-> time,
                             side |-> side, kind |-> kind, of |-> of, whole |-> whole])
  /\ UNCHANGED <<provider, chat, read>>

LastTime == Max({1} \cup {lines[i].time : i \in DOMAIN lines})
Unanswered == {u \in {l.uuid : l \in {m \in ToSet(lines) : m.kind \in {"call", "mixed"}}} :
                 ~ \E l \in ToSet(lines) : l.of = u}

\* Whether the whole line reaches the file.
Wholes == IF Cardinality({i \in DOMAIN lines : ~lines[i].whole}) < MaxCuts THEN BOOLEAN ELSE {TRUE}

Write ==
  \E time \in {LastTime, LastTime + 1}, whole \in Wholes :
    \/ \E kind \in KindsAt(Len(lines) + 1), parent \in {NoUuid} \cup UuidsOf(lines), side \in BOOLEAN :
         /\ provider # "claude" => parent = NoUuid /\ ~side /\ kind \notin {"chrome", "meta", "recap"}
         /\ provider = "codex" => kind # "mixed"
         /\ side => parent = NoUuid
         /\ WriteRecord(kind, parent, time, side, NoUuid, whole)
    \/ \E of \in Unanswered :
         WriteRecord("result", IF provider = "claude" THEN of ELSE NoUuid, time, FALSE, of, whole)

\* A resumed Claude session writes a record again.
Rewrite ==
  /\ provider = "claude"
  /\ Len(lines) < MaxLines
  /\ \E i \in DOMAIN lines :
       /\ lines[i].whole
       /\ lines' = Append(lines, [lines[i] EXCEPT !.time = LastTime])
  /\ UNCHANGED <<provider, chat, read>>

\* Some ingest reads the whole file and projects the session.
Read ==
  /\ read # Len(lines)
  /\ read' = Len(lines)
  /\ LET records == IF provider = "claude" THEN parseClaudeSessions(Whole) ELSE Whole
     IN chat' = Projected(chat, FoldLeft(Build, <<>>, Steps(records)))
  /\ UNCHANGED <<provider, lines>>

Init ==
  /\ provider \in Providers
  /\ lines = <<>>
  /\ chat = <<>>
  /\ read = 0

Next == Write \/ Rewrite \/ Read
Spec == Init /\ [][Next]_vars

-----------------------------------------------------------------------------

Fresh == read = Len(lines)
Shown(r) == r.kind \notin {"chrome", "result"}

\* The records that parsed and hang, through records that parsed, from one that
\* has no parent; a plain stream has no parents.
Reached ==
  LET before(i, u) == {j \in 1..(i - 1) : Whole[j].uuid = u}
      reached[i \in DOMAIN Whole] ==
        LET r == Whole[i] IN
        IF before(i, r.uuid) # {} THEN reached[Min(before(i, r.uuid))]
        ELSE IF r.parent # NoUuid THEN \E j \in before(i, r.parent) : reached[j]
        ELSE r.side /\ i > 1 => reached[i - 1]
  IN {Whole[i] : i \in {j \in DOMAIN Whole : provider = "claude" => reached[j]}}
Answered(u) == \E r \in Reached : r.of = u

\* Once a file is read, however it was rewound, resumed and cut, the chat has a
\* bubble for each record that parsed, a card for each call, settled if the file
\* has the result, and nothing else.  jsonl.ts:24: "Corrupt lines are collected
\* as parseErrors rather than failing the read, so partial extraction succeeds".
\* Of Claude's tree buildDags drops what a cut line separates from its root, and
\* no more than that.
FileIsShown ==
  Fresh =>
    /\ Cardinality(DOMAIN chat) = Cardinality(
         {<<RoleOf(r), r.uuid>> : r \in {s \in Reached : Shown(s)}}
           \cup {<<"tool", r.uuid>> : r \in {s \in Reached : s.kind = "mixed"}})
    /\ \A r \in Reached :
         /\ Shown(r) /\ r.kind # "call" => \E k \in DOMAIN chat :
              k[1] = RoleOf(r) /\ chat[k].body \subseteq Said(r, {1, 2}) /\ chat[k].body # {}
         /\ r.kind \in {"call", "mixed"} =>
              <<"tool", r.uuid>> \in DOMAIN chat
                /\ (chat[<<"tool", r.uuid>>].final <=> Answered(r.uuid))

\* Each piece of an assistant's text is in some bubble.  session-row-builder.ts:
\* "so each chunk lands on its own ordinal between the surrounding tools".
EachChunkShown ==
  Fresh => \A r \in ToSet(Whole) : r.kind = "mixed" =>
             Said(r, {1, 2}) \subseteq UNION {chat[k].body : k \in DOMAIN chat}
=============================================================================
