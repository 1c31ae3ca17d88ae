------------------------------ MODULE Summaries ------------------------------
(***************************************************************************)
(* Chat summaries: summary/distiller.ts and the summary nodes of           *)
(* work/store.ts.  A distillation reads the chat, asks a local model for   *)
(* minutes and stores what it says under a key of the chat, the model and  *)
(* the text it read; several run at a time while the chat goes on.         *)
(***************************************************************************)
EXTENDS Naturals

CONSTANTS
  Calls,    \* distillations of the one chat
  Models,   \* models the local server may advertise
  Texts,    \* renderings of the chat's timeline
  Empty,    \* the rendering of a chat without messages
  MaxStored \* bound on the summaries

SummariesAssumption == Empty \notin Texts

NoId == 0
NoKey == [model |-> Empty, input |-> Empty]

VARIABLES
  timeline,   \* the chat's messages as the distiller renders them
  distills,   \* call -> [at, key, id]: where it is and, in the end, the summary it answers with
  nodes,      \* the summary nodes: [id, key]; the id stands for what the model said
  summarizes, \* ids with an edge to the chat
  lastId      \* the last id that was drawn

graph == <<nodes, summarizes, lastId>>
vars == <<timeline, distills, graph>>

Idle == [at |-> "idle", key |-> NoKey, id |-> NoId]

Init ==
  /\ timeline \in Texts \cup {Empty}
  /\ distills = [c \in Calls |-> Idle]
  /\ nodes = {} /\ summarizes = {} /\ lastId = NoId

OfKey(key) == {n \in nodes : n.key = key}
Go(c, at) == distills' = [distills EXCEPT ![c].at = at]
Fail(c) == distills' = [distills EXCEPT ![c] = [Idle EXCEPT !.at = "failed"]]

-----------------------------------------------------------------------------

\* The agents of the chat speak, or a transcript is projected again.
Chat(t) ==
  /\ timeline' = t
  /\ UNCHANGED <<distills, graph>>

\* distill begins with the probe of the server.
Distill(c) ==
  /\ distills[c].at \in {"idle", "failed", "done"}
  /\ distills' = [distills EXCEPT ![c] = [Idle EXCEPT !.at = "probing"]]
  /\ UNCHANGED <<timeline, graph>>

\* pickModel: it is unreachable, answers with an error or has no model.
ModelPicked(c, m) ==
  /\ distills[c].at = "probing"
  /\ distills' = [distills EXCEPT ![c].at = "reading", ![c].key.model = m]
  /\ UNCHANGED <<timeline, graph>>
NoModel(c) ==
  /\ distills[c].at = "probing" /\ Fail(c)
  /\ UNCHANGED <<timeline, graph>>

\* The rows are rendered; an empty chat has no summary.
Render(c) ==
  /\ distills[c].at = "reading"
  /\ IF timeline = Empty THEN Fail(c)
     ELSE distills' = [distills EXCEPT ![c].at = "looking", ![c].key.input = timeline]
  /\ UNCHANGED <<timeline, graph>>

\* loadSummaryByKey, before the model is asked and after a lost race.
LookUp(c) ==
  /\ distills[c].at \in {"looking", "lost"}
  /\ IF OfKey(distills[c].key) # {}
       THEN \E n \in OfKey(distills[c].key) :
              distills' = [distills EXCEPT ![c].at = "done", ![c].id = n.id]
     ELSE IF distills[c].at = "looking" THEN Go(c, "asking") ELSE Fail(c)
  /\ UNCHANGED <<timeline, graph>>

\* postCompletion; the model says something else each time, and a new id is drawn
\* for it.
Completed(c) ==
  /\ distills[c].at = "asking" /\ lastId < MaxStored
  /\ lastId' = lastId + 1
  /\ distills' = [distills EXCEPT ![c].at = "storing", ![c].id = lastId']
  /\ UNCHANGED <<timeline, nodes, summarizes>>
NotCompleted(c) ==
  /\ distills[c].at = "asking" /\ Fail(c)
  /\ UNCHANGED <<timeline, graph>>

\* graph_node_summary_idem
Taken(key) == OfKey(key) # {}

Loses(c) == Go(c, "lost")

\* insertSummary: the node and its edge in one transaction, or neither.
Insert(c) ==
  /\ distills[c].at = "storing"
  /\ IF Taken(distills[c].key)
       THEN Loses(c) /\ UNCHANGED <<nodes, summarizes>>
       ELSE /\ nodes' = nodes \cup {[id |-> distills[c].id, key |-> distills[c].key]}
            /\ summarizes' = summarizes \cup {distills[c].id} /\ Go(c, "done")
  /\ UNCHANGED <<timeline, lastId>>

\* The store fails a statement, and the transaction is rolled back.
InsertFails(c) ==
  /\ distills[c].at = "storing" /\ Fail(c)
  /\ UNCHANGED <<timeline, graph>>

\* The program ends, with every call.
Restart ==
  /\ distills' = [c \in Calls |-> Idle]
  /\ UNCHANGED <<timeline, graph>>

Next ==
  \/ Restart
  \/ \E t \in Texts \cup {Empty} : Chat(t)
  \/ \E c \in Calls :
       \/ Distill(c) \/ NoModel(c) \/ Render(c) \/ LookUp(c) \/ Completed(c) \/ NotCompleted(c)
       \/ Insert(c) \/ InsertFails(c)
       \/ \E m \in Models : ModelPicked(c, m)

Spec == Init /\ [][Next]_vars

-----------------------------------------------------------------------------

\* A call answers with a summary that is stored, of the text it read and the
\* model it picked, whoever wins the race for the key, and a call that loses the
\* race finds the winner; a text has one summary per model, with its edge
\* (distiller.ts:279, work/schema.ts:505).
AnswersAreStored ==
  /\ \A c \in Calls :
       /\ distills[c].at = "done" => \E n \in OfKey(distills[c].key) : n.id = distills[c].id
       /\ distills[c].at = "lost" => OfKey(distills[c].key) # {}
  /\ \A n, o \in nodes : n.key = o.key => n = o
  /\ summarizes = {n.id : n \in nodes}
=============================================================================
