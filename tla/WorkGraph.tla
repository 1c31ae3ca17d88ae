------------------------------ MODULE WorkGraph ------------------------------
(***************************************************************************)
(* The work graph: the verbs of WorkService over the tables of WorkStore.  *)
(*                                                                         *)
(* Every verb is the same ritual (recordWorkflowEdge, revise, create,      *)
(* comment): read the current row, decide whether anything changes, mint   *)
(* the timestamp and the ids of the rows to write, write them in one       *)
(* transaction, publish the change.  Each of those is one SQL statement or *)
(* one transaction behind the single-connection semaphore, and other       *)
(* callers (renderer RPCs, MCP agents, the commit watcher) run in between: *)
(* a call is four actions of this module.                                  *)
(*                                                                         *)
(* A timestamp with the TypeID minted beside it is one number, an Id:      *)
(* rows are ordered by (created_at, id), which is the order they were      *)
(* minted in.  Ids are minted before the transaction, so the order of ids  *)
(* need not be the order of commits.                                       *)
(***************************************************************************)
EXTENDS Integers, FiniteSets

CONSTANTS
  Clients,      \* concurrent callers
  RpcClients,   \* those a renderer reload interrupts (the others are agents)
  Works,        \* work refs
  Fields,       \* authored fields: title, labels, ...
  Values,       \* what a field may hold
  Statuses, Priorities, Cites, Targets,
  Verbs,        \* the verbs callers use
  NewWorks,     \* inputs of create: [content, status, priority, cites]
  Edits,        \* inputs of revise: new field values, Null where omitted
  MaxId,        \* bound: ids ever minted
  Null

Ids == 1..MaxId
OrNull(S) == S \cup {Null}
Content == [Fields -> Values]

\* The append-only facts about a ref and what each one points at.
EdgeTypes == {"status_set", "priority_set", "references",
              "references_removed", "delegated_to"}
Endpoints(type) ==
  CASE type = "status_set"   -> Statuses
    [] type = "priority_set" -> Priorities
    [] type = "delegated_to" -> Targets
    [] OTHER                 -> Cites
AllVerbs == {"create", "revise", "comment"} \cup EdgeTypes

ASSUME ConstantsOK ==
  /\ MaxId \in Nat
  /\ Clients # {} /\ RpcClients \subseteq Clients
  /\ Verbs \subseteq AllVerbs
  /\ NewWorks \subseteq [content : Content, status : Statuses,
                         priority : OrNull(Priorities), cites : SUBSET Cites]
  /\ Edits \subseteq [Fields -> OrNull(Values)]
  /\ Null \notin Ids \cup Works \cup Values \cup Statuses \cup Priorities
                  \cup Cites \cup Targets \cup Content
  /\ Null \notin [content : Content, status : Statuses]
  /\ Null \notin [current : Ids, createdAt : Ids, updatedAt : Ids]

Inputs(verb) ==
  CASE verb = "create"  -> NewWorks
    [] verb = "revise"  -> Edits
    [] verb = "comment" -> BOOLEAN      \* TRUE: on the ref, not the revision
    [] OTHER            -> Endpoints(verb)

VARIABLES
  refs,        \* graph_ref: [current, createdAt, updatedAt], or Null
  nodes,       \* graph_node: [content, status], or Null
  refUpdates,  \* graph_ref_update: [ref, old, new]
  edges,       \* graph_edge off a ref: [id, type, from, to]
  comments,    \* work_comment: [id, ref, subject]
  workDocs,    \* search_document of a ref: [content, status, updatedAt], or Null
  commentDocs, \* search_document of a comment: [id, ref, content, status]
  nextId,      \* the clock and the id generator
  call,        \* what each caller is doing
  notified,    \* a WorkChange is on its way to the renderer
  unseen       \* the graph changed since the renderer last read it

tables == <<refs, nodes, refUpdates, edges, comments, workDocs, commentDocs>>
vars == <<tables, nextId, call, notified, unseen>>

-----------------------------------------------------------------------------
(* The read projection.                                                    *)

\* The latest of a ref's edges of some types; latestStatus and its siblings.
EdgesOf(es, w, types) == {e \in es : e.from = w /\ e.type \in types}
Latest(es) == CHOOSE e \in es : \A f \in es : f.id <= e.id

StatusIn(es, w, authored) ==
  LET set == EdgesOf(es, w, {"status_set"})
  IN  IF set = {} THEN authored ELSE Latest(set).to

Status(w) == StatusIn(edges, w, nodes[refs[w].current].status)

Priority(w) ==
  LET set == EdgesOf(edges, w, {"priority_set"})
  IN  IF set = {} THEN Null ELSE Latest(set).to

\* foldCitations: per endpoint, the latest add or retraction wins.
CitationEdges(w, x) ==
  {e \in EdgesOf(edges, w, {"references", "references_removed"}) : e.to = x}
Cited(w, x) ==
  /\ CitationEdges(w, x) # {}
  /\ Latest(CitationEdges(w, x)).type = "references"

\* loadDelegatedWork: the current implementer is the latest delegation.
Delegations(w) == EdgesOf(edges, w, {"delegated_to"})
Implementer(w) == IF Delegations(w) = {} THEN Null ELSE Latest(Delegations(w)).to

\* loadWork
Row(w) ==
  [node |-> refs[w].current, content |-> nodes[refs[w].current].content,
   status |-> Status(w), priority |-> Priority(w)]

\* revise: omitted fields keep their value, present fields replace.
Edited(edits, content) ==
  [f \in Fields |-> IF edits[f] = Null THEN content[f] ELSE edits[f]]

-----------------------------------------------------------------------------

Idle == [pc |-> "idle", verb |-> Null, work |-> Null, arg |-> Null,
         row |-> Null, id |-> Null]

Init ==
  /\ refs = [w \in Works |-> Null]
  /\ nodes = [i \in Ids |-> Null]
  /\ refUpdates = {} /\ edges = {} /\ comments = {}
  /\ workDocs = [w \in Works |-> Null]
  /\ commentDocs = {}
  /\ nextId = 1
  /\ call = [c \in Clients |-> Idle]
  /\ notified = FALSE /\ unseen = FALSE

Goto(c, pc) == call' = [call EXCEPT ![c].pc = pc]
Return(c) == call' = [call EXCEPT ![c] = Idle]

\* Ids the calls in flight may still mint: the bound never strands a call.
Reserved == Cardinality({c \in Clients : call[c].pc = "decide"})

\* newArcId: create mints a ref no other call has.
FreshRef(w) == refs[w] = Null /\ \A c \in Clients : call[c].work # w

\* requireWork: the current row, or the call fails and nothing happens.
Begin(c, verb, w, arg) ==
  /\ call[c].pc = "idle"
  /\ nextId + Reserved <= MaxId
  /\ IF verb = "create" THEN FreshRef(w) ELSE refs[w] # Null
  /\ call' = [call EXCEPT ![c] =
       [pc |-> "decide", verb |-> verb, work |-> w, arg |-> arg,
        row |-> IF verb = "create" THEN Null ELSE Row(w), id |-> Null]]
  /\ UNCHANGED <<tables, nextId, notified, unseen>>

\* The idempotency guard of each verb.  Status, priority and content are
\* compared with the row read before; citations and delegations are read anew.
NoOp(k) ==
  CASE k.verb = "revise"             -> Edited(k.arg, k.row.content) = k.row.content
    [] k.verb = "status_set"         -> k.row.status = k.arg
    [] k.verb = "priority_set"       -> k.row.priority = k.arg
    [] k.verb = "references"         -> Cited(k.work, k.arg)
    [] k.verb = "references_removed" -> ~Cited(k.work, k.arg)
    [] k.verb = "delegated_to"       -> \E e \in Delegations(k.work) : e.to = k.arg
    [] OTHER                         -> FALSE

ReturnUnchanged(c) ==
  /\ call[c].pc = "decide"
  /\ NoOp(call[c])
  /\ Return(c)
  /\ UNCHANGED <<tables, nextId, notified, unseen>>

Mint(c) ==
  /\ call[c].pc = "decide"
  /\ ~NoOp(call[c])
  /\ nextId <= MaxId
  /\ nextId' = nextId + 1
  /\ call' = [call EXCEPT ![c].pc = "commit", ![c].id = nextId]
  /\ UNCHANGED <<tables, notified, unseen>>

-----------------------------------------------------------------------------
(* The transactions, each with the search_document triggers it fires.      *)

\* graph_ref_search_ai / _au: project the ref's row and its current node.
WorkDoc(w, content, status, at) ==
  workDocs' = [workDocs EXCEPT ![w] =
                 [content |-> content, status |-> status, updatedAt |-> at]]

\* Slip: the trigger as it was before migration 0007.
RefreshedNever(docs, w, status) == docs

\* graph_ref_search_au also refreshes the status its comments' rows carry.
Refreshed(docs, w, status) ==
  {IF d.ref = w THEN [d EXCEPT !.status = status] ELSE d : d \in docs}

\* Slip: the verb returns without publishing.
CommittedSilently(c) ==
  /\ Return(c)
  /\ unseen' = TRUE
  /\ UNCHANGED <<nextId, notified>>

Committed(c) ==
  /\ Goto(c, "publish")
  /\ unseen' = TRUE
  /\ UNCHANGED <<nextId, notified>>

\* createWork: node, ref, ref-update and the edges the input implies.
CommitCreate(c) ==
  LET k == call[c] IN
  /\ k.pc = "commit" /\ k.verb = "create"
  /\ nodes' = [nodes EXCEPT ![k.id] =
                 [content |-> k.arg.content, status |-> k.arg.status]]
  /\ refs' = [refs EXCEPT ![k.work] =
                [current |-> k.id, createdAt |-> k.id, updatedAt |-> k.id]]
  /\ refUpdates' = refUpdates \cup {[ref |-> k.work, old |-> Null, new |-> k.id]}
  /\ edges' = edges
       \cup {[id |-> k.id, type |-> "references", from |-> k.work, to |-> x] :
               x \in k.arg.cites}
       \cup {[id |-> k.id, type |-> "priority_set", from |-> k.work, to |-> p] :
               p \in {k.arg.priority} \ {Null}}
  /\ WorkDoc(k.work, k.arg.content, k.arg.status, k.id)
  /\ Committed(c)
  /\ UNCHANGED <<comments, commentDocs>>

\* Slip: the UPDATE matches whatever the ref points at.
RefUnguarded(k) == refs[k.work] # Null

\* applyRevision's UPDATE ... WHERE current_node_id = expected.
RefUnmoved(k) == refs[k.work].current = k.row.node

CommitRevise(c) ==
  LET k == call[c]
      content == Edited(k.arg, k.row.content)
      status == StatusIn(edges, k.work, k.row.status)
  IN
  /\ k.pc = "commit" /\ k.verb = "revise"
  /\ RefUnmoved(k)
  /\ nodes' = [nodes EXCEPT ![k.id] =
                 [content |-> content, status |-> k.row.status]]
  /\ refs' = [refs EXCEPT ![k.work].current = k.id, ![k.work].updatedAt = k.id]
  /\ refUpdates' = refUpdates \cup
       {[ref |-> k.work, old |-> k.row.node, new |-> k.id]}
  /\ WorkDoc(k.work, content, status, k.id)
  /\ commentDocs' = Refreshed(commentDocs, k.work, status)
  /\ Committed(c)
  /\ UNCHANGED <<edges, comments>>

\* WorkRefConflict: the transaction rolls back and the call fails.
Conflict(c) ==
  LET k == call[c] IN
  /\ k.pc = "commit" /\ k.verb = "revise"
  /\ ~RefUnmoved(k)
  /\ Return(c)
  /\ UNCHANGED <<tables, nextId, notified, unseen>>

\* recordEdge: append the edge, then set the ref's recency to its timestamp.
CommitEdge(c) ==
  LET k == call[c]
      es == edges \cup {[id |-> k.id, type |-> k.verb, from |-> k.work, to |-> k.arg]}
      node == nodes[refs[k.work].current]
      status == StatusIn(es, k.work, node.status)
  IN
  /\ k.pc = "commit" /\ k.verb \in EdgeTypes
  /\ edges' = es
  /\ refs' = [refs EXCEPT ![k.work].updatedAt = k.id]
  /\ WorkDoc(k.work, node.content, status, k.id)
  /\ commentDocs' = Refreshed(commentDocs, k.work, status)
  /\ Committed(c)
  /\ UNCHANGED <<nodes, refUpdates, comments>>

\* insertComment: the row, anchored where the call found the ref, then the
\* ref's recency unless that is already later.
CommitComment(c) ==
  LET k == call[c]
      node == nodes[refs[k.work].current]
      doc == [id |-> k.id, ref |-> k.work, content |-> node.content,
              status |-> Status(k.work)]
      newer == refs[k.work].updatedAt < k.id
  IN
  /\ k.pc = "commit" /\ k.verb = "comment"
  /\ comments' = comments \cup
       {[id |-> k.id, ref |-> k.work,
         subject |-> IF k.arg THEN Null ELSE k.row.node]}
  /\ commentDocs' = commentDocs \cup {doc}
  /\ IF newer
     THEN /\ refs' = [refs EXCEPT ![k.work].updatedAt = k.id]
          /\ WorkDoc(k.work, node.content, Status(k.work), k.id)
     ELSE UNCHANGED <<refs, workDocs>>
  /\ Committed(c)
  /\ UNCHANGED <<nodes, refUpdates, edges>>

\* publishChange, after the row was read back.
Publish(c) ==
  /\ call[c].pc = "publish"
  /\ notified' = TRUE
  /\ Return(c)
  /\ UNCHANGED <<tables, nextId, unseen>>

-----------------------------------------------------------------------------
(* The renderer.                                                           *)

\* workInvalidationSignalAtom: a (debounced) change refetches every work read.
Refetch ==
  /\ notified
  /\ notified' = FALSE /\ unseen' = FALSE
  /\ UNCHANGED <<tables, nextId, call>>

\* A reload: the retired RPC client's calls are interrupted wherever they are
\* (a transaction in flight would roll back) and the new page reads afresh.
Reload ==
  /\ call' = [c \in Clients |-> IF c \in RpcClients THEN Idle ELSE call[c]]
  /\ notified' = FALSE /\ unseen' = FALSE
  /\ UNCHANGED <<tables, nextId>>

Step(c) ==
  \/ ReturnUnchanged(c) \/ Mint(c)
  \/ CommitCreate(c) \/ CommitRevise(c) \/ Conflict(c)
  \/ CommitEdge(c) \/ CommitComment(c)
  \/ Publish(c)

Next ==
  \/ \E c \in Clients, w \in Works, verb \in Verbs :
       \E arg \in Inputs(verb) : Begin(c, verb, w, arg)
  \/ \E c \in Clients : Step(c)
  \/ Refetch
  \/ Reload

\* A fiber that can run does, and the renderer's subscription is live.
Fairness == WF_vars(Refetch) /\ \A c \in Clients : WF_vars(Step(c))

Spec == Init /\ [][Next]_vars
FairSpec == Spec /\ Fairness

-----------------------------------------------------------------------------
(* What the graph must keep, whatever the interleaving.                    *)

Edge ==
  UNION {[id : Ids, type : {t}, from : Works, to : Endpoints(t)] : t \in EdgeTypes}
RowType == [node : Ids, content : Content, status : Statuses,
            priority : OrNull(Priorities)]
RowOf(verb) == IF verb = "create" THEN {Null} ELSE RowType
CallOf(verb, pcs, ids) ==
  [pc : pcs, verb : {verb}, work : Works, arg : Inputs(verb),
   row : RowOf(verb), id : ids]
CallType == {Idle} \cup
  UNION {CallOf(v, {"decide"}, {Null}) \cup CallOf(v, {"commit", "publish"}, Ids) :
         v \in Verbs}

\* The type invariant: every table row and every call in flight is well formed.
TypeOK ==
  /\ refs \in [Works -> OrNull([current : Ids, createdAt : Ids, updatedAt : Ids])]
  /\ nodes \in [Ids -> OrNull([content : Content, status : Statuses])]
  /\ refUpdates \subseteq [ref : Works, old : OrNull(Ids), new : Ids]
  /\ edges \subseteq Edge
  /\ comments \subseteq [id : Ids, ref : Works, subject : OrNull(Ids)]
  /\ workDocs \in [Works -> OrNull([content : Content, status : Statuses,
                                    updatedAt : Ids])]
  /\ commentDocs \subseteq [id : Ids, ref : Works, content : Content,
                             status : Statuses]
  /\ nextId \in 1..(MaxId + 1)
  /\ call \in [Clients -> CallType]
  /\ notified \in BOOLEAN /\ unseen \in BOOLEAN

History(w) == {u \in refUpdates : u.ref = w}

\* Revisions of a ref form one unbroken line from its creation to its current
\* node: no two revisions replace the same node, each replaces one of the same
\* ref, and nothing replaced the current one (applyRevision's compare-and-swap).
LinearHistory ==
  \A w \in Works : refs[w] # Null =>
    /\ \A u, v \in History(w) : u.old = v.old \/ u.new = v.new => u = v
    /\ \A u \in History(w) : u.old # Null =>
         u.old < u.new /\ \E v \in History(w) : v.new = u.old
    /\ \E u \in History(w) : u.new = refs[w].current
    /\ \A u \in History(w) : u.old # refs[w].current

\* A revision that lost the race leaves nothing behind: every content node is
\* in exactly one ref's history, and every history names only stored nodes.
NoOrphanRevision ==
  /\ \A i \in Ids : nodes[i] # Null =>
       \E u \in refUpdates : u.new = i /\ \A v \in refUpdates : v.new = i => v = u
  /\ \A u \in refUpdates : nodes[u.new] # Null /\ refs[u.ref] # Null

\* No edit is lost: whenever a ref moves, the new content is some caller's edit
\* applied to the content the ref held at that moment, not to a stale copy.
NoLostEdit ==
  [][\A w \in Works :
       refs[w] # Null /\ refs'[w].current # refs[w].current =>
         \E c \in Clients :
           /\ call[c].pc = "commit" /\ call[c].verb = "revise" /\ call[c].work = w
           /\ nodes'[refs'[w].current].content =
                Edited(call[c].arg, nodes[refs[w].current].content)]_vars

\* A revision never moves the status, nor does a comment or a citation: only a
\* status_set edge does, although every revision writes a status of its own.
StatusOnlyByEvent ==
  [][\A w \in Works :
       /\ refs[w] # Null
       /\ EdgesOf(edges', w, {"status_set"}) = EdgesOf(edges, w, {"status_set"})
       => Status(w)' = Status(w)]_vars

\* The search index agrees with the graph after every transaction: the ref's
\* row in full, and the status that every one of its comments' rows carries (a
\* stale one re-surfaced closed work in the open queue: migration 0007).
SearchMirrors ==
  /\ \A w \in Works :
       IF refs[w] = Null THEN workDocs[w] = Null
       ELSE workDocs[w] = [content |-> nodes[refs[w].current].content,
                           status |-> Status(w), updatedAt |-> refs[w].updatedAt]
  /\ \A d \in commentDocs : d.status = Status(d.ref)
  /\ \A m \in comments : \E d \in commentDocs : d.id = m.id /\ d.ref = m.ref

\* A change the renderer has not read is always still going to be announced:
\* a notification is pending, or the call that made the change will publish.
ChangesAnnounced ==
  unseen => notified \/ \E c \in Clients : call[c].pc = "publish"

\* Whatever is committed, the renderer's work views eventually catch up.
RendererCatchesUp == unseen ~> ~unseen

-----------------------------------------------------------------------------
(* The inductive invariant behind the history properties.                  *)

InFlight(c) == call[c].pc \in {"decide", "commit"}

\* Minted ids are below the generator, and the one a transaction is about to
\* use is held by nobody else.
IdsFresh ==
  /\ \A i \in Ids : nodes[i] # Null => i < nextId
  /\ \A c \in Clients : call[c].pc = "commit" =>
       /\ call[c].id < nextId
       /\ nodes[call[c].id] = Null
       /\ \A d \in Clients \ {c} : call[d].pc = "commit" => call[d].id # call[c].id

\* A ref points at a stored node, and has a history only once it exists.
RefsRooted ==
  \A w \in Works :
    IF refs[w] = Null THEN History(w) = {} ELSE nodes[refs[w].current] # Null

\* A call that creates owns its ref; any other read an existing ref, and what
\* it read about the node is what the node still says: nodes never change.
CallsSound ==
  \A c \in Clients : InFlight(c) =>
    LET k == call[c] IN
    IF k.verb = "create"
    THEN refs[k.work] = Null /\ \A d \in Clients \ {c} : call[d].work # k.work
    ELSE /\ refs[k.work] # Null
         /\ nodes[k.row.node] # Null
         /\ k.row.content = nodes[k.row.node].content
         /\ EdgesOf(edges, k.work, {"status_set"}) = {} =>
              k.row.status = nodes[k.row.node].status
         /\ k.pc = "commit" => k.row.node < k.id

IInv ==
  /\ TypeOK /\ IdsFresh /\ RefsRooted /\ CallsSound
  /\ LinearHistory /\ NoOrphanRevision

-----------------------------------------------------------------------------
(* The graph implements WorkItems: documents edited in place and last-     *)
(* writer-wins registers, each call taking effect in its transaction.      *)

Attributes == {"status", "priority", "implementer"} \cup Cites

\* The registers have names of their own.
ASSUME RegistersApart ==
  /\ {"status", "priority", "implementer"} \cap Cites = {}
  /\ Null \notin {"references", "references_removed"}

\* The register a workflow edge writes.
AttributeOf(type, to) ==
  CASE type = "status_set"   -> "status"
    [] type = "priority_set" -> "priority"
    [] type = "delegated_to" -> "implementer"
    [] OTHER                 -> to

\* What it writes there: a citation's register holds its last add or removal.
ValueOf(type, to) ==
  IF type \in {"references", "references_removed"} THEN type ELSE to

Unset == [value |-> Null, at |-> 0]

\* The edges that wrote a register.
Written(es, w, a) == {e \in es : e.from = w /\ AttributeOf(e.type, e.to) = a}

\* Before any edge has written it, the status is the one of the document.
ItemRegister(w, a) ==
  LET last == Latest(Written(edges, w, a)) IN
  IF Written(edges, w, a) # {} THEN [value |-> ValueOf(last.type, last.to), at |-> last.id]
  ELSE IF a = "status" /\ refs[w] # Null
    THEN [value |-> nodes[refs[w].current].status, at |-> refs[w].createdAt]
    ELSE Unset

ItemInitial(arg) ==
  [a \in Attributes |->
     CASE a = "status"       -> arg.status
       [] a = "priority"     -> arg.priority
       [] a \in arg.cites    -> "references"
       [] OTHER              -> Null]

ItemCall(k) ==
  CASE k.pc # "commit" \/ k.verb = "comment" -> [kind |-> "none"]
    [] k.pc = "commit" /\ k.verb = "create" ->
         [kind |-> "create", work |-> k.work, content |-> k.arg.content,
          initial |-> ItemInitial(k.arg), at |-> k.id]
    [] k.pc = "commit" /\ k.verb = "revise" ->
         [kind |-> "revise", work |-> k.work, edits |-> k.arg]
    [] OTHER ->
         [kind |-> "write", work |-> k.work, at |-> k.id,
          attribute |-> AttributeOf(k.verb, k.arg), value |-> ValueOf(k.verb, k.arg)]

Items == INSTANCE WorkItems WITH
  doc <- [w \in Works |->
            IF refs[w] = Null THEN Null ELSE nodes[refs[w].current].content],
  register <- [w \in Works |-> [a \in Attributes |-> ItemRegister(w, a)]],
  pending <- [c \in Clients |-> ItemCall(call[c])]

\* Every step of the graph is a step of WorkItems or changes nothing there.
ImplementsWorkItems == Items!Spec

-----------------------------------------------------------------------------
(* What the repository says and the code does not do.                      *)

\* service.ts: linkTargetSession records that a work IS delegated to a session,
\* "what work is on this implementer?".  When the call returns, the session
\* named last is the implementer.
DelegationTakes ==
  [][\A c \in Clients :
       /\ call[c].verb = "delegated_to" /\ call'[c].pc = "idle"
       => Implementer(call[c].work)' = call[c].arg]_vars

-----------------------------------------------------------------------------
(* The inputs of the small instance: revisions of one field each, and works *)
(* created with and without the optional parts.                             *)

First(S) == CHOOSE x \in S : TRUE
Second(S) == CHOOSE x \in S : x # First(S)

SmallEdits == {[f \in Fields |-> IF f = g THEN Second(Values) ELSE Null] : g \in Fields}

Plain == [content |-> [f \in Fields |-> First(Values)], status |-> First(Statuses),
          priority |-> Null, cites |-> {}]
SmallNewWorks ==
  {Plain} \cup
  {[Plain EXCEPT !.status = Second(Statuses), !.priority = p, !.cites = Cites] : p \in Priorities}
=============================================================================
