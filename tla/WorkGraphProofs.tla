--------------------------- MODULE WorkGraphProofs ---------------------------
(***************************************************************************)
(* Proofs about WorkGraph, for every number of callers, works and fields.  *)
(***************************************************************************)
EXTENDS WorkGraph, WellFoundedInduction, TLAPS

-----------------------------------------------------------------------------
(* The latest edge.                                                        *)

\* A nonempty set of edges has a latest one: ids are bounded by MaxId.
LEMMA LatestExists ==
  ASSUME NEW S \in SUBSET Edge, S # {}
  PROVE  Latest(S) \in S /\ \A f \in S : f.id <= Latest(S).id
<1> DEFINE Less == {p \in Nat \X Nat : p[1] < p[2]}
           Gaps == {MaxId - e.id : e \in S}
<1>1. IsWellFoundedOn(Less, Nat)
  <2>1. Less = OpToRel(<, Nat)
    BY DEF OpToRel
  <2> QED BY <2>1, NatLessThanWellFounded
<1>2. \A e \in S : e.id \in 1..MaxId
  BY DEF Edge, Ids
<1>3. Gaps \subseteq Nat /\ Gaps # {}
  BY <1>2, ConstantsOK
<1>4. PICK g \in Gaps : \A h \in Gaps : ~(<<h, g>> \in Less)
  <2> HIDE DEF Less, Gaps
  <2> QED BY <1>1, <1>3, WFMin
<1>5. PICK e \in S : g = MaxId - e.id
  OBVIOUS
<1>6. \A f \in S : f.id <= e.id
  <2> TAKE f \in S
  <2>1. MaxId - f.id \in Gaps
    OBVIOUS
  <2>2. ~(<<MaxId - f.id, g>> \in Less)
    BY <1>4, <2>1
  <2>3. ~(MaxId - f.id < g)
    BY <2>1, <2>2, <1>3
  <2> QED BY <2>3, <1>2, <1>5, ConstantsOK
<1> QED BY <1>6 DEF Latest

\* What the projection derives from well-formed tables is well formed.
LEMMA StatusInType ==
  ASSUME NEW es \in SUBSET Edge, NEW w, NEW authored \in Statuses
  PROVE  StatusIn(es, w, authored) \in Statuses
<1> DEFINE set == EdgesOf(es, w, {"status_set"})
<1>1. set \subseteq Edge /\ \A e \in set : e.to \in Statuses
  BY DEF EdgesOf, Edge, EdgeTypes, Endpoints
<1>2. CASE set = {}
  BY <1>2 DEF StatusIn
<1>3. CASE set # {}
  <2>1. Latest(set) \in set
    <3> HIDE DEF set
    <3> QED BY <1>1, <1>3, LatestExists
  <2> QED BY <2>1, <1>1, <1>3 DEF StatusIn
<1> QED BY <1>2, <1>3

LEMMA PriorityType ==
  ASSUME edges \in SUBSET Edge, NEW w
  PROVE  Priority(w) \in OrNull(Priorities)
<1> DEFINE set == EdgesOf(edges, w, {"priority_set"})
<1>1. set \subseteq Edge /\ \A e \in set : e.to \in Priorities
  BY DEF EdgesOf, Edge, EdgeTypes, Endpoints
<1>2. CASE set = {}
  BY <1>2 DEF Priority, OrNull
<1>3. CASE set # {}
  <2>1. Latest(set) \in set
    <3> HIDE DEF set
    <3> QED BY <1>1, <1>3, LatestExists
  <2> QED BY <2>1, <1>1, <1>3 DEF Priority, OrNull
<1> QED BY <1>2, <1>3

-----------------------------------------------------------------------------
(* Calls.                                                                  *)

\* The fields of a call in flight, and the two ways a call advances.
LEMMA CallFields ==
  ASSUME NEW k \in CallType, k.pc # "idle"
  PROVE  /\ k.verb \in Verbs /\ k.work \in Works /\ k.arg \in Inputs(k.verb)
         /\ k.row \in RowOf(k.verb)
         /\ k.pc \in {"decide", "commit", "publish"}
         /\ k.pc # "decide" => k.id \in Ids
         /\ k.pc = "decide" => \A i \in Ids :
              [k EXCEPT !.pc = "commit", !.id = i] \in CallType
         /\ k.pc # "decide" => [k EXCEPT !.pc = "publish"] \in CallType
<1>1. k # Idle
  BY DEF Idle
<1>2. PICK v \in Verbs :
        k \in CallOf(v, {"decide"}, {Null}) \cup CallOf(v, {"commit", "publish"}, Ids)
  BY <1>1 DEF CallType
<1>3. \A x : x \in CallOf(v, {"commit", "publish"}, Ids) => x \in CallType
  BY DEF CallType
<1>4. CASE k \in CallOf(v, {"decide"}, {Null})
  <2>1. \A i \in Ids : [k EXCEPT !.pc = "commit", !.id = i]
                       \in CallOf(v, {"commit", "publish"}, Ids)
    BY <1>4 DEF CallOf
  <2> QED BY <2>1, <1>3, <1>4 DEF CallOf
<1>5. CASE k \in CallOf(v, {"commit", "publish"}, Ids)
  <2>1. [k EXCEPT !.pc = "publish"] \in CallOf(v, {"commit", "publish"}, Ids)
    BY <1>5 DEF CallOf
  <2> QED BY <2>1, <1>3, <1>5 DEF CallOf
<1> QED BY <1>2, <1>4, <1>5

LEMMA IdleIsCall == Idle \in CallType /\ Idle.pc = "idle"
  BY DEF CallType, Idle

\* What a call of each verb was given.
LEMMA InputTypes ==
  /\ \A x \in Inputs("create") :
       x \in [content : Content, status : Statuses,
              priority : OrNull(Priorities), cites : SUBSET Cites]
  /\ \A x \in Inputs("revise") : x \in [Fields -> OrNull(Values)]
  /\ \A v \in EdgeTypes : Inputs(v) = Endpoints(v)
  BY ConstantsOK DEF Inputs, EdgeTypes

\* An edit of a document is a document.
LEMMA EditedType ==
  ASSUME NEW content \in Content, NEW edits \in [Fields -> OrNull(Values)]
  PROVE  Edited(edits, content) \in Content
  BY DEF Edited, Content, OrNull

\* The row a call reads is well formed.
LEMMA RowIsTyped ==
  ASSUME TypeOK, RefsRooted, NEW w \in Works, refs[w] # Null
  PROVE  Row(w) \in RowType
<1>1. refs[w] \in [current : Ids, createdAt : Ids, updatedAt : Ids]
  BY DEF TypeOK, OrNull
<1>2. nodes[refs[w].current] \in [content : Content, status : Statuses]
  BY <1>1 DEF TypeOK, OrNull, RefsRooted
<1>3. edges \in SUBSET Edge
  BY DEF TypeOK
<1>4. Status(w) \in Statuses
  BY <1>2, <1>3, StatusInType DEF Status
<1>5. Priority(w) \in OrNull(Priorities)
  BY <1>3, PriorityType
<1> QED BY <1>1, <1>2, <1>4, <1>5 DEF Row, RowType

-----------------------------------------------------------------------------
(* Type correctness.                                                       *)

LEMMA TypeBegin ==
  ASSUME IInv, NEW c \in Clients, NEW verb \in Verbs, NEW w \in Works,
         NEW arg \in Inputs(verb), Begin(c, verb, w, arg)
  PROVE  TypeOK'
<1> DEFINE k == [pc |-> "decide", verb |-> verb, work |-> w, arg |-> arg,
                 row |-> IF verb = "create" THEN Null ELSE Row(w), id |-> Null]
<1>1. k.row \in RowOf(verb)
  BY RowIsTyped DEF IInv, Begin, RowOf
<1>2. k \in CallOf(verb, {"decide"}, {Null})
  BY <1>1 DEF CallOf
<1>3. k \in CallType
  BY <1>2 DEF CallType
<1>4. call' = [call EXCEPT ![c] = k]
  BY DEF Begin
<1>5. call' \in [Clients -> CallType]
  <2> HIDE DEF k
  <2> QED BY <1>3, <1>4 DEF IInv, TypeOK
<1> QED BY <1>5 DEF Begin, tables, IInv, TypeOK

\* A transaction leaves its caller at publish, its call still well formed.
LEMMA TypeCommitted ==
  ASSUME TypeOK, NEW c \in Clients, call[c].pc = "commit", Committed(c)
  PROVE  /\ call' \in [Clients -> CallType] /\ nextId' \in 1..(MaxId + 1)
         /\ notified' \in BOOLEAN /\ unseen' \in BOOLEAN
<1>1. [call[c] EXCEPT !.pc = "publish"] \in CallType
  BY CallFields DEF TypeOK
<1>2. call' = [call EXCEPT ![c] = [call[c] EXCEPT !.pc = "publish"]]
  BY DEF Committed, Goto, TypeOK
<1> QED BY <1>1, <1>2 DEF Committed, TypeOK

LEMMA TypeCommitCreate ==
  ASSUME IInv, NEW c \in Clients, CommitCreate(c)
  PROVE  TypeOK'
<1> DEFINE k == call[c]
<1>1. k.work \in Works /\ k.id \in Ids /\ k.arg \in Inputs("create")
  BY CallFields DEF IInv, TypeOK, CommitCreate
<1>2. k.arg \in [content : Content, status : Statuses,
                 priority : OrNull(Priorities), cites : SUBSET Cites]
  BY <1>1, InputTypes
<1>3. nodes' \in [Ids -> OrNull([content : Content, status : Statuses])]
  BY <1>1, <1>2 DEF CommitCreate, IInv, TypeOK, OrNull
<1>4. refs' \in [Works -> OrNull([current : Ids, createdAt : Ids, updatedAt : Ids])]
  BY <1>1 DEF CommitCreate, IInv, TypeOK, OrNull
<1>5. refUpdates' \subseteq [ref : Works, old : OrNull(Ids), new : Ids]
  BY <1>1 DEF CommitCreate, IInv, TypeOK, OrNull
<1>6. edges' \subseteq Edge
  <2>1. \A x \in k.arg.cites :
          [id |-> k.id, type |-> "references", from |-> k.work, to |-> x] \in Edge
    <3> TAKE x \in k.arg.cites
    <3>1. x \in Endpoints("references")
      BY <1>2 DEF Endpoints
    <3> QED BY <1>1, <3>1 DEF Edge, EdgeTypes
  <2>2. \A p \in {k.arg.priority} \ {Null} :
          [id |-> k.id, type |-> "priority_set", from |-> k.work, to |-> p] \in Edge
    <3> TAKE p \in {k.arg.priority} \ {Null}
    <3>1. p \in Endpoints("priority_set")
      BY <1>2 DEF Endpoints, OrNull
    <3> QED BY <1>1, <3>1 DEF Edge, EdgeTypes
  <2> QED BY <2>1, <2>2 DEF CommitCreate, IInv, TypeOK
<1>7. workDocs' \in [Works -> OrNull([content : Content, status : Statuses,
                                     updatedAt : Ids])]
  BY <1>1, <1>2 DEF CommitCreate, WorkDoc, IInv, TypeOK, OrNull
<1>8. call[c].pc = "commit" /\ Committed(c) /\ TypeOK
  BY DEF CommitCreate, IInv
<1>9. /\ call' \in [Clients -> CallType] /\ nextId' \in 1..(MaxId + 1)
      /\ notified' \in BOOLEAN /\ unseen' \in BOOLEAN
  BY <1>8, TypeCommitted
<1> QED BY <1>3, <1>4, <1>5, <1>6, <1>7, <1>8, <1>9 DEF CommitCreate, TypeOK

\* The current node of an existing ref is a stored, well-formed node.
LEMMA CurrentNode ==
  ASSUME TypeOK, RefsRooted, NEW w \in Works, refs[w] # Null
  PROVE  /\ refs[w] \in [current : Ids, createdAt : Ids, updatedAt : Ids]
         /\ nodes[refs[w].current] \in [content : Content, status : Statuses]
         /\ Status(w) \in Statuses
<1>1. refs[w] \in [current : Ids, createdAt : Ids, updatedAt : Ids]
  BY DEF TypeOK, OrNull
<1>2. nodes[refs[w].current] \in [content : Content, status : Statuses]
  BY <1>1 DEF TypeOK, OrNull, RefsRooted
<1> QED BY <1>1, <1>2, StatusInType DEF Status, TypeOK

\* The status refresh keeps the comments' rows well formed.
LEMMA RefreshedType ==
  ASSUME NEW docs, NEW w, NEW status \in Statuses,
         docs \subseteq [id : Ids, ref : Works, content : Content, status : Statuses]
  PROVE  Refreshed(docs, w, status)
           \subseteq [id : Ids, ref : Works, content : Content, status : Statuses]
  BY DEF Refreshed

LEMMA TypeCommitRevise ==
  ASSUME IInv, NEW c \in Clients, CommitRevise(c)
  PROVE  TypeOK'
<1> DEFINE k == call[c]
           content == Edited(k.arg, k.row.content)
           status == StatusIn(edges, k.work, k.row.status)
<1>1. k.work \in Works /\ k.id \in Ids /\ k.arg \in Inputs("revise") /\ k.row \in RowType
  BY CallFields DEF IInv, TypeOK, CommitRevise, RowOf
<1>2. content \in Content
  BY <1>1, InputTypes, EditedType DEF RowType
<1>3. status \in Statuses
  BY <1>1, StatusInType DEF RowType, IInv, TypeOK
<1>4. nodes' \in [Ids -> OrNull([content : Content, status : Statuses])]
  <2> HIDE DEF content
  <2>1. [content |-> content, status |-> k.row.status]
           \in [content : Content, status : Statuses]
    BY <1>1, <1>2 DEF RowType
  <2>2. nodes' = [nodes EXCEPT ![k.id] = [content |-> content, status |-> k.row.status]]
    BY DEF CommitRevise, content
  <2> QED BY <1>1, <2>1, <2>2 DEF IInv, TypeOK, OrNull
<1>5. refs' \in [Works -> OrNull([current : Ids, createdAt : Ids, updatedAt : Ids])]
  <2>1. refs[k.work] # Null
    BY DEF CommitRevise, IInv, CallsSound, InFlight
  <2>2. refs[k.work] \in [current : Ids, createdAt : Ids, updatedAt : Ids]
    BY <1>1, <2>1, CurrentNode DEF IInv
  <2> QED BY <1>1, <2>2 DEF CommitRevise, IInv, TypeOK, OrNull
<1>6. refUpdates' \subseteq [ref : Works, old : OrNull(Ids), new : Ids]
  BY <1>1 DEF CommitRevise, IInv, TypeOK, OrNull, RowType
<1>7. workDocs' \in [Works -> OrNull([content : Content, status : Statuses,
                                     updatedAt : Ids])]
  <2>1. workDocs' = [workDocs EXCEPT ![k.work] =
                       [content |-> content, status |-> status, updatedAt |-> k.id]]
    BY DEF CommitRevise, WorkDoc
  <2> HIDE DEF content, status
  <2> QED BY <1>1, <1>2, <1>3, <2>1 DEF IInv, TypeOK, OrNull
<1>8. commentDocs' \subseteq [id : Ids, ref : Works, content : Content, status : Statuses]
  <2>1. commentDocs' = Refreshed(commentDocs, k.work, status)
    BY DEF CommitRevise
  <2> HIDE DEF status
  <2> QED BY <1>3, <2>1, RefreshedType DEF IInv, TypeOK
<1>9. call[c].pc = "commit" /\ Committed(c) /\ TypeOK
  BY DEF CommitRevise, IInv
<1>10. /\ call' \in [Clients -> CallType] /\ nextId' \in 1..(MaxId + 1)
       /\ notified' \in BOOLEAN /\ unseen' \in BOOLEAN
  BY <1>9, TypeCommitted
<1>11. edges' = edges /\ comments' = comments
  BY DEF CommitRevise
<1> QED BY <1>4, <1>5, <1>6, <1>7, <1>8, <1>9, <1>10, <1>11 DEF TypeOK

LEMMA TypeCommitEdge ==
  ASSUME IInv, NEW c \in Clients, CommitEdge(c)
  PROVE  TypeOK'
<1> DEFINE k == call[c]
           es == edges \cup {[id |-> k.id, type |-> k.verb, from |-> k.work, to |-> k.arg]}
           node == nodes[refs[k.work].current]
           status == StatusIn(es, k.work, node.status)
<1>1. k.work \in Works /\ k.id \in Ids /\ k.verb \in EdgeTypes /\ k.arg \in Endpoints(k.verb)
  BY CallFields, InputTypes DEF IInv, TypeOK, CommitEdge
<1>2. es \subseteq Edge
  BY SMTT(60), <1>1 DEF Edge, IInv, TypeOK
<1>3. refs[k.work] # Null
  <2>1. k.verb # "create"
    BY <1>1 DEF EdgeTypes
  <2> QED BY Zenon, <2>1 DEF CommitEdge, IInv, CallsSound, InFlight
<1>4. /\ refs[k.work] \in [current : Ids, createdAt : Ids, updatedAt : Ids]
      /\ node \in [content : Content, status : Statuses]
  BY <1>1, <1>3, CurrentNode DEF IInv
<1>5. status \in Statuses
  <2> HIDE DEF es, node
  <2> QED BY SMTT(60), <1>2, <1>4, StatusInType
<1>6. edges' = es
  BY SMTT(60) DEF CommitEdge
<1>7. refs' \in [Works -> OrNull([current : Ids, createdAt : Ids, updatedAt : Ids])]
  BY <1>1, <1>4 DEF CommitEdge, IInv, TypeOK, OrNull
<1>8. workDocs' \in [Works -> OrNull([content : Content, status : Statuses,
                                     updatedAt : Ids])]
  <2>1. workDocs' = [workDocs EXCEPT ![k.work] =
                       [content |-> node.content, status |-> status, updatedAt |-> k.id]]
    BY SMTT(60) DEF CommitEdge, WorkDoc
  <2> HIDE DEF node, status
  <2> QED BY SMTT(60), <1>1, <1>4, <1>5, <2>1 DEF IInv, TypeOK, OrNull
<1>9. commentDocs' \subseteq [id : Ids, ref : Works, content : Content, status : Statuses]
  <2>1. commentDocs' = Refreshed(commentDocs, k.work, status)
    BY SMTT(60) DEF CommitEdge
  <2> HIDE DEF status
  <2> QED BY <1>5, <2>1, RefreshedType DEF IInv, TypeOK
<1>10. call[c].pc = "commit" /\ Committed(c) /\ TypeOK
  BY SMTT(60) DEF CommitEdge, IInv
<1>11. /\ call' \in [Clients -> CallType] /\ nextId' \in 1..(MaxId + 1)
       /\ notified' \in BOOLEAN /\ unseen' \in BOOLEAN
  BY <1>10, TypeCommitted
<1>12. nodes' = nodes /\ refUpdates' = refUpdates /\ comments' = comments
  BY DEF CommitEdge
<1> QED BY <1>2, <1>6, <1>7, <1>8, <1>9, <1>10, <1>11, <1>12 DEF TypeOK

LEMMA TypeCommitComment ==
  ASSUME IInv, NEW c \in Clients, CommitComment(c)
  PROVE  TypeOK'
<1> DEFINE k == call[c]
           node == nodes[refs[k.work].current]
<1>1. /\ k.work \in Works /\ k.id \in Ids /\ k.row \in RowType
      /\ k.pc = "commit" /\ k.verb = "comment"
  BY CallFields DEF IInv, TypeOK, CommitComment, RowOf
<1>2. refs[k.work] # Null
  BY <1>1 DEF IInv, CallsSound, InFlight
<1>3. /\ refs[k.work] \in [current : Ids, createdAt : Ids, updatedAt : Ids]
      /\ node \in [content : Content, status : Statuses]
      /\ Status(k.work) \in Statuses
  BY <1>1, <1>2, CurrentNode DEF IInv
<1>4. comments' \subseteq [id : Ids, ref : Works, subject : OrNull(Ids)]
  BY <1>1 DEF CommitComment, IInv, TypeOK, OrNull, RowType
<1>5. commentDocs' \subseteq [id : Ids, ref : Works, content : Content, status : Statuses]
  <2>1. commentDocs' = commentDocs \cup
          {[id |-> k.id, ref |-> k.work, content |-> node.content, status |-> Status(k.work)]}
    BY DEF CommitComment
  <2> HIDE DEF node
  <2> QED BY <1>1, <1>3, <2>1 DEF IInv, TypeOK
<1>6. refs' \in [Works -> OrNull([current : Ids, createdAt : Ids, updatedAt : Ids])]
  <2>1. refs' = [refs EXCEPT ![k.work].updatedAt = k.id] \/ refs' = refs
    BY DEF CommitComment
  <2> QED BY <1>1, <1>3, <2>1 DEF IInv, TypeOK, OrNull
<1>7. workDocs' \in [Works -> OrNull([content : Content, status : Statuses,
                                     updatedAt : Ids])]
  <2>1. \/ workDocs' = [workDocs EXCEPT ![k.work] =
                          [content |-> node.content, status |-> Status(k.work),
                           updatedAt |-> k.id]]
        \/ workDocs' = workDocs
    BY DEF CommitComment, WorkDoc
  <2> HIDE DEF node
  <2> QED BY <1>1, <1>3, <2>1 DEF IInv, TypeOK, OrNull
<1>8. Committed(c) /\ TypeOK
  BY DEF CommitComment, IInv
<1>9. /\ call' \in [Clients -> CallType] /\ nextId' \in 1..(MaxId + 1)
      /\ notified' \in BOOLEAN /\ unseen' \in BOOLEAN
  BY <1>1, <1>8, TypeCommitted
<1>10. nodes' = nodes /\ refUpdates' = refUpdates /\ edges' = edges
  BY DEF CommitComment
<1> QED BY <1>4, <1>5, <1>6, <1>7, <1>8, <1>9, <1>10 DEF TypeOK

\* The steps that write no table.
LEMMA TypeOther ==
  ASSUME IInv, NEW c \in Clients,
         \/ ReturnUnchanged(c) \/ Mint(c) \/ Conflict(c) \/ Publish(c)
         \/ Refetch \/ Reload \/ UNCHANGED vars
  PROVE  TypeOK'
<1>1. CASE ReturnUnchanged(c) \/ Conflict(c) \/ Publish(c) \/ Refetch \/ Reload
  BY <1>1, IdleIsCall DEF ReturnUnchanged, Conflict, Publish, Refetch, Reload, Return,
         tables, IInv, TypeOK
<1>2. CASE Mint(c)
  <2>1. nextId \in Ids /\ nextId' \in 1..(MaxId + 1)
    BY <1>2, ConstantsOK DEF Mint, IInv, TypeOK, Ids
  <2>2. call[c] \in CallType /\ call[c].pc = "decide"
    BY <1>2 DEF Mint, IInv, TypeOK
  <2>3. [call[c] EXCEPT !.pc = "commit", !.id = nextId] \in CallType
    BY <2>1, <2>2, CallFields
  <2>4. call' = [call EXCEPT ![c] = [call[c] EXCEPT !.pc = "commit", !.id = nextId]]
    BY <1>2 DEF Mint, IInv, TypeOK
  <2>5. call' \in [Clients -> CallType]
    BY <2>3, <2>4 DEF IInv, TypeOK
  <2> QED BY <1>2, <2>1, <2>5 DEF Mint, tables, IInv, TypeOK
<1>3. CASE UNCHANGED vars
  BY <1>3 DEF vars, tables, IInv, TypeOK
<1> QED BY <1>1, <1>2, <1>3

-----------------------------------------------------------------------------
(* What a step may do to calls, nodes and histories: one lemma per kind of  *)
(* step, used by every invariant below.                                     *)

\* A step of c that is not a mint: other calls stand still or, on a reload,
\* end; c itself is not about to commit afterwards.
Settles(c) ==
  /\ nextId' = nextId
  /\ \A d \in Clients : call'[d].pc = "commit" => call'[d] = call[d]
  /\ \A d \in Clients : call'[d].pc = "decide" => call'[d] = call[d]
  /\ \A d \in Clients : call'[d] = call[d] \/ call'[d].pc \in {"idle", "publish"}
  /\ \A d \in Clients :
       call'[d].work = call[d].work \/ call'[d].work = Null

\* The writers of content: c's transaction stores node `content` under its id
\* as the successor of `old` in the history of its ref.
Appends(c, old) ==
  LET k == call[c] IN
  /\ k.pc = "commit" /\ k.work \in Works /\ k.id \in Ids
  /\ Settles(c) /\ call'[c].pc = "publish"
  /\ \E n \in [content : Content, status : Statuses] :
       nodes' = [nodes EXCEPT ![k.id] = n]
  /\ refUpdates' = refUpdates \cup {[ref |-> k.work, old |-> old, new |-> k.id]}
  /\ \E r \in [current : Ids, createdAt : Ids, updatedAt : Ids] :
       r.current = k.id /\ refs' = [refs EXCEPT ![k.work] = r]

\* Steps that leave content and history alone: refs may gain recency.
Preserves(c) ==
  /\ nodes' = nodes /\ refUpdates' = refUpdates
  /\ \A w \in Works :
       \/ refs'[w] = refs[w]
       \/ /\ refs[w] # Null /\ refs'[w] # Null
          /\ refs'[w].current = refs[w].current

LEMMA CommittedSettles ==
  ASSUME TypeOK, NEW c \in Clients, call[c].pc = "commit", Committed(c)
  PROVE  Settles(c) /\ call'[c].pc = "publish"
<1>1. call' = [call EXCEPT ![c] = [call[c] EXCEPT !.pc = "publish"]]
  BY DEF Committed, Goto, TypeOK
<1>2. call[c] \in CallType
  BY DEF TypeOK
<1>3. [call[c] EXCEPT !.pc = "publish"].pc = "publish"
  <2>1. \A v, pcs, ids : \A k \in CallOf(v, pcs, ids) : [k EXCEPT !.pc = "publish"].pc = "publish"
    BY DEF CallOf
  <2>2. call[c] # Idle
    BY DEF Idle
  <2> QED BY <1>2, <2>1, <2>2 DEF CallType
<1>4. [call[c] EXCEPT !.pc = "publish"].work = call[c].work
  <2>1. \A v, pcs, ids : \A k \in CallOf(v, pcs, ids) : [k EXCEPT !.pc = "publish"].work = k.work
    BY DEF CallOf
  <2>2. call[c] # Idle
    BY DEF Idle
  <2> QED BY <1>2, <2>1, <2>2 DEF CallType
<1>5. \A d \in Clients \ {c} : call'[d] = call[d]
  BY <1>1 DEF TypeOK
<1>6. call'[c] = [call[c] EXCEPT !.pc = "publish"]
  BY <1>1 DEF TypeOK
<1>7. nextId' = nextId
  BY DEF Committed
<1> HIDE DEF TypeOK
<1>8. call'[c].pc = "publish" /\ call'[c].work = call[c].work
  BY <1>3, <1>4, <1>6
<1> QED BY <1>5, <1>7, <1>8 DEF Settles

LEMMA CreateAppends ==
  ASSUME IInv, NEW c \in Clients, CommitCreate(c)
  PROVE  Appends(c, Null) /\ refs[call[c].work] = Null
<1> DEFINE k == call[c]
<1>1. k.work \in Works /\ k.id \in Ids /\ k.arg \in Inputs("create") /\ k.pc = "commit"
  BY CallFields DEF IInv, TypeOK, CommitCreate
<1>2. [content |-> k.arg.content, status |-> k.arg.status]
         \in [content : Content, status : Statuses]
  BY <1>1, InputTypes
<1>3. Settles(c) /\ call'[c].pc = "publish"
  BY <1>1, CommittedSettles DEF CommitCreate, IInv
<1>4. [current |-> k.id, createdAt |-> k.id, updatedAt |-> k.id]
        \in [current : Ids, createdAt : Ids, updatedAt : Ids]
  BY <1>1
<1>5. refs[k.work] = Null
  BY SMTT(60) DEF CommitCreate, IInv, CallsSound, InFlight
<1> QED BY <1>1, <1>2, <1>3, <1>4, <1>5 DEF CommitCreate, Appends

LEMMA ReviseAppends ==
  ASSUME IInv, NEW c \in Clients, CommitRevise(c)
  PROVE  /\ Appends(c, call[c].row.node)
         /\ refs[call[c].work] # Null
         /\ refs[call[c].work].current = call[c].row.node
         /\ call[c].row.node \in Ids
         /\ call[c].row.node < call[c].id
<1> DEFINE k == call[c]
<1>1. /\ k.work \in Works /\ k.id \in Ids /\ k.arg \in Inputs("revise")
      /\ k.row \in RowType /\ k.pc = "commit" /\ k.verb = "revise"
  BY CallFields DEF IInv, TypeOK, CommitRevise, RowOf
<1>2. Edited(k.arg, k.row.content) \in Content
  BY <1>1, InputTypes, EditedType DEF RowType
<1>3. Settles(c) /\ call'[c].pc = "publish"
  BY <1>1, CommittedSettles DEF CommitRevise, IInv
<1>4. refs[k.work] # Null /\ k.row.node < k.id
  BY <1>1 DEF IInv, CallsSound, InFlight
<1>5. refs[k.work] \in [current : Ids, createdAt : Ids, updatedAt : Ids]
  BY <1>1, <1>4, CurrentNode DEF IInv
<1>6. \E n \in [content : Content, status : Statuses] : nodes' = [nodes EXCEPT ![k.id] = n]
  <2>1. nodes' = [nodes EXCEPT ![k.id] =
                    [content |-> Edited(k.arg, k.row.content), status |-> k.row.status]]
    BY DEF CommitRevise
  <2> QED BY <1>1, <1>2, <2>1 DEF RowType
<1>7. \E r \in [current : Ids, createdAt : Ids, updatedAt : Ids] :
        r.current = k.id /\ refs' = [refs EXCEPT ![k.work] = r]
  <2>1. refs' = [refs EXCEPT ![k.work] = [refs[k.work] EXCEPT !.current = k.id,
                                                             !.updatedAt = k.id]]
    BY <1>1 DEF CommitRevise, IInv, TypeOK
  <2>2. /\ [refs[k.work] EXCEPT !.current = k.id, !.updatedAt = k.id]
             \in [current : Ids, createdAt : Ids, updatedAt : Ids]
        /\ [refs[k.work] EXCEPT !.current = k.id, !.updatedAt = k.id].current = k.id
    BY <1>1, <1>5
  <2> QED BY <2>1, <2>2
<1> QED BY <1>1, <1>3, <1>4, <1>6, <1>7 DEF CommitRevise, RefUnmoved, Appends, RowType

LEMMA EdgePreserves ==
  ASSUME IInv, NEW c \in Clients, CommitEdge(c) \/ CommitComment(c)
  PROVE  Preserves(c) /\ Settles(c)
<1>1. call[c].pc = "commit" /\ Committed(c) /\ TypeOK
  BY DEF CommitEdge, CommitComment, IInv
<1>2. Settles(c)
  BY <1>1, CommittedSettles
<1>3. call[c].work \in Works /\ call[c].id \in Ids
  BY ZenonT(60), <1>1, CallFields DEF TypeOK
<1>4. call[c].verb # "create"
  BY DEF CommitEdge, CommitComment, EdgeTypes
<1>5. refs[call[c].work] # Null
  BY <1>1, <1>4 DEF IInv, CallsSound, InFlight
<1>6. refs[call[c].work] \in [current : Ids, createdAt : Ids, updatedAt : Ids]
  BY SMTT(60), <1>3, <1>5, CurrentNode DEF IInv
<1>7. refs' = [refs EXCEPT ![call[c].work].updatedAt = call[c].id] \/ refs' = refs
  BY DEF CommitEdge, CommitComment
<1>8. [refs[call[c].work] EXCEPT !.updatedAt = call[c].id]
         \in [current : Ids, createdAt : Ids, updatedAt : Ids]
  BY <1>3, <1>6
<1>9. [refs[call[c].work] EXCEPT !.updatedAt = call[c].id].current = refs[call[c].work].current
  BY SMTT(60), <1>6
<1>10. nodes' = nodes /\ refUpdates' = refUpdates
  BY DEF CommitEdge, CommitComment
<1> QED BY <1>1, <1>2, <1>3, <1>5, <1>7, <1>8, <1>9, <1>10, ConstantsOK DEF Preserves, TypeOK

LEMMA QuietSettles ==
  ASSUME IInv, NEW c \in Clients,
         \/ ReturnUnchanged(c) \/ Conflict(c) \/ Publish(c)
         \/ Refetch \/ Reload \/ UNCHANGED vars
  PROVE  Preserves(c) /\ Settles(c) /\ edges' = edges
<1>1. CASE ReturnUnchanged(c) \/ Conflict(c) \/ Publish(c)
  BY <1>1 DEF ReturnUnchanged, Conflict, Publish, Return, Idle, tables, Preserves,
              Settles, IInv, TypeOK
<1>2. CASE Refetch \/ Reload \/ UNCHANGED vars
  BY <1>2 DEF Refetch, Reload, Idle, vars, tables, Preserves, Settles, IInv, TypeOK
<1> QED BY <1>1, <1>2

-----------------------------------------------------------------------------
(* The inductive invariant, one lemma per kind of step.                     *)

\* What an append knows about its id, its ref and the tables after it.
LEMMA AppendFacts ==
  ASSUME IInv, NEW c \in Clients, NEW old, Appends(c, old)
  PROVE  LET k == call[c] IN
         /\ nodes[k.id] = Null /\ k.id < nextId
         /\ nodes'[k.id] # Null
         /\ \A i \in Ids : i # k.id => nodes'[i] = nodes[i]
         /\ refs'[k.work] # Null /\ refs'[k.work].current = k.id
         /\ \A w \in Works : w # k.work => refs'[w] = refs[w]
         /\ \A w \in Works : w # k.work => History(w)' = History(w)
         /\ \A w \in Works : w = k.work =>
              History(w)' = History(w) \cup {[ref |-> k.work, old |-> old, new |-> k.id]}
<1> DEFINE k == call[c]
           u == [ref |-> k.work, old |-> old, new |-> k.id]
<1>1. k.pc = "commit" /\ k.work \in Works /\ k.id \in Ids
  BY DEF Appends
<1>2. nodes[k.id] = Null /\ k.id < nextId
  BY <1>1 DEF IInv, IdsFresh
<1>3. PICK n \in [content : Content, status : Statuses] : nodes' = [nodes EXCEPT ![k.id] = n]
  BY DEF Appends
<1>4. PICK r \in [current : Ids, createdAt : Ids, updatedAt : Ids] :
        r.current = k.id /\ refs' = [refs EXCEPT ![k.work] = r]
  BY DEF Appends
<1>5. n # Null /\ r # Null
  BY ConstantsOK
<1>6. nodes'[k.id] # Null /\ \A i \in Ids : i # k.id => nodes'[i] = nodes[i]
  BY <1>1, <1>3, <1>5 DEF IInv, TypeOK
<1>7. /\ refs'[k.work] # Null /\ refs'[k.work].current = k.id
      /\ \A w \in Works : w # k.work => refs'[w] = refs[w]
  BY <1>1, <1>4, <1>5 DEF IInv, TypeOK
<1>8. refUpdates' = refUpdates \cup {u} /\ u.ref = k.work
  BY DEF Appends
<1>9. /\ \A w \in Works : w # k.work => History(w)' = History(w)
      /\ \A w \in Works : w = k.work => History(w)' = History(w) \cup {u}
  <2> HIDE DEF u, k
  <2> QED BY <1>8 DEF History
<1> QED BY <1>2, <1>6, <1>7, <1>9

\* Fresh ids stay fresh.
LEMMA IdsFreshAppends ==
  ASSUME IInv, NEW c \in Clients, NEW old, Appends(c, old)
  PROVE  IdsFresh'
<1> DEFINE k == call[c]
<1>1. Settles(c) /\ call'[c].pc = "publish" /\ k.pc = "commit" /\ k.id \in Ids
  BY DEF Appends
<1>2. \A i \in Ids : nodes'[i] # Null => i < nextId'
  BY <1>1, AppendFacts DEF Settles, IInv, IdsFresh
<1>3. ASSUME NEW d \in Clients, call'[d].pc = "commit"
      PROVE  /\ call'[d].id < nextId' /\ nodes'[call'[d].id] = Null
             /\ \A e \in Clients \ {d} :
                  call'[e].pc = "commit" => call'[e].id # call'[d].id
  <2>1. call'[d] = call[d] /\ d # c
    BY <1>1, <1>3 DEF Settles
  <2>2. call[d].id \in Ids
    BY <1>3, <2>1, CallFields DEF IInv, TypeOK
  <2>3. call[d].id # k.id
    BY <1>1, <1>3, <2>1 DEF IInv, IdsFresh
  <2>4. nodes'[call[d].id] = nodes[call[d].id]
    BY <2>2, <2>3, AppendFacts
  <2>5. \A e \in Clients \ {d} : call'[e].pc = "commit" => call'[e] = call[e]
    BY <1>1 DEF Settles
  <2> QED BY <1>1, <1>3, <2>1, <2>4, <2>5 DEF Settles, IInv, IdsFresh
<1> QED BY <1>2, <1>3 DEF IdsFresh

LEMMA IdsFreshPreserves ==
  ASSUME IInv, NEW c \in Clients, Preserves(c), Settles(c)
  PROVE  IdsFresh'
<1>1. nodes' = nodes /\ nextId' = nextId
  BY DEF Preserves, Settles
<1>2. \A d \in Clients : call'[d].pc = "commit" => call'[d] = call[d]
  BY DEF Settles
<1> QED BY <1>1, <1>2 DEF IInv, IdsFresh

\* A step that touches no table: refs, nodes and history stay as they were.
LEMMA TablesUnchanged ==
  ASSUME IInv, UNCHANGED tables
  PROVE  RefsRooted' /\ LinearHistory' /\ NoOrphanRevision'
  BY DEF IInv, tables, RefsRooted, LinearHistory, NoOrphanRevision, History

LEMMA RefsPreserved ==
  ASSUME IInv, NEW c \in Clients, Preserves(c)
  PROVE  RefsRooted' /\ LinearHistory' /\ NoOrphanRevision'
<1>1. nodes' = nodes /\ refUpdates' = refUpdates
  BY DEF Preserves
<1>2. \A w \in Works : History(w)' = History(w)
  BY <1>1 DEF History
<1>3. \A w \in Works : (refs'[w] = Null <=> refs[w] = Null)
                       /\ (refs[w] # Null => refs'[w].current = refs[w].current)
  BY DEF Preserves
<1>4. RefsRooted'
  BY <1>1, <1>2, <1>3 DEF IInv, RefsRooted
<1>5. LinearHistory'
  BY <1>2, <1>3 DEF IInv, LinearHistory
<1>6. \A u \in refUpdates : u.ref \in Works
  BY DEF IInv, TypeOK
<1>7. NoOrphanRevision'
  BY <1>1, <1>3, <1>6 DEF IInv, NoOrphanRevision
<1> QED BY <1>4, <1>5, <1>7

LEMMA RefsRootedAppends ==
  ASSUME IInv, NEW c \in Clients, NEW old, Appends(c, old)
  PROVE  RefsRooted'
<1> DEFINE k == call[c]
<1>1. k.work \in Works
  BY DEF Appends
<1> SUFFICES ASSUME NEW w \in Works
             PROVE  IF refs'[w] = Null THEN History(w)' = {}
                    ELSE nodes'[refs'[w].current] # Null
  BY DEF RefsRooted
<1>2. CASE w = k.work
  BY <1>2, AppendFacts
<1>3. CASE w # k.work
  <2>1. refs'[w] = refs[w] /\ History(w)' = History(w)
    BY <1>3, AppendFacts
  <2>2. ASSUME refs[w] # Null
        PROVE  nodes'[refs[w].current] # Null
    <3>1. refs[w].current \in Ids /\ nodes[refs[w].current] # Null
      BY <2>2, CurrentNode DEF IInv, RefsRooted
    <3> QED BY <3>1, AppendFacts
  <2> QED BY <2>1, <2>2 DEF IInv, RefsRooted
<1> QED BY <1>2, <1>3

\* What was read stays true: edges only grow, nodes are never rewritten, and
\* a ref under creation belongs to its creator.
LEMMA CallsSoundAppends ==
  ASSUME IInv, NEW c \in Clients, NEW old, Appends(c, old), edges \subseteq edges'
  PROVE  CallsSound'
<1> DEFINE k == call[c]
<1>1. Settles(c) /\ call'[c].pc = "publish" /\ k.work \in Works /\ k.id \in Ids
  BY DEF Appends
<1> SUFFICES ASSUME NEW d \in Clients, call'[d].pc \in {"decide", "commit"}
             PROVE  LET j == call'[d] IN
               IF j.verb = "create"
               THEN refs'[j.work] = Null /\ \A e \in Clients \ {d} : call'[e].work # j.work
               ELSE /\ refs'[j.work] # Null
                    /\ nodes'[j.row.node] # Null
                    /\ j.row.content = nodes'[j.row.node].content
                    /\ EdgesOf(edges', j.work, {"status_set"}) = {} =>
                         j.row.status = nodes'[j.row.node].status
                    /\ j.pc = "commit" => j.row.node < j.id
  BY DEF CallsSound, InFlight
<1>2. call'[d] = call[d] /\ d # c /\ InFlight(d)
  BY <1>1 DEF Settles, InFlight
<1> DEFINE j == call[d]
<1>3. j.work \in Works /\ j.row \in RowOf(j.verb)
  BY <1>2, CallFields DEF IInv, TypeOK, InFlight
<1>4. CASE j.verb = "create"
  <2>1. refs[j.work] = Null /\ \A e \in Clients \ {d} : call[e].work # j.work
    BY <1>2, <1>4 DEF IInv, CallsSound
  <2>2. refs'[j.work] = refs[j.work]
    BY <1>2, <1>3, <2>1, AppendFacts
  <2>3. \A e \in Clients : call'[e].work = call[e].work \/ call'[e].work = Null
    BY <1>1 DEF Settles
  <2>4. j.work # Null
    BY <1>3, ConstantsOK
  <2> QED BY <1>2, <1>4, <2>1, <2>2, <2>3, <2>4
<1>5. CASE j.verb # "create"
  <2>1. /\ refs[j.work] # Null /\ nodes[j.row.node] # Null
        /\ j.row.content = nodes[j.row.node].content
        /\ EdgesOf(edges, j.work, {"status_set"}) = {} =>
             j.row.status = nodes[j.row.node].status
        /\ j.pc = "commit" => j.row.node < j.id
    BY <1>2, <1>5 DEF IInv, CallsSound
  <2>2. j.row.node \in Ids
    BY <1>3, <1>5 DEF RowOf, RowType
  <2>3. nodes'[j.row.node] = nodes[j.row.node]
    BY <2>1, <2>2, AppendFacts
  <2>4. refs'[j.work] # Null
    BY <1>3, <2>1, AppendFacts
  <2>5. EdgesOf(edges', j.work, {"status_set"}) = {} =>
          EdgesOf(edges, j.work, {"status_set"}) = {}
    BY DEF EdgesOf
  <2> QED BY <1>2, <1>5, <2>1, <2>3, <2>4, <2>5
<1> QED BY <1>4, <1>5

LEMMA CallsSoundPreserves ==
  ASSUME IInv, NEW c \in Clients, Preserves(c), Settles(c), edges \subseteq edges'
  PROVE  CallsSound'
<1> SUFFICES ASSUME NEW d \in Clients, call'[d].pc \in {"decide", "commit"}
             PROVE  LET j == call'[d] IN
               IF j.verb = "create"
               THEN refs'[j.work] = Null /\ \A e \in Clients \ {d} : call'[e].work # j.work
               ELSE /\ refs'[j.work] # Null
                    /\ nodes'[j.row.node] # Null
                    /\ j.row.content = nodes'[j.row.node].content
                    /\ EdgesOf(edges', j.work, {"status_set"}) = {} =>
                         j.row.status = nodes'[j.row.node].status
                    /\ j.pc = "commit" => j.row.node < j.id
  BY DEF CallsSound, InFlight
<1> DEFINE j == call[d]
<1>1. call'[d] = call[d] /\ InFlight(d)
  BY DEF Settles, InFlight
<1>2. j.work \in Works
  BY <1>1, CallFields DEF IInv, TypeOK, InFlight
<1>3. nodes' = nodes /\ (refs'[j.work] = Null <=> refs[j.work] = Null)
  BY <1>2 DEF Preserves
<1>4. \A e \in Clients : call'[e].work = call[e].work \/ call'[e].work = Null
  BY DEF Settles
<1>5. j.work # Null
  BY <1>2, ConstantsOK
<1>6. EdgesOf(edges', j.work, {"status_set"}) = {} =>
        EdgesOf(edges, j.work, {"status_set"}) = {}
  BY DEF EdgesOf
<1>7. CASE j.verb = "create"
  BY <1>1, <1>3, <1>4, <1>5, <1>7 DEF IInv, CallsSound
<1>8. CASE j.verb # "create"
  BY <1>1, <1>3, <1>6, <1>8 DEF IInv, CallsSound
<1> QED BY <1>7, <1>8

\* A creation starts a line; a revision extends the line of its ref at its end.
LEMMA LinearHistoryAppends ==
  ASSUME IInv, NEW c \in Clients, NEW old, Appends(c, old),
         IF refs[call[c].work] = Null THEN old = Null
         ELSE refs[call[c].work].current = old /\ old \in Ids /\ old < call[c].id
  PROVE  LinearHistory'
<1> DEFINE k == call[c]
           u == [ref |-> k.work, old |-> old, new |-> k.id]
<1>1. k.work \in Works /\ k.id \in Ids
  BY DEF Appends
<1> SUFFICES ASSUME NEW w \in Works, refs'[w] # Null
             PROVE  /\ \A a, b \in History(w)' : a.old = b.old \/ a.new = b.new => a = b
                    /\ \A a \in History(w)' : a.old # Null =>
                         a.old < a.new /\ \E b \in History(w)' : b.new = a.old
                    /\ \E a \in History(w)' : a.new = refs'[w].current
                    /\ \A a \in History(w)' : a.old # refs'[w].current
  BY DEF LinearHistory
<1>2. CASE w # k.work
  <2>1. refs'[w] = refs[w] /\ History(w)' = History(w)
    BY <1>2, AppendFacts
  <2> QED BY <2>1 DEF IInv, LinearHistory
<1>3. CASE w = k.work
  <2>1. /\ History(w)' = History(w) \cup {u} /\ refs'[w].current = k.id
        /\ u.old = old /\ u.new = k.id
    BY <1>3, AppendFacts
  <2>2. k.id # Null
    BY <1>1, ConstantsOK
  <2>3. CASE refs[w] = Null
    <3>1. History(w) = {} /\ old = Null
      BY <1>3, <2>3 DEF IInv, RefsRooted
    <3> HIDE DEF u
    <3> QED BY <2>1, <2>2, <3>1
  <2>4. CASE refs[w] # Null
    <3>1. refs[w].current = old /\ old \in Ids /\ old < k.id /\ old # Null
      BY <1>3, <2>4, ConstantsOK
    <3>2. /\ \A a, b \in History(w) : a.old = b.old \/ a.new = b.new => a = b
          /\ \A a \in History(w) : a.old # Null =>
               a.old < a.new /\ \E b \in History(w) : b.new = a.old
          /\ \E a \in History(w) : a.new = old
          /\ \A a \in History(w) : a.old # old
      BY <2>4, <3>1 DEF IInv, LinearHistory
    <3>3. \A a \in History(w) : a.new # k.id
      BY AppendFacts DEF IInv, NoOrphanRevision, History
    <3>4. \A a \in History(w) : a.old # k.id
      BY <2>2, <3>2, <3>3
    <3>5. old # k.id
      BY <1>1, <3>1 DEF Ids
    <3> HIDE DEF u, k
    <3> QED BY <2>1, <3>1, <3>2, <3>3, <3>4, <3>5
  <2> QED BY <2>3, <2>4
<1> QED BY <1>2, <1>3

LEMMA NoOrphanAppends ==
  ASSUME IInv, NEW c \in Clients, NEW old, Appends(c, old)
  PROVE  NoOrphanRevision'
<1> DEFINE k == call[c]
           u == [ref |-> k.work, old |-> old, new |-> k.id]
<1>1. k.work \in Works /\ k.id \in Ids /\ refUpdates' = refUpdates \cup {u}
  BY DEF Appends
<1>2. \A v \in refUpdates : v.new # k.id /\ v.ref \in Works /\ v.new \in Ids
  <2>1. \A v \in refUpdates : v.ref \in Works /\ v.new \in Ids
    BY DEF IInv, TypeOK
  <2>2. \A v \in refUpdates : nodes[v.new] # Null
    BY DEF IInv, NoOrphanRevision
  <2>3. nodes[k.id] = Null
    BY AppendFacts
  <2> QED BY <2>1, <2>2, <2>3
<1>3. ASSUME NEW i \in Ids, nodes'[i] # Null
      PROVE  \E a \in refUpdates' : a.new = i /\ \A b \in refUpdates' : b.new = i => b = a
  <2>0. u.new = k.id
    OBVIOUS
  <2> HIDE DEF u
  <2>1. CASE i = k.id
    BY <1>1, <1>2, <2>0, <2>1
  <2>2. CASE i # k.id
    <3>1. nodes[i] # Null
      BY <1>3, <2>2, AppendFacts
    <3>2. PICK a \in refUpdates : a.new = i /\ \A b \in refUpdates : b.new = i => b = a
      BY <3>1 DEF IInv, NoOrphanRevision
    <3> QED BY <1>1, <2>0, <2>2, <3>2
  <2> QED BY <2>1, <2>2
<1>4. ASSUME NEW a \in refUpdates'
      PROVE  nodes'[a.new] # Null /\ refs'[a.ref] # Null
  <2>1. CASE a \in refUpdates
    <3>1. nodes[a.new] # Null /\ refs[a.ref] # Null
      BY <2>1 DEF IInv, NoOrphanRevision
    <3>2. nodes'[a.new] = nodes[a.new]
      BY <1>2, <2>1, AppendFacts
    <3>3. refs'[a.ref] # Null
      BY <1>2, <2>1, <3>1, AppendFacts
    <3> QED BY <3>1, <3>2, <3>3
  <2>2. CASE a = u
    BY <2>2, AppendFacts
  <2> QED BY <1>1, <1>4, <2>1, <2>2
<1> QED BY <1>3, <1>4 DEF NoOrphanRevision

\* A call that begins has read a row that agrees with the tables.
LEMMA CallsSoundBegin ==
  ASSUME IInv, NEW c \in Clients, NEW verb \in Verbs, NEW w \in Works,
         NEW arg \in Inputs(verb), Begin(c, verb, w, arg)
  PROVE  IdsFresh' /\ CallsSound'
<1> DEFINE k == [pc |-> "decide", verb |-> verb, work |-> w, arg |-> arg,
                 row |-> IF verb = "create" THEN Null ELSE Row(w), id |-> Null]
<1>1. call'[c] = k /\ \A d \in Clients \ {c} : call'[d] = call[d]
  <2>1. call' = [call EXCEPT ![c] = k]
    BY DEF Begin
  <2> HIDE DEF k
  <2> QED BY <2>1 DEF IInv, TypeOK
<1>2. UNCHANGED tables /\ nextId' = nextId
  BY DEF Begin
<1>3. k.pc = "decide" /\ k.work = w /\ k.verb = verb
      /\ k.row = IF verb = "create" THEN Null ELSE Row(w)
  OBVIOUS
<1> HIDE DEF k
<1>4. IdsFresh'
  <2>1. nodes' = nodes /\ nextId' = nextId
    BY <1>2 DEF tables
  <2>2. \A d \in Clients : call'[d].pc = "commit" => d # c /\ call'[d] = call[d]
    BY <1>1, <1>3
  <2> QED BY <2>1, <2>2 DEF IInv, IdsFresh
<1>5. ASSUME NEW d \in Clients, call'[d].pc \in {"decide", "commit"}
      PROVE  LET j == call'[d] IN
               IF j.verb = "create"
               THEN refs[j.work] = Null /\ \A e \in Clients \ {d} : call'[e].work # j.work
               ELSE /\ refs[j.work] # Null
                    /\ nodes[j.row.node] # Null
                    /\ j.row.content = nodes[j.row.node].content
                    /\ EdgesOf(edges, j.work, {"status_set"}) = {} =>
                         j.row.status = nodes[j.row.node].status
                    /\ j.pc = "commit" => j.row.node < j.id
  <2>1. CASE d = c /\ verb = "create"
    <3>1. refs[w] = Null /\ \A e \in Clients : call[e].work # w
      BY <2>1 DEF Begin, FreshRef
    <3> QED BY <1>1, <1>3, <2>1, <3>1
  <2>2. CASE d = c /\ verb # "create"
    <3>1. refs[w] # Null
      BY <2>2 DEF Begin
    <3>2. nodes[refs[w].current] # Null
      BY <3>1 DEF IInv, RefsRooted
    <3>3. /\ Row(w).node = refs[w].current
          /\ Row(w).content = nodes[refs[w].current].content
          /\ EdgesOf(edges, w, {"status_set"}) = {} =>
               Row(w).status = nodes[refs[w].current].status
      BY DEF Row, Status, StatusIn
    <3> QED BY <1>1, <1>3, <2>2, <3>1, <3>2, <3>3
  <2>3. CASE d # c
    <3>1. call'[d] = call[d] /\ InFlight(d)
      BY <1>1, <1>5, <2>3 DEF InFlight
    <3>2. CASE call[d].verb = "create"
      <4>1. refs[call[d].work] = Null /\ \A e \in Clients \ {d} : call[e].work # call[d].work
        BY <3>1, <3>2 DEF IInv, CallsSound
      <4>2. call'[c].work # call[d].work
        BY <1>1, <1>3, <4>1 DEF Begin, FreshRef
      <4> QED BY <1>1, <3>1, <3>2, <4>1, <4>2
    <3>3. CASE call[d].verb # "create"
      BY <3>1, <3>3 DEF IInv, CallsSound
    <3> QED BY <3>2, <3>3
  <2> QED BY <2>1, <2>2, <2>3
<1>6. CallsSound'
  <2>1. nodes' = nodes /\ refs' = refs /\ edges' = edges
    BY <1>2 DEF tables
  <2>2. \A d \in Clients : InFlight(d)' <=> call'[d].pc \in {"decide", "commit"}
    BY DEF InFlight
  <2> QED BY <1>5, <2>1, <2>2 DEF CallsSound
<1> QED BY <1>4, <1>6

\* A minted id is above every stored node and every id already minted.
LEMMA MintInvariant ==
  ASSUME IInv, NEW c \in Clients, Mint(c)
  PROVE  IdsFresh' /\ CallsSound'
<1> DEFINE k == [call[c] EXCEPT !.pc = "commit", !.id = nextId]
<1>1. nextId \in Ids /\ nextId' = nextId + 1 /\ UNCHANGED tables
  BY ConstantsOK DEF Mint, IInv, TypeOK, Ids
<1>2. call[c] \in CallType /\ call[c].pc = "decide"
  BY DEF Mint, IInv, TypeOK
<1>3. /\ k.pc = "commit" /\ k.id = nextId /\ k.work = call[c].work
      /\ k.verb = call[c].verb /\ k.row = call[c].row
  <2>1. \A v, pcs, ids : \A x \in CallOf(v, pcs, ids) :
          LET y == [x EXCEPT !.pc = "commit", !.id = nextId] IN
          /\ y.pc = "commit" /\ y.id = nextId /\ y.work = x.work
          /\ y.verb = x.verb /\ y.row = x.row
    BY DEF CallOf
  <2>2. call[c] # Idle
    BY <1>2 DEF Idle
  <2> QED BY <1>2, <2>1, <2>2 DEF CallType
<1>4. call'[c] = k /\ \A d \in Clients \ {c} : call'[d] = call[d]
  <2>1. call' = [call EXCEPT ![c] = k]
    BY DEF Mint, IInv, TypeOK
  <2> HIDE DEF k
  <2> QED BY <2>1 DEF IInv, TypeOK
<1> HIDE DEF k
<1>5. \A i \in Ids : nodes[i] # Null => i < nextId
  BY DEF IInv, IdsFresh
<1>6. \A d \in Clients : call[d].pc = "commit" => call[d].id \in Ids /\ call[d].id < nextId
  BY CallFields DEF IInv, TypeOK, IdsFresh
<1>7. IdsFresh'
  <2>1. \A i \in Ids : nodes'[i] # Null => i < nextId'
    BY <1>1, <1>5 DEF tables, Ids
  <2>2. ASSUME NEW d \in Clients, call'[d].pc = "commit"
        PROVE  /\ call'[d].id < nextId' /\ nodes'[call'[d].id] = Null
               /\ \A e \in Clients \ {d} :
                    call'[e].pc = "commit" => call'[e].id # call'[d].id
    <3>1. nodes' = nodes
      BY <1>1 DEF tables
    <3>2. \A e \in Clients \ {c} : call'[e].pc = "commit" =>
            call'[e].id \in Ids /\ call'[e].id < nextId
      BY <1>4, <1>6
    <3>3. nodes[nextId] = Null
      BY <1>1, <1>5 DEF Ids
    <3>4. CASE d = c
      BY <1>1, <1>3, <1>4, <3>1, <3>2, <3>3, <3>4 DEF Ids
    <3>5. CASE d # c
      <4>1. call'[d] = call[d] /\ nodes[call[d].id] = Null
        BY <1>4, <2>2, <3>5 DEF IInv, IdsFresh
      <4>2. \A e \in Clients \ {d, c} : call'[e].pc = "commit" => call'[e].id # call'[d].id
        BY <1>4, <2>2, <3>5 DEF IInv, IdsFresh
      <4>3. call'[d].id < nextId /\ call'[d].id \in Ids
        BY <2>2, <3>2, <3>5
      <4>4. call'[d].id # nextId /\ call'[d].id < nextId + 1
        BY <1>1, <4>3 DEF Ids
      <4> QED BY <1>1, <1>3, <1>4, <3>1, <4>1, <4>2, <4>4
    <3> QED BY <3>4, <3>5
  <2> QED BY <2>1, <2>2 DEF IdsFresh
<1>8. CallsSound'
  <2>1. nodes' = nodes /\ refs' = refs /\ edges' = edges
    BY <1>1 DEF tables
  <2>2. \A d \in Clients : call'[d].work = call[d].work /\ call'[d].verb = call[d].verb
                           /\ call'[d].row = call[d].row
    BY <1>3, <1>4
  <2>3. \A d \in Clients : InFlight(d)' => InFlight(d)
    BY <1>2, <1>3, <1>4 DEF InFlight
  <2>4. ASSUME NEW d \in Clients, InFlight(d), call[d].verb # "create",
               call'[d].pc = "commit"
        PROVE  call'[d].row.node < call'[d].id
    <3>1. CASE d # c
      BY <1>4, <2>4, <3>1 DEF IInv, CallsSound
    <3>2. CASE d = c
      <4>1. call[c].row \in RowType
        BY <1>2, <2>4, <3>2, CallFields DEF RowOf
      <4>2. nodes[call[c].row.node] # Null /\ call[c].row.node \in Ids
        BY <2>4, <3>2, <4>1 DEF IInv, CallsSound, RowType
      <4> QED BY <1>3, <1>4, <1>5, <3>2, <4>2
    <3> QED BY <3>1, <3>2
  <2> QED BY <2>1, <2>2, <2>3, <2>4 DEF IInv, CallsSound
<1> QED BY <1>7, <1>8

LEMMA IInit == Init => IInv
<1> SUFFICES ASSUME Init PROVE IInv
  OBVIOUS
<1>1. TypeOK
  <2>1. /\ refs \in [Works -> OrNull([current : Ids, createdAt : Ids, updatedAt : Ids])]
        /\ nodes \in [Ids -> OrNull([content : Content, status : Statuses])]
        /\ workDocs \in [Works -> OrNull([content : Content, status : Statuses,
                                          updatedAt : Ids])]
    BY DEF Init, OrNull
  <2>2. nextId \in 1..(MaxId + 1)
    BY ConstantsOK DEF Init
  <2>3. call \in [Clients -> CallType]
    BY IdleIsCall DEF Init
  <2>4. refUpdates = {} /\ edges = {} /\ comments = {} /\ commentDocs = {}
        /\ notified \in BOOLEAN /\ unseen \in BOOLEAN
    BY DEF Init
  <2> QED BY <2>1, <2>2, <2>3, <2>4 DEF TypeOK
<1>2. \A c \in Clients : call[c].pc = "idle"
  BY DEF Init, Idle
<1> QED BY <1>1, <1>2 DEF Init, IInv, IdsFresh, RefsRooted, CallsSound, InFlight, History,
           LinearHistory, NoOrphanRevision

\* Every step, as one of the kinds of step above.
LEMMA StepKinds ==
  ASSUME [Next]_vars
  PROVE  \/ \E c \in Clients, w \in Works, verb \in Verbs :
              \E arg \in Inputs(verb) : Begin(c, verb, w, arg)
         \/ \E c \in Clients : Mint(c)
         \/ \E c \in Clients : CommitCreate(c)
         \/ \E c \in Clients : CommitRevise(c)
         \/ \E c \in Clients : CommitEdge(c) \/ CommitComment(c)
         \/ \E c \in Clients : \/ ReturnUnchanged(c) \/ Conflict(c) \/ Publish(c)
                               \/ Refetch \/ Reload \/ UNCHANGED vars
  BY ConstantsOK DEF Next, Step

\* The invariant is inductive.
LEMMA IInvStep ==
  ASSUME IInv, [Next]_vars
  PROVE  IInv'
<1>1. ASSUME NEW c \in Clients, NEW w \in Works, NEW verb \in Verbs,
             NEW arg \in Inputs(verb), Begin(c, verb, w, arg)
      PROVE  IInv'
  <2>1. UNCHANGED tables
    BY <1>1 DEF Begin
  <2> QED BY <1>1, <2>1, TypeBegin, CallsSoundBegin, TablesUnchanged DEF IInv
<1>2. ASSUME NEW c \in Clients, Mint(c)
      PROVE  IInv'
  <2>1. UNCHANGED tables
    BY <1>2 DEF Mint
  <2> QED BY <1>2, <2>1, TypeOther, MintInvariant, TablesUnchanged DEF IInv
<1>3. ASSUME NEW c \in Clients, CommitCreate(c)
      PROVE  IInv'
  <2>1. Appends(c, Null) /\ refs[call[c].work] = Null
    BY <1>3, CreateAppends
  <2>2. edges \subseteq edges'
    BY <1>3 DEF CommitCreate
  <2>3. IdsFresh' /\ RefsRooted' /\ CallsSound' /\ NoOrphanRevision'
    BY <2>1, <2>2, IdsFreshAppends, RefsRootedAppends, CallsSoundAppends, NoOrphanAppends
  <2>4. LinearHistory'
    BY <2>1, LinearHistoryAppends
  <2> QED BY <1>3, <2>3, <2>4, TypeCommitCreate DEF IInv
<1>4. ASSUME NEW c \in Clients, CommitRevise(c)
      PROVE  IInv'
  <2> DEFINE old == call[c].row.node
  <2>1. /\ Appends(c, old) /\ refs[call[c].work] # Null
        /\ refs[call[c].work].current = old /\ old \in Ids /\ old < call[c].id
    BY <1>4, ReviseAppends
  <2>2. edges \subseteq edges'
    BY <1>4 DEF CommitRevise
  <2> HIDE DEF old
  <2>3. IdsFresh' /\ RefsRooted' /\ CallsSound' /\ NoOrphanRevision'
    BY <2>1, <2>2, IdsFreshAppends, RefsRootedAppends, CallsSoundAppends, NoOrphanAppends
  <2>4. LinearHistory'
    BY <2>1, LinearHistoryAppends
  <2> QED BY <1>4, <2>3, <2>4, TypeCommitRevise DEF IInv
<1>5. ASSUME NEW c \in Clients, CommitEdge(c) \/ CommitComment(c)
      PROVE  IInv'
  <2>1. Preserves(c) /\ Settles(c)
    BY SMTT(60), <1>5, EdgePreserves
  <2>2. edges \subseteq edges'
    BY Zenon, <1>5 DEF CommitEdge, CommitComment
  <2>3. IdsFresh' /\ RefsRooted' /\ CallsSound' /\ LinearHistory' /\ NoOrphanRevision'
    BY <2>1, <2>2, IdsFreshPreserves, RefsPreserved, CallsSoundPreserves
  <2> QED BY <1>5, <2>3, TypeCommitEdge, TypeCommitComment DEF IInv
<1>6. ASSUME NEW c \in Clients,
             \/ ReturnUnchanged(c) \/ Conflict(c) \/ Publish(c)
             \/ Refetch \/ Reload \/ UNCHANGED vars
      PROVE  IInv'
  <2>1. Preserves(c) /\ Settles(c) /\ edges' = edges
    BY <1>6, QuietSettles
  <2>2. edges \subseteq edges'
    BY <2>1
  <2>3. IdsFresh' /\ RefsRooted' /\ CallsSound' /\ LinearHistory' /\ NoOrphanRevision'
    BY <2>1, <2>2, IdsFreshPreserves, RefsPreserved, CallsSoundPreserves
  <2> QED BY <1>6, <2>3, TypeOther DEF IInv
<1> QED BY <1>1, <1>2, <1>3, <1>4, <1>5, <1>6, StepKinds

\* The invariant holds in every reachable state: the fact the theorems below
\* on the tables and on the writers of the work graph all rest on.
THEOREM InvariantHolds == Spec => []IInv
  BY IInit, IInvStep, PTL DEF Spec

-----------------------------------------------------------------------------
(* What the work graph keeps.                                              *)

\* Every table row and every call in flight stays well formed.
THEOREM TypeCorrect == Spec => []TypeOK
<1>1. IInv => TypeOK
  BY DEF IInv
<1> QED BY <1>1, InvariantHolds, PTL

\* The compare-and-swap of applyRevision keeps one unbroken line of revisions
\* per work, however many callers revise it.
THEOREM HistoryIsLinear == Spec => []LinearHistory
<1>1. IInv => LinearHistory
  BY DEF IInv
<1> QED BY <1>1, InvariantHolds, PTL

\* A revision that loses the race leaves no node behind: the transaction that
\* inserted it rolls back.
THEOREM NoOrphans == Spec => []NoOrphanRevision
<1>1. IInv => NoOrphanRevision
  BY DEF IInv
<1> QED BY <1>1, InvariantHolds, PTL

\* The content a ref moves to is an edit of the content it held: the caller
\* that moves it read the row the compare-and-swap still finds there.
LEMMA MovedByEdit ==
  ASSUME IInv, [Next]_vars, NEW w \in Works, refs[w] # Null,
         refs'[w].current # refs[w].current
  PROVE  \E c \in Clients :
           /\ call[c].pc = "commit" /\ call[c].verb = "revise" /\ call[c].work = w
           /\ nodes'[refs'[w].current].content =
                Edited(call[c].arg, nodes[refs[w].current].content)
<1>1. ASSUME UNCHANGED tables
      PROVE  FALSE
  BY <1>1 DEF tables
<1>2. ASSUME NEW c \in Clients, Preserves(c)
      PROVE  FALSE
  BY <1>2 DEF Preserves
<1>3. ASSUME NEW c \in Clients, CommitCreate(c)
      PROVE  FALSE
  BY <1>3, CreateAppends, AppendFacts
<1>4. ASSUME NEW c \in Clients, CommitRevise(c)
      PROVE  /\ call[c].pc = "commit" /\ call[c].verb = "revise" /\ call[c].work = w
             /\ nodes'[refs'[w].current].content =
                  Edited(call[c].arg, nodes[refs[w].current].content)
  <2> DEFINE k == call[c]
  <2>1. /\ Appends(c, k.row.node) /\ refs[k.work].current = k.row.node
        /\ k.work \in Works /\ k.id \in Ids
    BY <1>4, ReviseAppends DEF Appends
  <2>2. k.work = w /\ refs'[w].current = k.id
    BY <2>1, AppendFacts
  <2>3. nodes'[k.id].content = Edited(k.arg, k.row.content)
    BY SMTT(60), <1>4, <2>1 DEF CommitRevise, IInv, TypeOK
  <2>4. k.row.content = nodes[k.row.node].content
    BY <1>4 DEF CommitRevise, IInv, CallsSound, InFlight
  <2> QED BY <1>4, <2>1, <2>2, <2>3, <2>4 DEF CommitRevise
<1> QED BY <1>1, <1>2, <1>3, <1>4, StepKinds, EdgePreserves, QuietSettles DEF Begin, Mint

\* No edit is lost to a concurrent revision of the same work.
THEOREM EditsAreKept == Spec => NoLostEdit
<1> DEFINE Kept == \A w \in Works :
       refs[w] # Null /\ refs'[w].current # refs[w].current =>
         \E c \in Clients :
           /\ call[c].pc = "commit" /\ call[c].verb = "revise" /\ call[c].work = w
           /\ nodes'[refs'[w].current].content =
                Edited(call[c].arg, nodes[refs[w].current].content)
<1>1. IInv /\ [Next]_vars => Kept
  BY MovedByEdit
<1>2. IInv /\ [Next]_vars => [Kept]_vars
  BY <1>1
<1> HIDE DEF Kept
<1>3. Spec => [][Kept]_vars
  BY <1>2, InvariantHolds, PTL DEF Spec
<1> QED BY <1>3 DEF Kept, NoLostEdit

\* The projected status depends on the ref's status edges and current node.
LEMMA StatusFrame ==
  ASSUME NEW es, NEW fs, NEW w, NEW a, NEW b,
         EdgesOf(fs, w, {"status_set"}) = EdgesOf(es, w, {"status_set"}),
         EdgesOf(es, w, {"status_set"}) = {} => a = b
  PROVE  StatusIn(fs, w, b) = StatusIn(es, w, a)
  BY DEF StatusIn

LEMMA StatusStep ==
  ASSUME IInv, [Next]_vars, NEW w \in Works, refs[w] # Null,
         EdgesOf(edges', w, {"status_set"}) = EdgesOf(edges, w, {"status_set"})
  PROVE  Status(w)' = Status(w)
<1>0. refs[w].current \in Ids /\ nodes[refs[w].current] # Null
  BY CurrentNode DEF IInv, RefsRooted
<1>1. ASSUME EdgesOf(edges, w, {"status_set"}) = {}
             => nodes[refs[w].current].status = nodes'[refs'[w].current].status
      PROVE  Status(w)' = Status(w)
  <2>1. StatusIn(edges', w, nodes'[refs'[w].current].status)
          = StatusIn(edges, w, nodes[refs[w].current].status)
    BY <1>1, StatusFrame
  <2> QED BY <2>1 DEF Status
<1>2. ASSUME UNCHANGED tables
      PROVE  Status(w)' = Status(w)
  BY <1>1, <1>2 DEF tables
<1>3. ASSUME NEW c \in Clients, Preserves(c)
      PROVE  Status(w)' = Status(w)
  <2>1. nodes' = nodes /\ refs'[w].current = refs[w].current
    BY <1>3 DEF Preserves
  <2> QED BY <1>1, <2>1
<1>4. ASSUME NEW c \in Clients, CommitCreate(c)
      PROVE  Status(w)' = Status(w)
  <2>1. Appends(c, Null) /\ w # call[c].work
    BY <1>4, CreateAppends
  <2>2. refs'[w] = refs[w] /\ nodes'[refs[w].current] = nodes[refs[w].current]
    BY <1>0, <2>1, AppendFacts
  <2> QED BY <1>1, <2>2
<1>5. ASSUME NEW c \in Clients, CommitRevise(c)
      PROVE  Status(w)' = Status(w)
  <2> DEFINE k == call[c]
  <2>1. /\ Appends(c, k.row.node) /\ refs[k.work].current = k.row.node
        /\ k.work \in Works /\ k.id \in Ids
    BY <1>5, ReviseAppends DEF Appends
  <2>2. CASE w # k.work
    <3>1. refs'[w] = refs[w] /\ nodes'[refs[w].current] = nodes[refs[w].current]
      BY <1>0, <2>1, <2>2, AppendFacts
    <3> QED BY <1>1, <3>1
  <2>3. CASE w = k.work
    <3>1. refs'[w].current = k.id
      BY <2>1, <2>3, AppendFacts
    <3>2. nodes'[k.id].status = k.row.status
      BY SMTT(60), <1>5, <2>1 DEF CommitRevise, IInv, TypeOK
    <3>3. EdgesOf(edges, w, {"status_set"}) = {} =>
            k.row.status = nodes[k.row.node].status
      BY <1>5, <2>3 DEF CommitRevise, IInv, CallsSound, InFlight
    <3> QED BY <1>1, <2>1, <2>3, <3>1, <3>2, <3>3
  <2> QED BY <2>2, <2>3
<1> QED BY <1>2, <1>3, <1>4, <1>5, StepKinds, EdgePreserves, QuietSettles DEF Begin, Mint

\* Only a status_set edge moves a work's status, whatever status the revisions
\* in flight carry.
THEOREM StatusMovesByEvent == Spec => StatusOnlyByEvent
<1> DEFINE Framed == \A w \in Works :
       /\ refs[w] # Null
       /\ EdgesOf(edges', w, {"status_set"}) = EdgesOf(edges, w, {"status_set"})
       => Status(w)' = Status(w)
<1>1. IInv /\ [Next]_vars => [Framed]_vars
  BY StatusStep
<1> HIDE DEF Framed
<1>2. Spec => [][Framed]_vars
  BY <1>1, InvariantHolds, PTL DEF Spec
<1> QED BY <1>2 DEF Framed, StatusOnlyByEvent

\* A committed change is always still to be announced, or already is.
THEOREM NothingUnannounced == Spec => []ChangesAnnounced
<1>1. Init => ChangesAnnounced
  BY SMTT(60) DEF Init, ChangesAnnounced
<1>2. IInv /\ ChangesAnnounced /\ [Next]_vars => ChangesAnnounced'
  <2> SUFFICES ASSUME IInv, ChangesAnnounced, [Next]_vars
               PROVE  ChangesAnnounced'
    OBVIOUS
  <2>1. ASSUME NEW c \in Clients, call[c].pc = "commit", Committed(c)
        PROVE  ChangesAnnounced'
    BY <2>1, CommittedSettles DEF IInv, ChangesAnnounced
  <2>2. ASSUME NEW c \in Clients, call[c].pc # "publish", notified' = notified,
               unseen' = unseen, \A d \in Clients \ {c} : call'[d] = call[d]
        PROVE  ChangesAnnounced'
    BY <2>2 DEF ChangesAnnounced
  <2>3. ASSUME NEW c \in Clients, NEW w \in Works, NEW verb \in Verbs,
               NEW arg \in Inputs(verb), Begin(c, verb, w, arg)
        PROVE  ChangesAnnounced'
    BY <2>2, <2>3 DEF Begin, IInv, TypeOK
  <2>4. ASSUME NEW c \in Clients, Mint(c) \/ ReturnUnchanged(c) \/ Conflict(c)
        PROVE  ChangesAnnounced'
    BY <2>2, <2>4 DEF Mint, ReturnUnchanged, Conflict, Return, IInv, TypeOK
  <2>5. ASSUME NEW c \in Clients, Publish(c) \/ Refetch \/ Reload \/ UNCHANGED vars
        PROVE  ChangesAnnounced'
    BY <2>5 DEF Publish, Refetch, Reload, vars, ChangesAnnounced
  <2> QED BY <2>1, <2>3, <2>4, <2>5, StepKinds
           DEF CommitCreate, CommitRevise, CommitEdge, CommitComment
<1> QED BY <1>1, <1>2, InvariantHolds, PTL DEF Spec

-----------------------------------------------------------------------------
(* The search index.                                                       *)

\* Edges leave existing refs and comment rows hang on existing refs: a ref that
\* is just being created has neither.
Attached ==
  /\ \A e \in edges : refs[e.from] # Null
  /\ \A d \in commentDocs : refs[d.ref] # Null

SearchInv == Attached /\ SearchMirrors

\* A transaction on ref w: nothing that another ref's rows are derived
\* from changes, and the rows of its own say what the tables say after it.
Projects(w) ==
  /\ refs'[w] # Null
  /\ \A i \in Ids : nodes[i] # Null => nodes'[i] = nodes[i]
  /\ \A v \in Works \ {w} : refs'[v] = refs[v] /\ workDocs'[v] = workDocs[v]
  /\ \A e \in edges' : e \in edges \/ e.from = w
  /\ edges \subseteq edges'
  /\ workDocs'[w] = [content |-> nodes'[refs'[w].current].content,
                     status |-> Status(w)', updatedAt |-> refs'[w].updatedAt]
  /\ \A d \in commentDocs' :
       IF d.ref = w THEN d.status = Status(w)' ELSE d \in commentDocs
  /\ \A m \in comments' : \E d \in commentDocs' : d.id = m.id /\ d.ref = m.ref

LEMMA ProjectsMirrors ==
  ASSUME IInv, SearchInv, [Next]_vars, NEW w \in Works, Projects(w),
         commentDocs' \subseteq [id : Ids, ref : Works, content : Content, status : Statuses]
  PROVE  SearchInv'
<1>1. Attached'
  <2>1. \A e \in edges : e.from \in Works
    BY DEF IInv, TypeOK, Edge
  <2>2. \A v \in Works : refs[v] # Null => refs'[v] # Null
    BY DEF Projects
  <2>3. \A e \in edges' : refs'[e.from] # Null
    BY <2>1, <2>2 DEF Projects, SearchInv, Attached
  <2>4. \A d \in commentDocs' : refs'[d.ref] # Null
    BY <2>2 DEF Projects, SearchInv, Attached
  <2> QED BY <2>3, <2>4 DEF Attached
<1>2. ASSUME NEW v \in Works, v # w, refs[v] # Null
      PROVE  /\ Status(v)' = Status(v)
             /\ nodes'[refs'[v].current] = nodes[refs[v].current]
  <2>1. EdgesOf(edges', v, {"status_set"}) = EdgesOf(edges, v, {"status_set"})
    BY <1>2 DEF Projects, EdgesOf
  <2>2. Status(v)' = Status(v)
    BY <1>2, <2>1, StatusStep
  <2>3. refs[v].current \in Ids /\ nodes[refs[v].current] # Null
    BY <1>2, CurrentNode DEF IInv, RefsRooted
  <2> QED BY <1>2, <2>2, <2>3 DEF Projects
<1>3. ASSUME NEW v \in Works
      PROVE  IF refs'[v] = Null THEN workDocs'[v] = Null
             ELSE workDocs'[v] = [content |-> nodes'[refs'[v].current].content,
                                  status |-> Status(v)', updatedAt |-> refs'[v].updatedAt]
  <2>1. CASE v = w
    BY <2>1 DEF Projects
  <2>2. CASE v # w
    BY ZenonT(60), <1>2, <2>2 DEF Projects, SearchInv, SearchMirrors
  <2> QED BY <2>1, <2>2
<1>4. ASSUME NEW d \in commentDocs'
      PROVE  d.status = Status(d.ref)'
  <2>1. CASE d.ref = w
    BY <1>4, <2>1 DEF Projects
  <2>2. CASE d.ref # w
    <3>1. d \in commentDocs /\ d.ref \in Works
      BY <1>4, <2>2 DEF Projects
    <3>2. Status(d.ref)' = Status(d.ref)
      BY <1>2, <2>2, <3>1 DEF SearchInv, Attached
    <3> QED BY <3>1, <3>2 DEF SearchInv, SearchMirrors
  <2> QED BY <2>1, <2>2
<1>5. \A m \in comments' : \E d \in commentDocs' : d.id = m.id /\ d.ref = m.ref
  BY DEF Projects
<1> QED BY <1>1, <1>3, <1>4, <1>5 DEF SearchInv, SearchMirrors

\* The refresh changes only the status of one ref's comment rows.
LEMMA RefreshedRows ==
  ASSUME NEW docs, NEW w, NEW status,
         docs \subseteq [id : Ids, ref : Works, content : Content, status : Statuses]
  PROVE  /\ \A d \in Refreshed(docs, w, status) :
              IF d.ref = w THEN d.status = status ELSE d \in docs
         /\ \A d \in docs : \E e \in Refreshed(docs, w, status) : e.id = d.id /\ e.ref = d.ref
<1>1. \A d \in docs : /\ [d EXCEPT !.status = status].ref = d.ref
                      /\ [d EXCEPT !.status = status].id = d.id
                      /\ [d EXCEPT !.status = status].status = status
  OBVIOUS
<1> QED BY <1>1 DEF Refreshed

LEMMA CreateProjects ==
  ASSUME IInv, SearchInv, NEW c \in Clients, CommitCreate(c),
         NEW w \in Works, w = call[c].work
  PROVE  Projects(w)
<1> DEFINE k == call[c]
<1>1. /\ k.work \in Works /\ k.id \in Ids /\ k.arg \in Inputs("create") /\ k.pc = "commit"
  BY CallFields DEF IInv, TypeOK, CommitCreate
<1>2. Appends(c, Null) /\ refs[w] = Null
  BY CreateAppends
<1>3. /\ \A i \in Ids : nodes[i] # Null => nodes'[i] = nodes[i]
      /\ refs'[w] # Null /\ refs'[w].current = k.id
      /\ \A v \in Works \ {w} : refs'[v] = refs[v]
  BY <1>1, <1>2, AppendFacts
<1>4. refs'[w].updatedAt = k.id
  BY <1>1 DEF CommitCreate, IInv, TypeOK
<1>5. nodes'[k.id] = [content |-> k.arg.content, status |-> k.arg.status]
  BY <1>1 DEF CommitCreate, IInv, TypeOK
<1>6. \A e \in edges' : e \in edges \/ (e.from = w /\ e.type # "status_set")
  BY DEF CommitCreate
<1>7. EdgesOf(edges', w, {"status_set"}) = {}
  BY <1>2, <1>6 DEF EdgesOf, SearchInv, Attached
<1>8. Status(w)' = k.arg.status
  BY <1>3, <1>5, <1>7 DEF Status, StatusIn
<1>9. workDocs' = [workDocs EXCEPT ![w] = [content |-> k.arg.content,
                                           status |-> k.arg.status, updatedAt |-> k.id]]
  BY DEF CommitCreate, WorkDoc
<1>10. /\ workDocs'[w] = [content |-> nodes'[refs'[w].current].content,
                          status |-> Status(w)', updatedAt |-> refs'[w].updatedAt]
       /\ \A v \in Works \ {w} : workDocs'[v] = workDocs[v]
  BY <1>1, <1>3, <1>4, <1>5, <1>8, <1>9 DEF IInv, TypeOK
<1>11. commentDocs' = commentDocs /\ comments' = comments
  BY DEF CommitCreate
<1>12. \A d \in commentDocs' : d.ref # w
  BY <1>2, <1>11 DEF SearchInv, Attached
<1>13. edges \subseteq edges'
  BY DEF CommitCreate
<1> QED BY <1>1, <1>3, <1>6, <1>10, <1>11, <1>12, <1>13 DEF Projects, SearchInv, SearchMirrors

LEMMA ReviseProjects ==
  ASSUME IInv, SearchInv, NEW c \in Clients, CommitRevise(c),
         NEW w \in Works, w = call[c].work
  PROVE  Projects(w)
<1> DEFINE k == call[c]
           content == Edited(k.arg, k.row.content)
           status == StatusIn(edges, w, k.row.status)
<1>1. Appends(c, k.row.node) /\ w \in Works /\ k.id \in Ids
  BY ReviseAppends DEF Appends
<1>2. /\ \A i \in Ids : nodes[i] # Null => nodes'[i] = nodes[i]
      /\ refs'[w] # Null /\ refs'[w].current = k.id
      /\ \A v \in Works \ {w} : refs'[v] = refs[v]
  BY <1>1, AppendFacts
<1>3. nodes'[k.id] = [content |-> content, status |-> k.row.status]
  BY <1>1 DEF CommitRevise, IInv, TypeOK
<1>4. refs'[w].updatedAt = k.id
  <2>1. refs[w] \in [current : Ids, createdAt : Ids, updatedAt : Ids]
    BY <1>1, ReviseAppends, CurrentNode DEF IInv
  <2>2. refs' = [refs EXCEPT ![w] = [refs[w] EXCEPT !.current = k.id, !.updatedAt = k.id]]
    BY <1>1 DEF CommitRevise, IInv, TypeOK
  <2> QED BY <1>1, <2>1, <2>2 DEF IInv, TypeOK
<1>5. edges' = edges /\ comments' = comments
  BY DEF CommitRevise
<1>6. Status(w)' = status
  BY <1>2, <1>3, <1>5 DEF Status
<1>7. workDocs' = [workDocs EXCEPT ![w] = [content |-> content, status |-> status,
                                           updatedAt |-> k.id]]
  BY DEF CommitRevise, WorkDoc
<1> HIDE DEF content, status
<1>8. /\ workDocs'[w] = [content |-> nodes'[refs'[w].current].content,
                         status |-> Status(w)', updatedAt |-> refs'[w].updatedAt]
      /\ \A v \in Works \ {w} : workDocs'[v] = workDocs[v]
  BY <1>1, <1>2, <1>3, <1>4, <1>6, <1>7 DEF IInv, TypeOK
<1>9. commentDocs' = Refreshed(commentDocs, w, status)
  BY DEF CommitRevise, status
<1>10. commentDocs \subseteq [id : Ids, ref : Works, content : Content, status : Statuses]
  BY DEF IInv, TypeOK
<1>11. /\ \A d \in commentDocs' :
            IF d.ref = w THEN d.status = Status(w)' ELSE d \in commentDocs
       /\ \A m \in comments' : \E d \in commentDocs' : d.id = m.id /\ d.ref = m.ref
  BY <1>5, <1>6, <1>9, <1>10, RefreshedRows DEF SearchInv, SearchMirrors
<1> QED BY <1>1, <1>2, <1>5, <1>8, <1>11 DEF Projects

LEMMA EdgeProjects ==
  ASSUME IInv, SearchInv, NEW c \in Clients, CommitEdge(c),
         NEW w \in Works, w = call[c].work
  PROVE  Projects(w)
<1> DEFINE k == call[c]
           es == edges \cup {[id |-> k.id, type |-> k.verb, from |-> w, to |-> k.arg]}
           node == nodes[refs[w].current]
           status == StatusIn(es, w, node.status)
<1>1. w \in Works /\ k.id \in Ids
  BY CallFields DEF IInv, TypeOK, CommitEdge
<1>2. refs[w] # Null
  <2>1. k.verb # "create" /\ k.pc = "commit"
    BY Zenon DEF CommitEdge, EdgeTypes
  <2> QED BY SMTT(60), <2>1 DEF IInv, CallsSound, InFlight
<1>3. refs[w] \in [current : Ids, createdAt : Ids, updatedAt : Ids]
  BY SMTT(60), <1>1, <1>2, CurrentNode DEF IInv
<1>4. nodes' = nodes /\ comments' = comments /\ edges' = es
  BY DEF CommitEdge
<1>5. /\ refs'[w] # Null /\ refs'[w].current = refs[w].current /\ refs'[w].updatedAt = k.id
      /\ \A v \in Works \ {w} : refs'[v] = refs[v]
  <2>1. refs' = [refs EXCEPT ![w] = [refs[w] EXCEPT !.updatedAt = k.id]]
    BY <1>1 DEF CommitEdge, IInv, TypeOK
  <2>2. [refs[w] EXCEPT !.updatedAt = k.id] \in [current : Ids, createdAt : Ids, updatedAt : Ids]
    BY <1>1, <1>3
  <2> QED BY SMTT(60), <1>1, <1>3, <2>1, <2>2, ConstantsOK DEF IInv, TypeOK
<1>6. Status(w)' = status
  BY SMTT(60), <1>4, <1>5 DEF Status
<1>7. workDocs' = [workDocs EXCEPT ![w] = [content |-> node.content, status |-> status,
                                           updatedAt |-> k.id]]
  BY SMTT(60) DEF CommitEdge, WorkDoc
<1>8. commentDocs' = Refreshed(commentDocs, w, status)
  BY DEF CommitEdge
<1>9. \A e \in edges' : e \in edges \/ e.from = w
  BY <1>4
<1>10. edges \subseteq edges'
  BY <1>4
<1> HIDE DEF status, es
<1>11. /\ workDocs'[w] = [content |-> nodes'[refs'[w].current].content,
                          status |-> Status(w)', updatedAt |-> refs'[w].updatedAt]
       /\ \A v \in Works \ {w} : workDocs'[v] = workDocs[v]
  BY <1>1, <1>4, <1>5, <1>6, <1>7 DEF IInv, TypeOK
<1>12. commentDocs \subseteq [id : Ids, ref : Works, content : Content, status : Statuses]
  BY DEF IInv, TypeOK
<1>13. /\ \A d \in commentDocs' :
            IF d.ref = w THEN d.status = Status(w)' ELSE d \in commentDocs
       /\ \A m \in comments' : \E d \in commentDocs' : d.id = m.id /\ d.ref = m.ref
  BY <1>4, <1>6, <1>8, <1>12, RefreshedRows DEF SearchInv, SearchMirrors
<1> QED BY SMTT(60), <1>1, <1>4, <1>5, <1>9, <1>10, <1>11, <1>13 DEF Projects

LEMMA CommentProjects ==
  ASSUME IInv, SearchInv, NEW c \in Clients, CommitComment(c),
         NEW w \in Works, w = call[c].work
  PROVE  Projects(w)
<1> DEFINE k == call[c]
           node == nodes[refs[w].current]
           doc == [id |-> k.id, ref |-> w, content |-> node.content, status |-> Status(w)]
<1>1. w \in Works /\ k.id \in Ids
  BY CallFields DEF IInv, TypeOK, CommitComment
<1>2. refs[w] # Null
  BY DEF CommitComment, IInv, CallsSound, InFlight
<1>3. refs[w] \in [current : Ids, createdAt : Ids, updatedAt : Ids]
  BY <1>1, <1>2, CurrentNode DEF IInv
<1>4. nodes' = nodes /\ edges' = edges
  BY DEF CommitComment
<1> DEFINE Shown ==
      /\ refs'[w] # Null
      /\ \A v \in Works \ {w} : refs'[v] = refs[v] /\ workDocs'[v] = workDocs[v]
      /\ Status(w)' = Status(w)
      /\ workDocs'[w] = [content |-> nodes'[refs'[w].current].content,
                         status |-> Status(w)', updatedAt |-> refs'[w].updatedAt]
<1>5. ASSUME refs[w].updatedAt < k.id
      PROVE  Shown
  <2>1. refs' = [refs EXCEPT ![w] = [refs[w] EXCEPT !.updatedAt = k.id]]
    BY <1>1, <1>5 DEF CommitComment, IInv, TypeOK
  <2>2. [refs[w] EXCEPT !.updatedAt = k.id] \in [current : Ids, createdAt : Ids, updatedAt : Ids]
    BY <1>1, <1>3
  <2>3. /\ refs'[w] # Null /\ refs'[w].current = refs[w].current /\ refs'[w].updatedAt = k.id
        /\ \A v \in Works \ {w} : refs'[v] = refs[v]
    BY <1>1, <1>3, <2>1, <2>2, ConstantsOK DEF IInv, TypeOK
  <2>4. workDocs' = [workDocs EXCEPT ![w] = [content |-> node.content, status |-> Status(w),
                                             updatedAt |-> k.id]]
    BY <1>5 DEF CommitComment, WorkDoc
  <2>5. Status(w)' = Status(w)
    BY <1>4, <2>3 DEF Status
  <2>6. /\ workDocs'[w] = [content |-> nodes'[refs'[w].current].content,
                           status |-> Status(w)', updatedAt |-> refs'[w].updatedAt]
        /\ \A v \in Works \ {w} : workDocs'[v] = workDocs[v]
    BY <1>1, <1>4, <2>3, <2>4, <2>5 DEF IInv, TypeOK
  <2> QED BY SMTT(60), <2>3, <2>5, <2>6
<1>6. ASSUME ~(refs[w].updatedAt < k.id)
      PROVE  Shown
  <2>1. refs' = refs /\ workDocs' = workDocs
    BY <1>6 DEF CommitComment
  <2>2. Status(w)' = Status(w)
    BY <1>4, <2>1 DEF Status
  <2> QED BY <1>1, <1>2, <1>4, <2>1, <2>2 DEF SearchInv, SearchMirrors
<1>7. /\ commentDocs' = commentDocs \cup {doc} /\ doc.ref = w /\ doc.id = k.id
      /\ doc.status = Status(w)
  BY DEF CommitComment
<1>8. \A m \in comments' : m \in comments \/ (m.id = k.id /\ m.ref = w)
  BY DEF CommitComment
<1>9. Shown
  BY <1>5, <1>6
<1> HIDE DEF doc
<1>10. /\ \A d \in commentDocs' :
            IF d.ref = w THEN d.status = Status(w)' ELSE d \in commentDocs
       /\ \A m \in comments' : \E d \in commentDocs' : d.id = m.id /\ d.ref = m.ref
  BY <1>7, <1>8, <1>9 DEF SearchInv, SearchMirrors
<1> QED BY <1>1, <1>4, <1>9, <1>10 DEF Projects

\* A step commits a transaction or touches no table.
LEMMA TransactionOrNot ==
  ASSUME [Next]_vars
  PROVE  \/ UNCHANGED tables
         \/ \E c \in Clients :
              CommitCreate(c) \/ CommitRevise(c) \/ CommitEdge(c) \/ CommitComment(c)
  BY Zenon, StepKinds DEF Begin, Mint, ReturnUnchanged, Conflict, Publish, Refetch, Reload, vars

LEMMA SearchStep ==
  ASSUME IInv, IInv', SearchInv, [Next]_vars
  PROVE  SearchInv'
<1>1. commentDocs' \subseteq [id : Ids, ref : Works, content : Content, status : Statuses]
  BY DEF IInv, TypeOK
<1>2. ASSUME NEW c \in Clients,
             CommitCreate(c) \/ CommitRevise(c) \/ CommitEdge(c) \/ CommitComment(c)
      PROVE  SearchInv'
  <2>1. call[c].work \in Works
    BY Zenon, <1>2, CallFields DEF IInv, TypeOK, CommitCreate, CommitRevise, CommitEdge, CommitComment
  <2>2. \E w \in Works : w = call[c].work /\ Projects(w)
    BY <1>2, <2>1, CreateProjects, ReviseProjects, EdgeProjects, CommentProjects
  <2> QED BY <1>1, <2>2, ProjectsMirrors
<1>3. ASSUME UNCHANGED tables
      PROVE  SearchInv'
  BY <1>3 DEF tables, SearchInv, Attached, SearchMirrors, Status
<1> QED BY <1>2, <1>3, TransactionOrNot

\* The triggers keep the search index in step with the graph: the index says of
\* every work and of each of its comments what the tables say, after every
\* transaction and whatever status the revisions in flight carry.
THEOREM IndexMirrorsGraph == Spec => []SearchMirrors
<1>1. Init => SearchInv
  BY DEF Init, SearchInv, Attached, SearchMirrors
<1>2. IInv /\ IInv' /\ SearchInv /\ [Next]_vars => SearchInv'
  BY SearchStep
<1>3. SearchInv => SearchMirrors
  BY DEF SearchInv
<1> QED BY <1>1, <1>2, <1>3, InvariantHolds, PTL DEF Spec

-----------------------------------------------------------------------------
(* The graph implements WorkItems.                                         *)

\* Behind the registers: the id a transaction is about to use is not on any
\* edge, it is later than the creation of its ref, and no two writes of one
\* register have the same id.
RegisterInv ==
  /\ \A e \in edges : e.id < nextId
  /\ \A c \in Clients : call[c].pc = "commit" => \A e \in edges : e.id # call[c].id
  /\ \A w \in Works : refs[w] # Null => refs[w].createdAt < nextId
  /\ \A c \in Clients : call[c].pc = "commit" /\ call[c].verb # "create" =>
       refs[call[c].work].createdAt < call[c].id
  /\ \A e, f \in edges :
       e.from = f.from /\ AttributeOf(e.type, e.to) = AttributeOf(f.type, f.to) /\ e.id = f.id
         => e = f

\* A register by the name of an endpoint is not one of the others, and what an
\* edge writes is a value.
LEMMA EdgeWrites ==
  ASSUME NEW type \in EdgeTypes, NEW to \in Endpoints(type)
  PROVE  /\ AttributeOf(type, to) \in Attributes /\ ValueOf(type, to) # Null
         /\ AttributeOf(type, to) = "status" <=> type = "status_set"
  BY ConstantsOK, RegistersApart DEF EdgeTypes, Endpoints, AttributeOf, ValueOf, Attributes

\* What a register is derived from.
LEMMA RegisterFrame ==
  ASSUME NEW w \in Works, NEW a \in Attributes, Written(edges', w, a) = Written(edges, w, a),
         Written(edges, w, a) = {} /\ a = "status" =>
           /\ refs'[w] = Null <=> refs[w] = Null
           /\ refs[w] # Null =>
                /\ refs'[w].createdAt = refs[w].createdAt
                /\ nodes'[refs'[w].current].status = nodes[refs[w].current].status
  PROVE  ItemRegister(w, a)' = ItemRegister(w, a)
  BY DEF ItemRegister

\* A step that is not a transaction keeps the invariant.
LEMMA RegisterInvOther ==
  ASSUME IInv, RegisterInv, [Next]_vars, UNCHANGED tables
  PROVE  RegisterInv'
<1>2. ASSUME NEW c \in Clients, Mint(c)
      PROVE  RegisterInv'
  <2>1. \A d \in Clients : call'[d].pc = "commit" /\ d # c => call'[d] = call[d]
    BY <1>2 DEF Mint, IInv, TypeOK
  <2>2. call[c] \in CallType /\ call[c].pc = "decide"
    BY <1>2 DEF Mint, IInv, TypeOK
  <2>3. call[c].work \in Works
    BY <2>2, CallFields
  <2>4. call'[c] = [call[c] EXCEPT !.pc = "commit", !.id = nextId]
    BY <1>2 DEF Mint, IInv, TypeOK
  <2>5. /\ call'[c].id = nextId /\ call'[c].verb = call[c].verb /\ call'[c].work = call[c].work
    <3>1. \A v, pcs, ids : \A k \in CallOf(v, pcs, ids) : \A i :
             LET n == [k EXCEPT !.pc = "commit", !.id = i] IN
             n.id = i /\ n.verb = k.verb /\ n.work = k.work
      BY DEF CallOf
    <3>2. call[c] # Idle
      BY <2>2 DEF Idle
    <3> QED BY <2>2, <2>4, <3>1, <3>2 DEF CallType
  <2>6. nextId' = nextId + 1 /\ nextId \in Nat
    BY <1>2, ConstantsOK DEF Mint, IInv, TypeOK
  <2>7. call[c].verb # "create" => refs[call[c].work] # Null
    BY <2>2 DEF IInv, CallsSound, InFlight
  <2>8. \A e \in edges : e.id \in Nat
    BY ConstantsOK DEF IInv, TypeOK, Edge, Ids
  <2>9. \A w \in Works : refs[w] # Null => refs[w].createdAt \in Nat
    BY CurrentNode, ConstantsOK DEF IInv, Ids
  <2>10. /\ \A e \in edges' : e.id < nextId'
         /\ \A w \in Works : refs'[w] # Null => refs'[w].createdAt < nextId'
    BY <2>6, <2>8, <2>9 DEF tables, RegisterInv
  <2>11. ASSUME NEW d \in Clients, call'[d].pc = "commit"
         PROVE  /\ \A e \in edges' : e.id # call'[d].id
                /\ call'[d].verb # "create" => refs'[call'[d].work].createdAt < call'[d].id
    <3>1. CASE d = c
      BY <2>3, <2>5, <2>6, <2>7, <2>8, <3>1 DEF tables, RegisterInv
    <3>2. CASE d # c
      BY <2>1, <2>11, <3>2 DEF tables, RegisterInv
    <3> QED BY <3>1, <3>2
  <2>12. \A e, f \in edges' :
           e.from = f.from /\ AttributeOf(e.type, e.to) = AttributeOf(f.type, f.to)
           /\ e.id = f.id => e = f
    BY DEF tables, RegisterInv
  <2> QED BY <2>10, <2>11, <2>12 DEF RegisterInv
<1>3. ASSUME nextId' = nextId, \A d \in Clients : call'[d].pc = "commit" => call'[d] = call[d]
      PROVE  RegisterInv'
  <2>1. edges' = edges /\ refs' = refs
    BY DEF tables
  <2>2. ASSUME NEW d \in Clients, call'[d].pc = "commit"
        PROVE  /\ \A e \in edges' : e.id # call'[d].id
               /\ call'[d].verb # "create" => refs'[call'[d].work].createdAt < call'[d].id
    BY <1>3, <2>1, <2>2 DEF RegisterInv
  <2> QED BY <1>3, <2>1, <2>2 DEF RegisterInv
<1>4. ASSUME NEW c \in Clients, NEW w \in Works, NEW verb \in Verbs,
             NEW arg \in Inputs(verb), Begin(c, verb, w, arg)
      PROVE  nextId' = nextId /\ \A d \in Clients : call'[d].pc = "commit" => call'[d] = call[d]
  BY <1>4 DEF Begin, IInv, TypeOK
<1>5. ASSUME NEW c \in Clients, Settles(c)
      PROVE  nextId' = nextId /\ \A d \in Clients : call'[d].pc = "commit" => call'[d] = call[d]
  BY <1>5 DEF Settles
<1> QED BY <1>2, <1>3, <1>4, <1>5, StepKinds, CreateAppends, ReviseAppends, EdgePreserves,
           QuietSettles DEF Appends

\* What the transactions have in common: new edges of c's ref, with c's id and
\* each for a register of its own.
Records(c, w) ==
  LET new == edges' \ edges IN
  /\ edges \subseteq edges' /\ \A e \in new : e.id = call[c].id /\ e.from = w
  /\ \A e, f \in new : AttributeOf(e.type, e.to) = AttributeOf(f.type, f.to) => e = f
  /\ \A v \in Works : refs'[v] # Null =>
       IF refs[v] # Null THEN refs'[v].createdAt = refs[v].createdAt
                         ELSE v = w /\ refs'[v].createdAt = call[c].id
  /\ \A v \in Works : refs[v] # Null => refs'[v] # Null

LEMMA RecordsKeep ==
  ASSUME IInv, Attached, RegisterInv, NEW c \in Clients, NEW w \in Works, w = call[c].work,
         call[c].pc = "commit", Settles(c), call'[c].pc = "publish", Records(c, w)
  PROVE  RegisterInv'
<1>1. nextId' = nextId /\ call[c].id < nextId
  BY DEF Settles, IInv, IdsFresh
<1>2. \A d \in Clients : call'[d].pc = "commit" => /\ call'[d] = call[d] /\ d # c
                                                   /\ call[d].id # call[c].id
  BY DEF Settles, IInv, IdsFresh
<1>3. \A e \in edges' : e.id < nextId'
  BY <1>1 DEF Records, RegisterInv
<1>4. \A v \in Works : refs'[v] # Null => refs'[v].createdAt < nextId'
  BY <1>1 DEF Records, RegisterInv
<1>5. ASSUME NEW d \in Clients, call'[d].pc = "commit"
      PROVE  /\ \A e \in edges' : e.id # call'[d].id
             /\ call'[d].verb # "create" => refs'[call'[d].work].createdAt < call'[d].id
  <2>1. call'[d] = call[d] /\ d # c /\ call[d].id # call[c].id
    BY <1>2, <1>5
  <2>2. \A e \in edges' : e.id # call[d].id
    BY <1>5, <2>1 DEF Records, RegisterInv
  <2>3. ASSUME call[d].verb # "create"
        PROVE  refs'[call[d].work].createdAt < call[d].id
    <3>1. call[d].work \in Works
      BY <1>5, <2>1, CallFields DEF IInv, TypeOK
    <3>2. refs[call[d].work] # Null
      BY <1>5, <2>1, <2>3 DEF IInv, CallsSound, InFlight
    <3>3. refs[call[d].work].createdAt < call[d].id
      BY <1>5, <2>1, <2>3 DEF RegisterInv
    <3> QED BY <3>1, <3>2, <3>3 DEF Records
  <2> QED BY <2>1, <2>2, <2>3
<1>6. ASSUME NEW e \in edges', NEW f \in edges', e.from = f.from, e.id = f.id,
             AttributeOf(e.type, e.to) = AttributeOf(f.type, f.to)
      PROVE  e = f
  <2>1. \A g \in edges : g.id # call[c].id
    BY DEF RegisterInv
  <2>2. CASE e \in edges /\ f \in edges
    BY <1>6, <2>2 DEF RegisterInv
  <2>3. CASE e \notin edges /\ f \notin edges
    BY <1>6, <2>3 DEF Records
  <2> QED BY <1>6, <2>1, <2>2, <2>3 DEF Records
<1> QED BY <1>3, <1>4, <1>5, <1>6 DEF RegisterInv

\* No transaction takes a ref away.
LEMMA RefsStay ==
  ASSUME IInv, NEW c \in Clients, NEW v \in Works, refs[v] # Null,
         CommitCreate(c) \/ CommitRevise(c) \/ CommitEdge(c) \/ CommitComment(c)
  PROVE  refs'[v] # Null
<1>1. CASE CommitCreate(c)
  BY <1>1, CreateAppends, AppendFacts
<1>2. CASE CommitRevise(c)
  BY <1>2, ReviseAppends, AppendFacts
<1>3. CASE CommitEdge(c) \/ CommitComment(c)
  BY <1>3, EdgePreserves DEF Preserves
<1> QED BY <1>1, <1>2, <1>3

LEMMA CreateRecords ==
  ASSUME IInv, Attached, NEW c \in Clients, CommitCreate(c), NEW w \in Works, w = call[c].work
  PROVE  Records(c, w)
<1> DEFINE k == call[c]
<1>1. k.id \in Ids /\ k.arg \in Inputs("create") /\ k.pc = "commit"
  BY CallFields DEF IInv, TypeOK, CommitCreate
<1>2. k.arg.cites \subseteq Cites
  BY <1>1, InputTypes
<1>3. \A e \in edges' \ edges :
        /\ e.id = k.id /\ e.from = w
        /\ \/ e.type = "references" /\ e.to \in Cites
           \/ e.type = "priority_set" /\ e.to = k.arg.priority
  BY <1>2 DEF CommitCreate
<1>4. \A e \in edges' \ edges : AttributeOf(e.type, e.to) =
        IF e.type = "references" THEN e.to ELSE "priority"
  BY <1>3 DEF AttributeOf
<1>5. \A e \in edges' \ edges : e = [id |-> k.id, type |-> e.type, from |-> w, to |-> e.to]
  BY DEF CommitCreate
<1>6. \A e, f \in edges' \ edges :
        AttributeOf(e.type, e.to) = AttributeOf(f.type, f.to) => e = f
  BY <1>3, <1>4, <1>5, RegistersApart
<1>7. refs[w] = Null /\ refs' = [refs EXCEPT ![w] =
         [current |-> k.id, createdAt |-> k.id, updatedAt |-> k.id]]
  BY Zenon, CreateAppends DEF CommitCreate
<1>8. \A v \in Works : refs'[v] # Null =>
       IF refs[v] # Null THEN refs'[v].createdAt = refs[v].createdAt
                         ELSE v = w /\ refs'[v].createdAt = k.id
  BY <1>7 DEF IInv, TypeOK
<1>9. edges \subseteq edges'
  BY DEF CommitCreate
<1> QED BY <1>3, <1>6, <1>8, <1>9, RefsStay DEF Records

LEMMA OtherRecords ==
  ASSUME IInv, NEW c \in Clients, NEW w \in Works, w = call[c].work,
         CommitRevise(c) \/ CommitEdge(c) \/ CommitComment(c)
  PROVE  Records(c, w)
<1> DEFINE k == call[c]
<1>1. refs[w] # Null
  BY Zenon DEF CommitRevise, CommitEdge, CommitComment, EdgeTypes, IInv, CallsSound, InFlight
<1>2. refs[w] \in [current : Ids, createdAt : Ids, updatedAt : Ids]
  BY SMTT(60), <1>1, CurrentNode DEF IInv
<1>3. \/ refs' = refs
      \/ refs' = [refs EXCEPT ![w] = [refs[w] EXCEPT !.updatedAt = k.id]]
      \/ refs' = [refs EXCEPT ![w] = [refs[w] EXCEPT !.current = k.id, !.updatedAt = k.id]]
  BY Zenon DEF CommitRevise, CommitEdge, CommitComment, IInv, TypeOK
<1>4. /\ [refs[w] EXCEPT !.updatedAt = k.id].createdAt = refs[w].createdAt
      /\ [refs[w] EXCEPT !.current = k.id, !.updatedAt = k.id].createdAt = refs[w].createdAt
  BY <1>2
<1>5. \A v \in Works : refs'[v] # Null =>
       IF refs[v] # Null THEN refs'[v].createdAt = refs[v].createdAt
                         ELSE v = w /\ refs'[v].createdAt = k.id
  BY ZenonT(60), <1>1, <1>3, <1>4 DEF IInv, TypeOK
<1>6. edges' = edges \/ edges' = edges \cup {[id |-> k.id, type |-> k.verb, from |-> w,
                                              to |-> k.arg]}
  BY Zenon DEF CommitRevise, CommitEdge, CommitComment
<1> QED BY <1>5, <1>6, RefsStay DEF Records

LEMMA RegisterStep ==
  ASSUME IInv, SearchInv, RegisterInv, [Next]_vars
  PROVE  RegisterInv'
<1>1. ASSUME NEW c \in Clients,
             CommitCreate(c) \/ CommitRevise(c) \/ CommitEdge(c) \/ CommitComment(c)
      PROVE  RegisterInv'
  <2>1. call[c].pc = "commit" /\ Committed(c)
    BY Zenon, <1>1 DEF CommitCreate, CommitRevise, CommitEdge, CommitComment
  <2>2. Settles(c) /\ call'[c].pc = "publish"
    BY <2>1, CommittedSettles DEF IInv
  <2>3. PICK w \in Works : w = call[c].work
    BY <2>1, CallFields DEF IInv, TypeOK
  <2>4. Records(c, w)
    BY <1>1, <2>3, CreateRecords, OtherRecords DEF SearchInv
  <2> QED BY <2>1, <2>2, <2>3, <2>4, RecordsKeep DEF SearchInv
<1> QED BY <1>1, RegisterInvOther, TransactionOrNot

\* The simulation, one lemma per kind of step.
LEMMA SimulatesCalls ==
  ASSUME IInv, [Next]_vars, UNCHANGED tables
  PROVE  [Items!Next]_(Items!vars)
<1> DEFINE doc == [w \in Works |->
             IF refs[w] = Null THEN Null ELSE nodes[refs[w].current].content]
           register == [w \in Works |-> [a \in Attributes |-> ItemRegister(w, a)]]
           pending == [c \in Clients |-> ItemCall(call[c])]
<1>1. doc' = doc /\ register' = register
  BY DEF tables, ItemRegister
<1>2. ASSUME NEW c \in Clients, \A d \in Clients \ {c} : call'[d] = call[d]
      PROVE  Items!Request(c)
  <2>1. pending' = [pending EXCEPT ![c] = pending'[c]]
    BY <1>2
  <2> QED BY <1>1, <2>1 DEF Items!Request
<1>3. ASSUME Reload
      PROVE  Items!Withdraw(RpcClients)
  <2>1. \A c \in Clients : ItemCall(call'[c]) =
          IF c \in RpcClients THEN Items!NoCall ELSE ItemCall(call[c])
    BY <1>3 DEF Reload, ItemCall, Idle, Items!NoCall
  <2>2. pending' = [c \in Clients |-> IF c \in RpcClients THEN Items!NoCall ELSE pending[c]]
    BY <2>1
  <2> QED BY <1>1, <2>2 DEF Items!Withdraw
<1>4. ASSUME call' = call
      PROVE  UNCHANGED Items!vars
  BY <1>1, <1>4 DEF Items!vars
<1>5. \/ \E c \in Clients : \A d \in Clients \ {c} : call'[d] = call[d]
      \/ Reload \/ call' = call
  <2>1. \A c \in Clients, w \in Works, verb \in Verbs : \A arg \in Inputs(verb) :
          Begin(c, verb, w, arg) => \A d \in Clients \ {c} : call'[d] = call[d]
    BY DEF Begin, IInv, TypeOK
  <2>2. \A c \in Clients : Mint(c) \/ ReturnUnchanged(c) \/ Conflict(c) \/ Publish(c)
          => \A d \in Clients \ {c} : call'[d] = call[d]
    BY DEF Mint, ReturnUnchanged, Conflict, Publish, Return, IInv, TypeOK
  <2>3. \A c \in Clients : CommitCreate(c) \/ CommitRevise(c) \/ CommitEdge(c) \/ CommitComment(c)
          => \A d \in Clients \ {c} : call'[d] = call[d]
    BY ZenonT(60) DEF CommitCreate, CommitRevise, CommitEdge, CommitComment, Committed, Goto, IInv, TypeOK
  <2> QED BY Zenon, <2>1, <2>2, <2>3, StepKinds DEF Refetch, vars
<1> HIDE DEF doc, register, pending
<1> QED BY <1>2, <1>3, <1>4, <1>5, ConstantsOK DEF Items!Next

\* A transaction ends its call in the promise too.
LEMMA CallEnds ==
  ASSUME IInv, NEW c \in Clients, call[c].pc = "commit", Committed(c)
  PROVE  /\ ItemCall(call'[c]) = [kind |-> "none"]
         /\ \A d \in Clients \ {c} : ItemCall(call'[d]) = ItemCall(call[d])
<1>1. \A d \in Clients \ {c} : call'[d] = call[d]
  BY DEF Committed, Goto, IInv, TypeOK
<1>2. call'[c].pc = "publish"
  BY CommittedSettles DEF IInv
<1> QED BY <1>1, <1>2 DEF ItemCall

LEMMA SimulatesComment ==
  ASSUME IInv, NEW c \in Clients, CommitComment(c)
  PROVE  UNCHANGED Items!vars
<1>1. nodes' = nodes /\ edges' = edges
  BY DEF CommitComment
<1>2. \A w \in Works : /\ refs'[w] = Null <=> refs[w] = Null
                       /\ refs[w] # Null => refs'[w].current = refs[w].current
  BY EdgePreserves DEF Preserves
<1>3. Records(c, call[c].work)
  BY OtherRecords, CallFields DEF CommitComment, IInv, TypeOK
<1>4. \A w \in Works : refs[w] # Null => refs'[w].createdAt = refs[w].createdAt
  BY <1>2, <1>3 DEF Records
<1>5. \A w \in Works : (IF refs'[w] = Null THEN Null ELSE nodes'[refs'[w].current].content)
                       = IF refs[w] = Null THEN Null ELSE nodes[refs[w].current].content
  BY <1>1, <1>2
<1>6. \A w \in Works, a \in Attributes : ItemRegister(w, a)' = ItemRegister(w, a)
  BY SMTT(60), <1>1, <1>2, <1>4, RegisterFrame
<1>7. \A d \in Clients : ItemCall(call'[d]) = ItemCall(call[d])
  BY ZenonT(60), CallEnds DEF CommitComment, ItemCall
<1> QED BY <1>5, <1>6, <1>7 DEF Items!vars

LEMMA SimulatesRevise ==
  ASSUME IInv, NEW c \in Clients, CommitRevise(c)
  PROVE  Items!Revise(c)
<1> DEFINE doc == [w \in Works |->
             IF refs[w] = Null THEN Null ELSE nodes[refs[w].current].content]
           register == [w \in Works |-> [a \in Attributes |-> ItemRegister(w, a)]]
           pending == [d \in Clients |-> ItemCall(call[d])]
           k == call[c]
<1>1. /\ Appends(c, k.row.node) /\ refs[k.work] # Null /\ refs[k.work].current = k.row.node
      /\ k.work \in Works /\ k.id \in Ids /\ k.pc = "commit" /\ k.verb = "revise"
  BY Zenon, ReviseAppends DEF Appends, CommitRevise
<1>2. pending[c] = [kind |-> "revise", work |-> k.work, edits |-> k.arg]
  BY <1>1 DEF ItemCall
<1>3. pending' = [pending EXCEPT ![c] = Items!NoCall]
  BY <1>1, CallEnds DEF CommitRevise, Items!NoCall
<1>4. k.row.content = nodes[k.row.node].content
  BY <1>1 DEF IInv, CallsSound, InFlight
<1>5. nodes[k.row.node].content # Null
  BY <1>1, CurrentNode, ConstantsOK DEF IInv
<1>6. nodes'[k.id].content = Edited(k.arg, k.row.content) /\ nodes'[k.id].status = k.row.status
  BY <1>1 DEF CommitRevise, IInv, TypeOK
<1>7. \A w \in Works : IF w = k.work
        THEN refs'[w] # Null /\ refs'[w].current = k.id
        ELSE refs'[w] = refs[w]
  BY <1>1, AppendFacts
<1>8. \A w \in Works \ {k.work} : refs[w] # Null =>
        nodes'[refs[w].current] = nodes[refs[w].current]
  BY <1>1, AppendFacts, CurrentNode DEF IInv, RefsRooted
<1>9. doc[k.work] = k.row.content /\ doc[k.work] # Null
  BY <1>1, <1>4, <1>5
<1>10. doc' = [doc EXCEPT ![k.work] = Items!Edit(k.arg, doc[k.work])]
  <2>1. ASSUME NEW w \in Works
        PROVE  doc'[w] = [doc EXCEPT ![k.work] = Items!Edit(k.arg, doc[k.work])][w]
    <3>1. CASE w = k.work
      BY Zenon, <1>1, <1>6, <1>7, <1>9, <3>1 DEF Items!Edit, Edited
    <3>2. CASE w # k.work
      BY <1>7, <1>8, <3>2
    <3> QED BY SMTT(60), <3>1, <3>2
  <2> QED BY <2>1
<1>11. register' = register
  <2>1. ASSUME NEW w \in Works, NEW a \in Attributes
        PROVE  ItemRegister(w, a)' = ItemRegister(w, a)
    <3>1. edges' = edges
      BY DEF CommitRevise
    <3>2. CASE w # k.work
      BY <1>7, <1>8, <3>1, <3>2, RegisterFrame
    <3>3. CASE w = k.work
      <4>1. Records(c, w)
        BY <3>3, OtherRecords
      <4>2. refs'[w].createdAt = refs[w].createdAt
        BY <1>1, <1>7, <3>3, <4>1 DEF Records
      <4>3. Written(edges, w, "status") = {} => EdgesOf(edges, w, {"status_set"}) = {}
        BY DEF Written, EdgesOf, AttributeOf
      <4>4. Written(edges, w, "status") = {} =>
              nodes'[refs'[w].current].status = nodes[refs[w].current].status
        BY SMTT(60), <1>1, <1>6, <1>7, <3>3, <4>3 DEF IInv, CallsSound, InFlight
      <4> QED BY <1>1, <1>7, <3>1, <3>3, <4>2, <4>4, RegisterFrame
    <3> QED BY <3>2, <3>3
  <2> QED BY <2>1
<1> HIDE DEF doc, register, pending
<1>12. pending[c].kind = "revise" /\ pending[c].work = k.work /\ pending[c].edits = k.arg
  <2> HIDE DEF k
  <2> QED BY <1>2
<1>13. /\ doc[pending[c].work] # Null
       /\ doc' = [doc EXCEPT ![pending[c].work] = Items!Edit(pending[c].edits, doc[pending[c].work])]
  <2> HIDE DEF k
  <2> QED BY <1>9, <1>10, <1>12, Zenon
<1> QED BY <1>3, <1>11, <1>12, <1>13, Zenon DEF Items!Revise, Items!Complete, doc, register, pending

\* What a workflow edge does to the register it writes: it takes it unless a
\* later one, minted by a call that committed before, is there already.
LEMMA EdgeTakes ==
  ASSUME IInv, RegisterInv, NEW c \in Clients, CommitEdge(c),
         NEW w \in Works, w = call[c].work,
         NEW a \in Attributes, a = AttributeOf(call[c].verb, call[c].arg)
  PROVE  ItemRegister(w, a)' =
           Items!Overwrite(ItemRegister(w, a), ValueOf(call[c].verb, call[c].arg), call[c].id)
<1> DEFINE k == call[c]
           e == [id |-> k.id, type |-> k.verb, from |-> k.work, to |-> k.arg]
           old == Written(edges, w, a)
           new == Written(edges', w, a)
<1>1. /\ k.pc = "commit" /\ k.verb \in EdgeTypes /\ k.arg \in Endpoints(k.verb)
      /\ k.id \in Ids /\ k.verb # "create"
  BY CallFields, InputTypes DEF IInv, TypeOK, CommitEdge, EdgeTypes
<1>2. ValueOf(k.verb, k.arg) # Null
  BY SMTT(60), <1>1, EdgeWrites
<1>3. edges' = edges \cup {e} /\ e \in Edge /\ edges \subseteq Edge
  BY <1>1 DEF CommitEdge, IInv, TypeOK, Edge
<1>4. new = old \cup {e} /\ new \subseteq Edge /\ new # {}
  BY <1>3 DEF Written
<1>5. \A f \in old : f.id # k.id /\ f.id \in Ids
  BY <1>1, <1>3 DEF RegisterInv, Written, Edge
<1>6. Latest(new) \in new /\ \A f \in new : f.id <= Latest(new).id
  <2> HIDE DEF new
  <2> QED BY <1>4, LatestExists
<1>7. e.id = k.id /\ e.type = k.verb /\ e.to = k.arg
  OBVIOUS
<1>8. \A f, g \in old : f.id = g.id => f = g
  BY DEF RegisterInv, Written
<1>9. ItemRegister(w, a)' =
        [value |-> ValueOf(Latest(new).type, Latest(new).to), at |-> Latest(new).id]
  BY <1>4 DEF ItemRegister
<1> HIDE DEF e, new
<1>10. CASE old # {}
  <2>1. Latest(old) \in old /\ \A f \in old : f.id <= Latest(old).id
    <3>1. old \subseteq Edge
      BY <1>3 DEF Written
    <3> HIDE DEF old
    <3> QED BY <1>10, <3>1, LatestExists
  <2>2. ItemRegister(w, a) =
          [value |-> ValueOf(Latest(old).type, Latest(old).to), at |-> Latest(old).id]
    BY <1>10 DEF ItemRegister
  <2> HIDE DEF old
  <2>3. CASE Latest(old).id < k.id
    <3>1. Latest(new) = e
      BY <1>1, <1>4, <1>5, <1>6, <1>7, <2>1, <2>3 DEF Ids
    <3> QED BY <1>2, <1>7, <1>9, <2>2, <2>3, <3>1 DEF Items!Overwrite
  <2>4. CASE ~(Latest(old).id < k.id)
    <3>1. Latest(new) = Latest(old)
      BY <1>1, <1>4, <1>5, <1>6, <1>7, <1>8, <2>1, <2>4 DEF Ids
    <3> QED BY <1>9, <2>2, <2>4, <3>1 DEF Items!Overwrite
  <2> QED BY <2>3, <2>4
<1>11. CASE old = {}
  <2>1. Latest(new) = e
    BY <1>4, <1>6, <1>11
  <2>2. refs[w] # Null /\ refs[w].createdAt < k.id
    BY <1>1 DEF IInv, CallsSound, InFlight, RegisterInv
  <2>3. ItemRegister(w, a).at < k.id
    BY <1>1, <1>11, <2>2 DEF ItemRegister, Unset, Ids
  <2> QED BY <1>2, <1>7, <1>9, <2>1, <2>3 DEF Items!Overwrite
<1> QED BY <1>10, <1>11

LEMMA OnlyIsLatest ==
  ASSUME NEW e, e.id \in Nat
  PROVE  Latest({e}) = e
  BY DEF Latest

LEMMA SimulatesWrite ==
  ASSUME IInv, RegisterInv, NEW c \in Clients, CommitEdge(c)
  PROVE  Items!Write(c)
<1> DEFINE doc == [w \in Works |->
             IF refs[w] = Null THEN Null ELSE nodes[refs[w].current].content]
           register == [w \in Works |-> [a \in Attributes |-> ItemRegister(w, a)]]
           pending == [d \in Clients |-> ItemCall(call[d])]
           k == call[c]
           value == ValueOf(k.verb, k.arg)
<1>1. /\ k.pc = "commit" /\ k.verb \in EdgeTypes /\ k.arg \in Endpoints(k.verb)
      /\ k.work \in Works /\ k.id \in Ids /\ k.verb \notin {"create", "revise", "comment"}
  BY CallFields, InputTypes DEF IInv, TypeOK, CommitEdge, EdgeTypes
<1>2. PICK w \in Works : w = k.work
  BY <1>1
<1>3. PICK at \in Attributes : at = AttributeOf(k.verb, k.arg)
  BY <1>1, EdgeWrites
<1>4. pending[c] = [kind |-> "write", work |-> w, at |-> k.id, attribute |-> at,
                    value |-> value]
  BY SMTT(60), <1>1, <1>2, <1>3 DEF ItemCall
<1>5. pending' = [pending EXCEPT ![c] = Items!NoCall]
  BY ZenonT(60), <1>1, CallEnds DEF CommitEdge, Items!NoCall
<1>6. nodes' = nodes /\ edges' = edges \cup {[id |-> k.id, type |-> k.verb, from |-> w,
                                              to |-> k.arg]}
  BY <1>2 DEF CommitEdge
<1>7. refs[w] # Null /\ \A v \in Works : /\ refs'[v] = Null <=> refs[v] = Null
                                         /\ refs[v] # Null => refs'[v].current = refs[v].current
  BY <1>1, <1>2, EdgePreserves DEF Preserves, IInv, CallsSound, InFlight
<1>8. \A v \in Works : refs[v] # Null => refs'[v].createdAt = refs[v].createdAt
  BY <1>2, <1>7, OtherRecords DEF Records
<1>9. doc' = doc
  BY <1>6, <1>7
<1>10. doc[w] # Null
  BY <1>7, CurrentNode, ConstantsOK DEF IInv
<1>11. ASSUME NEW v \in Works, NEW a \in Attributes, v # w \/ a # at
       PROVE  ItemRegister(v, a)' = ItemRegister(v, a)
  <2>1. Written(edges', v, a) = Written(edges, v, a)
    BY <1>2, <1>3, <1>6, <1>11 DEF Written
  <2> QED BY <1>6, <1>7, <1>8, <2>1, RegisterFrame
<1>12. ItemRegister(w, at)' = Items!Overwrite(ItemRegister(w, at), value, k.id)
  BY <1>2, <1>3, EdgeTakes
<1>13. register' = [register EXCEPT ![w] =
                      [register[w] EXCEPT ![at] = Items!Overwrite(register[w][at], value, k.id)]]
  <2>1. ASSUME NEW v \in Works
        PROVE  register'[v] = IF v = w
                 THEN [register[w] EXCEPT ![at] = Items!Overwrite(register[w][at], value, k.id)]
                 ELSE register[v]
    <3> HIDE DEF value
    <3> QED BY <1>11, <1>12
  <2> QED BY <2>1
<1>14. ASSUME NEW p, p = pending[c]
       PROVE  /\ p.kind = "write" /\ doc[p.work] # Null
              /\ register' = [register EXCEPT ![p.work][p.attribute] =
                               Items!Overwrite(@, p.value, p.at)]
  <2> HIDE DEF doc, register, pending, value
  <2> QED BY <1>4, <1>10, <1>13, <1>14
<1> QED BY Zenon, <1>5, <1>9, <1>14 DEF Items!Write, Items!Complete

LEMMA SimulatesCreate ==
  ASSUME IInv, Attached, NEW c \in Clients, CommitCreate(c)
  PROVE  Items!Create(c)
<1> DEFINE doc == [w \in Works |->
             IF refs[w] = Null THEN Null ELSE nodes[refs[w].current].content]
           register == [w \in Works |-> [a \in Attributes |-> ItemRegister(w, a)]]
           pending == [d \in Clients |-> ItemCall(call[d])]
           k == call[c]
           initial == ItemInitial(k.arg)
<1>1. /\ Appends(c, Null) /\ refs[k.work] = Null
      /\ k.work \in Works /\ k.id \in Ids /\ k.pc = "commit" /\ k.verb = "create"
  BY CreateAppends DEF Appends, CommitCreate
<1>2. k.arg \in [content : Content, status : Statuses,
                 priority : OrNull(Priorities), cites : SUBSET Cites]
  BY <1>1, InputTypes, CallFields DEF IInv, TypeOK
<1>3. PICK w \in Works : w = k.work
  BY <1>1
<1>4. pending[c] = [kind |-> "create", work |-> w, content |-> k.arg.content,
                    initial |-> initial, at |-> k.id]
  BY <1>1, <1>3 DEF ItemCall
<1>5. pending' = [pending EXCEPT ![c] = Items!NoCall]
  BY <1>1, CallEnds DEF CommitCreate, Items!NoCall
<1>6. nodes'[k.id] = [content |-> k.arg.content, status |-> k.arg.status]
  BY <1>1 DEF CommitCreate, IInv, TypeOK
<1>7. /\ refs'[w] # Null /\ refs'[w].current = k.id /\ refs'[w].createdAt = k.id
      /\ \A v \in Works \ {w} : refs'[v] = refs[v]
  BY <1>1, <1>3, AppendFacts DEF CommitCreate, IInv, TypeOK
<1>8. \A v \in Works \ {w} : refs[v] # Null => nodes'[refs[v].current] = nodes[refs[v].current]
  BY <1>1, AppendFacts, CurrentNode DEF IInv, RefsRooted
<1>9. doc[w] = Null
  BY <1>1, <1>3
<1>10. doc' = [doc EXCEPT ![w] = k.arg.content]
  <2>1. ASSUME NEW v \in Works
        PROVE  doc'[v] = IF v = w THEN k.arg.content ELSE doc[v]
    BY <1>6, <1>7, <1>8
  <2> QED BY <2>1
<1>11. edges' = edges
         \cup {[id |-> k.id, type |-> "references", from |-> w, to |-> x] : x \in k.arg.cites}
         \cup {[id |-> k.id, type |-> "priority_set", from |-> w, to |-> p] :
                 p \in {k.arg.priority} \ {Null}}
  BY <1>3 DEF CommitCreate
<1>12. ASSUME NEW v \in Works, NEW a \in Attributes, v # w
       PROVE  ItemRegister(v, a)' = ItemRegister(v, a)
  <2>1. Written(edges', v, a) = Written(edges, v, a)
    BY <1>11, <1>12 DEF Written
  <2> QED BY <1>7, <1>8, <1>12, <2>1, RegisterFrame
<1>13. ASSUME NEW a \in Attributes
       PROVE  ItemRegister(w, a)' = Items!Overwrite(ItemRegister(w, a), initial[a], k.id)
  <2>1. \A e \in edges : e.from # w
    BY <1>1, <1>3 DEF Attached
  <2>2. ItemRegister(w, a) = Items!Unset
    BY <1>1, <1>3, <2>1 DEF ItemRegister, Written, Unset, Items!Unset
  <2>3. Items!Overwrite(ItemRegister(w, a), initial[a], k.id) =
          IF initial[a] # Null THEN [value |-> initial[a], at |-> k.id] ELSE Items!Unset
    BY <1>1, <2>2 DEF Items!Overwrite, Items!Unset, Ids
  <2>4. CASE a = "status"
    <3>1. Written(edges', w, a) = {}
      BY <1>2, <1>11, <2>1, <2>4, RegistersApart DEF Written, AttributeOf
    <3>2. initial[a] = k.arg.status /\ k.arg.status # Null
      BY <1>2, <2>4, ConstantsOK, RegistersApart DEF ItemInitial
    <3> QED BY <1>6, <1>7, <2>3, <2>4, <3>1, <3>2 DEF ItemRegister
  <2>5. CASE a = "priority"
    <3> DEFINE e == [id |-> k.id, type |-> "priority_set", from |-> w, to |-> k.arg.priority]
    <3>1. initial[a] = k.arg.priority
      BY <1>2, <2>5, RegistersApart DEF ItemInitial
    <3>2. CASE k.arg.priority = Null
      <4>1. Written(edges', w, a) = {}
        BY <1>2, <1>11, <2>1, <2>5, <3>2, RegistersApart DEF Written, AttributeOf
      <4> QED BY <2>3, <2>5, <3>1, <3>2, <4>1 DEF ItemRegister, Unset, Items!Unset
    <3>3. CASE k.arg.priority # Null
      <4>1. Written(edges', w, a) = {e}
        BY <1>2, <1>11, <2>1, <2>5, <3>3, RegistersApart DEF Written, AttributeOf
      <4>2. Latest({e}) = e
        BY <1>1, OnlyIsLatest DEF Ids
      <4> QED BY SMTT(60), <2>3, <2>5, <3>1, <3>3, <4>1, <4>2 DEF ItemRegister, ValueOf
    <3> QED BY <3>2, <3>3
  <2>6. CASE a = "implementer"
    <3>1. Written(edges', w, a) = {}
      BY <1>2, <1>11, <2>1, <2>6, RegistersApart DEF Written, AttributeOf
    <3>2. initial[a] = Null
      BY <1>2, <2>6, RegistersApart DEF ItemInitial
    <3> QED BY <2>3, <2>6, <3>1, <3>2 DEF ItemRegister, Unset, Items!Unset
  <2>7. CASE a \in Cites
    <3> DEFINE e == [id |-> k.id, type |-> "references", from |-> w, to |-> a]
    <3>1. a \notin {"status", "priority", "implementer"}
      BY <2>7, RegistersApart
    <3>2. CASE a \notin k.arg.cites
      <4>1. Written(edges', w, a) = {}
        BY <1>2, <1>11, <2>1, <3>1, <3>2 DEF Written, AttributeOf
      <4>2. initial[a] = Null
        BY <3>1, <3>2 DEF ItemInitial
      <4> QED BY <2>3, <3>1, <4>1, <4>2 DEF ItemRegister, Unset, Items!Unset
    <3>3. CASE a \in k.arg.cites
      <4>1. Written(edges', w, a) = {e}
        BY <1>2, <1>11, <2>1, <3>1, <3>3 DEF Written, AttributeOf
      <4>2. initial[a] = "references" /\ initial[a] # Null
        BY <3>1, <3>3, RegistersApart DEF ItemInitial
      <4>3. Latest({e}) = e
        BY <1>1, OnlyIsLatest DEF Ids
      <4>4. e.type = "references" /\ e.id = k.id
        OBVIOUS
      <4>5. Written(edges', w, a) # {} /\ Latest(Written(edges', w, a)) = e
        BY <4>1, <4>3
      <4> HIDE DEF e, initial
      <4> QED BY <2>3, <4>2, <4>4, <4>5 DEF ItemRegister, ValueOf
    <3> QED BY <3>2, <3>3
  <2> QED BY <2>4, <2>5, <2>6, <2>7 DEF Attributes
<1>14. register' = [register EXCEPT ![w] =
         [a \in Attributes |-> Items!Overwrite(register[w][a], initial[a], k.id)]]
  <2>1. ASSUME NEW v \in Works
        PROVE  register'[v] = IF v = w
                 THEN [a \in Attributes |-> Items!Overwrite(register[w][a], initial[a], k.id)]
                 ELSE register[v]
    <3> HIDE DEF initial
    <3> QED BY <1>12, <1>13
  <2> QED BY <2>1
<1>15. ASSUME NEW p, p = pending[c]
       PROVE  /\ p.kind = "create" /\ doc[p.work] = Null
              /\ doc' = [doc EXCEPT ![p.work] = p.content]
              /\ register' = [register EXCEPT ![p.work] =
                   [a \in Attributes |-> Items!Overwrite(@[a], p.initial[a], p.at)]]
  <2> HIDE DEF doc, register, pending, initial
  <2> QED BY <1>4, <1>9, <1>10, <1>14, <1>15
<1> QED BY <1>5, <1>15 DEF Items!Create, Items!Complete

\* The work graph implements WorkItems: every verb, whatever else runs between
\* its reads and its transaction, takes effect in one step on the state that
\* step finds, or not at all.
THEOREM ImplementsPromise == Spec => ImplementsWorkItems
<1>1. Init => SearchInv /\ RegisterInv
  BY DEF Init, SearchInv, Attached, SearchMirrors, RegisterInv, Idle
<1>2. IInv /\ IInv' /\ SearchInv /\ [Next]_vars => SearchInv'
  BY SearchStep
<1>3. IInv /\ SearchInv /\ RegisterInv /\ [Next]_vars => RegisterInv'
  BY RegisterStep
<1>4. Init => Items!Init
  BY DEF Init, Items!Init, ItemRegister, Written, ItemCall, Unset, Items!Unset, Items!NoCall, Idle
<1>5. IInv /\ SearchInv /\ RegisterInv /\ [Next]_vars => [Items!Next]_(Items!vars)
  <2> SUFFICES ASSUME IInv, SearchInv, RegisterInv, [Next]_vars
               PROVE  [Items!Next]_(Items!vars)
    OBVIOUS
  <2>1. CASE UNCHANGED tables
    BY <2>1, SimulatesCalls
  <2>2. ASSUME NEW c \in Clients,
               CommitCreate(c) \/ CommitRevise(c) \/ CommitEdge(c)
        PROVE  Items!Next
    BY <2>2, SimulatesCreate, SimulatesRevise, SimulatesWrite DEF Items!Next, SearchInv
  <2>3. ASSUME NEW c \in Clients, CommitComment(c)
        PROVE  UNCHANGED Items!vars
    BY <2>3, SimulatesComment
  <2> QED BY <2>1, <2>2, <2>3, TransactionOrNot
<1> QED BY <1>1, <1>2, <1>3, <1>4, <1>5, InvariantHolds, PTL
        DEF Spec, ImplementsWorkItems, Items!Spec
=============================================================================
