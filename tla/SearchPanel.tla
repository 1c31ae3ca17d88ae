------------------------------ MODULE SearchPanel ------------------------------
(***************************************************************************)
(* The search palette (ArcSearchPanel.tsx) over the search of the main     *)
(* process (read/service.ts): a search is issued some time after the last  *)
(* change of the draft, its answer counts only if the draft has not        *)
(* changed since, and further pages are asked for one at a time, at an     *)
(* offset that the last answer gave.  Answers come in any order, and fail. *)
(***************************************************************************)
EXTENDS Naturals, Sequences

CONSTANTS
  Queries,     \* the drafts: what is searched, of which kinds, from which chat
  TotalOf(_),  \* how many hits a query has, in one order
  MaxDrafts    \* bound: drafts entered

Limit == 1    \* buildArcSearchParams asks for 12 hits; one stands for a page
NoCursor == 0 \* there is no further page (the offset of one is positive)

PanelAssumption == MaxDrafts \in Nat \ {0} /\ \A q \in Queries : TotalOf(q) \in Nat

VARIABLES
  query,       \* the draft
  requestId,   \* counts the drafts
  debounce,    \* the timeout of the last draft is still to fire
  searches,    \* SearchArc requests in flight [id, query, cursor, more]
  hits,        \* the hits listed [query, n]: the nth of its query
  nextCursor,
  loading, loadingMore,
  failed       \* an error stands in the place of the hits

vars == <<query, requestId, debounce, searches, hits, nextCursor, loading, loadingMore, failed>>

Init ==
  /\ query \in Queries
  /\ requestId = 1 /\ debounce = TRUE /\ loading = TRUE
  /\ searches = {} /\ hits = <<>> /\ nextCursor = NoCursor
  /\ loadingMore = FALSE /\ failed = FALSE

-----------------------------------------------------------------------------
(* The answer of ReadService.search: a slice of the ordered hits, and the  *)
(* offset of the next one.                                                 *)

PageOf(c) ==
  LET left == TotalOf(c.query) - c.cursor
      size == IF left > Limit THEN Limit ELSE IF left > 0 THEN left ELSE 0
  IN  [i \in 1..size |-> [query |-> c.query, n |-> c.cursor + i]]

CursorAfter(c) ==
  IF c.cursor + Limit < TotalOf(c.query) THEN c.cursor + Limit ELSE NoCursor

-----------------------------------------------------------------------------

\* The draft changes: the effect clears the timeout of the one before.
Change(q) ==
  /\ requestId < MaxDrafts /\ q # query
  /\ query' = q /\ requestId' = requestId + 1
  /\ debounce' = TRUE /\ loading' = TRUE /\ failed' = FALSE
  /\ UNCHANGED <<searches, hits, nextCursor, loadingMore>>

\* The timeout fires.
Issue ==
  /\ debounce /\ debounce' = FALSE
  /\ searches' = searches \union {[id |-> requestId, query |-> query, cursor |-> 0, more |-> FALSE]}
  /\ UNCHANGED <<query, requestId, hits, nextCursor, loading, loadingMore, failed>>

\* The button under the list: the draft of now at the cursor of the last answer.
LoadMore ==
  /\ nextCursor # NoCursor /\ ~loadingMore
  /\ loadingMore' = TRUE /\ failed' = FALSE
  /\ searches' = searches \union
       {[id |-> requestId, query |-> query, cursor |-> nextCursor, more |-> TRUE]}
  /\ UNCHANGED <<query, requestId, debounce, hits, nextCursor, loading>>

\* The answer is to a request made under the draft of now.
Current(c) == c.id = requestId

Found(c) ==
  /\ ~c.more
  /\ IF Current(c)
     THEN /\ hits' = PageOf(c) /\ nextCursor' = CursorAfter(c)
          /\ loading' = FALSE
     ELSE UNCHANGED <<hits, nextCursor, loading>>
  /\ UNCHANGED <<failed, loadingMore>>

NotFound(c) ==
  /\ ~c.more
  /\ IF Current(c)
     THEN hits' = <<>> /\ nextCursor' = NoCursor /\ failed' = TRUE /\ loading' = FALSE
     ELSE UNCHANGED <<hits, nextCursor, failed, loading>>
  /\ UNCHANGED loadingMore

FoundMore(c) ==
  /\ c.more /\ loadingMore' = FALSE
  /\ IF Current(c)
     THEN hits' = hits \o PageOf(c) /\ nextCursor' = CursorAfter(c)
     ELSE UNCHANGED <<hits, nextCursor>>
  /\ UNCHANGED <<failed, loading>>

NotFoundMore(c) ==
  /\ c.more /\ loadingMore' = FALSE
  /\ failed' = (failed \/ Current(c))
  /\ UNCHANGED <<hits, nextCursor, loading>>

Answer(c) ==
  /\ c \in searches /\ searches' = searches \ {c}
  /\ Found(c) \/ NotFound(c) \/ FoundMore(c) \/ NotFoundMore(c)
  /\ UNCHANGED <<query, requestId, debounce>>

AnswerSome == \E c \in searches : Answer(c)

Next ==
  \/ \E q \in Queries : Change(q)
  \/ Issue
  \/ LoadMore
  \/ AnswerSome

Spec == Init /\ [][Next]_vars

\* Timeouts fire and requests are answered (RpcTransport!Answered).
FairSpec == Spec /\ WF_vars(Issue) /\ \A id \in 1..MaxDrafts, more \in BOOLEAN :
  WF_vars(\E c \in searches : c.id = id /\ c.more = more /\ Answer(c))

-----------------------------------------------------------------------------

TypeOK ==
  /\ query \in Queries /\ requestId \in 1..MaxDrafts
  /\ {debounce, loading, loadingMore, failed} \subseteq BOOLEAN
  /\ nextCursor \in Nat
  /\ \A c \in searches : c.query \in Queries /\ c.id \in 1..requestId

\* Once the palette has stopped searching it lists hits of the draft and of no
\* earlier one, whatever was in flight when the draft changed.
HitsOfTheDraft ==
  ~loading => \A i \in DOMAIN hits : hits[i].query = query

\* The search for a draft ends, with hits or an error.
SearchEnds == loading ~> ~loading

\* ArcSearchPanel.tsx:113: of a page in flight while the query changes, "its
\* hits belong to the old query and must not be appended onto (or its cursor
\* overwrite) the new results".  The guard compares the drafts, but the offset
\* of a page asked for before the new draft is answered is the old draft's:
\* appended to the new results it leaves out or repeats what lies between.
PagesAreContiguous ==
  ~loading /\ ~failed => \A i \in DOMAIN hits : hits[i].n = i
=============================================================================
