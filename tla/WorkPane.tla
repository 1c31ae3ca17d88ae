------------------------------- MODULE WorkPane -------------------------------
(***************************************************************************)
(* The work navigator (renderer/src/work): a list of every unit of work of *)
(* the workspace, the detail of the one picked with its comments, an       *)
(* editor and a form, over the reads of WorkService and ReadService.       *)
(*                                                                         *)
(* Agents write at the same time.  Every mutation is announced, a burst of *)
(* announcements becomes one refresh, and a refresh is several reads: the  *)
(* refs that match, then each of them; the current revision of the work    *)
(* shown, then its comments.  Agents write between any two of them.  A     *)
(* refresh replaces the one in progress.                                   *)
(*                                                                         *)
(* The text of a revision is its number.  One pane is modelled: the window *)
(* can show two, which share the reads and nothing else.                   *)
(***************************************************************************)
EXTENDS Naturals, FiniteSets

CONSTANTS
  Works, Chats,
  Statuses,   \* the ones used here, of WORK_STATUSES
  Here,       \* the chat the pane is shown for
  Stored,     \* the works there when the pane opens
  MaxWrites,  \* bound on the writes, of agents and of the pane
  MaxRemarks, \* bound on the comments, which only agents write
  Nothing     \* no work, no read, no edit

WorkPaneAssumption ==
  /\ Here \in Chats /\ "open" \in Statuses
  /\ Nothing \notin Works \cup Chats /\ Stored \subseteq Works /\ {MaxWrites, MaxRemarks} \subseteq Nat

VARIABLES
  graph,      \* per work: Nothing, or its revision, status, chat and first chat
  remarks,    \* work_comment: [work, subject, n]; subject 0 is the ref
  told,       \* an announcement waits for the debounce
  writes,     \* how many there were
  hydration,  \* the read of the list
  list,       \* the list the pane holds
  lookup,     \* the read of the comments
  listing,    \* the comments it holds
  picked, tab, creating, allRevisions,
  edit,       \* the editor: the work and revision it was filled from
  mutation    \* the pane's call in flight; busy while there is one

store == <<graph, remarks, told, writes>>
reads == <<hydration, list, lookup, listing>>
pane == <<picked, tab, creating, allRevisions, edit>>
vars == <<store, reads, pane, mutation>>

There == {w \in Works : graph[w] # Nothing}

\* loadWork: the projection of a ref.
loadWork(w) == [rev |-> graph[w].rev, status |-> graph[w].status]

\* ALL_WORK_STATUSES: the search of the navigator leaves nothing out.
searchAll == There

\* loadWorkForChat: by the chat of the current revision.
listForChat(c) == {w \in There : graph[w].chat = c}

-----------------------------------------------------------------------------
(* What the pane derives when it renders.                                  *)

Selected(l, p) == IF p \in DOMAIN l THEN p ELSE Nothing
InDetail(l, p, form) == ~form /\ Selected(l, p) # Nothing

\* The tab filters on the client.
Visible == {w \in DOMAIN list : tab = "all" \/ list[w].status = tab}

\* listComments: all of them, or the ones on the current revision and the ref,
\* and how many others there are.
Listed(w, all, current, rs) ==
  [comments |-> IF all THEN rs ELSE {r \in rs : r.subject \in {0, current}},
   older |-> {r \in rs : r.subject \notin {0, current}}]

RemarksOn(w) == {r \in remarks : r.work = w}
NoComments == [comments |-> {}, older |-> {}]

Searching == [pc |-> "search", todo |-> {}, got |-> <<>>]
Fresh(status, chat) == [rev |-> 1, status |-> status, chat |-> chat, home |-> chat]

NoRead == [pc |-> "none", todo |-> {}, got |-> <<>>]
Lookup(w, all) ==
  IF w = Nothing THEN [pc |-> "none", work |-> Nothing, all |-> FALSE, current |-> 0]
  ELSE [pc |-> "row", work |-> w, all |-> all, current |-> 0]

Init ==
  /\ graph = [w \in Works |-> IF w \in Stored THEN Fresh("open", Here) ELSE Nothing]
  /\ remarks = {} /\ told = FALSE /\ writes = 0
  /\ hydration = Searching /\ list = <<>>
  /\ lookup = Lookup(Nothing, FALSE) /\ listing = NoComments
  /\ picked = Nothing /\ tab = "open" /\ creating = FALSE /\ allRevisions = FALSE
  /\ edit = Nothing
  /\ mutation = Nothing

\* A render with the list l, the pick p and the form open or not.  The detail
\* view is one component for whatever work it shows: its editor is gone only
\* when the view is.  The comments are keyed by the work selected and the
\* toggle, which a new selection resets.
Shows(l, p, form) ==
  /\ list' = l /\ picked' = p /\ creating' = form
  /\ edit' = IF InDetail(l, p, form) THEN edit ELSE Nothing
  /\ IF Selected(l, p) = Selected(list, picked) THEN UNCHANGED <<allRevisions, lookup, listing>>
     ELSE allRevisions' = FALSE /\ listing' = NoComments /\ lookup' = Lookup(Selected(l, p), FALSE)

-----------------------------------------------------------------------------
(* The work graph, and the agents at work on it.                           *)

Remarked(r) ==
  /\ remarks' = remarks \cup {r} /\ told' = TRUE /\ UNCHANGED graph

\* create, and revise from a chat: the new revision's chat is the caller's.
AgentWrites(w) ==
  /\ \/ /\ graph[w] = Nothing
        /\ \E c \in Chats : graph' = [graph EXCEPT ![w] = Fresh("open", c)]
     \/ /\ graph[w] # Nothing
        /\ \E c \in Chats :
             graph' = [graph EXCEPT ![w].rev = graph[w].rev + 1, ![w].chat = c]
     \/ /\ graph[w] # Nothing
        /\ \E s \in Statuses \ {graph[w].status} : graph' = [graph EXCEPT ![w].status = s]
  /\ told' = TRUE /\ UNCHANGED remarks

\* comment: on the current revision, or on the ref.
AgentComments(w) ==
  /\ graph[w] # Nothing
  /\ \E onRef \in BOOLEAN :
       Remarked([work |-> w, subject |-> IF onRef THEN 0 ELSE graph[w].rev, n |-> Cardinality(remarks)])

Agent(w) ==
  /\ \/ /\ writes < MaxWrites /\ writes' = writes + 1
        /\ AgentWrites(w)
     \/ /\ Cardinality(remarks) < MaxRemarks /\ UNCHANGED writes
        /\ AgentComments(w)
  /\ UNCHANGED <<reads, pane, mutation>>

-----------------------------------------------------------------------------
(* The reads.                                                              *)

\* Slip: a refresh is skipped while one is in progress.
Skipped ==
  /\ hydration' = IF hydration.pc = "none" THEN Searching ELSE hydration
  /\ lookup' = IF lookup.pc = "none" THEN Lookup(Selected(list, picked), allRevisions) ELSE lookup

Restarted ==
  /\ hydration' = Searching /\ lookup' = Lookup(Selected(list, picked), allRevisions)

\* workInvalidationSignalAtom, after the debounce.
Refresh ==
  /\ told /\ told' = FALSE /\ Restarted
  /\ UNCHANGED <<graph, remarks, writes, list, listing, pane, mutation>>

\* SearchArc.
SearchArc ==
  /\ hydration.pc = "search"
  /\ hydration' = [pc |-> "get", todo |-> searchAll, got |-> <<>>]
  /\ UNCHANGED <<store, list, lookup, listing, pane, mutation>>

\* GetArc hydrates one ref after another.
GetArc(w) ==
  /\ hydration.pc = "get" /\ w \in hydration.todo
  /\ hydration' = [hydration EXCEPT !.todo = @ \ {w},
       !.got = [x \in DOMAIN @ \cup {w} |-> IF x = w THEN loadWork(w) ELSE @[x]]]
  /\ UNCHANGED <<store, list, lookup, listing, pane, mutation>>

\* The atom has its value: the pane renders.
Deliver ==
  /\ hydration.pc = "get" /\ hydration.todo = {} /\ hydration' = NoRead
  /\ Shows(hydration.got, picked, creating)
  /\ UNCHANGED <<store, tab, mutation>>

\* listComments: requireWork, then loadComments.
RequireWork ==
  /\ lookup.pc = "row"
  /\ lookup' = [lookup EXCEPT !.pc = "comments", !.current = graph[lookup.work].rev]
  /\ UNCHANGED <<store, hydration, list, listing, pane, mutation>>

LoadComments ==
  /\ lookup.pc = "comments" /\ lookup' = Lookup(Nothing, FALSE)
  /\ listing' = Listed(lookup.work, lookup.all, lookup.current, RemarksOn(lookup.work))
  /\ UNCHANGED <<store, hydration, list, pane, mutation>>

-----------------------------------------------------------------------------
(* The pane.                                                               *)

\* A row of the list.
Pick(w) ==
  /\ ~creating /\ Selected(list, picked) = Nothing /\ w \in Visible
  /\ Shows(list, w, creating)
  /\ UNCHANGED <<store, hydration, tab, mutation>>

\* A link of the transcript, a search hit or the shell: the pane is not asked.
Open(w) ==
  /\ graph[w] # Nothing /\ w # picked
  /\ Shows(list, w, creating)
  /\ UNCHANGED <<store, hydration, tab, mutation>>

Back ==
  /\ ~creating /\ Selected(list, picked) # Nothing
  /\ Shows(list, Nothing, creating)
  /\ UNCHANGED <<store, hydration, tab, mutation>>

Tab(t) ==
  /\ ~creating /\ Selected(list, picked) = Nothing /\ t # tab /\ tab' = t
  /\ UNCHANGED <<store, reads, picked, creating, allRevisions, edit, mutation>>

ToggleAll ==
  /\ InDetail(list, picked, creating) /\ edit = Nothing /\ listing.older # {}
  /\ allRevisions' = ~allRevisions
  /\ listing' = NoComments /\ lookup' = Lookup(picked, ~allRevisions)
  /\ UNCHANGED <<store, hydration, list, picked, tab, creating, edit, mutation>>

startEdit ==
  /\ InDetail(list, picked, creating) /\ edit = Nothing /\ mutation = Nothing
  /\ edit' = [of |-> picked, base |-> list[picked].rev, typed |-> FALSE]
  /\ UNCHANGED <<store, reads, picked, tab, creating, allRevisions, mutation>>

Type ==
  /\ edit # Nothing /\ ~edit.typed /\ edit' = [edit EXCEPT !.typed = TRUE]
  /\ UNCHANGED <<store, reads, picked, tab, creating, allRevisions, mutation>>

CancelEdit ==
  /\ edit # Nothing /\ edit' = Nothing
  /\ UNCHANGED <<store, reads, picked, tab, creating, allRevisions, mutation>>

startCreate ==
  /\ ~creating /\ Shows(list, picked, TRUE)
  /\ UNCHANGED <<store, hydration, tab, mutation>>

CancelCreate ==
  /\ creating /\ Shows(list, picked, FALSE)
  /\ UNCHANGED <<store, hydration, tab, mutation>>

-----------------------------------------------------------------------------
(* useWorkPaneMutations.                                                   *)

Asked(verb, w, status, of, base, typed) ==
  mutation' = [pc |-> "sent", verb |-> verb, work |-> w, status |-> status,
               of |-> of, base |-> base, typed |-> typed]

\* Nothing is sent while a call is in flight.
Send ==
  /\ mutation = Nothing /\ UNCHANGED <<store, reads>>

SaveEdit ==
  /\ edit # Nothing /\ Send
  /\ Asked("revise", picked, "open", edit.of, edit.base, edit.typed)
  /\ edit' = Nothing /\ UNCHANGED <<picked, tab, creating, allRevisions>>

changeStatus(s) ==
  /\ InDetail(list, picked, creating) /\ edit = Nothing /\ s # list[picked].status /\ Send
  /\ Asked("status", picked, s, Nothing, 0, FALSE)
  /\ UNCHANGED pane

Create(w, s) ==
  /\ creating /\ graph[w] = Nothing /\ Send
  /\ Asked("create", w, s, Nothing, 0, TRUE)
  /\ UNCHANGED pane

Over(ok) == mutation' = [mutation EXCEPT !.pc = IF ok THEN "done" ELSE "refused"]

\* The verb at the other end.  revise writes nothing if the text is that of
\* the current revision; the renderer has no chat, nor has its revision.
Handle ==
  LET w == mutation.work IN
  /\ mutation # Nothing /\ mutation.pc = "sent" /\ writes < MaxWrites
  /\ graph' = CASE mutation.verb = "create" -> [graph EXCEPT ![w] = Fresh(mutation.status, Here)]
                [] mutation.verb = "status" -> [graph EXCEPT ![w].status = mutation.status]
                [] mutation.verb = "revise" ->
                     IF ~mutation.typed /\ mutation.of = w /\ mutation.base = graph[w].rev THEN graph
                     ELSE [graph EXCEPT ![w].rev = @ + 1, ![w].chat = Nothing]
  /\ told' = (told \/ graph' # graph) /\ writes' = writes + 1 /\ Over(TRUE)
  /\ UNCHANGED <<remarks, reads, pane>>

\* WorkRefConflict, or another failure of the call.
Refuse ==
  /\ mutation # Nothing /\ mutation.pc = "sent" /\ mutation.verb # "create" /\ Over(FALSE)
  /\ UNCHANGED <<store, reads, pane>>

\* The call returns: the list is reloaded, and a work created is shown.
Return ==
  /\ mutation # Nothing /\ mutation.pc = "done" /\ mutation' = Nothing
  /\ hydration' = Searching
  /\ IF mutation.verb = "create"
     THEN Shows(list, mutation.work, FALSE) /\ tab' = mutation.status
     ELSE UNCHANGED <<list, lookup, listing, pane>>
  /\ UNCHANGED store

Fail ==
  /\ mutation # Nothing /\ mutation.pc = "refused"
  /\ mutation' = Nothing /\ UNCHANGED <<store, reads, pane>>

-----------------------------------------------------------------------------

Read == Refresh \/ SearchArc \/ Deliver \/ RequireWork \/ LoadComments \/ \E w \in Works : GetArc(w)
User ==
  \/ Back \/ ToggleAll \/ startEdit \/ Type \/ CancelEdit \/ startCreate \/ CancelCreate \/ SaveEdit
  \/ \E w \in Works : Pick(w) \/ Open(w) \/ \E s \in Statuses : Create(w, s)
  \/ \E s \in Statuses : changeStatus(s)
  \/ \E t \in Statuses \cup {"all"} : Tab(t)
Mutate == Handle \/ Refuse \/ Return \/ Fail

Next == Read \/ User \/ Mutate \/ \E w \in Works : Agent(w)
Spec == Init /\ [][Next]_vars

-----------------------------------------------------------------------------

TypeOK ==
  /\ DOMAIN list \subseteq Works /\ hydration.pc \in {"none", "search", "get"}
  /\ lookup.pc \in {"none", "row", "comments"} /\ picked \in Works \cup {Nothing}
  /\ tab \in Statuses \cup {"all"} /\ {creating, allRevisions, told} \subseteq BOOLEAN

AtRest == ~told /\ hydration.pc = "none" /\ lookup.pc = "none"

\* Once nothing is announced and nothing is being read, what the pane shows is
\* what is stored: every work with its revision and status, and of the work
\* selected every comment, listed or counted among the older ones.  No write
\* made between two of the reads of a refresh is missed for good.
AtRestItIsCurrent ==
  AtRest =>
    /\ list = [w \in There |-> loadWork(w)]
    /\ LET w == Selected(list, picked) IN
       w # Nothing =>
         /\ listing.comments \cup listing.older = RemarksOn(w)
         /\ listing.comments \cap listing.older = {} \/ allRevisions
         /\ {r \in RemarksOn(w) : r.subject \in {0, graph[w].rev}} \subseteq listing.comments

\* The body editor is built once per text: "Remount (a new key) to switch to a
\* different work item" (WorkBodyEditor.tsx).  What was edited of one work is
\* never saved to another.
SavedToItsWork ==
  mutation # Nothing /\ mutation.verb = "revise" => mutation.of = mutation.work

\* A save never replaces a revision its author has not seen.
NothingOverwritten ==
  [][ mutation # Nothing /\ mutation.verb = "revise" /\ Handle => mutation.base = graph[mutation.work].rev ]_vars

\* listForChat: "All work authored in a given chat (any status)".
AuthoredIsListed == \A w \in There : w \in listForChat(graph[w].home)
=============================================================================
