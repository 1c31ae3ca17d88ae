------------------------------- MODULE Sidebar -------------------------------
(***************************************************************************)
(* The tree of projects, workspaces and chats in the sidebar: how the      *)
(* pushed lists are grouped and ordered, what is open in it, and the       *)
(* effect that opens the way to the chat the window shows.  A workspace is *)
(* a project of its own until git detection binds it to a repository.      *)
(***************************************************************************)
EXTENDS Naturals, FiniteSets, Sequences, SequencesExt

CONSTANTS
  Workspaces, \* directories
  RepoOf(_),  \* the repository a workspace turns out to be in
  Chats,      \* of all workspaces, newest first
  HomeOf(_),  \* the workspace of a chat
  ChatCap,    \* chats a workspace shows before "show all"
  MaxClicks,  \* bound on the nodes toggled, the pins and the drags
  Nobody      \* no chat

SidebarAssumption == ChatCap \in Nat /\ Chats \in Seq(ToSet(Chats)) /\ Nobody \notin ToSet(Chats)

VARIABLES
  workspaces, \* workspacesAtom, in its order
  bound,      \* the listed workspaces whose repository is known
  born,       \* chatsAtom
  chosen,     \* the chat picked
  open,       \* the disclosures the user or a reveal set: node -> BOOLEAN
  expanded,   \* expandedChatLists
  prefs,      \* [pinned, order]: the project preferences
  tucked,     \* the user closed a node after the last reveal
  clicks      \* toggles, pins and drags so far

vars == <<workspaces, bound, born, chosen, open, expanded, prefs, tucked, clicks>>

Keys == Workspaces \cup {RepoOf(w) : w \in Workspaces}
Project(k) == [kind |-> "project", id |-> k]
Workspace(w) == [kind |-> "workspace", id |-> w]
ChatSection(w) == [kind |-> "chatSection", id |-> w]
\* The disclosure all projects are in.
Projects == [kind |-> "section", id |-> "projects"]
Nodes ==
  {Projects} \cup {Project(k) : k \in Keys}
    \cup {Workspace(w) : w \in Workspaces} \cup {ChatSection(w) : w \in Workspaces}

\* isOpen, with the default of a node nobody touched.
IsOpen(n) == IF n \in DOMAIN open THEN open[n] ELSE n.kind \in {"section", "workspace"}
SetOpen(f, ns, b) == [n \in DOMAIN f \cup ns |-> IF n \in ns THEN b ELSE f[n]]

KeyOf(w, known) == IF w \in known THEN RepoOf(w) ELSE w
At(k, seq) == IF k \in ToSet(seq) THEN CHOOSE i \in DOMAIN seq : seq[i] = k ELSE Len(seq) + 1

\* deriveShellViewModel: a pick that the list of chats does not hold falls through to
\* the first, that is the oldest, of its workspace or else of the first workspace.
Oldest(chats) == CHOOSE c \in chats : \A d \in chats : At(d, Chats) <= At(c, Chats)
ShownChat(list, chats, pick) ==
  LET w == IF HomeOf(pick) \in ToSet(list) THEN HomeOf(pick) ELSE list[1]
      here == {c \in chats : HomeOf(c) = w}
  IN  CASE pick \in chats -> pick
        [] pick \notin chats /\ list # <<>> /\ here # {} -> Oldest(here)
        [] OTHER -> Nobody
Shown == ShownChat(workspaces, born, chosen)

Init ==
  /\ workspaces = <<>> /\ bound = {} /\ born = {} /\ chosen = Nobody
  /\ open = << >> /\ expanded = {} /\ tucked = FALSE /\ clicks = 0
  /\ prefs = [pinned |-> {}, order |-> <<>>]

-----------------------------------------------------------------------------
(* Grouping and order.                                                     *)

\* groupByProject: in the order of each project's first workspace.
Grouped == FoldLeft(LAMBDA keys, w : LET k == KeyOf(w, bound) IN
                      IF k \in ToSet(keys) THEN keys ELSE Append(keys, k), <<>>, workspaces)
\* orderProjects: pinned first, then by the order of drags, then as grouped.
Before(a, b) ==
  LET pin(k) == IF k \in prefs.pinned THEN 0 ELSE 1
      rank(k) == At(k, prefs.order) IN
  \/ pin(a) < pin(b)
  \/ pin(a) = pin(b) /\ rank(a) < rank(b)
  \/ pin(a) = pin(b) /\ rank(a) = rank(b) /\ At(a, Grouped) < At(b, Grouped)
Painted == SortSeq(Grouped, Before)

\* moveProject, over the order painted.
Moved(order, s, t) ==
  LET rest == SelectSeq(order, LAMBDA k : k # s) IN InsertAt(rest, At(t, rest), s)

-----------------------------------------------------------------------------
(* The reveal: an effect of every change of the chat shown or of the lists *)
(* and the order that the tree is grouped from.                            *)

\* Slip: the effect runs when the chat changes, and not when its place does.
OnlyIfChanged(c) == c # Shown
Fires(c) == TRUE

Reveal(list, known, chats, pick) ==
  LET c == ShownChat(list, chats, pick)
      w == HomeOf(c)
      way == {Workspace(w), ChatSection(w)} \cup (IF w \in known THEN {Project(RepoOf(w))} ELSE {}) IN
  IF c # Nobody /\ w \in ToSet(list) /\ Fires(c)
    THEN open' = SetOpen(open, way, TRUE) /\ tucked' = FALSE
    ELSE UNCHANGED <<open, tucked>>
Again == Reveal(workspaces, bound, born, chosen)

-----------------------------------------------------------------------------
(* The lists.                                                              *)

OpenWorkspace(w) ==
  /\ w \notin ToSet(workspaces) /\ workspaces' = <<w>> \o workspaces
  /\ Reveal(workspaces', bound, born, chosen)
  /\ UNCHANGED <<bound, born, chosen, expanded, prefs, clicks>>
\* Its worktree was removed, and the list pushed again.
Archive(w) ==
  /\ w \in ToSet(workspaces) /\ workspaces' = SelectSeq(workspaces, LAMBDA x : x # w) /\ bound' = bound \ {w}
  /\ Reveal(workspaces', bound', born, chosen)
  /\ UNCHANGED <<born, chosen, expanded, prefs, clicks>>
\* detectRepository
Bind(w) ==
  /\ w \in ToSet(workspaces) \ bound /\ bound' = bound \cup {w}
  /\ Reveal(workspaces, bound', born, chosen)
  /\ UNCHANGED <<workspaces, born, chosen, expanded, prefs, clicks>>
NewChat(c) ==
  /\ c \notin born /\ HomeOf(c) \in ToSet(workspaces) /\ born' = born \cup {c}
  /\ Reveal(workspaces, bound, born', chosen)
  /\ UNCHANGED <<workspaces, bound, chosen, expanded, prefs, clicks>>
\* A session starts, ends or is bound: the lists are grouped anew.
PushSessions == Again /\ UNCHANGED <<workspaces, bound, born, chosen, expanded, prefs, clicks>>

-----------------------------------------------------------------------------
(* Gestures.                                                               *)

\* The answer of createChat selects a chat whose list is still to come.
Select(c) ==
  /\ c # chosen /\ chosen' = c
  /\ IF ShownChat(workspaces, born, c) # Shown THEN Reveal(workspaces, bound, born, c) ELSE UNCHANGED <<open, tucked>>
  /\ UNCHANGED <<workspaces, bound, born, expanded, prefs, clicks>>

Click == clicks < MaxClicks /\ clicks' = clicks + 1
Toggle(n) ==
  /\ Click
  /\ open' = SetOpen(open, {n}, ~IsOpen(n)) /\ tucked' = (tucked \/ IsOpen(n))
  /\ UNCHANGED <<workspaces, bound, born, chosen, expanded, prefs>>
ToggleList(w) ==
  /\ expanded' = IF w \in expanded THEN expanded \ {w} ELSE expanded \cup {w}
  /\ UNCHANGED <<workspaces, bound, born, chosen, open, prefs, tucked, clicks>>
Pin(k) ==
  /\ Click /\ k \in ToSet(Grouped)
  /\ prefs' = [prefs EXCEPT !.pinned = IF k \in @ THEN @ \ {k} ELSE @ \cup {k}]
  /\ Again /\ UNCHANGED <<workspaces, bound, born, chosen, expanded>>
Move(s, t) ==
  /\ Click /\ s # t /\ {s, t} \subseteq ToSet(Grouped)
  /\ prefs' = [prefs EXCEPT !.order = Moved(Painted, s, t)]
  /\ Again /\ UNCHANGED <<workspaces, bound, born, chosen, expanded>>

\* A reload: disclosures, preferences and the selection come from localStorage.
Reload == Again /\ expanded' = {} /\ UNCHANGED <<workspaces, bound, born, chosen, prefs, clicks>>

Next ==
  \/ PushSessions \/ Reload
  \/ \E w \in Workspaces : OpenWorkspace(w) \/ Archive(w) \/ Bind(w) \/ ToggleList(w)
  \/ \E c \in ToSet(Chats) : NewChat(c) \/ Select(c)
  \/ \E n \in Nodes : Toggle(n)
  \/ \E k \in Keys : Pin(k) \/ \E t \in Keys : Move(k, t)

Spec == Init /\ [][Next]_vars

-----------------------------------------------------------------------------

\* WorkspaceNode: a long list is cut off, but not in front of the chat shown.
Siblings(c) == {x \in born : HomeOf(x) = HomeOf(c)}
Place(c) == Cardinality({x \in Siblings(c) : At(x, Chats) <= At(c, Chats)})
InList(c) ==
  /\ c \in born
  /\ Place(c) <= ChatCap \/ HomeOf(c) \in expanded \/ (Shown \in Siblings(c) /\ Place(Shown) > ChatCap)
Visible(c) ==
  LET w == HomeOf(c) IN
  /\ IsOpen(Projects) /\ (w \in bound => IsOpen(Project(RepoOf(w))))
  /\ IsOpen(Workspace(w)) /\ IsOpen(ChatSection(w)) /\ InList(c)
HasRow(c) == c # Nobody /\ HomeOf(c) \in ToSet(workspaces)

\* "open its ancestors so the row is actually visible - overriding a collapsed
\* ancestor": the row of the chat shown can be seen in the tree, wherever
\* detection, new lists, selection ahead of the lists and reloads move it,
\* unless the user closed a node since the last reveal, or its workspace, which
\* has no row then, was archived.  The code does not keep this of one ancestor,
\* the section of all projects.
SelectionOverrides == HasRow(Shown) /\ ~tucked => Visible(Shown)

\* What the code keeps of it: no reveal opens the section of all projects, which
\* the user may have closed before; while that one is open the row can be seen.
SelectedIsVisible == HasRow(Shown) /\ ~tucked /\ IsOpen(Projects) => Visible(Shown)

\* A project dropped on another of its kind is painted right before it.
DropLandsBefore ==
  [][\A s, t \in Keys : Move(s, t) /\ (s \in prefs.pinned <=> t \in prefs.pinned)
       => At(t, Painted') = At(s, Painted') + 1]_vars

\* "Fires only on change (not every render), so the user can freely collapse
\* afterward": lists that move nothing open nothing.
CollapseSticks == [][PushSessions => open' = open]_vars
=============================================================================
