---------------------------- MODULE ShellLayout ----------------------------
(***************************************************************************)
(* The regions of the window and what is picked in them: the layout half   *)
(* of arcShellMachine.  The center has a strip of tabs, the right one      *)
(* surface, and the picks of a workspace - its chat, its git file, its     *)
(* work item - are remembered for when it is shown again.  What the window *)
(* shows is derived from the picks and from the live lists, which a pick   *)
(* may outlive or precede.                                                 *)
(***************************************************************************)
EXTENDS Naturals, FiniteSets, Sequences, SequencesExt

CONSTANTS
  Workspaces, \* each with a git path and a work item to pick
  Files,      \* the workspaces with a file to edit
  ChatsOf(_), \* the chats of a workspace, in list order
  Nothing     \* no workspace, no chat

WorkspacesAssumption ==
  /\ Nothing \notin Workspaces /\ IsFiniteSet(Workspaces) /\ Files \subseteq Workspaces
  /\ \A w \in Workspaces : ChatsOf(w) # <<>> /\ Nothing \notin ToSet(ChatsOf(w))

VARIABLES
  opened, \* workspacesAtom: the open workspaces in list order, each with its chats
  tabs,   \* layout.center.tabs
  active, \* layout.center.activeId
  dirty,  \* App's dirtyCenterTabs
  right,  \* the kind of layout.right.surface
  picked, \* selection.workspaceId and selection.chatId
  chatOf, \* chatByWorkspace
  gitOf,  \* the workspaces with a gitPathByWorkspace
  workOf  \* those with a workByWorkspace

layoutVars == <<tabs, active, dirty, right>>
pickVars == <<picked, chatOf, gitOf, workOf>>
vars == <<opened, layoutVars, pickVars>>

ChatTab == [kind |-> "chat", of |-> Nothing]
WorkTab == [kind |-> "work", of |-> Nothing]
FileTab(w) == [kind |-> "file", of |-> w]
CenterTabs == {ChatTab, WorkTab} \cup {FileTab(w) : w \in Files}

\* deriveShellViewModel: a pick that the lists do not confirm falls through to
\* the next default.
Shown == IF picked.ws \in ToSet(opened) THEN picked.ws
         ELSE IF opened = <<>> THEN Nothing ELSE opened[1]
Listed == UNION {ToSet(ChatsOf(w)) : w \in ToSet(opened)}
ChatAt(chat, of, w) ==
  IF chat \in Listed THEN chat
  ELSE IF w = Nothing THEN Nothing
  ELSE IF of[w] \in Listed THEN of[w] ELSE ChatsOf(w)[1]
ShownChat == ChatAt(picked.chat, chatOf, Shown)

NoChats == [w \in Workspaces |-> Nothing]

Init ==
  /\ opened = <<>>
  /\ tabs = <<ChatTab>> /\ active = ChatTab /\ dirty = {} /\ right = "terminal"
  /\ picked = [ws |-> Nothing, chat |-> Nothing]
  /\ chatOf = NoChats /\ gitOf = {} /\ workOf = {}

-----------------------------------------------------------------------------
(* The center.                                                             *)

\* showCenter
ShowCenter(t) ==
  /\ tabs' = IF t \in ToSet(tabs) THEN tabs ELSE Append(tabs, t)
  /\ active' = t

\* CHAT_SELECTED, of a new chat too; the sidebar selects the row as well, which
\* changes nothing more here.
SelectChat(w, c) ==
  /\ w \in ToSet(opened)
  /\ ShowCenter(ChatTab)
  /\ picked' = [ws |-> w, chat |-> c] /\ chatOf' = [chatOf EXCEPT ![w] = c]
  /\ UNCHANGED <<opened, dirty, right, gitOf, workOf>>

\* SIDEBAR_SELECTION_CHANGED from a workspace's row.
SelectWorkspace(w) ==
  /\ w \in ToSet(opened)
  /\ picked' = [ws |-> w, chat |-> Nothing]
  /\ UNCHANGED <<opened, layoutVars, chatOf, gitOf, workOf>>

\* COMPOSER_FOCUS_REQUESTED, CHAT_JUMP_TO_BOTTOM_REQUESTED, the chat's tab.
ShowChat == ShowCenter(ChatTab) /\ UNCHANGED <<opened, dirty, right, pickVars>>

\* The work navigator: with an item, which is remembered, or back to its list,
\* which forgets it.  WORK_CREATE_REQUESTED leaves the pick alone.
ShowWork(item) ==
  /\ ShowCenter(WorkTab)
  /\ workOf' = IF item THEN workOf \cup ({picked.ws} \ {Nothing}) ELSE workOf \ {picked.ws}
  /\ UNCHANGED <<opened, dirty, right, picked, chatOf, gitOf>>
CreateWork == ShowCenter(WorkTab) /\ UNCHANGED <<opened, dirty, right, pickVars>>

OpenFile(w) ==
  /\ w \in ToSet(opened) /\ ShowCenter(FileTab(w))
  /\ UNCHANGED <<opened, dirty, right, pickVars>>

\* onDirtyChange of a file's editor.
Edit(t) ==
  /\ t \in ToSet(tabs) /\ t.kind = "file"
  /\ dirty' = IF t \in dirty THEN dirty \ {t} ELSE dirty \cup {t}
  /\ UNCHANGED <<opened, tabs, active, right, pickVars>>

\* Slip: the place of the closed tab is read from the strip that still has it.
LateSuccessor(i) == IF active = tabs[i] THEN tabs[IF i > 2 THEN i - 1 ELSE i] ELSE active
\* closeCenterTab: the left neighbour takes over.
Successor(i) ==
  IF active = tabs[i] THEN RemoveAt(tabs, i)[IF i > 2 THEN i - 1 ELSE 1] ELSE active

\* App.closeCenterTab, confirmed when dirty, then CENTER_TAB_CLOSED, which keeps
\* the chat.
CloseTab(i) ==
  /\ tabs[i] # ChatTab
  /\ dirty' = dirty \ {tabs[i]}
  /\ active' = Successor(i) /\ tabs' = RemoveAt(tabs, i)
  /\ UNCHANGED <<opened, right, pickVars>>

-----------------------------------------------------------------------------
(* The right region, the workspace list and a restart.                     *)

ShowRight(kind) == right' = kind /\ UNCHANGED <<opened, tabs, active, dirty, pickVars>>

\* open({git, path}) from the pane's list of the shown workspace.
PickFile ==
  /\ right = "git" /\ Shown # Nothing
  /\ gitOf' = gitOf \cup ({picked.ws} \ {Nothing})
  /\ UNCHANGED <<opened, layoutVars, picked, chatOf, workOf>>

\* A workspace is opened, or a worktree of one.
OpenWorkspace(w) ==
  /\ w \notin ToSet(opened)
  /\ opened' = Append(opened, w)
  /\ UNCHANGED <<layoutVars, pickVars>>

\* savePersistedSelection, on every change of the selection.
Stored == [picked |-> picked, chatOf |-> chatOf]

\* loadPersistedSelection.  The lists come from the main process.
Restart ==
  /\ picked' = Stored.picked /\ chatOf' = Stored.chatOf
  /\ tabs' = <<ChatTab>> /\ active' = ChatTab /\ dirty' = {} /\ right' = "terminal"
  /\ gitOf' = {} /\ workOf' = {}
  /\ UNCHANGED opened

Next ==
  \/ ShowChat \/ CreateWork \/ PickFile \/ Restart
  \/ \E w \in Workspaces : SelectWorkspace(w) \/ OpenWorkspace(w) \/ \E c \in ToSet(ChatsOf(w)) : SelectChat(w, c)
  \/ \E w \in Files : OpenFile(w)
  \/ \E item \in BOOLEAN : ShowWork(item)
  \/ \E t \in CenterTabs : Edit(t)
  \/ \E i \in DOMAIN tabs : CloseTab(i)
  \/ \E kind \in {"terminal", "git", "files"} : ShowRight(kind)

Spec == Init /\ [][Next]_vars

-----------------------------------------------------------------------------

\* The chat is the permanent first tab, no surface has two tabs, the active tab
\* is one of the strip - else the center is empty - and a dirty mark, which
\* asks before closing, never outlives its tab.
TabStrip ==
  /\ tabs[1] = ChatTab /\ IsInjective(tabs)
  /\ active \in ToSet(tabs)
  /\ dirty \subseteq ToSet(tabs) \ {ChatTab, WorkTab}
=============================================================================
