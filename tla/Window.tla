-------------------------------- MODULE Window --------------------------------
(***************************************************************************)
(* The parts of the window.  They meet in nothing but what the main        *)
(* process pushes, which each part takes as arbitrary: a behaviour is one  *)
(* of one part, while the others stay as they begin.  Names are the parts' *)
(* own, but for those that two parts share.                                *)
(***************************************************************************)
EXTENDS Naturals, Sequences

CONSTANT Nothing \* no session, workspace, chat, file, text or target

-----------------------------------------------------------------------------
(* Panes, layout, tree and editor.                                         *)

CONSTANTS
  Sessions, Orchestrated, MaxPanes, CapBytes, MaxChunk, MaxChunks, \* ShellSessions
  Workspaces, WithFile, ChatsOf(_),                           \* ShellLayout
  ChatOrder, RepoOf(_), HomeOf(_), ChatCap, MaxClicks,        \* Sidebar
  Texts, MaxWrites                                            \* FileEditor

VARIABLES
  part, \* the part whose behaviour this is
  proc, output, listed, panes, terminal, offered, selected, shown, calls,
  openedIn, tabs, active, dirty, right, pickedIn, chatOf, gitOf, workOf,
  workspaces, bound, born, chosen, open, expanded, prefs, tucked, clicks,
  disk, changed, asked, read, shownFile, editor, text, saved, saving, orphans, mark, toolWrites,
  ever

panesVars == <<proc, output, listed, panes, terminal, offered, selected, shown, calls>>
layoutVars == <<openedIn, tabs, active, dirty, right, pickedIn, chatOf, gitOf, workOf>>
treeVars == <<workspaces, bound, born, chosen, open, expanded, prefs, tucked, clicks>>
editorVars == <<disk, changed, asked, read, shownFile, editor, text, saved, saving, orphans, mark,
  toolWrites, ever>>

Panes == INSTANCE ShellSessions WITH Nobody <- Nothing
Layout == INSTANCE ShellLayout WITH Files <- WithFile, opened <- openedIn, picked <- pickedIn
Tree == INSTANCE Sidebar WITH Chats <- ChatOrder, Nobody <- Nothing
Editor == INSTANCE FileEditor WITH
  None <- Nothing, file <- shownFile, draft <- text, writes <- toolWrites, held <- ever

-----------------------------------------------------------------------------
(* Work, composer, palette, git pane and search.                           *)

CONSTANTS
  Works, Cited, Statuses, Here, FirstWorks, MaxRemarks,       \* WorkPane
  Chats, WorkspaceOf(_), ChatOf(_), MaxLength, MaxSends, MaxLists, \* ChatPane
  Trees, Main, MaxStages,                                     \* CommandPalette
  Paths, DirOf(_), NamedAs(_), Letters, Sorts, Lines, MaxEdits, \* GitViews
  Queries, TotalOf(_), MaxDrafts                              \* SearchPanel

VARIABLES
  graph, remarks, told, graphWrites, hydration, list, lookup, listing, picked, tab, creating,
  allRevisions, edit, mutation,
  chat, chatShown, draft, caret, mention, escaping, targetOverride, sends, prompts, loadedFor,
  files, loads,
  viewed, there, opened, stage, command, items, loading, loadToken, inFlight, typed, acted,
  tree, gitListed, facts, reading, groups, from, sem, mounted, folded, edits,
  query, requestId, debounce, searches, hits, nextCursor, searching, loadingMore, failed

workVars == <<graph, remarks, told, graphWrites, hydration, list, lookup, listing, picked, tab,
  creating, allRevisions, edit, mutation>>
chatVars == <<chat, chatShown, draft, caret, mention, escaping, targetOverride, sends, prompts,
  loadedFor, files, loads>>
paletteVars == <<viewed, there, opened, stage, command, items, loading, loadToken, inFlight, typed,
  acted>>
gitVars == <<tree, gitListed, facts, reading, groups, from, sem, mounted, folded, edits>>
searchVars == <<query, requestId, debounce, searches, hits, nextCursor, searching, loadingMore,
  failed>>

Work == INSTANCE WorkPane WITH Chats <- Cited, Stored <- FirstWorks, writes <- graphWrites
Chat == INSTANCE ChatPane WITH
  Nobody <- Nothing, MaxLoads <- MaxLists, shown <- chatShown, sent <- prompts
Palette == INSTANCE CommandPalette WITH MaxLoads <- MaxStages
Git == INSTANCE GitViews WITH listed <- gitListed
Search == INSTANCE SearchPanel WITH loading <- searching

ASSUME WindowAssumption ==
  /\ Panes!SessionsAssumption /\ Layout!WorkspacesAssumption /\ Editor!TextsAssumption
  /\ Work!WorkPaneAssumption /\ Palette!CommandPaletteAssumption
  /\ Git!GitViewsAssumption /\ Search!PanelAssumption /\ Chat!ChatPaneAssumption
  /\ Tree!SidebarAssumption

-----------------------------------------------------------------------------

vars == <<part, panesVars, layoutVars, treeVars, editorVars, workVars, chatVars, paletteVars,
          gitVars, searchVars>>

Parts == {"panes", "layout", "tree", "editor", "work", "chat", "palette", "git", "search"}

Init ==
  /\ part \in Parts
  /\ Panes!Init /\ Layout!Init /\ Tree!Init /\ Editor!Init
  /\ Work!Init /\ Chat!Init /\ Palette!Init /\ Git!Init /\ Search!Init
  \* A part at rest has one initial state.
  /\ part # "editor" => disk.text = CHOOSE t \in Texts : TRUE
  /\ part # "chat" => chat = CHOOSE c \in Chats : TRUE
  /\ part # "search" => query = CHOOSE q \in Queries : TRUE

\* A step of part p: the others hold still.
Of(p, step) ==
  /\ part = p /\ step /\ UNCHANGED part
  /\ (IF p = "panes" THEN TRUE ELSE UNCHANGED panesVars)
  /\ (IF p = "layout" THEN TRUE ELSE UNCHANGED layoutVars)
  /\ (IF p = "tree" THEN TRUE ELSE UNCHANGED treeVars)
  /\ (IF p = "editor" THEN TRUE ELSE UNCHANGED editorVars)
  /\ (IF p = "work" THEN TRUE ELSE UNCHANGED workVars)
  /\ (IF p = "chat" THEN TRUE ELSE UNCHANGED chatVars)
  /\ (IF p = "palette" THEN TRUE ELSE UNCHANGED paletteVars)
  /\ (IF p = "git" THEN TRUE ELSE UNCHANGED gitVars)
  /\ (IF p = "search" THEN TRUE ELSE UNCHANGED searchVars)

Next ==
  \/ Of("panes", Panes!Next)
  \/ Of("layout", Layout!Next)
  \/ Of("tree", Tree!Next)
  \/ Of("editor", Editor!Next)
  \/ Of("work", Work!Next)
  \/ Of("chat", Chat!Next)
  \/ Of("palette", Palette!Next)
  \/ Of("git", Git!Next)
  \/ Of("search", Search!Next)

Spec == Init /\ [][Next]_vars

-----------------------------------------------------------------------------
(* The properties of the parts.                                            *)

\* No two panes show one session, the terminal region names an open pane, and a
\* bound pane shows the output of its session once, that before the bind too, but
\* for what it reports as dropped because the buffer's cap was reached.
PanesAreFaithful == Panes!PanesAreFaithful

\* The row of the chat shown can be seen in the sidebar, unless the user closed
\* a node since it was revealed, or the section of all projects at any time.
SelectedIsVisible == Tree!SelectedIsVisible

\* Whatever is opened, edited and closed, the strip of tabs is one that the user can
\* get around in, and asks before a close only for a tab that is there.
TabStrip == Layout!TabStrip

\* A tab without the unsaved mark shows a text that was on disk; a work pane that
\* waits for nothing lists the works as they are.
ShownIsCurrent == Editor!CleanWasOnDisk /\ Work!AtRestItIsCurrent

\* The composer's picker belongs to the text it was opened in, offers the files of
\* the workspace shown, and a prompt goes to a session of its chat.
ComposerIsTrue == Chat!MentionIsThere /\ Chat!FilesOfTheWorkspace /\ Chat!SentInItsChat

\* Answers that another question overtook are dropped: the palette offers targets
\* of the command it shows, and the panel hits of the draft it shows.
LateAnswersAreDropped == Palette!TargetsOfTheCommand /\ Search!HitsOfTheDraft

\* The git pane shows each change once, nests tests under what they test, and
\* what was generated after all else.
ReadInOrder == Git!ReadInOrder

-----------------------------------------------------------------------------
(* The operators and sequences of the small instance.                      *)

SmallChatsOf(w) == <<<<w, 1>>, <<w, 2>>>>
SmallChatOrder == <<1, 2, 3>>
\* The workspaces are worktrees of one repository.
SmallRepoOf(w) == "repo"
SmallHomeOf(c) ==
  IF c = Nothing THEN Nothing ELSE LET w == CHOOSE w \in Workspaces : TRUE IN
    IF c = 3 THEN CHOOSE v \in Workspaces : v # w ELSE w
SmallWorkspaceOf(c) == c
\* An agent's session is in another chat than the user's.
SmallChatOf(s) == LET c == CHOOSE c \in Chats : TRUE IN
  IF s \in Orchestrated THEN CHOOSE d \in Chats : d # c ELSE c
SmallTotalOf(q) == 3

SmallPaths == <<"src/a.ts", "src/pnpm-lock.yaml", "src/tests/a.test.ts", "zoo/tests/z.test.ts">>
SmallDirOf(f) ==
  CASE f \in {"src/a.ts", "src/pnpm-lock.yaml"} -> <<"src">>
    [] f = "src/tests/a.test.ts" -> <<"src", "tests">>
    [] f = "zoo/tests/z.test.ts" -> <<"zoo", "tests">>
SmallNamedAs(f) ==
  CASE f = "src/a.ts" -> "source"
    [] f = "src/pnpm-lock.yaml" -> "generated"
    [] f \in {"src/tests/a.test.ts", "zoo/tests/z.test.ts"} -> "test"
SmallLetters == {<<" ", "M">>}
=============================================================================
