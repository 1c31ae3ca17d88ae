---------------------------- MODULE CommandPalette ----------------------------
(***************************************************************************)
(* The command palette (shell/CommandPalette.tsx, paletteCommands.ts): a   *)
(* list of commands, and for some of them a second stage - a list of       *)
(* targets, there at once or loaded, or a text to enter.  A command is an  *)
(* object made at a render: what it closes over, the workspace among it,   *)
(* stays as it was then.  The global shortcuts (keybindings.ts) go on      *)
(* working over the open palette.                                          *)
(***************************************************************************)
EXTENDS Naturals, Sequences, FiniteSets

CONSTANTS
  Trees,    \* worktrees; each has a workspace and sessions
  Main,     \* the main one
  MaxLoads, \* bound on the second stages of one opening
  Nothing   \* no command, no target

CommandPaletteAssumption == Main \in Trees /\ Nothing \notin Trees

Ids == {"newChatInWorkspace", "newWorktree", "openWorktree", "removeWorktree", "createChat"}
Parameterized == {"newChatInWorkspace", "openWorktree", "removeWorktree"}
Loading == {"openWorktree", "removeWorktree"}
Prompts == {"newWorktree"}

VARIABLES
  viewed,     \* the tree of the workspace selected in the window
  there,      \* trees that exist
  opened,     \* the palette is open
  stage,      \* "commands", "choices" or "prompt"
  command,    \* the stage's command, with the workspace it closes over
  items,      \* the targets offered, and the command they were found for
  loading,
  loadToken,
  inFlight,   \* loads asked for
  typed,      \* the query is not empty
  acted       \* the last deed: what, on which tree, and the tree viewed then

worldVars == <<viewed, there>>
palette == <<opened, stage, command, items, loading, loadToken, typed>>
vars == <<worldVars, palette, inFlight, acted>>

NoCommand == [id |-> Nothing, workspace |-> Nothing]
NoItems == [of |-> {}, for |-> NoCommand]
NoDeed == [did |-> Nothing, tree |-> Nothing, viewed |-> Nothing]

Init ==
  /\ viewed = Main /\ there = Trees
  /\ opened = FALSE /\ stage = "commands" /\ command = NoCommand /\ items = NoItems
  /\ loading = FALSE /\ loadToken = 0 /\ inFlight = {} /\ typed = FALSE
  /\ acted = NoDeed

\* A command as the render of now makes it.
Made(id) == [id |-> id, workspace |-> viewed]

\* openCommandPalette: the component is mounted anew.
Open ==
  /\ ~opened /\ opened' = TRUE
  /\ stage' = "commands" /\ command' = NoCommand /\ items' = NoItems
  /\ loading' = FALSE /\ typed' = FALSE
  \* The answers of an earlier mount set the state of nothing.
  /\ loadToken' = 0 /\ inFlight' = {}
  /\ UNCHANGED <<worldVars, acted>>

Stage(s, c) == stage' = s /\ command' = c /\ typed' = FALSE

\* Escape, or Backspace in an empty query: back to the commands.
toCommands ==
  /\ opened /\ stage # "commands" /\ Stage("commands", NoCommand)
  /\ items' = NoItems /\ loading' = FALSE /\ loadToken' = loadToken + 1
  /\ UNCHANGED <<worldVars, opened, inFlight, acted>>

EscapeCloses ==
  /\ opened /\ stage = "commands" /\ opened' = FALSE
  /\ UNCHANGED <<worldVars, stage, command, items, loading, loadToken, typed, inFlight, acted>>

enterChoices(id) ==
  LET c == Made(id) IN
  /\ opened /\ stage = "commands" /\ id \in Parameterized /\ loadToken < MaxLoads
  /\ Stage("choices", c) /\ loadToken' = loadToken + 1
  /\ IF id \in Loading
     THEN /\ items' = NoItems /\ loading' = TRUE
          /\ inFlight' = inFlight \cup {[token |-> loadToken', for |-> c]}
     ELSE items' = [of |-> there, for |-> c] /\ UNCHANGED <<loading, inFlight>>
  /\ UNCHANGED <<worldVars, opened, acted>>

\* What a load finds: for a removal neither the main tree nor the one that its
\* workspace is in.
Found(c) == IF c.id = "removeWorktree" THEN there \ {Main, c.workspace} ELSE there

AnyLoad(l) == TRUE
Awaited(l) == loadToken = l.token
Loaded(l) ==
  /\ opened /\ l \in inFlight /\ inFlight' = inFlight \ {l}
  /\ IF Awaited(l)
     THEN items' = [of |-> Found(l.for), for |-> l.for] /\ loading' = FALSE
     ELSE UNCHANGED <<items, loading>>
  /\ UNCHANGED <<worldVars, opened, stage, command, loadToken, typed, acted>>
LoadFails(l) ==
  /\ opened /\ l \in inFlight /\ inFlight' = inFlight \ {l}
  /\ IF Awaited(l) THEN items' = NoItems /\ loading' = FALSE ELSE UNCHANGED <<items, loading>>
  /\ UNCHANGED <<worldVars, opened, stage, command, loadToken, typed, acted>>

Type ==
  /\ opened /\ ~typed /\ typed' = TRUE
  /\ UNCHANGED <<worldVars, opened, stage, command, items, loading, loadToken, inFlight, acted>>

Deed(what, t) ==
  /\ acted' = [did |-> what, tree |-> t, viewed |-> viewed]
  /\ opened' = FALSE
  /\ UNCHANGED <<stage, command, items, loading, loadToken, typed, inFlight>>

\* A leaf runs; a prompt asks for its text; the rest have targets to pick from.
Pick(id) ==
  /\ opened /\ stage = "commands"
  /\ IF id \in Prompts
     THEN loadToken < MaxLoads /\ Stage("prompt", Made(id)) /\ UNCHANGED <<worldVars, opened, items, loading, loadToken, inFlight, acted>>
     ELSE id \notin Parameterized /\ Deed(id, viewed) /\ UNCHANGED worldVars

\* The tree is opened as a workspace, with a chat there, or it is removed.
PickChoice(t) ==
  /\ opened /\ stage = "choices" /\ ~loading /\ t \in items.of
  /\ Deed(command.id, t)
  /\ IF command.id = "removeWorktree"
     THEN there' = there \ {t} /\ UNCHANGED viewed
     ELSE viewed' = (IF t \in there THEN t ELSE viewed) /\ UNCHANGED there

\* The branch's tree is made, opened and shown; an empty text does nothing.
submitPrompt(t) ==
  /\ opened /\ stage = "prompt" /\ typed /\ t \notin there
  /\ Deed(command.id, t)
  /\ there' = there \cup {t} /\ viewed' = t

\* A shortcut over the palette: the next session that waits, in its workspace.
Shortcut(t) ==
  /\ t \in there \ {viewed} /\ viewed' = t
  /\ UNCHANGED <<there, palette, inFlight, acted>>

Next ==
  \/ Open \/ toCommands \/ EscapeCloses \/ Type
  \/ \E id \in Ids : enterChoices(id) \/ Pick(id)
  \/ \E l \in inFlight : Loaded(l) \/ LoadFails(l)
  \/ \E t \in Trees : PickChoice(t) \/ submitPrompt(t) \/ Shortcut(t)

Spec == Init /\ [][Next]_vars

-----------------------------------------------------------------------------
(* Properties.                                                             *)

\* The targets offered were found for the command they are offered for, however
\* late the load of a command the user backed out of answers: a tree picked to
\* be opened is not removed (CommandPalette.tsx:41).
TargetsOfTheCommand == (opened /\ items.of # {}) => (stage = "choices" /\ items.for = command)

\* The tree of the workspace in the window is not removed from under its session
\* (paletteCommands.ts:67).  A shortcut that shows another workspace, pressed
\* over the list of what can be removed, brings this about.
ViewedIsNotRemoved == acted.did = "removeWorktree" => acted.tree # acted.viewed
=============================================================================
