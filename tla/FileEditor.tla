----------------------------- MODULE FileEditor -----------------------------
(***************************************************************************)
(* One file open in the editor: the text on disk, which the user's tools   *)
(* and agents change as well, the read that every git status tick repeats, *)
(* the draft in the tab and its save.                                      *)
(***************************************************************************)
EXTENDS Naturals

CONSTANTS
  Texts,     \* contents the user or a tool may give the file
  MaxWrites, \* bound on the writes of other tools
  None       \* no file, no request, no text

TextsAssumption == None \notin Texts

\* What is on disk: a text that fits, one cut off at the reader's cap, a binary
\* file, or no file at all.
Kinds == {"text", "large", "binary", "missing"}

VARIABLES
  disk,         \* the file: its kind and its text
  changed,      \* the watcher has still to tell the window of a change
  asked,        \* a read is in flight
  read,         \* the file it found, or None
  file,         \* workspaceFileAtom's value: None while it loads, else the file
  editor,       \* "closed", "shut" (loading, error or binary) or "open": a text is mounted
  draft, saved, \* the text in the editor, and the one it counts as saved
  saving,       \* None, or the text of the save in flight and how far it is
  orphans,      \* the texts of saves on their way whose tab or text editor is gone
  mark,         \* App holds the tab for dirty
  writes,       \* of other tools
  held          \* every text the disk ever held

vars == <<disk, changed, asked, read, file, editor, draft, saved, saving, orphans, mark, writes, held>>
buffer == <<editor, draft, saved, mark>>
saves == <<saving, orphans>>

Dirty == draft # saved

Init ==
  /\ \E t \in Texts : disk = [kind |-> "text", text |-> t] /\ held = {t}
  /\ changed = FALSE /\ asked = FALSE /\ read = None /\ file = None
  /\ editor = "closed" /\ draft = None /\ saved = None /\ saving = None
  /\ orphans = {} /\ mark = FALSE /\ writes = 0

-----------------------------------------------------------------------------
(* The disk.                                                               *)

Store(f) == disk' = f /\ held' = held \cup {f.text} /\ changed' = TRUE

\* An agent, a checkout or another editor.
OtherWrite ==
  /\ writes < MaxWrites /\ writes' = writes + 1
  /\ \E k \in Kinds, t \in Texts : Store([kind |-> k, text |-> IF k \in {"text", "large"} THEN t ELSE None])
  /\ UNCHANGED <<asked, read, file, buffer, saves>>

\* WorkspaceFilesService.write: an existing file of any size is overwritten.
WriteFile ==
  /\ saving # None /\ saving.at = "sent" /\ UNCHANGED orphans
  /\ IF disk.kind = "missing"
       THEN saving' = [saving EXCEPT !.at = "failed"] /\ UNCHANGED <<disk, held, changed>>
       ELSE Store([kind |-> "text", text |-> saving.text]) /\ saving' = [saving EXCEPT !.at = "written"]
  /\ UNCHANGED <<asked, read, file, buffer, writes>>

WriteOrphan ==
  /\ \E t \in orphans :
       /\ orphans' = orphans \ {t}
       /\ IF disk.kind = "missing" THEN UNCHANGED <<disk, held, changed>> ELSE Store([kind |-> "text", text |-> t])
  /\ UNCHANGED <<asked, read, file, buffer, saving, writes>>

-----------------------------------------------------------------------------
(* The atom.                                                               *)

\* The tab opens, or the status signal ticks: the read is asked for anew, and
\* one in flight is given up.
Open ==
  /\ editor = "closed"
  /\ editor' = "shut" /\ asked' = TRUE
  /\ UNCHANGED <<disk, changed, read, file, draft, saved, saves, mark, writes, held>>
Tick ==
  /\ changed /\ changed' = FALSE
  /\ asked' = (editor # "closed") /\ read' = None
  /\ UNCHANGED <<disk, file, buffer, saves, writes, held>>

\* WorkspaceFilesService.read
ReadFile ==
  /\ asked /\ asked' = FALSE /\ read' = disk
  /\ UNCHANGED <<disk, changed, file, buffer, saves, writes, held>>

\* The effect on [file.path, file.text]: a fresh editing session, unless the
\* text is the one the session began with.
Mount(f) ==
  /\ editor' = "open"
  /\ IF editor = "open" /\ file.text = f.text
       THEN UNCHANGED <<draft, saved, mark>>
       ELSE draft' = f.text /\ saved' = f.text /\ mark' = FALSE

\* A save goes on without the text editor that asked for it.
LeaveSave ==
  /\ saving' = None
  /\ orphans' = IF saving # None /\ saving.at = "sent" THEN orphans \cup {saving.text} ELSE orphans

\* A body mounts or feeds the text editor; an error and a binary body unmount
\* it, and what App was told of its draft stays.
Answer ==
  /\ read # None /\ read' = None
  /\ file' = read
  /\ IF read.kind \in {"text", "large"}
       THEN Mount(read) /\ UNCHANGED saves
       ELSE editor' = "shut" /\ LeaveSave /\ UNCHANGED <<draft, saved, mark>>
  /\ UNCHANGED <<disk, changed, asked, writes, held>>

-----------------------------------------------------------------------------
(* The tab.                                                                *)

\* CodeEditor's onChange, and the dirty mark the render after it reports.
Type(t) ==
  /\ editor = "open" /\ file.kind = "text" /\ t # draft
  /\ draft' = t /\ mark' = (t # saved)
  /\ UNCHANGED <<disk, changed, asked, read, file, editor, saved, saves, writes, held>>

\* The button, or the key, which every dirty editor obeys.
Save ==
  /\ editor = "open" /\ file.kind = "text" /\ Dirty /\ saving = None
  /\ saving' = [text |-> draft, at |-> "sent"]
  /\ UNCHANGED <<disk, changed, asked, read, file, buffer, orphans, writes, held>>

\* The save's answer marks the text it sent.
SavedText == saving.text

Saved ==
  /\ saving # None /\ saving.at \in {"written", "failed"} /\ saving' = None
  /\ IF saving.at = "written"
       THEN saved' = SavedText /\ mark' = (draft # saved')
       ELSE UNCHANGED <<saved, mark>>
  /\ UNCHANGED <<disk, changed, asked, read, file, editor, draft, orphans, writes, held>>

\* closeCenterTab: a dirty tab asks first.
Close ==
  /\ editor # "closed"
  /\ editor' = "closed" /\ draft' = None /\ saved' = None /\ mark' = FALSE
  /\ asked' = FALSE /\ read' = None /\ file' = None /\ LeaveSave
  /\ UNCHANGED <<disk, changed, writes, held>>

Next ==
  \/ OtherWrite \/ WriteFile \/ WriteOrphan \/ Open \/ Tick \/ ReadFile \/ Answer \/ Save \/ Saved \/ Close
  \/ \E t \in Texts : Type(t)

Spec == Init /\ [][Next]_vars

-----------------------------------------------------------------------------

\* A tab without the unsaved mark shows a text that was on disk: whatever is
\* typed while a save or a read is on its way, closing such a tab - which asks
\* nothing - loses nothing that was never stored.
CleanWasOnDisk == editor = "open" /\ ~mark => draft \in held

\* "A path change (or an external refresh) starts a fresh editing session": the
\* refresh that the editor's own save brings about does not, so what is typed
\* after a save is not taken back by it.
OwnSaveKeepsTyping ==
  [][Answer /\ editor = "open" /\ editor' = "open" /\ Dirty /\ writes = 0 => draft' = draft]_vars
=============================================================================
