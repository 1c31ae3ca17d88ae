------------------------------- MODULE ChatPane -------------------------------
(***************************************************************************)
(* The chat pane (UnifiedChatPane.tsx): the composer with its picker of    *)
(* references (composer/) and the prompts it sends.  The pane stays mounted *)
(* from one chat to the next and is unmounted on another tab, while prompts *)
(* and file lists are in flight.                                           *)
(***************************************************************************)
EXTENDS Naturals, Sequences, SequencesExt

CONSTANTS
  Chats, WorkspaceOf(_),
  Sessions, ChatOf(_), \* the sessions in the order of the list, and the chat of each
  Nobody,              \* no session, no workspace, no chat
  MaxLength,           \* bound: characters in a draft that is typed in
  MaxSends,            \* bound: prompts sent
  MaxLoads             \* bound: file lists in flight when the chat changes

\* A chat is one of a workspace.
ChatPaneAssumption == \A c \in Chats : WorkspaceOf(c) # Nobody

At == "@"          \* REFERENCE_TRIGGER
Word == "w"        \* a character that is neither the trigger nor white space
Space == " "
NoMention == 0     \* a mention is [start of the trigger + 1 .. caret] of the draft

VARIABLES
  chat, shown,     \* the chat selected; its tab is in front, with the pane mounted
  draft, caret,    \* the text of the composer, and the characters before the caret
  mention,         \* the place of its trigger, or NoMention
  escaping,        \* the Escape key is down
  targetOverride,  \* the session picked in the composer
  sends,           \* prompts in flight [id, text, chat, to, here]: of this mount or not
  sent,            \* prompts ever sent
  loadedFor, files, \* the workspace whose files were asked for; that of the files offered
  loads            \* the workspaces whose file lists are in flight

composer == <<draft, caret, mention, escaping>>
picker == <<loadedFor, files, loads>>
world == <<chat, shown>>
vars == <<world, composer, targetOverride, sends, sent, picker>>

Init ==
  /\ chat \in Chats /\ shown = TRUE 
  /\ draft = <<>> /\ caret = 0 /\ mention = NoMention /\ escaping = FALSE
  /\ targetOverride = Nobody /\ sends = {} /\ sent = 0
  /\ loadedFor = Nobody /\ files = Nobody /\ loads = <<>>

Workspace == WorkspaceOf(chat)

-----------------------------------------------------------------------------
(* The draft and the reference picker.                                     *)

\* detectMention: back from the caret to a trigger at a word boundary, without
\* white space on the way.
detectMention(text, at) ==
  LET found == {i \in 1..at : /\ text[i] = At
                              /\ i = 1 \/ text[i - 1] = Space
                              /\ \A j \in (i + 1)..at : text[j] \notin {At, Space}}
  IN  IF found = {} THEN NoMention ELSE CHOOSE i \in found : TRUE

\* ensureFilesLoaded: the first mention in a workspace asks for its files.
EnsureFilesLoaded(m) ==
  IF m # NoMention /\ loadedFor # Workspace
    THEN /\ loadedFor' = Workspace /\ loads' = Append(loads, Workspace)
         /\ UNCHANGED files
    ELSE UNCHANGED picker

syncMention(text, at) ==
  /\ mention' = detectMention(text, at)
  /\ EnsureFilesLoaded(mention')

\* A key, or the deletion of the character before the caret.
Type(c) ==
  /\ shown /\ ~escaping /\ Len(draft) < MaxLength
  /\ draft' = InsertAt(draft, caret + 1, c) /\ caret' = caret + 1
  /\ syncMention(draft', caret')
  /\ UNCHANGED <<world, escaping, targetOverride, sends, sent>>

Backspace ==
  /\ shown /\ ~escaping /\ caret > 0
  /\ draft' = RemoveAt(draft, caret) /\ caret' = caret - 1
  /\ syncMention(draft', caret')
  /\ UNCHANGED <<world, escaping, targetOverride, sends, sent>>

\* A click, or an arrow key that is let go.
PlaceCaret(at) ==
  /\ shown /\ ~escaping /\ at # caret
  /\ caret' = at /\ syncMention(draft, at)
  /\ UNCHANGED <<world, draft, escaping, targetOverride, sends, sent>>

\* setMention(null)
Done == NoMention

\* selectCandidate: a work item or a file is spliced in for the mention; a session
\* becomes the addressee and the mention goes.
Pick(token) ==
  /\ shown /\ mention # NoMention /\ ~escaping
  /\ draft' = SubSeq(draft, 1, mention - 1) \o token \o SubSeq(draft, caret + 1, Len(draft))
  /\ caret' = mention - 1 + Len(token) /\ mention' = Done
  /\ UNCHANGED <<world, escaping, sends, sent, picker>>

PickText == Pick(<<Word, Space>>) /\ UNCHANGED targetOverride

PickSession(s) ==
  /\ ChatOf(s) = chat /\ Pick(<<>>) /\ targetOverride' = s

\* Escape is pressed, and let go: the picker closes, and the textarea takes in
\* where the caret is.
EscapeDown ==
  /\ shown /\ ~escaping /\ mention # NoMention
  /\ escaping' = TRUE /\ mention' = NoMention
  /\ UNCHANGED <<world, draft, caret, targetOverride, sends, sent, picker>>

EscapeUp ==
  /\ escaping /\ escaping' = FALSE
  /\ syncMention(draft, caret)
  /\ UNCHANGED <<world, draft, caret, targetOverride, sends, sent>>

\* Slip: an answer counts whatever the workspace is by now.
AnyAnswer(w) == TRUE
\* The workspace is still the one that was asked about.
Awaited(w) == loadedFor = w

\* The files of a workspace arrive, or do not.
Loaded(i) ==
  /\ loads' = RemoveAt(loads, i) /\ UNCHANGED loadedFor
  /\ files' = IF Awaited(loads[i]) THEN loads[i] ELSE files
  /\ UNCHANGED <<world, composer, targetOverride, sends, sent>>

LoadFails(i) ==
  /\ loads' = RemoveAt(loads, i) /\ UNCHANGED files
  /\ loadedFor' = IF Awaited(loads[i]) THEN Nobody ELSE loadedFor
  /\ UNCHANGED <<world, composer, targetOverride, sends, sent>>

-----------------------------------------------------------------------------
(* Prompts.                                                                *)

\* addressableTarget: the target in focus if it is attached and of the chat, or
\* the first attached one.
addressableTarget(c, attached, active) ==
  LET inChat == {s \in attached : ChatOf(s) = c}
  IN  IF active \in inChat THEN {active} ELSE inChat

\* The session picked in the composer while it is in the chat, attached or not.
Addressee(attached, active) ==
  IF targetOverride # Nobody /\ ChatOf(targetOverride) = chat
    THEN {targetOverride} ELSE addressableTarget(chat, attached, active)

\* sendPrompt, on a draft that is not blank and with the picker closed; which
\* sessions are attached and which has the focus is the main process's and the
\* shell's to say.
SendPrompt(s) ==
  /\ shown /\ mention = NoMention /\ ~escaping /\ sent < MaxSends
  /\ \E i \in DOMAIN draft : draft[i] # Space
  /\ \E attached \in SUBSET Sessions, active \in Sessions : s \in Addressee(attached, active)
  /\ sends' = sends \union {[id |-> sent + 1, text |-> draft, chat |-> chat, to |-> s, here |-> TRUE]}
  /\ sent' = sent + 1 /\ draft' = <<>> /\ caret' = 0
  /\ UNCHANGED <<world, mention, escaping, targetOverride, picker>>

\* The turn is over (RpcSessionManager) or the prompt is pasted.
Answered(r) ==
  /\ r \in sends /\ sends' = sends \ {r}
  /\ UNCHANGED <<world, composer, targetOverride, sent, picker>>

\* It failed: the prompt goes back into an empty composer of the mount it came from.
SendFails(r) ==
  /\ r \in sends /\ sends' = sends \ {r}
  /\ IF r.here /\ draft = <<>> THEN draft' = r.text /\ caret' = Len(r.text) ELSE UNCHANGED <<draft, caret>>
  /\ UNCHANGED <<world, mention, escaping, targetOverride, sent, picker>>

-----------------------------------------------------------------------------

\* Another chat is selected: the effects on its id and its workspace run.
SelectChat(c) ==
  /\ Len(loads) < MaxLoads
  /\ c # chat /\ chat' = c /\ targetOverride' = Nobody
  /\ IF shown /\ loadedFor # WorkspaceOf(c)
       THEN loadedFor' = Nobody /\ files' = Nobody ELSE UNCHANGED <<loadedFor, files>>
  /\ UNCHANGED <<shown, composer, sends, sent, loads>>

\* Another tab comes to the front: the state of the pane is gone, and what is in
\* flight has nowhere to return to.
Unmount ==
  /\ shown /\ shown' = FALSE
  /\ draft' = <<>> /\ caret' = 0 /\ mention' = NoMention /\ escaping' = FALSE
  /\ targetOverride' = Nobody /\ loadedFor' = Nobody /\ files' = Nobody
  /\ sends' = {[r EXCEPT !.here = FALSE] : r \in sends}
  /\ loads' = <<>> \* nobody is there for them
  /\ UNCHANGED <<chat, sent>>

Mount ==
  /\ ~shown /\ shown' = TRUE
  /\ UNCHANGED <<chat, composer, targetOverride, sends, sent, picker>>

Next ==
  \/ \E c \in {At, Word, Space} : Type(c)
  \/ Backspace \/ PickText \/ EscapeDown \/ EscapeUp
  \/ \E at \in 0..Len(draft) : PlaceCaret(at)
  \/ \E i \in DOMAIN loads : Loaded(i) \/ LoadFails(i)
  \/ \E s \in Sessions : PickSession(s) \/ SendPrompt(s)
  \/ \E r \in sends : Answered(r) \/ SendFails(r)
  \/ \E c \in Chats : SelectChat(c)
  \/ Unmount \/ Mount

Spec == Init /\ [][Next]_vars

-----------------------------------------------------------------------------

\* An open picker belongs to the text: its trigger is where it was seen, so that a
\* pick replaces the mention and nothing else, whatever was typed, restored or
\* picked in between.
MentionIsThere ==
  mention # NoMention => mention <= caret /\ caret <= Len(draft) /\ draft[mention] = At

\* The files offered are those of the chat's workspace, however late an answer
\* about another one is (useReferenceTargets.ts:56: "must not populate the picker
\* with another repo's paths").
FilesOfTheWorkspace == files # Nobody => files = Workspace

\* A prompt goes to a session of the chat it was sent from.
SentInItsChat == \A r \in sends : ChatOf(r.to) = r.chat

\* UnifiedChatPane.tsx:210: "Restore the prompt so it isn't lost".  A turn of a
\* resident agent runs for as long as its answer takes, and the pane that would
\* take the prompt back has been unmounted since.
PromptIsKept == [][\A r \in sends : SendFails(r) => draft' # <<>>]_vars

\* ChatComposer.tsx:196: "Escape closes the picker in one press and leaves the
\* draft untouched".  The press closes it; letting go of the key reads the caret,
\* finds the mention again and opens it.
EscapeCloses == [][escaping /\ ~escaping' => mention' = NoMention]_vars
=============================================================================
