------------------------------ MODULE ChatTitles ------------------------------
(***************************************************************************)
(* The chats and what they are called: ChatService keeps a list beside the *)
(* rows of SQLite, the user creates and renames, and after every prompt    *)
(* that was delivered the local model (LocalModelService over LM Studio)   *)
(* is asked for a title, which only a chat without one is to get.  Writes  *)
(* go to the rows first; each call waits for the database in between.      *)
(***************************************************************************)
EXTENDS FiniteSets

CONSTANTS
  Chats,
  Calls,     \* concurrent calls of the service
  Names,     \* titles the user gives
  Generated, \* titles the model comes up with
  NewChat,   \* "new chat"
  Absent     \* no chat

ChatTitlesAssumption ==
  /\ Names \cap Generated = {} /\ NewChat \notin Names \cup Generated
  /\ Absent \notin Names \cup Generated \cup {NewChat}

VARIABLES
  titles,  \* the rows: chat -> its title
  chats,   \* the list: chat -> its title
  calls,   \* call -> [at, chat, title, by]
  server,  \* LM Studio: "down", "empty" (no model is loaded) or "loaded"
  named,   \* chats the user has given a name
  crossed  \* chats two of whose titles were on their way at one time

vars == <<titles, chats, calls, server, named, crossed>>

Idle == [at |-> "idle", chat |-> Absent, title |-> Absent, by |-> "user"]

Init ==
  /\ titles = [c \in Chats |-> Absent] /\ chats = titles
  /\ calls = [k \in Calls |-> Idle]
  /\ server = "down" /\ named = {} /\ crossed = {}

Goto(k, call) == calls' = [calls EXCEPT ![k] = call]
Step(k, at) == calls' = [calls EXCEPT ![k].at = at]
\* The title of c is about to be written, or to be shown.
InFlight(c) == {k \in Calls : calls[k].chat = c /\ calls[k].at \in {"writing", "written"}}

-----------------------------------------------------------------------------
(* The user's calls.                                                       *)

\* create, of a workspace that exists: "durable-first".
Create(k, c, title) ==
  /\ calls[k].at = "idle" /\ titles[c] = Absent
  /\ \A j \in Calls : calls[j].chat # c \* an id is drawn once
  /\ Goto(k, [at |-> "inserting", chat |-> c, title |-> title, by |-> "user"])
  /\ UNCHANGED <<titles, chats, server, named, crossed>>

Insert(k) ==
  /\ calls[k].at = "inserting"
  /\ \/ titles' = [titles EXCEPT ![calls[k].chat] = calls[k].title] /\ Step(k, "inserted")
     \/ Goto(k, Idle) /\ UNCHANGED titles \* a SqlError
  /\ UNCHANGED <<chats, server, named, crossed>>

List(k) ==
  /\ calls[k].at = "inserted" /\ Goto(k, Idle)
  /\ chats' = [chats EXCEPT ![calls[k].chat] = calls[k].title]
  /\ named' = IF calls[k].title = NewChat THEN named ELSE named \cup {calls[k].chat}
  /\ UNCHANGED <<titles, server, crossed>>

\* The write of a title waits for the database's permit.
Update(k, c, title, by) ==
  /\ Goto(k, [at |-> "writing", chat |-> c, title |-> title, by |-> by])
  /\ crossed' = IF InFlight(c) = {} THEN crossed ELSE crossed \cup {c}

\* updateTitle: the list knows the chat, under another title.
Rename(k, c, title) ==
  /\ calls[k].at = "idle" /\ chats[c] \notin {Absent, title}
  /\ Update(k, c, title, "user")
  /\ UNCHANGED <<titles, chats, server, named>>

Write(k) ==
  /\ calls[k].at = "writing"
  /\ \/ titles' = [titles EXCEPT ![calls[k].chat] = calls[k].title] /\ Step(k, "written")
     \/ Goto(k, Idle) /\ UNCHANGED titles
  /\ UNCHANGED <<chats, server, named, crossed>>

Show(k) ==
  /\ calls[k].at = "written" /\ Goto(k, Idle)
  /\ chats' = [chats EXCEPT ![calls[k].chat] = IF @ = Absent THEN Absent ELSE calls[k].title]
  /\ named' = IF calls[k].by = "user" THEN named \cup {calls[k].chat} ELSE named
  /\ UNCHANGED <<titles, server, crossed>>

-----------------------------------------------------------------------------
(* The model's title.                                                      *)

\* sendPrompt, once the prompt is delivered; the sender waits for the title too.
Seed(k, c) ==
  /\ calls[k].at = "idle" /\ titles[c] # Absent
  /\ Goto(k, [Idle EXCEPT !.at = "probing", !.chat = c, !.by = "model"])
  /\ UNCHANGED <<titles, chats, server, named, crossed>>

\* chooseModel: the first one the server has.
Advertises == server = "loaded"

\* The server is asked for its models, and has to answer in time.
Probe(k) ==
  /\ calls[k].at = "probing"
  /\ IF Advertises THEN Step(k, "asking") ELSE Goto(k, Idle)
  /\ UNCHANGED <<titles, chats, server, named, crossed>>

\* No answer in time, an error, or one that holds no title.
NoTitle(k) ==
  /\ calls[k].at = "asking" /\ Goto(k, Idle)
  /\ UNCHANGED <<titles, chats, server, named, crossed>>

\* The model completes the prompt.
Completes(k) == calls[k].at = "asking" /\ Advertises

\* Slip: the title is written whatever the chat is called by now.
AnyTitle(c) == chats[c] # Absent
IsDefault(c) == chats[c] = NewChat
\* updateTitleIfDefault looks at the list as soon as the title is there.
Complete(k, title) ==
  /\ Completes(k)
  /\ IF IsDefault(calls[k].chat)
       THEN Update(k, calls[k].chat, title, "model")
       ELSE Goto(k, Idle) /\ UNCHANGED crossed
  /\ UNCHANGED <<titles, chats, server, named>>

-----------------------------------------------------------------------------

\* LM Studio is started, quit, loads a model or unloads it.
Serve(state) ==
  /\ server # state /\ server' = state
  /\ UNCHANGED <<titles, chats, calls, named, crossed>>

\* The application starts again: loadChats, or an empty list if that fails.
Boot ==
  /\ calls' = [k \in Calls |-> Idle]
  /\ \/ chats' = titles
     \/ chats' = [c \in Chats |-> Absent]
  /\ UNCHANGED <<titles, server, named, crossed>>

Next ==
  \/ \E k \in Calls :
       \/ Insert(k) \/ List(k) \/ Write(k) \/ Show(k) \/ Probe(k) \/ NoTitle(k)
       \/ \E title \in Generated : Complete(k, title)
       \/ \E c \in Chats : Seed(k, c) \/ Create(k, c, NewChat)
                           \/ \E title \in Names : Create(k, c, title) \/ Rename(k, c, title)
  \/ \E state \in {"down", "empty", "loaded"} : Serve(state)
  \/ Boot

Spec == Init /\ [][Next]_vars

-----------------------------------------------------------------------------

\* What the list shows is stored: a title that a call has just written is the only
\* one it lacks, unless two titles of a chat crossed on their way.
ListedIsStored ==
  \A c \in Chats : chats[c] # Absent /\ c \notin crossed =>
    \/ chats[c] = titles[c]
    \/ \E k \in Calls : /\ calls[k].at = "written" /\ calls[k].chat = c
                        /\ calls[k].title = titles[c]

\* updateTitleIfDefault: the model names no chat the user has named, though minutes
\* may pass between the prompt and the title.  It does when the title looks at the
\* list while the user's is on its way: that one is lost.
NamesAreKept == \A c \in named \ crossed : titles[c] \in Names
=============================================================================
