--------------------------- MODULE ShellSessions ---------------------------
(***************************************************************************)
(* The terminal panes of the window: the pane half of arcShellMachine, the *)
(* terminal registry under it and the buffer that keeps a child's first    *)
(* output, up to its cap, until its pane knows which session it shows,     *)
(* beside the sessions                                                     *)
(* of the main process, which the window knows by pushed lists, by exit    *)
(* events and by the answers of its own calls.                             *)
(***************************************************************************)
EXTENDS Naturals, FiniteSets, SequencesExt

CONSTANTS
  Sessions,     \* target sessions with a terminal
  Orchestrated, \* those that an agent launches, through no pane
  MaxPanes,     \* bound on the panes open at once
  CapBytes,     \* PER_SESSION_CAP_BYTES
  MaxChunk,     \* bound on the bytes of one data event
  MaxChunks,    \* bound on the data events of all sessions
  Nobody        \* no session, no pane

SessionsAssumption ==
  /\ Orchestrated \subseteq Sessions /\ Nobody \notin Sessions
  /\ {MaxPanes, CapBytes, MaxChunk} \subseteq Nat

PaneIds == 1..(MaxPanes + 1)

VARIABLES
  proc,     \* session -> "none", "running" or "detached", in the main process
  output,   \* session -> how many chunks its child has written
  listed,   \* session -> its state in the last list pushed to the window
  panes,    \* the panes, oldest first
  terminal, \* selection.terminalPaneId
  offered,  \* detachedSessionId: the session the resume prompt is for
  selected, \* selection.sessionId
  shown,    \* the right region shows the terminal
  calls     \* launches and resumes whose answer is still to come

mainVars == <<proc, output>>
windowVars == <<listed, panes, terminal, offered, selected, shown>>
vars == <<mainVars, windowVars, calls>>

\* Captured: the chunks kept, their bytes, and the chunks dropped, with theirs.
NothingYet == [chunks |-> <<>>, bytes |-> 0, lost |-> {}, lostBytes |-> 0]

\* A pane: the session it is bound to, whether it resumes that session, and
\* its registry entry: still to be measured, the output captured before the
\* bind per session, whether that was flushed, what the flush reported, and
\* what the screen received.
NewPane(id, s, resume) ==
  [id |-> id, session |-> s, resume |-> resume, unmeasured |-> resume \/ s = Nobody,
   captured |-> [x \in Sessions |-> NothingYet], flushed |-> s # Nobody, report |-> NothingYet,
   screen |-> <<>>, since |-> output]

OpenIds == {panes[i].id : i \in DOMAIN panes} \cup {c.pane : c \in calls}
FreshId == CHOOSE id \in PaneIds : id \notin OpenIds /\ \A j \in PaneIds \ OpenIds : id <= j
Room == Len(panes) < MaxPanes /\ \E id \in PaneIds : id \notin OpenIds
\* Bound: one launch or resume at a time is in flight.
Quiet == calls = {}
\* The places of the panes that show a session, and the first of some places.
PanesOf(s) == {i \in DOMAIN panes : panes[i].session = s}
First(places) == CHOOSE i \in places : \A j \in places : i <= j
Without(places) == IF places = {} THEN panes ELSE RemoveAt(panes, First(places))
\* A pane owns the session here, even while its process is being respawned.
Bound(s) == PanesOf(s) # {}

\* deriveShellViewModel: the detached session the terminal region offers to
\* resume, over parked terminals.
Overlay ==
  CASE offered # Nobody /\ ~Bound(offered) /\ listed[offered] = "detached" -> offered
    [] selected # Nobody /\ ~Bound(selected) /\ listed[selected] = "detached" -> selected
    [] OTHER -> Nobody

ShellInit ==
  /\ selected = Nobody /\ offered = Nobody /\ terminal = Nobody
  /\ panes = <<>> /\ shown = TRUE

Init ==
  /\ proc = [s \in Sessions |-> "none"]
  /\ output = [s \in Sessions |-> 0]
  /\ listed = proc
  /\ calls = {}
  /\ ShellInit

-----------------------------------------------------------------------------
(* Gestures.  Each selects the chat of the session, which drops the tree's *)
(* pick.                                                                   *)

\* TARGET_LAUNCH_REQUESTED: a pane before there is a session.
Launch ==
  /\ Room /\ Quiet
  /\ panes' = Append(panes, NewPane(FreshId, Nobody, FALSE))
  /\ terminal' = FreshId /\ shown' = TRUE
  /\ offered' = Nobody /\ selected' = Nobody
  /\ UNCHANGED <<mainVars, listed, calls>>

\* attachSessionPane: the pane that shows the session, or a new one.
AttachPane(s, resume) ==
  /\ IF Bound(s)
       THEN terminal' = panes[First(PanesOf(s))].id /\ UNCHANGED panes
       ELSE /\ Room /\ (resume => Quiet)
            /\ panes' = Append(panes, NewPane(FreshId, s, resume))
            /\ terminal' = FreshId
  /\ offered' = Nobody

\* SESSION_FOCUSED from the chat or a shortcut, or from the sidebar, which then
\* selects the session as well.
Focus(s) ==
  /\ listed[s] # "none"
  /\ \/ /\ listed[s] = "detached"
        /\ offered' = s /\ selected' = s
        /\ UNCHANGED <<panes, terminal>>
     \/ /\ listed[s] = "running"
        /\ AttachPane(s, FALSE) /\ selected' \in {Nobody, s}
  /\ shown' = TRUE
  /\ UNCHANGED <<mainVars, listed, calls>>

\* DETACHED_RESUME_REQUESTED, from the overlay or the session's row.
Resume(s) ==
  /\ listed[s] = "detached"
  /\ AttachPane(s, TRUE)
  /\ shown' = TRUE /\ selected' = Nobody
  /\ UNCHANGED <<mainVars, listed, calls>>

\* The right region turns to git, files or work, and back.
ShowAnother == shown' = ~shown /\ UNCHANGED <<mainVars, listed, panes, terminal, offered, selected, calls>>

\* unadoptedSessions: an agent's, live, and shown by no pane.
Unadopted(s) == s \in Orchestrated /\ listed[s] = "running" /\ ~Bound(s)
\* TARGET_ADOPTED for each of them, with every list.
Adopt(s) ==
  /\ Unadopted(s) /\ Room
  /\ panes' = Append(panes, NewPane(FreshId, s, FALSE))
  /\ terminal' = IF panes = <<>> THEN FreshId ELSE terminal
  /\ UNCHANGED <<mainVars, listed, offered, selected, shown, calls>>

-----------------------------------------------------------------------------
(* The terminal registry.                                                  *)

\* onMeasured: a pane that is bound, and resumes nothing, asks for nothing.
Asks(p) == p.session = Nobody \/ p.resume

\* attachEntry: the visible pane is put in the slot; its first show reports
\* its size, and that fires the launch or the resume it stands for.
Measure(i) ==
  LET p == panes[i] IN
  /\ shown /\ Overlay = Nobody /\ terminal = p.id /\ p.unmeasured
  /\ panes' = [panes EXCEPT ![i].unmeasured = FALSE]
  /\ calls' = IF Asks(p)
                THEN calls \cup {[pane |-> p.id, session |-> p.session, answer |-> "none"]}
                ELSE calls
  /\ UNCHANGED <<mainVars, listed, terminal, offered, selected, shown>>

\* Slip: the captured output is not replayed.
BindLive(p, s) == [p EXCEPT !.session = s, !.resume = FALSE, !.flushed = TRUE]
\* The binding opens the live gate once, with what was captured for s.
BindTo(p, s) ==
  [p EXCEPT !.session = s, !.resume = FALSE, !.flushed = TRUE,
            !.captured = [x \in Sessions |-> NothingYet],
            !.report = IF p.flushed THEN @ ELSE p.captured[s],
            !.screen = IF p.flushed THEN @ ELSE p.captured[s].chunks]

\* capture: a chunk of n bytes that the cap has no room for is dropped and
\* counted; a smaller one after it may still fit.
Capture(had, b, n) ==
  IF had.bytes + n > CapBytes
    THEN [had EXCEPT !.lost = @ \cup {b}, !.lostBytes = @ + n]
    ELSE [had EXCEPT !.chunks = Append(@, b), !.bytes = @ + n]

\* Chunk b of n bytes reaches every entry: captured before the flush, rendered
\* after it.
Receive(p, s, b, n) ==
  IF ~p.flushed THEN [p EXCEPT !.captured[s] = Capture(@, b, n)]
  ELSE IF p.session = s THEN [p EXCEPT !.screen = Append(@, b)] ELSE p

\* TARGET_BOUND, the call's answer: a pane that another one already doubles is
\* dropped in its favour.
Bind(c) ==
  LET s == c.session
      own == {i \in DOMAIN panes : panes[i].id = c.pane}
      twins == PanesOf(s) \ own IN
  /\ c.answer = "ok" /\ calls' = calls \ {c}
  /\ IF twins # {}
       THEN /\ panes' = Without(own)
            /\ terminal' = panes[First(twins)].id
       ELSE /\ panes' = [i \in DOMAIN panes |-> IF panes[i].id = c.pane THEN BindTo(panes[i], s) ELSE panes[i]]
            /\ UNCHANGED terminal
  /\ UNCHANGED <<mainVars, listed, offered, selected, shown>>

\* A failed call leaves its pane as it is.
BindFails(c) ==
  /\ c.answer = "none" /\ calls' = calls \ {c}
  /\ UNCHANGED <<mainVars, windowVars>>

-----------------------------------------------------------------------------
(* The main process.                                                       *)

\* LaunchTarget, ResumeTarget: a session runs.
Serve(c) ==
  /\ c.answer = "none"
  /\ \E s \in Sessions :
       /\ IF c.session = Nobody THEN proc[s] = "none" /\ s \notin Orchestrated ELSE s = c.session
       /\ proc' = [proc EXCEPT ![s] = "running"]
       /\ calls' = (calls \ {c}) \cup {[c EXCEPT !.session = s, !.answer = "ok"]}
  /\ UNCHANGED <<output, windowVars>>

\* arc.agent.spawn: a session without a pane.
Spawn(s) ==
  /\ s \in Orchestrated /\ proc[s] = "none"
  /\ proc' = [proc EXCEPT ![s] = "running"]
  /\ UNCHANGED <<output, windowVars, calls>>

\* arc:sessions, pushed after the fact.
PushList ==
  /\ listed # proc /\ listed' = proc
  /\ UNCHANGED <<mainVars, panes, terminal, offered, selected, shown, calls>>

\* pty-data reaches every open pane at once.
Write(s) ==
  /\ proc[s] = "running" /\ MapThenSumSet(LAMBDA x : output[x], Sessions) < MaxChunks
  /\ output' = [output EXCEPT ![s] = @ + 1]
  /\ \E n \in 1..MaxChunk :
       panes' = [i \in DOMAIN panes |-> Receive(panes[i], s, output'[s], n)]
  /\ UNCHANGED <<proc, listed, terminal, offered, selected, shown, calls>>

\* closePaneForSession: the newest pane takes the place of the one closed.
Closing(s) ==
  LET closing == PanesOf(s)
      rest == Without(closing) IN
  /\ panes' = rest
  /\ terminal' = IF closing # {} /\ terminal = panes[First(closing)].id
                    THEN IF rest = <<>> THEN Nobody ELSE Last(rest).id
                    ELSE terminal

\* PTY_EXITED: the exit event closes the session's pane, ahead of the list.
Exit(s) ==
  /\ proc[s] = "running"
  /\ proc' = [proc EXCEPT ![s] = "detached"]
  /\ Closing(s)
  /\ offered' = IF offered = s THEN Nobody ELSE offered
  /\ UNCHANGED <<output, listed, selected, shown, calls>>

\* A reload of the window forgets its panes, and nobody reads the answers.
Reload ==
  /\ panes' = <<>> /\ terminal' = Nobody /\ offered' = Nobody /\ selected' = Nobody
  /\ shown' = TRUE /\ calls' = {} /\ listed' = proc
  /\ UNCHANGED mainVars

Next ==
  \/ Launch \/ ShowAnother \/ PushList \/ Reload
  \/ \E s \in Sessions : Focus(s) \/ Resume(s) \/ Adopt(s) \/ Spawn(s) \/ Write(s) \/ Exit(s)
  \/ \E i \in DOMAIN panes : Measure(i)
  \/ \E c \in calls : Serve(c) \/ Bind(c) \/ BindFails(c)

Spec == Init /\ [][Next]_vars

-----------------------------------------------------------------------------

TypeOK ==
  /\ \A s \in Sessions : {proc[s], listed[s]} \subseteq {"none", "running", "detached"}
  /\ terminal \in PaneIds \cup {Nobody}
  /\ {offered, selected} \subseteq Sessions \cup {Nobody}
  /\ \A c \in calls : c.answer \in {"none", "ok"} /\ c.session \in Sessions \cup {Nobody}

\* However launches, resumes, focus, adoption, exits and late answers of calls
\* cross, no two panes show one session, and the terminal region, whenever
\* there is a pane at all to show, names an open one.
OnePanePerSession ==
  /\ \A i, j \in DOMAIN panes : i # j /\ panes[i].session # Nobody => panes[i].session # panes[j].session
  /\ \A i, j \in DOMAIN panes : i # j => panes[i].id # panes[j].id
  /\ terminal # Nobody => \E i \in DOMAIN panes : panes[i].id = terminal

\* Exactly once (ptyReplayBuffer): a bound pane shows, in order and once each,
\* the chunks its session wrote since the pane was opened, those before the bind
\* included, but for those it reported as dropped; and it dropped some only when
\* what this session alone wrote before the bind was more than the cap.
ReplayedOnce ==
  \A i \in DOMAIN panes : LET p == panes[i] IN
    p.flushed =>
      /\ \A j, k \in DOMAIN p.screen : j < k => p.screen[j] < p.screen[k]
      /\ {p.screen[k] : k \in DOMAIN p.screen}
           = ((p.since[p.session] + 1)..output[p.session]) \ p.report.lost
      /\ p.report.lost # {} => p.report.bytes + p.report.lostBytes > CapBytes

\* Before the bind no entry keeps more than the cap of any one session.
WithinTheCap ==
  \A i \in DOMAIN panes, s \in Sessions : panes[i].captured[s].bytes <= CapBytes

\* All of them: a pane is what the main process takes it for.
PanesAreFaithful == OnePanePerSession /\ ReplayedOnce /\ WithinTheCap

\* The resume prompt never parks the pane whose first show fires the resume:
\* once that pane is the visible terminal, only the prompt of another session
\* can be in front of it.
ResumeFires ==
  \A i \in DOMAIN panes :
    panes[i].session # Nobody /\ panes[i].unmeasured /\ terminal = panes[i].id
      => Overlay # panes[i].session
=============================================================================
