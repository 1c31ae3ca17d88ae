------------------------------ MODULE HookSignals ------------------------------
(***************************************************************************)
(* From a hook of an agent's CLI to the rows of the store: the helper that *)
(* every provider's hook config invokes (hooks/arc-hook-signal), its line  *)
(* as a signal (hooks/signals.ts, canonical.ts, agent-event.ts), and the   *)
(* trace, the activity and the binding that come of it.  A helper has the  *)
(* tags of the terminal it descends from, so that an agent that runs       *)
(* another CLI signals under them; and Cursor invokes Claude's hooks too.  *)
(***************************************************************************)
EXTENDS Naturals, Sequences, FiniteSets

CONSTANTS
  Targets, CliOf(_), \* target sessions, and the CLI each was launched with
  Bodies,            \* what else a payload holds: a prompt, a last message
  None,              \* no native session
  MaxFired           \* bound: hooks fired

Clis == {"claude", "codex", "cursor"}
\* canonicalEvent of the native names; a tool's is that of a patch to one file.
Events == {"session_start", "turn_start", "turn_end", "tool_post"}

VARIABLES
  fired,    \* hooks fired so far
  lines,    \* helpers that have still to write: the records they will send
  signals,  \* signals emitted and not yet taken by ArcMainController's stream
  handling, \* the signal being handled and what is left: [signal, todo]
  traced,   \* rows of raw_hook_signals: [key, by]
  activity, \* rows of activity_events: [key, type, by]
  bindings, \* binding events not yet taken
  native,   \* target -> the native session it is bound to
  handled   \* the hooks whose signals were handled without an error of the store

rows == <<traced, activity>>
vars == <<fired, lines, signals, handling, rows, bindings, native, handled>>

Nothing == [signal |-> None, todo |-> <<>>]

Init ==
  /\ fired = 0 /\ lines = {} /\ signals = <<>> /\ handling = Nothing
  /\ traced = {} /\ activity = {} /\ bindings = <<>>
  /\ native = [t \in Targets |-> None] /\ handled = {}

-----------------------------------------------------------------------------
(* A line as a signal.                                                     *)

\* The payload a CLI writes: where its transcript is, what shape it has, and the
\* bytes of which hookInputSha256 is the digest.  Codex mirrors Claude's fields.
Payload(cli, path, session, event, body) ==
  [cli |-> cli, transcript |-> IF path THEN cli ELSE "none",
   cursor_version |-> cli = "cursor", permission_mode |-> cli \in {"claude", "codex"},
   model |-> cli = "codex", session |-> session, event |-> event, body |-> body]

\* The record that the helper writes: the payload, under the name of the config
\* that invoked it and with the tags of its terminal.
Line(by, t, declared, input) == [by |-> by, target |-> t, declared |-> declared, input |-> input]

\* Slip: the config that invoked the helper says whose payload it is.
DeclaredWins(declared, input) == declared

\* The transcript's path first, then the fields, and the argv last.
resolveProvider(declared, input) ==
  IF input.transcript # "none" THEN input.transcript
  ELSE IF input.cursor_version THEN "cursor"
  ELSE IF input.permission_mode THEN "claude"
  ELSE IF input.model THEN "codex"
  ELSE declared

toSignal(line) ==
  [by |-> line.by, target |-> line.target, declared |-> line.declared, input |-> line.input,
   provider |-> resolveProvider(line.declared, line.input)]

\* toBinding: a payload of another CLI than the target's does not bind it.
Binds(signal) == signal.provider = CliOf(signal.target)

\* A payload of Cursor's that came through Claude's config.
Secondary(signal) == signal.provider = "cursor" /\ signal.declared = "claude"

\* hookSignalToAgentEvents: the start of a session also tells the model, if known;
\* of the tools only codex's patches count, the others' come with their transcripts.
AgentEvents(signal) ==
  CASE signal.input.event = "session_start" /\ signal.input.model -> <<"session_start", "model_update">>
    [] signal.input.event = "tool_post" -> IF signal.provider = "codex" THEN <<"tool_use">> ELSE <<>>
    [] OTHER -> <<signal.input.event>>

\* agentEventToActivityDrafts: one for the event, and one for a file it patched.
Drafts(signal) ==
  CASE Secondary(signal) -> <<>>
    [] AgentEvents(signal) = <<"tool_use">> -> <<"tool_use", "file.observed">>
    [] OTHER -> AgentEvents(signal)

\* agentEventDedupKey and the unique index of the trace
ActivityKey(signal, type) == [provider |-> signal.provider, type |-> type, input |-> signal.input]
TraceKey(signal) == [target |-> signal.target, input |-> signal.input, declared |-> signal.declared]

-----------------------------------------------------------------------------

\* A hook fires in a terminal, of its own CLI or of one that an agent runs there:
\* one helper for each config that invokes it.
Fire(t, cli, path, event, body) ==
  /\ fired < MaxFired /\ fired' = fired + 1
  /\ cli = "codex" => path
  /\ LET input == Payload(cli, path, <<t, cli>>, event, body)
         configs == IF cli = "cursor" THEN {"cursor", "claude"} ELSE {cli}
     IN  lines' = lines \cup {Line(fired', t, c, input) : c \in configs}
  /\ UNCHANGED <<signals, handling, rows, bindings, native, handled>>

\* The line arrives, in any order of the helpers.
Arrive(line) ==
  /\ line \in lines /\ lines' = lines \ {line}
  /\ signals' = Append(signals, toSignal(line))
  /\ bindings' = IF Binds(toSignal(line)) THEN Append(bindings, toSignal(line)) ELSE bindings
  /\ UNCHANGED <<fired, handling, traced, activity, native, handled>>

\* The socket is not there: the helper exits.
Missed(line) ==
  /\ line \in lines /\ lines' = lines \ {line}
  /\ UNCHANGED <<fired, signals, handling, rows, bindings, native, handled>>

\* bindNative
Bind ==
  /\ bindings # <<>> /\ bindings' = Tail(bindings)
  /\ native' = [native EXCEPT ![Head(bindings).target] = Head(bindings).input.session]
  /\ UNCHANGED <<fired, lines, signals, handling, traced, activity, handled>>

\* RawHookSignalService.ingestSignal, with which the handling of a signal begins.
Trace ==
  /\ handling = Nothing /\ signals # <<>>
  /\ LET signal == Head(signals)
     IN  /\ handling' = [signal |-> signal, todo |-> Drafts(signal)]
         /\ traced' = IF \E r \in traced : r.key = TraceKey(signal) THEN traced
                      ELSE traced \cup {[key |-> TraceKey(signal), by |-> signal.by]}
         /\ handled' = handled \cup {signal.by}
  /\ signals' = Tail(signals)
  /\ UNCHANGED <<fired, lines, activity, bindings, native>>

\* The store fails: the trace has no row, and the handling goes on.
TraceFails ==
  /\ handling = Nothing /\ signals # <<>>
  /\ handling' = [signal |-> Head(signals), todo |-> Drafts(Head(signals))]
  /\ signals' = Tail(signals)
  /\ UNCHANGED <<fired, lines, rows, bindings, native, handled>>

\* ActivityEventService.persistDraft: a draft whose key is there is left out.
Persist ==
  /\ handling # Nothing /\ handling.todo # <<>>
  /\ LET signal == handling.signal
         type == Head(handling.todo)
     IN  activity' = IF \E r \in activity : r.key = ActivityKey(signal, type) THEN activity
                     ELSE activity \cup {[key |-> ActivityKey(signal, type), type |-> type, by |-> signal.by]}
  /\ handling' = [handling EXCEPT !.todo = Tail(@)]
  /\ UNCHANGED <<fired, lines, signals, traced, bindings, native, handled>>

PersistFails ==
  /\ handling # Nothing /\ handling.todo # <<>>
  /\ handling' = [handling EXCEPT !.todo = Tail(@)]
  /\ UNCHANGED <<fired, lines, signals, rows, bindings, native, handled>>

\* The chat's projection and the turn follow (ChatMessages, TargetInbox).
Finish ==
  /\ handling # Nothing /\ handling.todo = <<>> /\ handling' = Nothing
  /\ UNCHANGED <<fired, lines, signals, rows, bindings, native, handled>>

Next ==
  \/ \E t \in Targets, cli \in Clis, path \in BOOLEAN, event \in Events, body \in Bodies :
       Fire(t, cli, path, event, body)
  \/ \E line \in lines : Arrive(line) \/ Missed(line)
  \/ Bind \/ Trace \/ TraceFails \/ Persist \/ PersistFails \/ Finish

Spec == Init /\ [][Next]_vars

-----------------------------------------------------------------------------

\* A hook is one event of each type in the activity of its chat, through however
\* many configs its payload came (agent-event.ts:339).
OneEventPerHook ==
  \A r, s \in activity : r.by = s.by /\ r.type = s.type => r = s

\* A target is bound to a session of the CLI it was launched with, whatever else
\* runs in its terminal.
BoundToItsCli == \A t \in Targets : native[t] # None => native[t] = <<t, CliOf(t)>>

\* Both of them: what the signals of a terminal say is true of its target.
SignalsAreTrue == BoundToItsCli /\ OneEventPerHook

\* RawHookSignalService.ts:9: "Persists every parsed hook signal [...] so hooks
\* that map to zero downstream drafts still leave a queryable trace".  The keys
\* are of the payload's bytes, and two turns may have the same ones: the second
\* "continue" of a session leaves neither a trace nor an event.
EveryHookIsTraced == \A n \in handled : \E r \in traced : r.by = n
=============================================================================
