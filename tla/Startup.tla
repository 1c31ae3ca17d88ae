-------------------------------- MODULE Startup --------------------------------
(***************************************************************************)
(* The instances of the program on one profile (index.ts): from the launch *)
(* through the runtime and its MCP server (runtime.ts, mcp/server.ts) to   *)
(* the window, and the way out.  Nothing keeps a second instance from      *)
(* starting; what they share is the profile's port, the file that says     *)
(* where the server is, and the database (Migrations, SqliteStore).        *)
(***************************************************************************)
EXTENDS Naturals, FiniteSets

CONSTANTS
  Apps,        \* launches of the program
  Overrides,   \* values of ARC_MCP_PORT in the environment: ports, "0" or "unset"
  Permits      \* values of ARC_MCP_ALLOW_EPHEMERAL: a set of BOOLEANs

Persistent == "persistent" \* arcMcpPort(profile)
Explicit == "explicit"     \* a port that ARC_MCP_PORT names
Ephemeral == "0"           \* one that the system chooses
NoPort == "none"

VARIABLES
  pc,       \* app -> how far it is
  env,      \* app -> its environment: [port, ephemeral]
  decision, \* app -> the port to bind, or NoPort to skip
  serving,  \* app -> the port its server is bound to
  file,     \* arc-mcp.json: the port, or NoPort while there is none
  held,     \* app -> what it has to release: "runtime", "controller"
  windows,  \* app -> its window is open
  leaving   \* app -> shuttingDown

vars == <<pc, env, decision, serving, file, held, windows, leaving>>

Unset == [port |-> "unset", ephemeral |-> FALSE]

Init ==
  /\ pc = [i \in Apps |-> "off"] /\ env = [i \in Apps |-> Unset]
  /\ decision = [i \in Apps |-> NoPort] /\ serving = [i \in Apps |-> NoPort]
  /\ file = NoPort /\ held = [i \in Apps |-> {}]
  /\ windows = [i \in Apps |-> FALSE] /\ leaving = [i \in Apps |-> FALSE]

Goto(i, at) == pc' = [pc EXCEPT ![i] = at]
\* The system chooses a port that is free.
Busy(port) == port # Ephemeral /\ \E i \in Apps : serving[i] = port

-----------------------------------------------------------------------------
(* The way in.                                                             *)

\* setupProfile; when Electron is ready the scope of the controller is made, and
\* the first effect builds the runtime.
Launch(i) ==
  /\ pc[i] = "off" /\ Goto(i, "building")
  /\ \E port \in Overrides, ephemeral \in Permits :
       env' = [env EXCEPT ![i] = [port |-> port, ephemeral |-> ephemeral]]
  /\ held' = [held EXCEPT ![i] = {"runtime"}]
  /\ UNCHANGED <<decision, serving, file, windows, leaving>>

\* chooseMcpPort: what the user asks for, busy or not; the profile's port if it is
\* free; another one only if that is permitted.
chooseMcpPort(e, free) ==
  CASE e.port # "unset" -> e.port
    [] e.port = "unset" /\ free -> Persistent
    [] e.port = "unset" /\ ~free /\ e.ephemeral -> Ephemeral
    [] OTHER -> NoPort

\* decidePort: the probe takes the port and gives it back.
Probe(i) ==
  /\ pc[i] = "building" /\ Goto(i, "probed")
  /\ decision' = [decision EXCEPT ![i] = chooseMcpPort(env[i], ~Busy(Persistent))]
  /\ UNCHANGED <<env, serving, file, held, windows, leaving>>

\* NodeHttpServer.layer
Bind(i) ==
  /\ pc[i] = "probed" /\ decision[i] # NoPort /\ ~Busy(decision[i])
  /\ Goto(i, "bound") /\ serving' = [serving EXCEPT ![i] = decision[i]]
  /\ UNCHANGED <<env, decision, file, held, windows, leaving>>

\* The port is taken by now: the layer fails, and the runtime with it.
BindFails(i) ==
  /\ pc[i] = "probed" /\ decision[i] # NoPort /\ Busy(decision[i])
  /\ Goto(i, "broken")
  /\ UNCHANGED <<env, decision, serving, file, held, windows, leaving>>

Skip(i) ==
  /\ pc[i] = "probed" /\ decision[i] = NoPort
  /\ Goto(i, "built")
  /\ UNCHANGED <<env, decision, serving, file, held, windows, leaving>>

Announce(i) ==
  /\ pc[i] = "bound" /\ Goto(i, "built") /\ file' = serving[i]
  /\ UNCHANGED <<env, decision, serving, held, windows, leaving>>

\* launchArcMainController, in its scope, and the window.
Controller(i) ==
  /\ pc[i] = "built" /\ Goto(i, "up")
  /\ held' = [held EXCEPT ![i] = @ \cup {"controller"}]
  /\ windows' = [windows EXCEPT ![i] = TRUE]
  /\ UNCHANGED <<env, decision, serving, file, leaving>>

-----------------------------------------------------------------------------
(* The way out.                                                            *)

\* The window is closed; on a Mac the program goes on and opens it again.
CloseWindow(i) ==
  /\ pc[i] = "up" /\ windows[i] /\ windows' = [windows EXCEPT ![i] = FALSE]
  /\ UNCHANGED <<pc, env, decision, serving, file, held, leaving>>

Activate(i) ==
  /\ pc[i] = "up" /\ ~windows[i] /\ windows' = [windows EXCEPT ![i] = TRUE]
  /\ UNCHANGED <<pc, env, decision, serving, file, held, leaving>>

\* before-quit: the first is put off until shutdown is through, ...
BeforeQuit(i) ==
  /\ pc[i] \notin {"off", "gone"} /\ ~leaving[i]
  /\ leaving' = [leaving EXCEPT ![i] = TRUE]
  /\ UNCHANGED <<pc, env, decision, serving, file, held, windows>>

\* The scope of the controller is closed before the runtime is disposed.
InOrder(i) == IF "controller" \in held[i] THEN {"controller"} ELSE {"runtime"}

\* shutdown waits for the runtime, and leaves it alone if it was never built.
Release(i) ==
  /\ leaving[i] /\ pc[i] \in {"built", "up"} /\ held[i] # {}
  /\ Goto(i, "up") \* a controller that comes too late finds its scope closed
  /\ held' = [held EXCEPT ![i] = @ \ InOrder(i)]
  /\ serving' = IF "runtime" \in InOrder(i) THEN [serving EXCEPT ![i] = NoPort] ELSE serving
  /\ UNCHANGED <<env, decision, file, windows, leaving>>

Gone(i) ==
  /\ Goto(i, "gone") /\ serving' = [serving EXCEPT ![i] = NoPort]
  /\ held' = [held EXCEPT ![i] = {}] /\ windows' = [windows EXCEPT ![i] = FALSE]
  /\ UNCHANGED <<env, decision, file, leaving>>

Exit(i) == leaving[i] /\ (pc[i] = "broken" \/ held[i] = {}) /\ pc[i] # "gone" /\ Gone(i)

\* ... and a second goes through at once, as a crash does.
QuitAgain(i) == leaving[i] /\ pc[i] \notin {"off", "gone"} /\ Gone(i)
Crash(i) == ~leaving[i] /\ pc[i] \notin {"off", "gone"} /\ Gone(i)

Next ==
  \E i \in Apps :
    \/ Launch(i) \/ Probe(i) \/ Bind(i) \/ BindFails(i) \/ Skip(i) \/ Announce(i) \/ Controller(i)
    \/ CloseWindow(i) \/ Activate(i) \/ BeforeQuit(i) \/ Release(i) \/ Exit(i) \/ QuitAgain(i) \/ Crash(i)

Spec == Init /\ [][Next]_vars

-----------------------------------------------------------------------------

\* As long as nobody asks for another port, every server of the profile is where
\* installed configs point, and says so once it is up, whatever instances came
\* and went (endpoint.ts:11-17).
InstalledConfigsWork ==
  (\A i \in Apps : env[i] = Unset) =>
    /\ file \in {NoPort, Persistent}
    /\ \A i \in Apps : /\ serving[i] \in {NoPort, Persistent}
                       /\ pc[i] = "up" /\ serving[i] # NoPort => file = Persistent

\* The controller is closed while the runtime it works with is there.
ClosedInOrder == \A i \in Apps : "controller" \in held[i] => "runtime" \in held[i]

\* mcp/server.ts:428: "The app boots regardless - MCP being unavailable must not
\* brick the UI".  A port that is taken between the probe and the bind, or that
\* the user names while it is taken, fails the runtime, and no window opens.
BootsRegardless == \A i \in Apps : pc[i] # "broken"
=============================================================================
