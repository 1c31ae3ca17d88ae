------------------------------ MODULE HookServer ------------------------------
(***************************************************************************)
(* The unix socket of a workspace that the hooks of its agents connect to  *)
(* (services/HookSignalServer.ts), over the runs of the app.  Launches ask *)
(* for it at the same time; a bind removes whatever node is at the path,   *)
(* and Node's close removes it again, whichever server it leads to.  A     *)
(* launch is a call of the page, which a reload interrupts anywhere.  With *)
(* Overlap the previous run may still be quitting while the next one runs  *)
(* (nothing takes a single-instance lock).                                 *)
(***************************************************************************)
EXTENDS Naturals

CONSTANTS
  Launches,   \* concurrent ensureListening calls
  MaxServers, \* bound: servers created
  Overlap,    \* a run may begin while the one before is closing
  MayFail     \* unlink or listen may fail

HookAssumption == MaxServers \in Nat /\ Overlap \in BOOLEAN /\ MayFail \in BOOLEAN

Nobody == 0
NoNode == 0
Stale == MaxServers + 1 \* a node that no server listens behind
Retries == 3 \* of a bind that found its address in use

VARIABLES
  pc,         \* launch -> what its call does: idle, waits, binds, up, failed
  attempt,    \* launch -> binds tried
  mine,       \* launch -> the server it has bound, or Nobody
  permit,     \* bindLock is free
  servers,    \* the entry of the workspace in the map, or Nobody
  listening,  \* the servers of this run that listen
  node,       \* what is at the path: NoNode, Stale, or a server
  created,    \* servers created so far, over all runs
  cut,        \* those of this run whose launch was interrupted before it registered them
  leaving     \* the servers of the previous run that its finalizer has still to close

vars == <<pc, attempt, mine, permit, servers, listening, node, created, cut, leaving>>

Init ==
  /\ pc = [l \in Launches |-> "idle"]
  /\ attempt = [l \in Launches |-> 0] /\ mine = [l \in Launches |-> Nobody]
  /\ permit = TRUE
  /\ servers = Nobody /\ listening = {} /\ cut = {} /\ leaving = {} /\ created = 0
  /\ node \in {NoNode, Stale}

-----------------------------------------------------------------------------

\* ensureListening waits for the permit.
Call(l) ==
  /\ pc[l] \in {"idle", "up", "failed"} /\ created < MaxServers
  /\ pc' = [pc EXCEPT ![l] = "waits"]
  /\ UNCHANGED <<attempt, mine, permit, servers, listening, node, created, cut, leaving>>

\* Slip: without the lock every launch goes on at once.
Unlocked == TRUE

Permitted == permit

\* The check of the map under the lock.
Enter(l) ==
  /\ pc[l] = "waits" /\ Permitted
  /\ IF servers # Nobody
     THEN pc' = [pc EXCEPT ![l] = "up"] /\ UNCHANGED <<permit, attempt>>
     ELSE /\ pc' = [pc EXCEPT ![l] = "binds"] /\ permit' = FALSE
          /\ attempt' = [attempt EXCEPT ![l] = 0]
  /\ UNCHANGED <<mine, servers, listening, node, created, cut, leaving>>

\* bindOnce, as far as it is synchronous: the node at the path goes, and the
\* new server is bound to it.
Bind(l) ==
  /\ pc[l] = "binds" /\ mine[l] = Nobody /\ created < MaxServers
  /\ created' = created + 1
  /\ node' = created' /\ listening' = listening \union {created'}
  /\ mine' = [mine EXCEPT ![l] = created']
  /\ UNCHANGED <<pc, attempt, permit, servers, cut, leaving>>

\* The node could not be removed: the address is in use, and the bind is
\* retried a few times.
BindInUse(l) ==
  /\ MayFail /\ pc[l] = "binds" /\ mine[l] = Nobody
  /\ node # NoNode /\ attempt[l] < Retries
  /\ attempt' = [attempt EXCEPT ![l] = @ + 1]
  /\ UNCHANGED <<pc, mine, permit, servers, listening, node, created, cut, leaving>>

\* Any other error, or the last retry: the call resolves all the same.
GiveUp(l) ==
  /\ MayFail /\ pc[l] = "binds" /\ mine[l] = Nobody
  /\ pc' = [pc EXCEPT ![l] = "failed"] /\ permit' = TRUE
  /\ UNCHANGED <<attempt, mine, servers, listening, node, created, cut, leaving>>

\* The server's listening event resumes the call, which registers it.
Register(l) ==
  /\ pc[l] = "binds" /\ mine[l] # Nobody
  /\ servers' = mine[l] /\ mine' = [mine EXCEPT ![l] = Nobody]
  /\ pc' = [pc EXCEPT ![l] = "up"] /\ permit' = TRUE
  /\ UNCHANGED <<attempt, listening, node, created, cut, leaving>>

\* A reload interrupts the launch.  The permit is released; bindOnce has no
\* finalizer, so that a server it has bound goes on listening, and its event
\* resumes nobody.
Interrupt(l) ==
  /\ pc[l] \in {"waits", "binds"}
  /\ pc' = [pc EXCEPT ![l] = "idle"] /\ mine' = [mine EXCEPT ![l] = Nobody]
  /\ permit' = (permit \/ pc[l] = "binds")
  /\ cut' = cut \union ({mine[l]} \ {Nobody})
  /\ UNCHANGED <<attempt, servers, listening, node, created, leaving>>

-----------------------------------------------------------------------------
(* Runs of the app                                                         *)

Fresh ==
  /\ pc' = [l \in Launches |-> "idle"] /\ attempt' = [l \in Launches |-> 0]
  /\ mine' = [l \in Launches |-> Nobody] /\ permit' = TRUE
  /\ servers' = Nobody /\ listening' = {} /\ cut' = {}

\* The app quits and its finalizer closes the registered server, which removes
\* the node: at once, or, with Overlap, while the next run has begun.
Quit ==
  /\ servers # Nobody /\ leaving = {}
  /\ Fresh
  /\ \/ node' = NoNode /\ UNCHANGED leaving
     \/ Overlap /\ leaving' = {servers} /\ UNCHANGED node
  /\ UNCHANGED created

\* libuv unlinks the path of the pipe that it closes.
Close ==
  /\ leaving # {} /\ leaving' = {} /\ node' = NoNode
  /\ UNCHANGED <<pc, attempt, mine, permit, servers, listening, created, cut>>

\* The app is killed, or has no server that its finalizer could close: its
\* sockets go, and the node stays.
Crash ==
  /\ listening # {} \/ \E l \in Launches : pc[l] # "idle"
  /\ Fresh
  /\ node' = IF node = NoNode THEN NoNode ELSE Stale
  /\ UNCHANGED <<created, leaving>>

Next ==
  \/ \E l \in Launches :
       \/ Call(l) \/ Enter(l) \/ Bind(l) \/ BindInUse(l) \/ GiveUp(l) \/ Register(l)
       \/ Interrupt(l)
  \/ Quit \/ Close \/ Crash

Spec == Init /\ [][Next]_vars

-----------------------------------------------------------------------------

TypeOK ==
  /\ pc \in [Launches -> {"idle", "waits", "binds", "up", "failed"}]
  /\ attempt \in [Launches -> 0..Retries] /\ mine \in [Launches -> 0..MaxServers]
  /\ permit \in BOOLEAN /\ servers \in 0..MaxServers
  /\ cut \subseteq listening /\ listening \subseteq 1..MaxServers

\* A launch that was told the channel is up finds it up, whatever other launches
\* do and wherever a reload interrupts them: what is at the path is the server
\* that the map has and that this run's finalizer will close, and it listens; and
\* no other server of the run does, unreachable and never closed, but those of
\* launches that were interrupted while they bound them.
ChannelIsUp ==
  (\E l \in Launches : pc[l] = "up") => /\ servers # Nobody
                                        /\ node = servers
                                        /\ listening \ cut = {servers}

\* "every server opened by `ensureListening` is closed when this layer's scope
\* closes": each that listens is in the map that the finalizer goes through, or
\* on its way there.  The code does not keep this: an interrupted launch (Interrupt)
\* leaves its server in neither.
ServersAreHeld == listening \subseteq {servers} \union {mine[l] : l \in Launches}
=============================================================================
