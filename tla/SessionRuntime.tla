---------------------------- MODULE SessionRuntime ----------------------------
(***************************************************************************)
(* The two session runtimes behind one door: TargetSessionManager (agent   *)
(* CLIs in pseudo-terminals), RpcSessionManager (resident JSON-RPC         *)
(* drivers), SessionRuntimeRouter over both, and the target_sessions rows  *)
(* that outlive the process.                                               *)
(*                                                                         *)
(* Every process started, CLI or driver, is a kid, numbered in the order   *)
(* of spawning.  A fiber runs without interruption between two awaits; the *)
(* awaits that matter are the launch locks, the hook installation before a *)
(* spawn, the handshake of a driver and the SQLite permit, which a long    *)
(* ingest transaction can hold.  Writers wait for it in the order they     *)
(* came; one that gets it runs its statements (three, for an upsert) and   *)
(* the code after them before the next one is woken.                       *)
(***************************************************************************)
EXTENDS Integers, Sequences, FiniteSets
LOCAL INSTANCE TLC

CONSTANTS
  Callers,    \* concurrent RPC and MCP calls
  Renderer,   \* the callers a page reload interrupts
  Sessions,   \* session ids
  Runtimes,   \* the runtimes callers ask for: "pty", "rpc"
  MaxKids,    \* bound: processes ever started
  Failing,    \* the writes of a row that may fail: "upsert", "stop" (the state, at a stop), "state" (elsewhere), "native"
  Null

Kids == 1..MaxKids
OrNull(S) == S \cup {Null}
Origins == {"manual", "orchestrated"}
SessionState == [state : {"running", "exited"}, native : OrNull(Kids),
                 origin : Origins, startedAt : Kids]

ASSUME RuntimeAssumption ==
  /\ MaxKids \in Nat
  /\ Failing \subseteq {"upsert", "state", "stop", "native"}
  /\ Renderer \subseteq Callers
  /\ Runtimes \subseteq {"pty", "rpc"}
  /\ Null \notin Callers \cup Sessions \cup Kids \cup SessionState
  /\ Null \notin {"pty", "rpc", "launch", "resume", "launchRpc", "resumeRpc", "stop"}
  /\ Callers \cap {"exits", "bind"} = {}

VARIABLES
  store,     \* TargetSessionManager.store: [state, native, origin, startedAt]
  ptys,      \* the handle held for a session
  exits,     \* the queue of exit notifications
  exiting,   \* the session whose exit is being recorded
  timers,    \* stopped kids whose grace has not run out
  binding,   \* the hook binding being applied: [session, native, seen, pc]
  rpc,       \* RpcSessionManager.sessions: the driver of a session
  rows,      \* target_sessions
  sql,       \* statements waiting for the SQLite permit
  kids,      \* [session, runtime, native, life, signal]
  call,      \* what each caller is doing
  ptyLock, rpcLock   \* the caller inside each manager's launch lock

memory == <<store, ptys, exits, exiting, timers, binding, rpc>>
locks == <<ptyLock, rpcLock>>
vars == <<memory, rows, sql, kids, call, locks>>

-----------------------------------------------------------------------------

Idle == [pc |-> "idle", op |-> Null, session |-> Null, native |-> Null,
         origin |-> Null, startedAt |-> Null, kid |-> Null]
Unborn == [session |-> Null, runtime |-> Null, native |-> Null,
           life |-> "unborn", signal |-> "none"]

Init ==
  /\ store = [s \in Sessions |-> Null]
  /\ ptys = [s \in Sessions |-> Null]
  /\ exits = <<>> /\ exiting = Null
  /\ timers = {} /\ binding = Null
  /\ rpc = [s \in Sessions |-> Null]
  /\ rows = [s \in Sessions |-> Null]
  /\ sql = <<>>
  /\ kids = [k \in Kids |-> Unborn]
  /\ call = [c \in Callers |-> Idle]
  /\ ptyLock = Null /\ rpcLock = Null

Live == {k \in Kids : kids[k].life = "alive"}
Unspawned == {k \in Kids : kids[k].life = "unborn"}
IsNext(k) == k \in Unspawned /\ \A j \in Unspawned : k <= j

\* Calls in flight that may still spawn: the bound never strands one of them.
Spawning == {c \in Callers : call[c].pc \in {"load", "prepare", "wait"}}
Room == Cardinality(Spawning) < Cardinality(Unspawned)

\* newArcId: an id nothing refers to.
FreshSession(s) ==
  /\ store[s] = Null /\ rows[s] = Null
  /\ \A k \in Kids : kids[k].session # s
  /\ \A c \in Callers : call[c].session # s

Goto(c, pc) == call' = [call EXCEPT ![c].pc = pc]
Return(c) == call' = [call EXCEPT ![c] = Idle]

Born(k, s, runtime, native) ==
  kids' = [kids EXCEPT ![k] = [session |-> s, runtime |-> runtime, native |-> native,
                               life |-> "alive", signal |-> "none"]]
Dies(k) == kids' = [kids EXCEPT ![k].life = "dead"]

Statement(who, kind, s, val) == [who |-> who, kind |-> kind, session |-> s, val |-> val]
Issue(who, kind, s, val) == sql' = Append(sql, Statement(who, kind, s, val))
\* The statement of `who` gets the permit.
Executes(who, kind) ==
  sql # <<>> /\ Head(sql).who = who /\ Head(sql).kind = kind
Executed == sql' = Tail(sql)

SetRow(s, field, val) ==
  rows' = IF rows[s] = Null THEN rows ELSE [rows EXCEPT ![s][field] = val]
\* A best-effort UPDATE: an error is logged and ignored.
TrySetRow(s, field, val) == SetRow(s, field, val) \/ (field \in Failing /\ UNCHANGED rows)

-----------------------------------------------------------------------------
(* The PTY manager.                                                        *)

\* The manual sessions held for the chat and provider; the newest is reused.
Reusable(origin) ==
  {s \in Sessions : origin = "manual" /\ store[s] # Null /\ store[s].origin = "manual"}
Newest(s, S) == s \in S /\ \A t \in S : store[t].startedAt <= store[s].startedAt

\* Slip: the double click gets past the lock.
FreePty(c) == TRUE
\* launchLock.withPermits(1)
LockPty(c) == ptyLock = Null

\* launch, up to the hook installation.  A live session is returned as it is
\* (or refused, for another workspace); one that exited is launched again
\* under its id, carrying its native binding.
Launch(c, origin) ==
  LET old == Reusable(origin) IN
  /\ call[c].pc = "idle" /\ LockPty(c) /\ Room
  /\ ptyLock' = c
  /\ \E s \in Sessions :
       /\ IF old = {} THEN FreshSession(s) ELSE Newest(s, old) /\ ptys[s] = Null
       /\ call' = [call EXCEPT ![c] =
            [pc |-> "prepare", op |-> "launch", session |-> s,
             native |-> IF old = {} THEN Null ELSE store[s].native,
             origin |-> origin, startedAt |-> Null, kid |-> Null]]
  /\ UNCHANGED <<memory, rows, sql, kids, rpcLock>>

Resuming(c, s, from) ==
  call' = [call EXCEPT ![c] =
    [pc |-> "prepare", op |-> "resume", session |-> s, native |-> from.native,
     origin |-> from.origin, startedAt |-> from.startedAt, kid |-> Null]]

\* resume of a session held here that is not live (a live one is returned,
\* one without a native session is refused).
ResumeHeld(c, s) ==
  /\ call[c].pc = "idle" /\ LockPty(c) /\ Room
  /\ store[s] # Null /\ ptys[s] = Null /\ store[s].native # Null
  /\ ptyLock' = c
  /\ Resuming(c, s, store[s])
  /\ UNCHANGED <<memory, rows, sql, kids, rpcLock>>

\* resume of any other session reads its row.
ResumeLoad(c, s) ==
  /\ call[c].pc = "idle" /\ LockPty(c) /\ Room
  /\ store[s] = Null
  /\ ptyLock' = c
  /\ Issue(c, "load", s, Null)
  /\ call' = [call EXCEPT ![c] = [Idle EXCEPT !.pc = "load", !.op = "resume", !.session = s]]
  /\ UNCHANGED <<memory, rows, kids, rpcLock>>

ResumeLoaded(c) ==
  LET s == call[c].session IN
  /\ call[c].pc = "load" /\ call[c].op = "resume" /\ Executes(c, "load")
  /\ Executed
  /\ IF rows[s] # Null /\ rows[s].native # Null
     THEN Resuming(c, s, rows[s]) /\ UNCHANGED ptyLock
     ELSE Return(c) /\ ptyLock' = Null
  /\ UNCHANGED <<memory, rows, kids, rpcLock>>

\* spawnAttached and the store update, then the upsert of the row.
\* A launch starts a new native session, which its hook will reveal.
Spawn(c, k) ==
  LET s == call[c].session
      new == call[c].op = "launch"
      session == [state |-> "running", native |-> call[c].native, origin |-> call[c].origin,
                  startedAt |-> IF new THEN k ELSE call[c].startedAt]
  IN
  /\ call[c].pc = "prepare" /\ IsNext(k)
  /\ Born(k, s, "pty", IF new THEN k ELSE call[c].native)
  /\ ptys' = [ptys EXCEPT ![s] = k]
  /\ store' = [store EXCEPT ![s] = session]
  /\ Goto(c, "upsert")
  /\ Issue(c, "upsert", s, session)
  /\ UNCHANGED <<exits, exiting, timers, binding, rpc, rows, locks>>

\* upsertTargetSession: the row of a conflict keeps its origin.
Upsert(c) ==
  LET s == Head(sql).session
      row == Head(sql).val
  IN
  /\ Executes(c, "upsert")
  /\ Executed
  /\ rows' = [rows EXCEPT ![s] =
       IF @ = Null THEN row ELSE [row EXCEPT !.origin = rows[s].origin]]
  /\ Return(c)
  /\ ptyLock' = IF ptyLock = c THEN Null ELSE ptyLock
  /\ UNCHANGED <<memory, kids, rpcLock>>

\* stop: SIGTERM now; a forked fiber looks again after the grace.
StopPty(c, s) ==
  /\ call[c].pc = "idle"
  /\ rpc[s] = Null /\ ptys[s] # Null
  /\ kids' = [kids EXCEPT ![ptys[s]].signal = IF @ = "kill" THEN @ ELSE "term"]
  /\ timers' = timers \cup {ptys[s]}
  /\ UNCHANGED <<store, ptys, exits, exiting, binding, rpc, rows, sql, call, locks>>

\* Slip: the fiber kills whatever the session holds by then.
GraceKillsHolder(k) ==
  LET held == ptys[kids[k].session] IN
  /\ k \in timers
  /\ timers' = timers \ {k}
  /\ kids' = IF held # Null THEN [kids EXCEPT ![held].signal = "kill"] ELSE kids
  /\ UNCHANGED <<store, ptys, exits, exiting, binding, rpc, rows, sql, call, locks>>

\* SIGKILL, if the child stopped then is the one still held.
GraceEnds(k) ==
  /\ k \in timers
  /\ timers' = timers \ {k}
  /\ kids' = IF ptys[kids[k].session] = k THEN [kids EXCEPT ![k].signal = "kill"] ELSE kids
  /\ UNCHANGED <<store, ptys, exits, exiting, binding, rpc, rows, sql, call, locks>>

\* node-pty's onExit, of its own accord or from a signal.
Exit(k) ==
  /\ k \in Live /\ kids[k].runtime = "pty"
  /\ Dies(k)
  /\ exits' = Append(exits, kids[k].session)
  /\ UNCHANGED <<store, ptys, exiting, timers, binding, rpc, rows, sql, call, locks>>

\* handleExit: drop the handle, mark the session, record it.
HandleExit ==
  /\ exits # <<>> /\ exiting = Null
  /\ LET s == Head(exits) IN
     /\ ptys' = [ptys EXCEPT ![s] = Null]
     /\ store' = IF store[s] = Null THEN store ELSE [store EXCEPT ![s].state = "exited"]
     /\ exiting' = s
     /\ Issue("exits", "state", s, "exited")
  /\ exits' = Tail(exits)
  /\ UNCHANGED <<timers, binding, rpc, rows, kids, call, locks>>

ExitRecorded ==
  /\ Executes("exits", "state")
  /\ Executed
  /\ TrySetRow(Head(sql).session, "state", "exited")
  /\ exiting' = Null
  /\ UNCHANGED <<store, ptys, exits, timers, binding, rpc, kids, call, locks>>

\* bindNative: a hook of kid k, early or late, names its native session (the
\* one it was started with, or a new one after a compaction).
Bind(k, native) ==
  LET s == kids[k].session IN
  /\ binding = Null
  /\ kids[k].runtime = "pty" /\ native \in {kids[k].native, k}
  /\ store[s] # Null /\ store[s].native # native
  /\ binding' = [session |-> s, native |-> native, seen |-> store[s], pc |-> "update"]
  /\ UNCHANGED <<store, ptys, exits, exiting, timers, rpc, rows, sql, kids, call, locks>>

\* Slip: the snapshot taken before the log line is spread back.
BindFromSnapshot ==
  LET s == binding.session IN
  /\ binding # Null /\ binding.pc = "update"
  /\ store' = [store EXCEPT ![s] = [binding.seen EXCEPT !.native = binding.native]]
  /\ Issue("bind", "native", s, binding.native)
  /\ binding' = [binding EXCEPT !.pc = "record"]
  /\ UNCHANGED <<ptys, exits, exiting, timers, rpc, rows, kids, call, locks>>

BindUpdate ==
  LET s == binding.session IN
  /\ binding # Null /\ binding.pc = "update"
  /\ store' = [store EXCEPT ![s].native = binding.native]
  /\ Issue("bind", "native", s, binding.native)
  /\ binding' = [binding EXCEPT !.pc = "record"]
  /\ UNCHANGED <<ptys, exits, exiting, timers, rpc, rows, kids, call, locks>>

BindRecorded ==
  /\ Executes("bind", "native")
  /\ Executed
  /\ TrySetRow(Head(sql).session, "native", Head(sql).val)
  /\ binding' = Null
  /\ UNCHANGED <<store, ptys, exits, exiting, timers, rpc, kids, call, locks>>

-----------------------------------------------------------------------------
(* The RPC manager and the router's rpc paths.                             *)

\* launchRpc: a new session id, then the manager's launch lock.
LaunchRpc(c, origin) ==
  /\ call[c].pc = "idle" /\ Room
  /\ \E s \in Sessions :
       /\ FreshSession(s)
       /\ call' = [call EXCEPT ![c] = [Idle EXCEPT !.pc = "wait", !.op = "launchRpc",
                                                   !.session = s, !.origin = origin]]
  /\ UNCHANGED <<memory, rows, sql, kids, locks>>

\* resumeRpc reads the row first, outside the lock.
ResumeRpc(c, s) ==
  /\ call[c].pc = "idle" /\ Room
  /\ Issue(c, "load", s, Null)
  /\ call' = [call EXCEPT ![c] = [Idle EXCEPT !.pc = "load", !.op = "resumeRpc", !.session = s]]
  /\ UNCHANGED <<memory, rows, kids, locks>>

ResumeRpcLoaded(c) ==
  LET s == call[c].session IN
  /\ call[c].pc = "load" /\ call[c].op = "resumeRpc" /\ Executes(c, "load")
  /\ Executed
  /\ IF rows[s] # Null /\ rows[s].native # Null
     THEN call' = [call EXCEPT ![c].pc = "wait", ![c].native = rows[s].native,
                               ![c].origin = rows[s].origin,
                               ![c].startedAt = rows[s].startedAt]
     ELSE Return(c)
  /\ UNCHANGED <<memory, rows, kids, locks>>

\* launch is idempotent per session: the driver it already holds is returned.
RpcAlready(c) ==
  LET s == call[c].session IN
  /\ call[c].pc = "wait" /\ rpcLock = Null
  /\ rpc[s] # Null
  /\ Goto(c, "state")
  /\ Issue(c, "state", s, "running")
  /\ UNCHANGED <<memory, rows, kids, locks>>

\* Otherwise the driver process starts, in a scope of its own.
RpcBuild(c, k) ==
  /\ call[c].pc = "wait" /\ IsNext(k) /\ rpcLock = Null
  /\ rpc[call[c].session] = Null
  /\ rpcLock' = c
  /\ Born(k, call[c].session, "rpc", IF call[c].native = Null THEN k ELSE call[c].native)
  /\ call' = [call EXCEPT ![c].pc = "build", ![c].kid = k]
  /\ UNCHANGED <<memory, rows, sql, ptyLock>>

\* The handshake is over: the session is live, and the router records it.
RpcBuilt(c) ==
  LET s == call[c].session
      k == call[c].kid
  IN
  /\ call[c].pc = "build" /\ kids[k].life = "alive"
  /\ rpc' = [rpc EXCEPT ![s] = k]
  /\ rpcLock' = Null
  /\ IF call[c].op = "launchRpc"
     THEN /\ Goto(c, "upsert")
          /\ Issue(c, "upsert", s, [state |-> "running", native |-> k,
                                    origin |-> call[c].origin, startedAt |-> k])
     ELSE /\ Goto(c, "state")
          /\ Issue(c, "state", s, "running")
  /\ UNCHANGED <<store, ptys, exits, exiting, timers, binding, rows, kids, ptyLock>>

\* Slip: the permit is not given back when the handshake fails.
RpcBuildFailsLocked(c) ==
  /\ call[c].pc = "build"
  /\ Dies(call[c].kid)
  /\ Return(c)
  /\ UNCHANGED <<memory, rows, sql, locks>>

\* The handshake fails: its scope closes and takes the process with it.
RpcBuildFails(c) ==
  /\ call[c].pc = "build"
  /\ Dies(call[c].kid)
  /\ rpcLock' = Null
  /\ Return(c)
  /\ UNCHANGED <<memory, rows, sql, ptyLock>>

\* The row of a resumed session reads running again, if its UPDATE succeeds.
ResumeRecorded(c) ==
  /\ call[c].op = "resumeRpc" /\ Executes(c, "state")
  /\ Executed
  /\ TrySetRow(Head(sql).session, "state", "running")
  /\ Return(c)
  /\ UNCHANGED <<memory, kids, locks>>

\* rpc.stop: out of the maps, then the scope closes.
Torn(s) ==
  /\ rpc' = [rpc EXCEPT ![s] = Null]
  /\ kids' = IF rpc[s] = Null THEN kids ELSE [kids EXCEPT ![rpc[s]].life = "dead"]
  /\ UNCHANGED <<store, ptys, exits, exiting, timers, binding>>

\* The INSERT fails: a terminal session lives on without its row, an rpc
\* session is torn down again.
UpsertFails(c) ==
  /\ "upsert" \in Failing /\ Executes(c, "upsert")
  /\ Executed
  /\ IF call[c].op = "launchRpc"
     THEN Torn(Head(sql).session)
     ELSE UNCHANGED <<memory, kids>>
  /\ Return(c)
  /\ ptyLock' = IF ptyLock = c THEN Null ELSE ptyLock
  /\ UNCHANGED <<rows, rpcLock>>

\* Slip: the session is torn down before its row is written.
StopRpcAtOnce(c, s) ==
  /\ call[c].pc = "idle" /\ rpc[s] # Null
  /\ Torn(s)
  /\ call' = [call EXCEPT ![c] = [Idle EXCEPT !.pc = "stop", !.op = "stop", !.session = s]]
  /\ Issue(c, "state", s, "exited")
  /\ UNCHANGED <<rows, locks>>

\* stop of a session the RPC manager owns: the row first.
StopRpc(c, s) ==
  /\ call[c].pc = "idle" /\ rpc[s] # Null
  /\ call' = [call EXCEPT ![c] = [Idle EXCEPT !.pc = "stop", !.op = "stop", !.session = s]]
  /\ Issue(c, "state", s, "exited")
  /\ UNCHANGED <<memory, rows, kids, locks>>

RpcStopped(c) ==
  LET s == Head(sql).session IN
  /\ call[c].op = "stop" /\ Executes(c, "state")
  /\ Executed
  /\ SetRow(s, "state", "exited")
  /\ Torn(s)
  /\ Return(c)
  /\ UNCHANGED locks

\* The UPDATE fails: that is logged, and the driver stopped all the same.
RpcStoppedUnrecorded(c) ==
  /\ "stop" \in Failing /\ call[c].op = "stop" /\ Executes(c, "state")
  /\ Executed
  /\ Torn(Head(sql).session)
  /\ Return(c)
  /\ UNCHANGED <<rows, locks>>

\* A driver process dies: nobody is told.
DriverDies(k) ==
  /\ k \in Live /\ kids[k].runtime = "rpc"
  /\ Dies(k)
  /\ UNCHANGED <<memory, rows, sql, call, locks>>

-----------------------------------------------------------------------------

\* A reload retires the page's client: each of its calls is interrupted where
\* it waits, its statement with it, and the permit it holds is released.  The
\* scope of a driver under construction stays open.
Reload(c) ==
  /\ c \in Renderer /\ call[c].pc # "idle"
  /\ Return(c)
  /\ \/ sql' = sql /\ \A i \in 1..Len(sql) : sql[i].who # c
     \/ \E i \in 1..Len(sql) :
          /\ sql[i].who = c
          /\ sql' = SubSeq(sql, 1, i - 1) \o SubSeq(sql, i + 1, Len(sql))
  /\ ptyLock' = IF ptyLock = c THEN Null ELSE ptyLock
  /\ rpcLock' = IF rpcLock = c THEN Null ELSE rpcLock
  /\ UNCHANGED <<memory, rows, kids>>

\* The application quits or crashes, with every process it started, and boots
\* again: the rows are all that is left, and no session is held.
Restart ==
  /\ store' = [s \in Sessions |-> Null]
  /\ ptys' = [s \in Sessions |-> Null]
  /\ exits' = <<>> /\ exiting' = Null
  /\ timers' = {} /\ binding' = Null
  /\ rpc' = [s \in Sessions |-> Null]
  /\ sql' = <<>>
  /\ call' = [c \in Callers |-> Idle]
  /\ ptyLock' = Null /\ rpcLock' = Null
  /\ kids' = [k \in Kids |-> IF k \in Live THEN [kids[k] EXCEPT !.life = "dead"] ELSE kids[k]]
  /\ UNCHANGED rows

PtyCall(c) ==
  \/ \E origin \in Origins : Launch(c, origin)
  \/ \E s \in Sessions : ResumeHeld(c, s) \/ ResumeLoad(c, s) \/ StopPty(c, s)
RpcCall(c) ==
  \/ LaunchRpc(c, "manual")
  \/ \E s \in Sessions : ResumeRpc(c, s) \/ StopRpc(c, s)
Handshake(c) == RpcBuilt(c) \/ RpcBuildFails(c)
Progress(c) ==
  \/ ResumeLoaded(c) \/ Upsert(c) \/ UpsertFails(c)
  \/ ResumeRpcLoaded(c) \/ RpcAlready(c)
  \/ ResumeRecorded(c) \/ RpcStopped(c) \/ RpcStoppedUnrecorded(c)
  \/ \E k \in Kids : Spawn(c, k) \/ RpcBuild(c, k)
Background ==
  HandleExit \/ ExitRecorded \/ BindUpdate \/ BindRecorded

Next ==
  \/ \E c \in Callers :
       \/ "pty" \in Runtimes /\ PtyCall(c)
       \/ "rpc" \in Runtimes /\ RpcCall(c)
       \/ Progress(c) \/ Handshake(c)
       \/ Reload(c)
  \/ \E k \in Kids :
       \/ GraceEnds(k) \/ Exit(k) \/ DriverDies(k)
       \/ \E native \in Kids : Bind(k, native)
  \/ Background
  \/ Restart

\* The handshake waits for an answer that nothing times out.  Only the exit of
\* the child is sure to end it: it fails the requests that are pending.
Waits(c) == call[c].pc = "build" /\ kids[call[c].kid].life = "alive"
ChildGone(c) == call[c].pc = "build" /\ ~Waits(c) /\ Handshake(c)

\* Fibers that can run do, timers fire, and a process that got SIGKILL exits.
Fairness ==
  /\ \A c \in Callers : WF_vars(Progress(c)) /\ WF_vars(ChildGone(c))
  /\ \A k \in Kids : WF_vars(GraceEnds(k)) /\ WF_vars(kids[k].signal = "kill" /\ Exit(k))
  /\ WF_vars(Background)

Spec == Init /\ [][Next]_vars
FairSpec == Spec /\ Fairness

-----------------------------------------------------------------------------

CallState ==
  [pc : {"idle", "load", "prepare", "upsert", "wait", "build", "state", "stop"},
   op : OrNull({"launch", "resume", "launchRpc", "resumeRpc", "stop"}),
   session : OrNull(Sessions), native : OrNull(Kids),
   origin : OrNull(Origins), startedAt : OrNull(Kids),
   kid : OrNull(Kids)]

Statements ==
  LET Of(kind, vals) == [who : Callers \cup {"exits", "bind"}, kind : {kind},
                         session : Sessions, val : vals]
  IN Of("load", {Null}) \cup Of("upsert", SessionState)
       \cup Of("state", {"running", "exited"}) \cup Of("native", Kids)

\* The type invariant.
TypeOK ==
  /\ store \in [Sessions -> OrNull(SessionState)]
  /\ ptys \in [Sessions -> OrNull(Kids)]
  /\ exits \in Seq(Sessions) /\ exiting \in OrNull(Sessions)
  /\ timers \subseteq Kids
  /\ binding \in OrNull([session : Sessions, native : Kids, seen : SessionState,
                         pc : {"update", "record"}])
  /\ rpc \in [Sessions -> OrNull(Kids)]
  /\ rows \in [Sessions -> OrNull(SessionState)]
  /\ sql \in Seq(Statements)
  /\ kids \in [Kids -> [session : OrNull(Sessions), runtime : OrNull({"pty", "rpc"}),
                        native : OrNull(Kids), life : {"unborn", "alive", "dead"},
                        signal : {"none", "term", "kill"}]]
  /\ call \in [Callers -> CallState]
  /\ ptyLock \in OrNull(Callers) /\ rpcLock \in OrNull(Callers)

\* Every agent CLI that is running is the one handle its session holds: stop
\* and quit reach it, and no session runs two (the launch lock, and the exit
\* of an old child handled before a new one takes its id).
TerminalsHeld ==
  \A k \in Live : kids[k].runtime = "pty" => ptys[kids[k].session] = k

\* The list says running exactly for the sessions with a handle: an exit is
\* never undone by a binding that read the session before it.
RunningIsHeld ==
  \A s \in Sessions :
    (store[s] # Null /\ store[s].state = "running") <=> ptys[s] # Null

\* SIGKILL only ever follows a SIGTERM to the same child: a relaunch within
\* the grace period is not killed by the stop of its predecessor.
KilledOnlyIfStopped ==
  [][\A k \in Kids :
       kids'[k].signal = "kill" /\ kids[k].signal # "kill" => kids[k].signal = "term"]_vars

\* A driver is never pushed out by another one for the same session: that
\* would orphan its scope and leak the process.
DriverNotReplaced ==
  [][\A s \in DOMAIN rpc : rpc[s] # Null /\ rpc'[s] # Null => rpc'[s] = rpc[s]]_vars

\* An rpc session leaves the live list only once its row reads exited:
\* otherwise the list, which adds the rows of sessions that are not live,
\* would show the session just stopped as a detached one.  Only the stop whose
\* own UPDATE has failed may do that.
StoppedAsExited ==
  [][\A s \in DOMAIN rpc :
       (~Restart /\ (\A c \in Callers : ~RpcStoppedUnrecorded(c)) /\ rpc[s] # Null /\ rpc'[s] = Null /\ rows'[s] # Null)
         => rows'[s].state = "exited"]_vars

\* A live rpc session that nobody is still launching has a row: a restart
\* knows about it (launchRpc tears it down when the row cannot be written).
RpcRecorded ==
  \A s \in Sessions :
    rpc[s] # Null /\ (\A c \in Callers : call[c].session # s) => rows[s] # Null

\* Once nothing is in flight, the row of a terminal session says what the
\* store says of it: the upsert of a spawn lands before the binding and the
\* exit of the same child ("ordered: upsert lands before any bind/state
\* update", where no write fails and no reload interrupts one).
Settled ==
  sql = <<>> /\ exits = <<>> /\ binding = Null /\ (\A c \in Callers : call[c] = Idle)
RowsMirrorStore ==
  Settled => \A s \in Sessions : store[s] # Null => rows[s] = store[s]

\* A stopped child is eventually gone, even if it ignores SIGTERM.
StopTakesEffect == \A k \in Kids : k \in timers ~> kids[k].life = "dead"

\* The inductive invariant: what the launch locks and the exit queue guarantee.
LockHeld(c) ==
  LET k == call[c] IN
  /\ k.pc = "load" => k.session \in Sessions
  /\ k.pc = "load" /\ k.op = "resume" => ptyLock = c /\ store[k.session] = Null
  /\ k.pc = "prepare" =>
       /\ ptyLock = c
       /\ k.session \in Sessions /\ ptys[k.session] = Null
       /\ k.origin \in Origins
       /\ k.op # "launch" => k.startedAt \in Kids
  /\ k.pc \in {"wait", "build"} => k.session \in Sessions /\ k.origin \in Origins
  /\ k.pc = "build" => rpcLock = c /\ rpc[k.session] = Null /\ k.kid \in Kids
LocksHeld == \A c \in Callers : LockHeld(c)
HandlesOK ==
  /\ \A s \in Sessions : ptys[s] # Null =>
       /\ kids[ptys[s]].session = s /\ kids[ptys[s]].life # "unborn"
  /\ \A k \in Kids : kids[k].runtime \in {"pty", "rpc"} => kids[k].session \in Sessions
  /\ \A k \in timers : kids[k].signal # "none" /\ kids[k].life # "unborn"
ExitsOK ==
  /\ \A i \in 1..Len(exits) : ptys[exits[i]] # Null /\ ptys[exits[i]] \notin Live
  /\ \A i, j \in 1..Len(exits) : i # j => exits[i] # exits[j]
BindingOK == binding # Null => store[binding.session] # Null
Handles == HandlesOK /\ ExitsOK /\ BindingOK /\ TerminalsHeld /\ RunningIsHeld
RInv == TypeOK /\ LocksHeld /\ Handles

\* Every call returns, unless a driver that lives never answers its handshake
\* (which holds the launch lock, and with it every rpc launch): no lock is kept by
\* a call that ended, no statement waits for ever.
CallsReturn ==
  (\A c \in Callers : []<>~Waits(c))
    => \A c \in Callers : call[c].pc # "idle" ~> call[c].pc = "idle"

-----------------------------------------------------------------------------
(* A statement of the repository the code does not live up to.             *)

\* RpcSessionManager.ts: "A failed launch must not leak the forked scope (or a
\* half-spawned child)".
DriversHeld ==
  \A k \in Live : kids[k].runtime = "rpc" =>
    \/ rpc[kids[k].session] = k
    \/ \E c \in Callers : call[c].pc = "build" /\ call[c].kid = k

\* Session ids are interchangeable, and so are the callers no reload interrupts.
CallerSymmetry == Permutations(Sessions) \cup Permutations(Callers \ Renderer)
=============================================================================
