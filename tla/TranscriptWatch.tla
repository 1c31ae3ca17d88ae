---------------------------- MODULE TranscriptWatch ----------------------------
(***************************************************************************)
(* How the transcript of a session gets into the store: the watcher that   *)
(* the controller keeps on the bound file, the backfill at the end of a    *)
(* turn and the poller of an open one, and the ingest that each of them    *)
(* runs, which reads the file and later replaces the stored rows.          *)
(***************************************************************************)
EXTENDS Naturals, Sequences
LOCAL INSTANCE Functions

CONSTANTS
  Paths,     \* transcripts that the session is bound to, one after another
  NoPath,
  MaxWrites, \* bound on the writes of the transcripts together
  MaxBinds   \* bound on the changes of the session's binding

VARIABLES
  onDisk,         \* per path: the version of the file, 0 before it exists
  inStore,        \* per path: the version whose rows are stored
  binding, binds, \* transcriptPathToWatch of the session
  sessionPushes,  \* session lists that the controller has still to handle
  watchedTargets, \* the path registered for the session
  watcher,        \* the fiber, with [base, dirty] of its poll, the version read last and how it fell behind
  ended,          \* the watcher failed, and no list was handled since
  overtaken,      \* a backfill or a poll stored an older reading over a newer one, and the watcher stored nothing since
  backfill,       \* the hook loop: [at, path, read]
  poller          \* the poller's fiber: [on, at, path, read]

registryVars == <<watchedTargets, sessionPushes>>
sessionVars == <<binding, binds>>
vars == <<onDisk, inStore, sessionVars, registryVars, watcher, ended, overtaken, backfill, poller>>

NoPathAssumption == NoPath \notin Paths

NoWatcher == [on |-> FALSE, path |-> NoPath, at |-> "idle", read |-> 0,
              armed |-> FALSE, base |-> 0, dirty |-> FALSE, missed |-> 0, lapsed |-> FALSE]
NoIngest == [at |-> "idle", path |-> NoPath, read |-> 0]
NoPoller == [on |-> FALSE, at |-> "idle", path |-> NoPath, read |-> 0]

Init ==
  /\ onDisk = [p \in Paths |-> 0] /\ inStore = [p \in Paths |-> 0]
  /\ binding = NoPath /\ binds = 0 /\ sessionPushes = <<>>
  /\ watchedTargets = NoPath /\ watcher = NoWatcher /\ ended = FALSE /\ overtaken = FALSE
  /\ backfill = NoIngest /\ poller = NoPoller

-----------------------------------------------------------------------------
(* The provider and the session.                                           *)

\* A file is begun before the hook that binds it, and continued while it is bound.
Write(p) ==
  /\ FoldFunction(+, 0, onDisk) < MaxWrites /\ (onDisk[p] = 0 \/ binding = p) /\ onDisk' = [onDisk EXCEPT ![p] = @ + 1]
  /\ UNCHANGED <<inStore, sessionVars, registryVars, watcher, ended, overtaken, backfill, poller>>

\* A hook binds the session to a file, or its child exits; or the list is pushed
\* for another reason.
PushSessions(p) ==
  /\ binds < MaxBinds /\ binds' = binds + 1 /\ binding' = p
  /\ sessionPushes' = Append(sessionPushes, p)
  /\ UNCHANGED <<onDisk, inStore, watchedTargets, watcher, ended, overtaken, backfill, poller>>

-----------------------------------------------------------------------------
(* The watchers' registry.                                                 *)

\* The fiber ingests at once what exists already.
Started(p) == [NoWatcher EXCEPT !.on = TRUE, !.path = p, !.at = IF onDisk[p] > 0 THEN "read" ELSE "idle"]

\* A pushed list: a watcher whose path is not the session's is stopped, and a
\* session that is not registered gets one, unless its fiber still runs.
Reconcile ==
  /\ sessionPushes # <<>> /\ sessionPushes' = Tail(sessionPushes)
  /\ LET p == Head(sessionPushes)
         kept == watchedTargets = p
         running == IF kept THEN watcher ELSE IF watchedTargets = NoPath THEN watcher ELSE NoWatcher
     IN /\ watchedTargets' = p
        /\ watcher' = IF kept \/ p = NoPath \/ running.on THEN running ELSE Started(p)
        /\ ended' = FALSE
  /\ UNCHANGED <<onDisk, inStore, sessionVars, overtaken, backfill, poller>>

\* The fiber's ensuring: its own entry leaves with it.
Unregistered(p) == IF watchedTargets = p THEN NoPath ELSE watchedTargets

\* A watcher that fails ends.
WatcherEnds ==
  /\ watcher.on /\ watcher' = NoWatcher /\ ended' = TRUE
  /\ watchedTargets' = Unregistered(watcher.path)
  /\ UNCHANGED <<onDisk, inStore, sessionVars, sessionPushes, overtaken, backfill, poller>>

-----------------------------------------------------------------------------
(* The watcher: reconcile, then the poll of the file's stat.               *)

\* The poll's first stat is what later ones are compared with: what was written
\* since the startup reading, or since the file was found missing, is missed.
Arm ==
  /\ watcher.on /\ watcher.at = "idle" /\ ~watcher.armed
  /\ watcher' = [watcher EXCEPT !.armed = TRUE, !.base = onDisk[watcher.path],
                                !.missed = IF watcher.read # onDisk[watcher.path] THEN onDisk[watcher.path] ELSE 0]
  /\ UNCHANGED <<onDisk, inStore, sessionVars, registryVars, ended, overtaken, backfill, poller>>

\* Slip: a file that appears is no change.
Grown == watcher.base # 0
Differs == onDisk[watcher.path] # watcher.base

\* Each second, an ingest under way or not.
Stat ==
  /\ watcher.on /\ watcher.armed /\ onDisk[watcher.path] # watcher.base
  /\ watcher' = [watcher EXCEPT !.base = onDisk[watcher.path], !.dirty = @ \/ Differs]
  /\ UNCHANGED <<onDisk, inStore, sessionVars, registryVars, ended, overtaken, backfill, poller>>

\* The debounced change is ingested when the ingest before it is over.
Debounced ==
  /\ watcher.on /\ watcher.at = "idle" /\ watcher.dirty
  /\ watcher' = [watcher EXCEPT !.at = "read", !.dirty = FALSE, !.lapsed = FALSE]
  /\ UNCHANGED <<onDisk, inStore, sessionVars, registryVars, ended, overtaken, backfill, poller>>

\* ingestWorkspace: collect, and then replaceSession.
Collect ==
  /\ watcher.on /\ watcher.at = "read"
  /\ watcher' = [watcher EXCEPT !.at = "store", !.read = onDisk[watcher.path]]
  /\ UNCHANGED <<onDisk, inStore, sessionVars, registryVars, ended, overtaken, backfill, poller>>
Persist ==
  /\ watcher.on /\ watcher.at = "store"
  /\ watcher' = [watcher EXCEPT !.at = "idle"]
  /\ inStore' = [inStore EXCEPT ![watcher.path] = watcher.read]
  /\ overtaken' = FALSE
  /\ UNCHANGED <<onDisk, sessionVars, registryVars, ended, backfill, poller>>
\* Either may fail, which is logged.
IngestFails ==
  /\ watcher.on /\ watcher.at # "idle"
  /\ watcher' = [watcher EXCEPT !.at = "idle", !.lapsed = TRUE]
  /\ UNCHANGED <<onDisk, inStore, sessionVars, registryVars, ended, overtaken, backfill, poller>>

-----------------------------------------------------------------------------
(* The hook loop and the poller, which lock out neither each other nor the *)
(* watcher.                                                                *)

StoreOver(r) ==
  /\ inStore' = [inStore EXCEPT ![r.path] = r.read]
  /\ overtaken' = (overtaken \/ r.read < inStore[r.path])

\* The end of a turn: what the signal names is read, stored, and then the poller
\* is stopped.
BackfillCollect(p) ==
  /\ backfill.at = "idle" /\ p = binding /\ onDisk[p] > 0
  /\ backfill' = [at |-> "store", path |-> p, read |-> onDisk[p]]
  /\ UNCHANGED <<onDisk, inStore, sessionVars, registryVars, watcher, ended, overtaken, poller>>
BackfillPersist ==
  /\ backfill.at = "store" /\ backfill' = NoIngest /\ poller' = NoPoller
  /\ \/ StoreOver(backfill)
     \/ UNCHANGED <<inStore, overtaken>> \* the ingest failed
  /\ UNCHANGED <<onDisk, sessionVars, registryVars, watcher, ended>>

\* A prompt opens a turn: the poller starts, if there is none.
PollStart(p) ==
  /\ backfill.at = "idle" /\ p = binding /\ ~poller.on /\ poller' = [NoPoller EXCEPT !.on = TRUE, !.path = p]
  /\ UNCHANGED <<onDisk, inStore, sessionVars, registryVars, watcher, ended, overtaken, backfill>>
PollCollect ==
  /\ poller.on /\ poller.at = "idle" /\ onDisk[poller.path] > 0
  /\ poller' = [poller EXCEPT !.at = "store", !.read = onDisk[poller.path]]
  /\ UNCHANGED <<onDisk, inStore, sessionVars, registryVars, watcher, ended, overtaken, backfill>>
PollPersist ==
  /\ poller.on /\ poller.at = "store"
  /\ poller' = [poller EXCEPT !.at = "idle", !.read = 0] /\ StoreOver(poller)
  /\ UNCHANGED <<onDisk, sessionVars, registryVars, watcher, ended, backfill>>

Next ==
  \/ \E p \in Paths : Write(p) \/ BackfillCollect(p) \/ PollStart(p)
  \/ \E p \in Paths \cup {NoPath} : PushSessions(p)
  \/ Reconcile \/ WatcherEnds \/ Arm \/ Stat \/ Debounced \/ Collect \/ Persist \/ IngestFails
  \/ BackfillPersist \/ PollCollect \/ PollPersist

Spec == Init /\ [][Next]_vars

\* Pushes are handled, timers fire and the ingest goes on; the provider, the
\* hooks and the failures may do as they like.
Fair == Reconcile \/ Arm \/ Stat \/ Debounced \/ Collect \/ Persist
FairSpec == Spec /\ WF_vars(Reconcile) /\ WF_vars(Arm) /\ WF_vars(Stat) /\ WF_vars(Debounced)
                 /\ WF_vars(Collect \/ Persist)

-----------------------------------------------------------------------------

\* What a bound session's provider writes is stored, whatever rebinds, exits,
\* pushes, backfills and polls cross it, unless the watcher or its ingest failed,
\* the write came between the startup reading and the first stat, or an ingest
\* that had read less stored its rows last.
TranscriptArrives ==
  \A p \in Paths : \A v \in 1..MaxWrites :
    (binding = p /\ onDisk[p] = v) ~>
      (inStore[p] = v \/ onDisk[p] # v \/ binding # p \/ ended \/ watcher.lapsed \/ watcher.missed = v \/ overtaken)

\* "the watchFile poll below picks it up the moment the provider creates it, so a
\* start-before-create race no longer drops the watcher": nothing is missed.
NothingMissed == watcher.missed = 0
=============================================================================
