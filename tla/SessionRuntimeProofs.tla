------------------------- MODULE SessionRuntimeProofs -------------------------
(***************************************************************************)
(* Proofs about SessionRuntime, for every number of callers, sessions and  *)
(* processes.                                                              *)
(***************************************************************************)
EXTENDS SessionRuntime, TLAPS

-----------------------------------------------------------------------------
(* Helpers: the statement queue.                                           *)

LEMMA IssueType ==
  ASSUME sql \in Seq(Statements),
         NEW who \in Callers \cup {"exits", "bind"}, NEW s \in Sessions, NEW kind, NEW val,
         \/ kind = "load" /\ val = Null
         \/ kind = "upsert" /\ val \in SessionState
         \/ kind = "state" /\ val \in {"running", "exited"}
         \/ kind = "native" /\ val \in Kids,
         Issue(who, kind, s, val)
  PROVE  sql' \in Seq(Statements)
<1>1. Statement(who, kind, s, val) \in Statements
  BY DEF Statement, Statements
<1> QED BY <1>1 DEF Issue

LEMMA ExecutedType ==
  ASSUME sql \in Seq(Statements), NEW who, NEW kind, Executes(who, kind), Executed
  PROVE  /\ sql' \in Seq(Statements)
         /\ Head(sql) \in Statements
         /\ Head(sql).session \in Sessions
         /\ kind = "upsert" => Head(sql).val \in SessionState
         /\ kind = "native" => Head(sql).val \in Kids
<1>1. sql' \in Seq(Statements) /\ Head(sql) \in Statements
  BY DEF Executes, Executed
<1> QED BY <1>1 DEF Executes, Statements

LEMMA SetRowType ==
  ASSUME rows \in [Sessions -> OrNull(SessionState)], NEW s \in Sessions, NEW field, NEW val,
         \/ field = "state" /\ val \in {"running", "exited"}
         \/ field = "native" /\ val \in Kids,
         SetRow(s, field, val)
  PROVE  rows' \in [Sessions -> OrNull(SessionState)]
<1>1. CASE rows[s] = Null
  BY <1>1 DEF SetRow
<1>2. CASE rows[s] # Null
  <2>1. rows[s] \in SessionState
    BY <1>2 DEF OrNull
  <2>2. [rows[s] EXCEPT ![field] = val] \in SessionState
    BY <2>1 DEF SessionState, OrNull
  <2>3. rows' = [rows EXCEPT ![s] = [rows[s] EXCEPT ![field] = val]]
    BY <1>2 DEF SetRow
  <2> QED BY <2>2, <2>3 DEF OrNull
<1> QED BY <1>1, <1>2

LEMMA TrySetRowType ==
  ASSUME rows \in [Sessions -> OrNull(SessionState)], NEW s \in Sessions, NEW field, NEW val,
         \/ field = "state" /\ val \in {"running", "exited"}
         \/ field = "native" /\ val \in Kids,
         TrySetRow(s, field, val)
  PROVE  rows' \in [Sessions -> OrNull(SessionState)]
  BY SetRowType DEF TrySetRow

\* Helpers: what a caller is doing.
LEMMA GotoType ==
  ASSUME call \in [Callers -> CallState], NEW c \in Callers,
         NEW pc \in {"upsert", "state", "build"}, Goto(c, pc)
  PROVE  call' \in [Callers -> CallState]
<1>1. [call[c] EXCEPT !.pc = pc] \in CallState
  BY DEF CallState
<1>2. call' = [call EXCEPT ![c] = [call[c] EXCEPT !.pc = pc]]
  BY DEF Goto
<1> QED BY <1>1, <1>2

LEMMA ReturnType ==
  ASSUME call \in [Callers -> CallState], NEW c \in Callers, Return(c)
  PROVE  call' \in [Callers -> CallState]
BY DEF Return, Idle, CallState, OrNull

LEMMA ResumingType ==
  ASSUME call \in [Callers -> CallState], NEW c \in Callers, NEW s \in Sessions,
         NEW from \in SessionState, Resuming(c, s, from)
  PROVE  call' \in [Callers -> CallState]
<1>1. from.native \in OrNull(Kids) /\ from.origin \in Origins /\ from.startedAt \in Kids
  BY DEF SessionState
<1> QED BY <1>1 DEF Resuming, CallState, OrNull

-----------------------------------------------------------------------------
(* Steps that move no child, no handle and no session of the store.        *)

LEMMA QuietStep ==
  ASSUME Handles, UNCHANGED <<store, ptys, exits, timers, kids>>,
         binding' = binding \/ binding' = Null
  PROVE  Handles'
<1>1. HandlesOK'
  BY DEF Handles, HandlesOK, Live
<1>2. ExitsOK'
  BY DEF Handles, ExitsOK, Live
<1>3. BindingOK'
  BY DEF Handles, BindingOK
<1>4. TerminalsHeld' /\ RunningIsHeld'
  BY DEF Handles, TerminalsHeld, RunningIsHeld, Live
<1> QED BY <1>1, <1>2, <1>3, <1>4 DEF Handles

LEMMA DeathStep ==
  ASSUME TypeOK, Handles, NEW k \in Kids, Dies(k),
         UNCHANGED <<store, ptys, exits, timers, binding>>
  PROVE  Handles'
<1>1. \A j \in Kids : /\ kids'[j].session = kids[j].session
                      /\ kids'[j].runtime = kids[j].runtime
                      /\ kids'[j].signal = kids[j].signal
                      /\ kids'[j].life = IF j = k THEN "dead" ELSE kids[j].life
  BY DEF Dies, TypeOK
<1>2. Live' \subseteq Live /\ \A j \in Live' : j \in Kids
  BY <1>1 DEF Live
<1>3. \A s \in Sessions : ptys[s] # Null => ptys[s] \in Kids
  BY DEF TypeOK, OrNull
<1>4. HandlesOK'
  <2>1. ptys' = ptys /\ timers' = timers /\ timers \subseteq Kids
    BY DEF TypeOK
  <2>2. HandlesOK
    BY DEF Handles
  <2>3. \A s \in Sessions : ptys'[s] # Null =>
          kids'[ptys'[s]].session = s /\ kids'[ptys'[s]].life # "unborn"
    BY <1>1, <1>3, <2>1, <2>2 DEF HandlesOK
  <2>4. \A j \in Kids : kids'[j].runtime \in {"pty", "rpc"} => kids'[j].session \in Sessions
    BY <1>1, <2>2 DEF HandlesOK
  <2>5. \A j \in timers' : kids'[j].signal # "none" /\ kids'[j].life # "unborn"
    BY <1>1, <2>1, <2>2 DEF HandlesOK
  <2> QED BY <2>3, <2>4, <2>5 DEF HandlesOK
<1>5. ExitsOK'
  BY <1>2 DEF Handles, ExitsOK
<1>6. BindingOK' /\ RunningIsHeld'
  BY DEF Handles, BindingOK, RunningIsHeld
<1>7. TerminalsHeld'
  BY <1>1, <1>2 DEF Handles, TerminalsHeld
<1> QED BY <1>4, <1>5, <1>6, <1>7 DEF Handles

\* A caller a step does not touch keeps what its locks guarantee.
LEMMA OthersKeep ==
  ASSUME TypeOK, NEW w \in Callers, LockHeld(w), call'[w] = call[w],
         ptyLock = w => /\ ptyLock' = w
                        /\ \A s \in Sessions : store[s] = Null => store'[s] = Null
                        /\ \A s \in Sessions : ptys[s] = Null => ptys'[s] = Null,
         rpcLock = w => /\ rpcLock' = w
                        /\ \A s \in Sessions : rpc[s] = Null => rpc'[s] = Null
  PROVE  LockHeld(w)'
BY DEF LockHeld

\* A step of caller c alone.
LEMMA OwnStep ==
  ASSUME TypeOK, LocksHeld, NEW c \in Callers,
         \A w \in Callers \ {c} : call'[w] = call[w],
         UNCHANGED <<store, ptys>>,
         ptyLock' = ptyLock \/ ptyLock \in {c, Null},
         rpcLock' = rpcLock \/ rpcLock \in {c, Null},
         \A s \in Sessions : rpc[s] = Null => rpc'[s] = Null \/ rpcLock = c,
         LockHeld(c)'
  PROVE  LocksHeld'
<1> SUFFICES ASSUME NEW w \in Callers, w # c
             PROVE  LockHeld(w)'
  BY DEF LocksHeld
<1>1. Null \notin Callers
  BY RuntimeAssumption
<1>2. LockHeld(w)
  BY DEF LocksHeld
<1>3. ptyLock = w => ptyLock' = w
  BY <1>1
<1>4. rpcLock = w => rpcLock' = w /\ \A s \in Sessions : rpc[s] = Null => rpc'[s] = Null
  BY <1>1
<1> QED BY <1>2, <1>3, <1>4, OthersKeep

-----------------------------------------------------------------------------
(* The PTY manager.                                                        *)

LEMMA LaunchStep ==
  ASSUME RInv, NEW c \in Callers, NEW origin \in Origins,
         Launch(c, origin)
  PROVE  RInv'
<1>1. Handles'
  BY QuietStep DEF RInv, Launch, memory
<1>2. TypeOK'
  BY DEF RInv, TypeOK, Launch, memory, CallState, SessionState, OrNull, Reusable, Newest
<1>3. LocksHeld'
  <2>1. LockHeld(c)'
    <3>1. PICK t \in Sessions :
            /\ ptys[t] = Null
            /\ call'[c].session = t /\ call'[c].pc = "prepare" /\ call'[c].op = "launch"
            /\ call'[c].origin = origin
      BY DEF RInv, TypeOK, Launch, Handles, RunningIsHeld, FreshSession
    <3>2. ptyLock' = c /\ ptys' = ptys
      BY DEF Launch, memory
    <3> QED BY <3>1, <3>2 DEF LockHeld
  <2> QED BY <2>1, OwnStep DEF RInv, TypeOK, Launch, memory, LockPty
<1> QED BY <1>1, <1>2, <1>3 DEF RInv

LEMMA ResumeHeldStep ==
  ASSUME RInv, NEW c \in Callers, NEW s \in Sessions,
         ResumeHeld(c, s)
  PROVE  RInv'
<1>1. Handles'
  BY QuietStep DEF RInv, ResumeHeld, memory
<1>2. TypeOK'
  BY DEF RInv, TypeOK, ResumeHeld, memory, CallState, SessionState, OrNull, Resuming
<1>3. LocksHeld'
  <2>1. LockHeld(c)'
    BY DEF RInv, TypeOK, LocksHeld, LockHeld, ResumeHeld, CallState, memory, OrNull, Resuming, SessionState
  <2> QED BY <2>1, OwnStep DEF RInv, TypeOK, ResumeHeld, memory, Resuming, LockPty
<1> QED BY <1>1, <1>2, <1>3 DEF RInv

LEMMA ResumeLoadStep ==
  ASSUME RInv, NEW c \in Callers, NEW s \in Sessions,
         ResumeLoad(c, s)
  PROVE  RInv'
<1>1. Handles'
  BY QuietStep DEF RInv, ResumeLoad, memory
<1>2. TypeOK'
  BY IssueType DEF RInv, TypeOK, ResumeLoad, memory, CallState, OrNull, Idle
<1>3. LocksHeld'
  <2>1. LockHeld(c)'
    BY DEF RInv, TypeOK, LocksHeld, LockHeld, ResumeLoad, memory, Idle
  <2> QED BY <2>1, OwnStep DEF RInv, TypeOK, ResumeLoad, memory, LockPty
<1> QED BY <1>1, <1>2, <1>3 DEF RInv

LEMMA ResumeLoadedStep ==
  ASSUME RInv, NEW c \in Callers,
         ResumeLoaded(c)
  PROVE  RInv'
<1>1. Handles'
  BY QuietStep DEF RInv, ResumeLoaded, memory
<1>2. TypeOK'
  <2>1. sql' \in Seq(Statements)
    BY ExecutedType DEF RInv, TypeOK, ResumeLoaded
  <2>2. call[c].session \in Sessions
    BY DEF RInv, LocksHeld, LockHeld, ResumeLoaded
  <2>3. call' \in [Callers -> CallState] /\ ptyLock' \in OrNull(Callers)
    <3>1. CASE rows[call[c].session] # Null /\ rows[call[c].session].native # Null
      <4>1. rows[call[c].session] \in SessionState
        BY <2>2, <3>1 DEF RInv, TypeOK, OrNull
      <4> QED BY <4>1, <2>2, <3>1, ResumingType DEF RInv, TypeOK, ResumeLoaded
    <3>2. CASE ~(rows[call[c].session] # Null /\ rows[call[c].session].native # Null)
      BY <3>2, ReturnType DEF RInv, TypeOK, ResumeLoaded, OrNull
    <3> QED BY <3>1, <3>2
  <2> QED BY <2>1, <2>3 DEF RInv, TypeOK, ResumeLoaded, memory
<1>3. LocksHeld'
  <2>1. LockHeld(c)'
    BY DEF RInv, TypeOK, LocksHeld, LockHeld, Handles, RunningIsHeld, ResumeLoaded, memory, locks, CallState, OrNull, Idle, Resuming, SessionState, Return
  <2>2. ptyLock = c /\ (ptyLock' = ptyLock \/ ptyLock' = Null)
    BY DEF RInv, LocksHeld, LockHeld, ResumeLoaded
  <2>3. \A w \in Callers \ {c} : call'[w] = call[w]
    BY DEF RInv, TypeOK, ResumeLoaded, Resuming, Return
  <2>4. UNCHANGED <<store, ptys, rpc, rpcLock>>
    BY DEF ResumeLoaded, memory
  <2> QED BY <2>1, <2>2, <2>3, <2>4, OwnStep DEF RInv
<1> QED BY <1>1, <1>2, <1>3 DEF RInv

LEMMA UpsertStep ==
  ASSUME RInv, NEW c \in Callers,
         Upsert(c)
  PROVE  RInv'
<1>1. Handles'
  BY QuietStep DEF RInv, Upsert, memory
<1>2. TypeOK'
  <2>1. sql' \in Seq(Statements) /\ Head(sql).session \in Sessions /\ Head(sql).val \in SessionState
    BY ExecutedType DEF RInv, TypeOK, Upsert
  <2>2. rows' \in [Sessions -> OrNull(SessionState)]
    BY <2>1 DEF RInv, TypeOK, Upsert, OrNull, SessionState
  <2> QED BY <2>1, <2>2 DEF RInv, TypeOK, Upsert, Return, memory, locks, CallState, OrNull, Idle
<1>3. LocksHeld'
  <2>1. LockHeld(c)'
    BY DEF RInv, TypeOK, LocksHeld, LockHeld, Upsert, memory, locks, CallState, OrNull, Idle, Return
  <2> QED BY <2>1, OwnStep DEF RInv, TypeOK, Upsert, memory, locks, Return
<1> QED BY <1>1, <1>2, <1>3 DEF RInv

LEMMA LaunchRpcStep ==
  ASSUME RInv, NEW c \in Callers, NEW origin \in Origins,
         LaunchRpc(c, origin)
  PROVE  RInv'
<1>1. Handles'
  BY QuietStep DEF RInv, LaunchRpc, memory
<1>2. TypeOK'
  <2>1. PICK s \in Sessions :
          call' = [call EXCEPT ![c] = [Idle EXCEPT !.pc = "wait", !.op = "launchRpc",
                                                   !.session = s, !.origin = origin]]
    BY DEF LaunchRpc
  <2>2. call' \in [Callers -> CallState]
    BY <2>1 DEF RInv, TypeOK, CallState, OrNull, Idle
  <2> QED BY <2>2 DEF RInv, TypeOK, LaunchRpc, memory, locks
<1>3. LocksHeld'
  <2>1. LockHeld(c)'
    BY DEF RInv, TypeOK, LocksHeld, LockHeld, LaunchRpc, memory, locks, CallState, OrNull, Idle, FreshSession
  <2> QED BY <2>1, OwnStep DEF RInv, TypeOK, LaunchRpc, memory, locks, FreshSession
<1> QED BY <1>1, <1>2, <1>3 DEF RInv

LEMMA ResumeRpcStep ==
  ASSUME RInv, NEW c \in Callers, NEW s \in Sessions,
         ResumeRpc(c, s)
  PROVE  RInv'
<1>1. Handles'
  BY QuietStep DEF RInv, ResumeRpc, memory
<1>2. TypeOK'
  BY IssueType DEF RInv, TypeOK, ResumeRpc, memory, locks, CallState, OrNull, Idle
<1>3. LocksHeld'
  <2>1. LockHeld(c)'
    BY DEF RInv, TypeOK, LocksHeld, LockHeld, ResumeRpc, memory, locks, CallState, OrNull, Idle
  <2> QED BY <2>1, OwnStep DEF RInv, TypeOK, ResumeRpc, memory, locks
<1> QED BY <1>1, <1>2, <1>3 DEF RInv

LEMMA ResumeRpcLoadedStep ==
  ASSUME RInv, NEW c \in Callers,
         ResumeRpcLoaded(c)
  PROVE  RInv'
<1>1. Handles'
  BY QuietStep DEF RInv, ResumeRpcLoaded, memory
<1>2. TypeOK'
  <2>1. sql' \in Seq(Statements)
    BY ExecutedType DEF RInv, TypeOK, ResumeRpcLoaded
  <2>2. call[c].session \in Sessions
    BY DEF RInv, LocksHeld, LockHeld, ResumeRpcLoaded
  <2>3. call' \in [Callers -> CallState]
    <3>1. CASE rows[call[c].session] # Null /\ rows[call[c].session].native # Null
      <4>1. rows[call[c].session] \in SessionState
        BY <2>2, <3>1 DEF RInv, TypeOK, OrNull
      <4> DEFINE row == rows[call[c].session]
      <4>2. row.native \in OrNull(Kids) /\ row.origin \in Origins /\ row.startedAt \in Kids
        BY <4>1 DEF SessionState
      <4>3. [call[c] EXCEPT !.pc = "wait", !.native = row.native, !.origin = row.origin,
                            !.startedAt = row.startedAt] \in CallState
        <5> HIDE DEF row
        <5>1. call[c] \in CallState
          BY DEF RInv, TypeOK
        <5> QED BY <4>2, <5>1 DEF CallState, OrNull
      <4>4. call' = [call EXCEPT ![c] =
                [call[c] EXCEPT !.pc = "wait", !.native = row.native, !.origin = row.origin,
                                !.startedAt = row.startedAt]]
        BY <3>1 DEF ResumeRpcLoaded
      <4> QED BY <4>3, <4>4 DEF RInv, TypeOK
    <3>2. CASE ~(rows[call[c].session] # Null /\ rows[call[c].session].native # Null)
      BY <3>2, ReturnType DEF RInv, TypeOK, ResumeRpcLoaded
    <3> QED BY <3>1, <3>2
  <2> QED BY <2>1, <2>3 DEF RInv, TypeOK, ResumeRpcLoaded, memory, locks
<1>3. LocksHeld'
  <2>1. LockHeld(c)'
    BY DEF RInv, TypeOK, LocksHeld, LockHeld, ResumeRpcLoaded, memory, locks, CallState, OrNull, Idle, SessionState, Return
  <2> QED BY <2>1, OwnStep DEF RInv, TypeOK, ResumeRpcLoaded, memory, locks, SessionState, Return
<1> QED BY <1>1, <1>2, <1>3 DEF RInv

LEMMA RpcAlreadyStep ==
  ASSUME RInv, NEW c \in Callers,
         RpcAlready(c)
  PROVE  RInv'
<1>1. Handles'
  BY QuietStep DEF RInv, RpcAlready, memory
<1>2. TypeOK'
  <2>1. call[c].session \in Sessions
    BY DEF RInv, LocksHeld, LockHeld, RpcAlready
  <2>2. sql' \in Seq(Statements)
    BY <2>1, IssueType DEF RInv, TypeOK, RpcAlready
  <2> QED BY <2>2, GotoType DEF RInv, TypeOK, RpcAlready, memory, locks
<1>3. LocksHeld'
  <2>1. LockHeld(c)'
    BY DEF RInv, TypeOK, LocksHeld, LockHeld, RpcAlready, memory, locks, CallState, OrNull, Idle, Goto
  <2> QED BY <2>1, OwnStep DEF RInv, TypeOK, RpcAlready, memory, locks, Goto
<1> QED BY <1>1, <1>2, <1>3 DEF RInv

LEMMA ResumeRecordedStep ==
  ASSUME RInv, NEW c \in Callers,
         ResumeRecorded(c)
  PROVE  RInv'
<1>1. Handles'
  BY QuietStep DEF RInv, ResumeRecorded, memory
<1>2. TypeOK'
  <2>1. sql' \in Seq(Statements) /\ Head(sql).session \in Sessions
    BY ExecutedType DEF RInv, TypeOK, ResumeRecorded
  <2>2. rows' \in [Sessions -> OrNull(SessionState)]
    BY <2>1, TrySetRowType DEF RInv, TypeOK, ResumeRecorded
  <2> QED BY <2>1, <2>2 DEF RInv, TypeOK, ResumeRecorded, Return, memory, locks, CallState, OrNull, Idle
<1>3. LocksHeld'
  <2>1. LockHeld(c)'
    BY DEF RInv, TypeOK, LocksHeld, LockHeld, ResumeRecorded, memory, locks, CallState, OrNull, Idle, Return
  <2> QED BY <2>1, OwnStep DEF RInv, TypeOK, ResumeRecorded, memory, locks, Return
<1> QED BY <1>1, <1>2, <1>3 DEF RInv

LEMMA StopRpcStep ==
  ASSUME RInv, NEW c \in Callers, NEW s \in Sessions,
         StopRpc(c, s)
  PROVE  RInv'
<1>1. Handles'
  BY QuietStep DEF RInv, StopRpc, memory
<1>2. TypeOK'
  BY IssueType DEF RInv, TypeOK, StopRpc, memory, locks, CallState, OrNull, Idle
<1>3. LocksHeld'
  <2>1. LockHeld(c)'
    BY DEF RInv, TypeOK, LocksHeld, LockHeld, StopRpc, memory, locks, CallState, OrNull, Idle
  <2> QED BY <2>1, OwnStep DEF RInv, TypeOK, StopRpc, memory, locks
<1> QED BY <1>1, <1>2, <1>3 DEF RInv

-----------------------------------------------------------------------------
(* Steps of no caller.                                                     *)

LEMMA NobodysStep ==
  ASSUME TypeOK, LocksHeld, UNCHANGED <<call, ptyLock, rpcLock>>,
         \A s \in Sessions : /\ store[s] = Null => store'[s] = Null
                             /\ ptys[s] = Null => ptys'[s] = Null
                             /\ rpc[s] = Null => rpc'[s] = Null
  PROVE  LocksHeld'
<1> SUFFICES ASSUME NEW w \in Callers
             PROVE  LockHeld(w)'
  BY DEF LocksHeld
<1>1. LockHeld(w)
  BY DEF LocksHeld
<1>2. call'[w] = call[w] /\ ptyLock' = ptyLock /\ rpcLock' = rpcLock
  OBVIOUS
<1>3. /\ \A s \in Sessions : store[s] = Null => store'[s] = Null
      /\ \A s \in Sessions : ptys[s] = Null => ptys'[s] = Null
      /\ \A s \in Sessions : rpc[s] = Null => rpc'[s] = Null
  OBVIOUS
<1> QED BY <1>1, <1>2, <1>3 DEF LockHeld

LEMMA ExitRecordedStep ==
  ASSUME RInv, ExitRecorded
  PROVE  RInv'
<1>1. Handles'
  BY QuietStep DEF RInv, ExitRecorded
<1>2. TypeOK'
  <2>1. sql' \in Seq(Statements) /\ Head(sql).session \in Sessions
    BY ExecutedType DEF RInv, TypeOK, ExitRecorded
  <2>2. rows' \in [Sessions -> OrNull(SessionState)]
    BY <2>1, TrySetRowType DEF RInv, TypeOK, ExitRecorded
  <2> QED BY <2>1, <2>2 DEF RInv, TypeOK, ExitRecorded, locks, OrNull
<1>3. LocksHeld'
  BY NobodysStep DEF RInv, ExitRecorded, locks
<1> QED BY <1>1, <1>2, <1>3 DEF RInv

LEMMA BindRecordedStep ==
  ASSUME RInv, BindRecorded
  PROVE  RInv'
<1>1. Handles'
  BY QuietStep DEF RInv, BindRecorded
<1>2. TypeOK'
  <2>1. sql' \in Seq(Statements) /\ Head(sql).session \in Sessions /\ Head(sql).val \in Kids
    BY ExecutedType DEF RInv, TypeOK, BindRecorded
  <2>2. rows' \in [Sessions -> OrNull(SessionState)]
    BY <2>1, TrySetRowType DEF RInv, TypeOK, BindRecorded
  <2> QED BY <2>1, <2>2 DEF RInv, TypeOK, BindRecorded, locks, OrNull
<1>3. LocksHeld'
  BY NobodysStep DEF RInv, BindRecorded, locks
<1> QED BY <1>1, <1>2, <1>3 DEF RInv

LEMMA DriverDiesStep ==
  ASSUME RInv, NEW k \in Kids, DriverDies(k)
  PROVE  RInv'
<1>1. Handles'
  BY DeathStep DEF RInv, DriverDies, memory
<1>2. TypeOK'
  BY ZenonT(60) DEF RInv, TypeOK, DriverDies, Dies, memory, locks
<1>3. LocksHeld'
  BY NobodysStep DEF RInv, DriverDies, memory, locks
<1> QED BY <1>1, <1>2, <1>3 DEF RInv

LEMMA GraceEndsStep ==
  ASSUME RInv, NEW k \in Kids, GraceEnds(k)
  PROVE  RInv'
<1>1. \A j \in Kids : /\ kids'[j].session = kids[j].session
                      /\ kids'[j].runtime = kids[j].runtime
                      /\ kids'[j].life = kids[j].life
                      /\ kids'[j].signal = kids[j].signal \/ kids'[j].signal = "kill"
  BY DEF RInv, TypeOK, GraceEnds
<1>2. Live' = Live
  BY <1>1 DEF Live
<1>3. \A s \in Sessions : ptys[s] # Null => ptys[s] \in Kids
  BY DEF RInv, TypeOK, OrNull
<1>4. HandlesOK'
  BY <1>1, <1>2, <1>3 DEF RInv, TypeOK, Handles, HandlesOK, GraceEnds, Live
<1>5. ExitsOK' /\ BindingOK' /\ RunningIsHeld'
  BY <1>2 DEF RInv, Handles, ExitsOK, BindingOK, RunningIsHeld, GraceEnds
<1>6. TerminalsHeld'
  BY <1>1, <1>2 DEF RInv, Handles, TerminalsHeld, GraceEnds, Live
<1>7. TypeOK'
  BY DEF RInv, TypeOK, GraceEnds, locks
<1>8. LocksHeld'
  BY NobodysStep DEF RInv, GraceEnds, locks
<1> QED BY <1>4, <1>5, <1>6, <1>7, <1>8 DEF RInv, Handles

\* A child leaves through the exit queue exactly once: it was alive, so its
\* session is not in the queue yet.
LEMMA ExitStep ==
  ASSUME RInv, NEW k \in Kids, Exit(k)
  PROVE  RInv'
<1> DEFINE s == kids[k].session
<1>1. s \in Sessions /\ ptys[s] = k /\ k \in Live
  BY DEF RInv, Handles, HandlesOK, TerminalsHeld, Exit
<1>2. \A j \in Kids : /\ kids'[j].session = kids[j].session
                      /\ kids'[j].runtime = kids[j].runtime
                      /\ kids'[j].signal = kids[j].signal
                      /\ kids'[j].life = IF j = k THEN "dead" ELSE kids[j].life
  BY DEF RInv, TypeOK, Exit, Dies
<1>3. Live' = Live \ {k}
  BY <1>2 DEF Live
<1>4. \A t \in Sessions : ptys[t] # Null => ptys[t] \in Kids
  BY DEF RInv, TypeOK, OrNull
<1>5. /\ exits' \in Seq(Sessions) /\ Len(exits') = Len(exits) + 1
      /\ \A i \in 1..Len(exits) : exits'[i] = exits[i]
      /\ exits'[Len(exits) + 1] = s
  BY <1>1 DEF RInv, TypeOK, Exit
<1>6. ExitsOK'
  <2>1. \A i \in 1..Len(exits) : exits[i] # s
    BY <1>1 DEF RInv, Handles, ExitsOK
  <2>2. Null \notin Kids /\ Len(exits) \in Nat
    BY RuntimeAssumption DEF RInv, TypeOK, Kids
  <2>3. ptys' = ptys
    BY DEF Exit
  <2> HIDE DEF s
  <2>4. \A i \in 1..Len(exits') : ptys'[exits'[i]] # Null /\ ptys'[exits'[i]] \notin Live'
    BY <1>1, <1>3, <1>5, <2>2, <2>3 DEF RInv, Handles, ExitsOK
  <2>5. \A i, j \in 1..Len(exits') : i # j => exits'[i] # exits'[j]
    BY <1>5, <2>1, <2>2 DEF RInv, Handles, ExitsOK
  <2> QED BY <2>4, <2>5 DEF ExitsOK
<1>7. HandlesOK'
  <2>1. ptys' = ptys /\ timers' = timers /\ timers \subseteq Kids
    BY DEF RInv, TypeOK, Exit
  <2>2. HandlesOK
    BY DEF RInv, Handles
  <2> HIDE DEF s
  <2>3. \A t \in Sessions : ptys'[t] # Null =>
          kids'[ptys'[t]].session = t /\ kids'[ptys'[t]].life # "unborn"
    BY <1>2, <1>4, <2>1, <2>2 DEF HandlesOK
  <2>4. \A j \in Kids : kids'[j].runtime \in {"pty", "rpc"} => kids'[j].session \in Sessions
    BY <1>2, <2>2 DEF HandlesOK
  <2>5. \A j \in timers' : kids'[j].signal # "none" /\ kids'[j].life # "unborn"
    BY <1>2, <2>1, <2>2 DEF HandlesOK
  <2> QED BY <2>3, <2>4, <2>5 DEF HandlesOK
<1>8. BindingOK' /\ RunningIsHeld'
  BY DEF RInv, Handles, BindingOK, RunningIsHeld, Exit
<1>9. TerminalsHeld'
  BY <1>2, <1>3 DEF RInv, Handles, TerminalsHeld, Exit, Live
<1>10. TypeOK'
  BY ZenonT(60), <1>5 DEF RInv, TypeOK, Exit, Dies, locks
<1>11. LocksHeld'
  BY NobodysStep DEF RInv, Exit, locks
<1> QED BY <1>6, <1>7, <1>8, <1>9, <1>10, <1>11 DEF RInv, Handles

\* The handle dropped is a dead child's: no live terminal loses its handle.
LEMMA HandleExitStep ==
  ASSUME RInv, HandleExit
  PROVE  RInv'
<1> DEFINE s == Head(exits)
<1>1. s \in Sessions /\ exits \in Seq(Sessions) /\ exits # <<>> /\ s = exits[1] /\ Len(exits) >= 1
  BY DEF RInv, TypeOK, HandleExit
<1>2. ptys[s] # Null /\ ptys[s] \notin Live
  BY <1>1 DEF RInv, Handles, ExitsOK
<1>3. /\ ptys' = [ptys EXCEPT ![s] = Null]
      /\ ptys \in [Sessions -> OrNull(Kids)]
      /\ UNCHANGED <<timers, binding, rpc, rows, kids, call, ptyLock, rpcLock>>
  BY DEF HandleExit, RInv, TypeOK, locks
<1>4. store[s] # Null /\ store[s] \in SessionState
  BY <1>1, <1>2 DEF RInv, Handles, RunningIsHeld, TypeOK, OrNull
<1>5. store' = [store EXCEPT ![s].state = "exited"]
  BY <1>4 DEF HandleExit
<1>6. /\ exits' \in Seq(Sessions) /\ Len(exits') = Len(exits) - 1
      /\ \A i \in 1..Len(exits') : exits'[i] = exits[i + 1]
  BY <1>1 DEF HandleExit
<1> HIDE DEF s
<1>7. [store[s] EXCEPT !.state = "exited"] \in SessionState
  BY <1>4 DEF SessionState
<1>8. store' \in [Sessions -> OrNull(SessionState)]
  BY <1>5, <1>7 DEF RInv, TypeOK, OrNull
<1>9. Null \notin SessionState
  BY RuntimeAssumption
<1>10. TypeOK'
  <2>1. sql' \in Seq(Statements)
    BY <1>1, IssueType DEF HandleExit, RInv, TypeOK, s
  <2>2. exiting' \in OrNull(Sessions)
    BY <1>1 DEF HandleExit, OrNull, s
  <2>3. ptys' \in [Sessions -> OrNull(Kids)]
    BY <1>3 DEF OrNull
  <2> QED BY <1>3, <1>6, <1>8, <2>1, <2>2, <2>3 DEF RInv, TypeOK
<1>11. LocksHeld'
  BY <1>1, <1>3, <1>4, <1>5, NobodysStep DEF RInv, TypeOK
<1>12. HandlesOK'
  BY <1>3 DEF RInv, Handles, HandlesOK, Live
<1>13. ExitsOK'
  <2>1. \A i \in 1..Len(exits') : i + 1 \in 1..Len(exits) /\ exits[i + 1] \in Sessions /\ exits[i + 1] # s
    BY <1>1, <1>6 DEF RInv, Handles, ExitsOK
  <2>2. \A i \in 1..Len(exits') : ptys'[exits'[i]] = ptys[exits[i + 1]]
    BY <1>3, <1>6, <2>1
  <2>3. Live' = Live
    BY <1>3 DEF Live
  <2>4. \A i \in 1..Len(exits') : ptys'[exits'[i]] # Null /\ ptys'[exits'[i]] \notin Live'
    BY <2>1, <2>2, <2>3 DEF RInv, Handles, ExitsOK
  <2>5. \A i, j \in 1..Len(exits') : i # j => exits'[i] # exits'[j]
    BY <1>1, <1>6, <2>1 DEF RInv, Handles, ExitsOK
  <2> QED BY <2>4, <2>5 DEF ExitsOK
<1>14. BindingOK'
  BY <1>3, <1>5, <1>7, <1>9 DEF RInv, TypeOK, Handles, BindingOK, OrNull
<1>15. TerminalsHeld'
  BY <1>2, <1>3 DEF RInv, Handles, HandlesOK, TerminalsHeld, Live
<1>16. RunningIsHeld'
  <2> SUFFICES ASSUME NEW t \in Sessions
               PROVE  (store'[t] # Null /\ store'[t].state = "running") <=> ptys'[t] # Null
    BY DEF RunningIsHeld
  <2>1. CASE t = s
    BY <2>1, <1>3, <1>4, <1>5 DEF RInv, TypeOK, SessionState
  <2>2. CASE t # s
    BY <2>2, <1>3, <1>5 DEF RInv, TypeOK, Handles, RunningIsHeld
  <2> QED BY <2>1, <2>2
<1> QED BY <1>10, <1>11, <1>12, <1>13, <1>14, <1>15, <1>16 DEF RInv, Handles

\* A signal: the handle of a live or dying child.
LEMMA StopPtyStep ==
  ASSUME RInv, NEW c \in Callers, NEW s \in Sessions, StopPty(c, s)
  PROVE  RInv'
<1> DEFINE k == ptys[s]
<1>1. k \in Kids /\ kids[k].life # "unborn"
  BY DEF RInv, TypeOK, OrNull, Handles, HandlesOK, StopPty
<1>2. timers' = timers \cup {k} /\ timers \subseteq Kids
  BY DEF StopPty, RInv, TypeOK
<1>3. \A j \in Kids : /\ kids'[j].session = kids[j].session
                      /\ kids'[j].runtime = kids[j].runtime
                      /\ kids'[j].life = kids[j].life
                      /\ kids'[j].signal = kids[j].signal \/ kids'[j].signal \in {"term", "kill"}
  BY <1>1 DEF RInv, TypeOK, StopPty
<1>4. kids'[k].signal \in {"term", "kill"}
  BY <1>1 DEF RInv, TypeOK, StopPty
<1>5. UNCHANGED <<store, ptys, exits, exiting, binding, rpc, rows, sql, call, ptyLock, rpcLock>>
  BY DEF StopPty, locks
<1>6. \A t \in Sessions : ptys[t] # Null => ptys[t] \in Kids
  BY DEF RInv, TypeOK, OrNull
<1>7. kids' \in [Kids -> [session : OrNull(Sessions), runtime : OrNull({"pty", "rpc"}),
                         native : OrNull(Kids), life : {"unborn", "alive", "dead"},
                         signal : {"none", "term", "kill"}]]
  BY ZenonT(60), <1>1 DEF RInv, TypeOK, StopPty
<1> HIDE DEF k
<1>8. Live' = Live
  BY <1>3 DEF Live
<1>9. HandlesOK'
  <2>1. HandlesOK
    BY DEF RInv, Handles
  <2>2. \A t \in Sessions : ptys'[t] # Null =>
          kids'[ptys'[t]].session = t /\ kids'[ptys'[t]].life # "unborn"
    BY <1>3, <1>5, <1>6, <2>1 DEF HandlesOK
  <2>3. \A j \in Kids : kids'[j].runtime \in {"pty", "rpc"} => kids'[j].session \in Sessions
    BY <1>3, <2>1 DEF HandlesOK
  <2>4. \A j \in timers' : kids'[j].signal # "none" /\ kids'[j].life # "unborn"
    BY <1>1, <1>2, <1>3, <1>4, <2>1 DEF HandlesOK
  <2> QED BY <2>2, <2>3, <2>4 DEF HandlesOK
<1>10. ExitsOK' /\ BindingOK' /\ RunningIsHeld'
  BY <1>5, <1>8 DEF RInv, Handles, ExitsOK, BindingOK, RunningIsHeld
<1>11. TerminalsHeld'
  BY <1>3, <1>5, <1>8 DEF RInv, Handles, TerminalsHeld, Live
<1>12. TypeOK'
  BY <1>1, <1>2, <1>5, <1>7 DEF RInv, TypeOK
<1>13. LocksHeld'
  BY <1>5, NobodysStep DEF RInv
<1> QED BY <1>9, <1>10, <1>11, <1>12, <1>13 DEF RInv, Handles

LEMMA BindStep ==
  ASSUME RInv, NEW k \in Kids, NEW native \in Kids, Bind(k, native)
  PROVE  RInv'
<1> DEFINE s == kids[k].session
<1>1. s \in OrNull(Sessions) /\ store[s] # Null
  BY DEF RInv, TypeOK, Bind
<1>2. UNCHANGED <<store, ptys, exits, exiting, timers, rpc, rows, sql, kids, call, ptyLock, rpcLock>>
  BY DEF Bind, locks
<1>3. binding' = [session |-> s, native |-> native, seen |-> store[s], pc |-> "update"]
  BY DEF Bind
<1>4. HandlesOK' /\ TerminalsHeld' /\ RunningIsHeld' /\ ExitsOK'
  BY <1>2 DEF RInv, Handles, HandlesOK, TerminalsHeld, RunningIsHeld, ExitsOK, Live
<1>5. BindingOK'
  BY <1>1, <1>2, <1>3 DEF BindingOK
<1>6. s \in Sessions /\ store[s] \in SessionState
  <2>1. s \in Sessions
    BY DEF RInv, Handles, HandlesOK, Bind
  <2> QED BY <1>1, <2>1 DEF RInv, TypeOK, OrNull
<1>7. TypeOK'
  BY <1>2, <1>3, <1>6 DEF RInv, TypeOK, OrNull
<1>8. LocksHeld'
  BY <1>2, NobodysStep DEF RInv
<1> QED BY <1>4, <1>5, <1>7, <1>8 DEF RInv, Handles

LEMMA BindUpdateStep ==
  ASSUME RInv, BindUpdate
  PROVE  RInv'
<1> DEFINE s == binding.session
           native == binding.native
<1>1. binding \in [session : Sessions, native : Kids, seen : SessionState, pc : {"update", "record"}]
  BY DEF RInv, TypeOK, OrNull, BindUpdate
<1>2. s \in Sessions /\ native \in Kids
  BY <1>1
<1>3. store[s] # Null /\ store[s] \in SessionState /\ Null \notin SessionState
  BY <1>2, RuntimeAssumption DEF RInv, Handles, BindingOK, BindUpdate, TypeOK, OrNull
<1>4. store' = [store EXCEPT ![s] = [store[s] EXCEPT !.native = native]]
  BY DEF BindUpdate
<1>5. UNCHANGED <<ptys, exits, exiting, timers, rpc, rows, kids, call, ptyLock, rpcLock>>
  BY DEF BindUpdate, locks
<1>6. binding' = [binding EXCEPT !.pc = "record"]
  BY DEF BindUpdate
<1>7. sql' \in Seq(Statements)
  BY <1>2, IssueType DEF RInv, TypeOK, BindUpdate
<1> HIDE DEF s, native
<1>8. [store[s] EXCEPT !.native = native] \in SessionState
  BY <1>2, <1>3 DEF SessionState, OrNull
<1>9. store' \in [Sessions -> OrNull(SessionState)]
  BY <1>2, <1>4, <1>8 DEF RInv, TypeOK, OrNull
<1>10. \A t \in Sessions : /\ store'[t] = Null <=> store[t] = Null
                           /\ store[t] # Null => store'[t].state = store[t].state
  BY <1>2, <1>3, <1>4, <1>8 DEF RInv, TypeOK, SessionState
<1>11. TypeOK'
  BY <1>1, <1>5, <1>6, <1>7, <1>9 DEF RInv, TypeOK, OrNull
<1>12. LocksHeld'
  BY <1>5, <1>10, NobodysStep DEF RInv
<1>13. HandlesOK' /\ ExitsOK' /\ TerminalsHeld'
  BY <1>5 DEF RInv, Handles, HandlesOK, ExitsOK, TerminalsHeld, Live
<1>14. BindingOK'
  <2>1. binding'.session = s
    BY <1>1, <1>6 DEF s
  <2> QED BY <1>2, <1>3, <1>10, <2>1 DEF BindingOK
<1>15. RunningIsHeld'
  <2> SUFFICES ASSUME NEW t \in Sessions
               PROVE  (store'[t] # Null /\ store'[t].state = "running") <=> ptys'[t] # Null
    BY DEF RunningIsHeld
  <2>1. (store[t] # Null /\ store[t].state = "running") <=> ptys[t] # Null
    BY DEF RInv, Handles, RunningIsHeld
  <2>2. ptys' = ptys
    BY <1>5
  <2> QED BY <1>10, <2>1, <2>2
<1> QED BY <1>11, <1>12, <1>13, <1>14, <1>15 DEF RInv, Handles

LEMMA RestartStep ==
  ASSUME RInv, Restart
  PROVE  RInv'
<1>1. \A k \in Kids : kids'[k].life # "alive"
  BY DEF RInv, TypeOK, Restart, Live
<1>2. HandlesOK' /\ TerminalsHeld'
  <2>1. \A k \in Kids : kids'[k].runtime = kids[k].runtime /\ kids'[k].session = kids[k].session
    BY DEF RInv, TypeOK, Restart
  <2> QED BY <1>1, <2>1 DEF RInv, Handles, HandlesOK, TerminalsHeld, Live, Restart
<1>3. ExitsOK' /\ BindingOK' /\ RunningIsHeld'
  BY DEF ExitsOK, BindingOK, RunningIsHeld, Restart
<1>4. TypeOK'
  <2>1. kids' \in [Kids -> [session : OrNull(Sessions), runtime : OrNull({"pty", "rpc"}),
                           native : OrNull(Kids), life : {"unborn", "alive", "dead"},
                           signal : {"none", "term", "kill"}]]
    BY ZenonT(60) DEF RInv, TypeOK, Restart
  <2>2. call' \in [Callers -> CallState]
    BY DEF Restart, Idle, CallState, OrNull
  <2> QED BY <2>1, <2>2 DEF RInv, TypeOK, Restart, OrNull
<1>5. LocksHeld'
  BY DEF LocksHeld, LockHeld, Restart, Idle
<1> QED BY <1>2, <1>3, <1>4, <1>5 DEF RInv, Handles

-----------------------------------------------------------------------------
(* Births.                                                                 *)

\* The session that gets a handle had none, and is not in the exit queue.
LEMMA SpawnStep ==
  ASSUME RInv, NEW c \in Callers, NEW k \in Kids, Spawn(c, k)
  PROVE  RInv'
<1> DEFINE s == call[c].session
           session == [state |-> "running", native |-> call[c].native, origin |-> call[c].origin,
                       startedAt |-> IF call[c].op = "launch" THEN k ELSE call[c].startedAt]
<1>1. /\ s \in Sessions /\ ptys[s] = Null /\ ptyLock = c
      /\ call[c].origin \in Origins /\ call[c].native \in OrNull(Kids)
      /\ call[c].op # "launch" => call[c].startedAt \in Kids
  BY DEF RInv, LocksHeld, LockHeld, TypeOK, CallState, Spawn
<1>2. session \in SessionState
  BY <1>1 DEF SessionState
<1>3. store' = [store EXCEPT ![s] = session] /\ ptys' = [ptys EXCEPT ![s] = k]
  BY DEF Spawn
<1>4. UNCHANGED <<exits, exiting, timers, binding, rpc, rows, ptyLock, rpcLock>>
  BY DEF Spawn, locks
<1>5. kids[k].life = "unborn"
  BY DEF Spawn, IsNext, Unspawned
<1>6. /\ kids' = [kids EXCEPT ![k] = kids'[k]]
      /\ kids'[k].session = s /\ kids'[k].runtime = "pty" /\ kids'[k].life = "alive"
      /\ kids' \in [Kids -> [session : OrNull(Sessions), runtime : OrNull({"pty", "rpc"}),
                            native : OrNull(Kids), life : {"unborn", "alive", "dead"},
                            signal : {"none", "term", "kill"}]]
  BY <1>1 DEF RInv, TypeOK, Spawn, Born, OrNull
<1>7. sql' \in Seq(Statements)
  BY <1>1, <1>2, IssueType DEF RInv, TypeOK, Spawn
<1>8. call' \in [Callers -> CallState]
  BY GotoType DEF RInv, TypeOK, Spawn
<1>9. call'[c].pc = "upsert" /\ \A w \in Callers \ {c} : call'[w] = call[w]
  BY DEF RInv, TypeOK, Spawn, Goto
<1> HIDE DEF s, session
<1>10. Null \notin SessionState /\ Null \notin Kids /\ session.state = "running"
  BY RuntimeAssumption DEF session
<1>11. \A t \in Sessions : ptys[t] # Null => ptys[t] \in Kids
  BY DEF RInv, TypeOK, OrNull
<1>12. TypeOK'
  BY <1>1, <1>2, <1>3, <1>4, <1>6, <1>7, <1>8 DEF RInv, TypeOK, OrNull
<1>13. LocksHeld'
  <2> SUFFICES ASSUME NEW w \in Callers
               PROVE  LockHeld(w)'
    BY DEF LocksHeld
  <2>1. CASE w = c
    BY <2>1, <1>9 DEF LockHeld
  <2>2. CASE w # c
    <3>1. LockHeld(w) /\ ptyLock # w
      BY <2>2, <1>1 DEF RInv, LocksHeld
    <3> QED BY <2>2, <3>1, <1>4, <1>9, OthersKeep DEF RInv
  <2> QED BY <2>1, <2>2
<1>14. HandlesOK'
  <2>1. HandlesOK
    BY DEF RInv, Handles
  <2>2. \A t \in Sessions : ptys'[t] # Null =>
          kids'[ptys'[t]].session = t /\ kids'[ptys'[t]].life # "unborn"
    <3> SUFFICES ASSUME NEW t \in Sessions, ptys'[t] # Null
                 PROVE  kids'[ptys'[t]].session = t /\ kids'[ptys'[t]].life # "unborn"
      OBVIOUS
    <3>1. CASE t = s
      BY <3>1, <1>1, <1>3, <1>6 DEF RInv, TypeOK
    <3>2. CASE t # s
      <4>1. ptys'[t] = ptys[t] /\ ptys[t] \in Kids /\ kids[ptys[t]].life # "unborn"
             /\ kids[ptys[t]].session = t
        BY <3>2, <1>3, <1>11, <2>1 DEF HandlesOK, RInv, TypeOK
      <4>2. kids'[ptys[t]] = kids[ptys[t]]
        BY <4>1, <1>5, <1>6 DEF RInv, TypeOK
      <4> QED BY <4>1, <4>2
    <3> QED BY <3>1, <3>2
  <2>3. \A j \in Kids : kids'[j].runtime \in {"pty", "rpc"} => kids'[j].session \in Sessions
    BY <1>1, <1>6, <2>1 DEF HandlesOK, RInv, TypeOK
  <2>4. \A j \in timers' : kids'[j].signal # "none" /\ kids'[j].life # "unborn"
    BY <1>4, <1>5, <1>6, <2>1 DEF HandlesOK, RInv, TypeOK
  <2> QED BY <2>2, <2>3, <2>4 DEF HandlesOK
<1>15. Live' = Live \cup {k}
  BY <1>5, <1>6 DEF Live, RInv, TypeOK
<1>16. ExitsOK'
  <2>1. ExitsOK /\ exits \in Seq(Sessions) /\ exits' = exits
    BY <1>4 DEF RInv, Handles, TypeOK
  <2>2. \A i \in 1..Len(exits) : exits[i] \in Sessions /\ ptys[exits[i]] # Null
                                /\ ptys[exits[i]] \notin Live
    BY <2>1 DEF ExitsOK
  <2>3. \A i \in 1..Len(exits) : ptys'[exits[i]] = ptys[exits[i]] /\ ptys[exits[i]] # k
    <3> SUFFICES ASSUME NEW i \in 1..Len(exits)
                 PROVE  ptys'[exits[i]] = ptys[exits[i]] /\ ptys[exits[i]] # k
      OBVIOUS
    <3>1. exits[i] # s
      BY <2>2, <1>1
    <3>2. kids[ptys[exits[i]]].life # "unborn"
      BY <2>2 DEF RInv, Handles, HandlesOK
    <3> QED BY <3>1, <3>2, <2>2, <1>3, <1>5 DEF RInv, TypeOK
  <2> QED BY <2>1, <2>2, <2>3, <1>15 DEF ExitsOK
<1>17. BindingOK'
  BY <1>1, <1>2, <1>3, <1>4, <1>10 DEF RInv, TypeOK, Handles, BindingOK, OrNull
<1>18. TerminalsHeld'
  <2> SUFFICES ASSUME NEW j \in Live', kids'[j].runtime = "pty"
               PROVE  ptys'[kids'[j].session] = j
    BY DEF TerminalsHeld
  <2>1. CASE j = k
    BY <2>1, <1>1, <1>3, <1>6 DEF RInv, TypeOK
  <2>2. CASE j # k
    <3>1. j \in Live /\ j \in Kids /\ kids'[j] = kids[j]
      BY <2>2, <1>6, <1>15 DEF Live, RInv, TypeOK
    <3>2. ptys[kids[j].session] = j /\ kids[j].session \in Sessions
      BY <3>1 DEF RInv, Handles, HandlesOK, TerminalsHeld
    <3> QED BY <3>1, <3>2, <1>1, <1>3, <1>10 DEF RInv, TypeOK
  <2> QED BY <2>1, <2>2
<1>19. RunningIsHeld'
  <2> SUFFICES ASSUME NEW t \in Sessions
               PROVE  (store'[t] # Null /\ store'[t].state = "running") <=> ptys'[t] # Null
    BY DEF RunningIsHeld
  <2>1. CASE t = s
    BY <2>1, <1>1, <1>2, <1>3, <1>10 DEF RInv, TypeOK
  <2>2. CASE t # s
    BY <2>2, <1>3 DEF RInv, TypeOK, Handles, RunningIsHeld
  <2> QED BY <2>1, <2>2
<1> QED BY <1>12, <1>13, <1>14, <1>16, <1>17, <1>18, <1>19 DEF RInv, Handles

LEMMA RpcBuildStep ==
  ASSUME RInv, NEW c \in Callers, NEW k \in Kids, RpcBuild(c, k)
  PROVE  RInv'
<1> DEFINE s == call[c].session
<1>1. s \in Sessions /\ call[c].native \in OrNull(Kids) /\ rpcLock = Null /\ rpc[s] = Null
      /\ call[c].origin \in Origins
  BY DEF RInv, LocksHeld, LockHeld, TypeOK, CallState, RpcBuild
<1>2. kids[k].life = "unborn"
  BY DEF RpcBuild, IsNext, Unspawned
<1>3. UNCHANGED <<store, ptys, exits, exiting, timers, binding, rpc, rows, sql, ptyLock>>
  BY DEF RpcBuild, memory
<1>4. /\ kids' = [kids EXCEPT ![k] = kids'[k]]
      /\ kids'[k].session = s /\ kids'[k].runtime = "rpc" /\ kids'[k].life = "alive"
      /\ kids' \in [Kids -> [session : OrNull(Sessions), runtime : OrNull({"pty", "rpc"}),
                            native : OrNull(Kids), life : {"unborn", "alive", "dead"},
                            signal : {"none", "term", "kill"}]]
  BY <1>1 DEF RInv, TypeOK, RpcBuild, Born, OrNull
<1>5. /\ call' = [call EXCEPT ![c] = [call[c] EXCEPT !.pc = "build", !.kid = k]]
      /\ rpcLock' = c
  BY DEF RpcBuild
<1>6. [call[c] EXCEPT !.pc = "build", !.kid = k] \in CallState
  <2>1. call[c] \in CallState
    BY DEF RInv, TypeOK
  <2> QED BY <2>1 DEF CallState, OrNull
<1> HIDE DEF s
<1>7. \A t \in Sessions : ptys[t] # Null => ptys[t] \in Kids
  BY DEF RInv, TypeOK, OrNull
<1>8. TypeOK'
  BY <1>3, <1>4, <1>5, <1>6 DEF RInv, TypeOK, OrNull
<1>9. LocksHeld'
  <2>1. LockHeld(c)'
    <3>1. call'[c].pc = "build" /\ call'[c].session = s /\ call'[c].kid = k
          /\ call'[c].origin = call[c].origin
      BY <1>5 DEF RInv, TypeOK, CallState, s
    <3> QED BY <1>1, <1>3, <1>5, <3>1 DEF LockHeld
  <2>2. \A w \in Callers \ {c} : call'[w] = call[w]
    BY <1>5 DEF RInv, TypeOK
  <2> QED BY <1>1, <1>3, <2>1, <2>2, OwnStep DEF RInv
<1>10. HandlesOK'
  <2>1. HandlesOK
    BY DEF RInv, Handles
  <2>2. \A t \in Sessions : ptys'[t] # Null =>
          kids'[ptys'[t]].session = t /\ kids'[ptys'[t]].life # "unborn"
    BY <1>2, <1>3, <1>4, <1>7, <2>1 DEF HandlesOK, RInv, TypeOK
  <2>3. \A j \in Kids : kids'[j].runtime \in {"pty", "rpc"} => kids'[j].session \in Sessions
    BY <1>1, <1>4, <2>1 DEF HandlesOK, RInv, TypeOK
  <2>4. \A j \in timers' : kids'[j].signal # "none" /\ kids'[j].life # "unborn"
    BY <1>2, <1>3, <1>4, <2>1 DEF HandlesOK, RInv, TypeOK
  <2> QED BY <2>2, <2>3, <2>4 DEF HandlesOK
<1>11. Live' = Live \cup {k}
  BY <1>2, <1>4 DEF Live, RInv, TypeOK
<1>12. ExitsOK'
  <2>1. ExitsOK /\ exits \in Seq(Sessions) /\ exits' = exits /\ ptys' = ptys
    BY <1>3 DEF RInv, Handles, TypeOK
  <2>2. \A i \in 1..Len(exits) : ptys[exits[i]] # k
    BY <2>1, <1>2 DEF ExitsOK, RInv, Handles, HandlesOK
  <2> QED BY <2>1, <2>2, <1>11 DEF ExitsOK
<1>13. BindingOK' /\ RunningIsHeld'
  BY <1>3 DEF RInv, Handles, BindingOK, RunningIsHeld
<1>14. TerminalsHeld'
  <2> SUFFICES ASSUME NEW j \in Live', kids'[j].runtime = "pty"
               PROVE  ptys'[kids'[j].session] = j
    BY DEF TerminalsHeld
  <2>1. j # k
    BY <1>4
  <2>2. j \in Live /\ kids'[j] = kids[j]
    BY <2>1, <1>4, <1>11 DEF Live, RInv, TypeOK
  <2> QED BY <2>2, <1>3 DEF RInv, Handles, TerminalsHeld
<1> QED BY <1>8, <1>9, <1>10, <1>12, <1>13, <1>14 DEF RInv, Handles

\* The lock is held since the idempotency check: the session has no driver yet.
LEMMA RpcBuiltStep ==
  ASSUME RInv, NEW c \in Callers, RpcBuilt(c)
  PROVE  RInv'
<1> DEFINE s == call[c].session
           k == call[c].kid
<1>1. s \in Sessions /\ k \in Kids /\ call[c].origin \in Origins /\ rpcLock = c
  BY DEF RInv, LocksHeld, LockHeld, RpcBuilt
<1>2. Handles'
  BY QuietStep DEF RInv, RpcBuilt
<1>3. sql' \in Seq(Statements) /\ call' \in [Callers -> CallState]
  <2>1. CASE call[c].op = "launchRpc"
    <3>1. [state |-> "running", native |-> k, origin |-> call[c].origin, startedAt |-> k]
            \in SessionState
      BY <1>1 DEF SessionState, OrNull
    <3> QED BY <1>1, <2>1, <3>1, IssueType, GotoType DEF RInv, TypeOK, RpcBuilt
  <2>2. CASE call[c].op # "launchRpc"
    BY <1>1, <2>2, IssueType, GotoType DEF RInv, TypeOK, RpcBuilt
  <2> QED BY <2>1, <2>2
<1>4. TypeOK'
  BY <1>1, <1>3 DEF RInv, TypeOK, RpcBuilt, OrNull
<1>5. LocksHeld'
  <2>1. call'[c].pc \in {"upsert", "state"} /\ \A w \in Callers \ {c} : call'[w] = call[w]
    <3>1. Goto(c, "upsert") \/ Goto(c, "state")
      BY DEF RpcBuilt
    <3> QED BY <3>1 DEF RInv, TypeOK, CallState, Goto
  <2>2. LockHeld(c)'
    BY <2>1 DEF LockHeld
  <2>3. UNCHANGED <<store, ptys, ptyLock>> /\ rpcLock' = Null
    BY DEF RpcBuilt
  <2> QED BY <1>1, <2>1, <2>2, <2>3, OwnStep DEF RInv
<1> QED BY <1>2, <1>4, <1>5 DEF RInv

LEMMA RpcBuildFailsStep ==
  ASSUME RInv, NEW c \in Callers, RpcBuildFails(c)
  PROVE  RInv'
<1>1. call[c].kid \in Kids /\ rpcLock = c
  BY DEF RInv, LocksHeld, LockHeld, RpcBuildFails
<1>2. Handles'
  BY <1>1, DeathStep DEF RInv, RpcBuildFails, memory
<1>3. TypeOK'
  <2>1. call' \in [Callers -> CallState]
    BY ReturnType DEF RInv, TypeOK, RpcBuildFails
  <2>2. kids' \in [Kids -> [session : OrNull(Sessions), runtime : OrNull({"pty", "rpc"}),
                           native : OrNull(Kids), life : {"unborn", "alive", "dead"},
                           signal : {"none", "term", "kill"}]]
    BY ZenonT(60), <1>1 DEF RInv, TypeOK, RpcBuildFails, Dies
  <2> QED BY <1>1, <2>1, <2>2 DEF RInv, TypeOK, RpcBuildFails, memory, OrNull
<1>4. LocksHeld'
  <2>1. call'[c].pc = "idle" /\ \A w \in Callers \ {c} : call'[w] = call[w]
    BY DEF RInv, TypeOK, RpcBuildFails, Return, Idle
  <2>2. LockHeld(c)'
    BY <2>1 DEF LockHeld
  <2> QED BY <1>1, <2>1, <2>2, OwnStep DEF RInv, RpcBuildFails, memory
<1> QED BY <1>2, <1>3, <1>4 DEF RInv

\* Taking a driver down, if the session has one.
LEMMA TornStep ==
  ASSUME RInv, NEW s \in Sessions, Torn(s)
  PROVE  /\ Handles'
         /\ rpc' \in [Sessions -> OrNull(Kids)]
         /\ kids' \in [Kids -> [session : OrNull(Sessions), runtime : OrNull({"pty", "rpc"}),
                               native : OrNull(Kids), life : {"unborn", "alive", "dead"},
                               signal : {"none", "term", "kill"}]]
         /\ \A t \in Sessions : rpc[t] = Null => rpc'[t] = Null
         /\ UNCHANGED <<store, ptys, exits, exiting, timers, binding>>
<1>1. UNCHANGED <<store, ptys, exits, exiting, timers, binding>>
  BY DEF Torn
<1>2. rpc' = [rpc EXCEPT ![s] = Null]
  BY DEF Torn
<1>3. rpc' \in [Sessions -> OrNull(Kids)] /\ \A t \in Sessions : rpc[t] = Null => rpc'[t] = Null
  BY <1>2 DEF RInv, TypeOK, OrNull
<1>4. CASE rpc[s] = Null
  <2>1. kids' = kids
    BY <1>4 DEF Torn
  <2> QED BY <1>1, <1>3, <2>1, QuietStep DEF RInv, TypeOK
<1>5. CASE rpc[s] # Null
  <2>1. rpc[s] \in Kids /\ Dies(rpc[s])
    BY <1>5 DEF Torn, Dies, RInv, TypeOK, OrNull
  <2>2. Handles'
    BY <1>1, <2>1, DeathStep DEF RInv
  <2> QED BY ZenonT(60), <1>1, <1>3, <2>1, <2>2 DEF Dies, RInv, TypeOK
<1> QED BY <1>4, <1>5

LEMMA UpsertFailsStep ==
  ASSUME RInv, NEW c \in Callers, UpsertFails(c)
  PROVE  RInv'
<1> DEFINE s == Head(sql).session
<1>1. s \in Sessions /\ sql' \in Seq(Statements)
  BY ExecutedType DEF RInv, TypeOK, UpsertFails
<1>2. /\ Handles'
      /\ rpc' \in [Sessions -> OrNull(Kids)]
      /\ kids' \in [Kids -> [session : OrNull(Sessions), runtime : OrNull({"pty", "rpc"}),
                            native : OrNull(Kids), life : {"unborn", "alive", "dead"},
                            signal : {"none", "term", "kill"}]]
      /\ \A t \in Sessions : rpc[t] = Null => rpc'[t] = Null
      /\ UNCHANGED <<store, ptys, exits, exiting, timers, binding>>
  <2>1. CASE call[c].op = "launchRpc"
    BY <1>1, <2>1, TornStep DEF UpsertFails
  <2>2. CASE call[c].op # "launchRpc"
    <3>1. UNCHANGED <<memory, kids>>
      BY <2>2 DEF UpsertFails
    <3> QED BY <3>1, QuietStep DEF RInv, TypeOK, memory
  <2> QED BY <2>1, <2>2
<1>3. call' \in [Callers -> CallState] /\ ptyLock' \in OrNull(Callers)
  BY ReturnType DEF RInv, TypeOK, UpsertFails, OrNull
<1>4. TypeOK'
  BY <1>1, <1>2, <1>3 DEF RInv, TypeOK, UpsertFails
<1>5. LocksHeld'
  <2>1. call'[c].pc = "idle" /\ \A w \in Callers \ {c} : call'[w] = call[w]
    BY DEF RInv, TypeOK, UpsertFails, Return, Idle
  <2>2. LockHeld(c)'
    BY <2>1 DEF LockHeld
  <2>3. (ptyLock' = ptyLock \/ ptyLock = c) /\ rpcLock' = rpcLock
    BY DEF UpsertFails
  <2> QED BY <1>2, <2>1, <2>2, <2>3, OwnStep DEF RInv
<1> QED BY <1>2, <1>4, <1>5 DEF RInv

LEMMA RpcStoppedStep ==
  ASSUME RInv, NEW c \in Callers, RpcStopped(c)
  PROVE  RInv'
<1> DEFINE s == Head(sql).session
<1>1. s \in Sessions /\ sql' \in Seq(Statements)
  BY ExecutedType DEF RInv, TypeOK, RpcStopped
<1>2. rows' \in [Sessions -> OrNull(SessionState)]
  BY <1>1, SetRowType DEF RInv, TypeOK, RpcStopped
<1>3. /\ Handles'
      /\ rpc' \in [Sessions -> OrNull(Kids)]
      /\ kids' \in [Kids -> [session : OrNull(Sessions), runtime : OrNull({"pty", "rpc"}),
                            native : OrNull(Kids), life : {"unborn", "alive", "dead"},
                            signal : {"none", "term", "kill"}]]
      /\ \A t \in Sessions : rpc[t] = Null => rpc'[t] = Null
      /\ UNCHANGED <<store, ptys, exits, exiting, timers, binding>>
  BY <1>1, TornStep DEF RpcStopped
<1>4. call' \in [Callers -> CallState]
  BY ReturnType DEF RInv, TypeOK, RpcStopped
<1>5. UNCHANGED <<ptyLock, rpcLock>>
  BY DEF RpcStopped, locks
<1>6. TypeOK'
  BY <1>1, <1>2, <1>3, <1>4, <1>5 DEF RInv, TypeOK
<1>7. LocksHeld'
  <2>1. call'[c].pc = "idle" /\ \A w \in Callers \ {c} : call'[w] = call[w]
    BY DEF RInv, TypeOK, RpcStopped, Return, Idle
  <2>2. LockHeld(c)'
    BY <2>1 DEF LockHeld
  <2> QED BY <1>3, <1>5, <2>1, <2>2, OwnStep DEF RInv
<1> QED BY <1>3, <1>6, <1>7 DEF RInv

LEMMA RpcStoppedUnrecordedStep ==
  ASSUME RInv, NEW c \in Callers, RpcStoppedUnrecorded(c)
  PROVE  RInv'
<1> DEFINE s == Head(sql).session
<1>1. s \in Sessions /\ sql' \in Seq(Statements)
  BY ExecutedType DEF RInv, TypeOK, RpcStoppedUnrecorded
<1>2. rows' \in [Sessions -> OrNull(SessionState)]
  BY DEF RInv, TypeOK, RpcStoppedUnrecorded
<1>3. /\ Handles'
      /\ rpc' \in [Sessions -> OrNull(Kids)]
      /\ kids' \in [Kids -> [session : OrNull(Sessions), runtime : OrNull({"pty", "rpc"}),
                            native : OrNull(Kids), life : {"unborn", "alive", "dead"},
                            signal : {"none", "term", "kill"}]]
      /\ \A t \in Sessions : rpc[t] = Null => rpc'[t] = Null
      /\ UNCHANGED <<store, ptys, exits, exiting, timers, binding>>
  BY <1>1, TornStep DEF RpcStoppedUnrecorded
<1>4. call' \in [Callers -> CallState]
  BY ReturnType DEF RInv, TypeOK, RpcStoppedUnrecorded
<1>5. UNCHANGED <<ptyLock, rpcLock>>
  BY DEF RpcStoppedUnrecorded, locks
<1>6. TypeOK'
  BY <1>1, <1>2, <1>3, <1>4, <1>5 DEF RInv, TypeOK
<1>7. LocksHeld'
  <2>1. call'[c].pc = "idle" /\ \A w \in Callers \ {c} : call'[w] = call[w]
    BY DEF RInv, TypeOK, RpcStoppedUnrecorded, Return, Idle
  <2>2. LockHeld(c)'
    BY <2>1 DEF LockHeld
  <2> QED BY <1>3, <1>5, <2>1, <2>2, OwnStep DEF RInv
<1> QED BY <1>3, <1>6, <1>7 DEF RInv

\* An interrupted caller takes its statement with it.
LEMMA ReloadStep ==
  ASSUME RInv, NEW c \in Callers, Reload(c)
  PROVE  RInv'
<1>1. UNCHANGED <<store, ptys, exits, exiting, timers, binding, rpc, rows, kids>>
  BY DEF Reload, memory
<1>2. Handles'
  BY <1>1, QuietStep DEF RInv
<1>3. sql' \in Seq(Statements)
  <2>1. CASE sql' = sql
    BY <2>1 DEF RInv, TypeOK
  <2>2. ASSUME NEW i \in 1..Len(sql),
               sql' = SubSeq(sql, 1, i - 1) \o SubSeq(sql, i + 1, Len(sql))
        PROVE  sql' \in Seq(Statements)
    <3>1. sql \in Seq(Statements) /\ Len(sql) \in Nat /\ i \in Nat
      BY DEF RInv, TypeOK
    <3>2. SubSeq(sql, 1, i - 1) \in Seq(Statements)
      BY <3>1
    <3>3. SubSeq(sql, i + 1, Len(sql)) \in Seq(Statements)
      BY <3>1
    <3> QED BY <2>2, <3>2, <3>3
  <2> QED BY <2>1, <2>2 DEF Reload
<1>4. call' \in [Callers -> CallState] /\ ptyLock' \in OrNull(Callers) /\ rpcLock' \in OrNull(Callers)
  BY ReturnType DEF RInv, TypeOK, Reload, OrNull
<1>5. TypeOK'
  BY <1>1, <1>3, <1>4 DEF RInv, TypeOK
<1>6. LocksHeld'
  <2>1. call'[c].pc = "idle" /\ \A w \in Callers \ {c} : call'[w] = call[w]
    BY DEF RInv, TypeOK, Reload, Return, Idle
  <2>2. LockHeld(c)'
    BY <2>1 DEF LockHeld
  <2>3. (ptyLock' = ptyLock \/ ptyLock = c) /\ (rpcLock' = rpcLock \/ rpcLock = c)
    BY DEF Reload
  <2> QED BY <1>1, <2>1, <2>2, <2>3, OwnStep DEF RInv
<1> QED BY <1>2, <1>5, <1>6 DEF RInv

-----------------------------------------------------------------------------
(* The theorems.                                                           *)

LEMMA InitHolds == Init => RInv
<1> SUFFICES ASSUME Init
             PROVE  RInv
  OBVIOUS
<1>1. TypeOK
  <2>1. Idle \in CallState
    BY DEF Idle, CallState, OrNull
  <2>2. Unborn \in [session : OrNull(Sessions), runtime : OrNull({"pty", "rpc"}),
                    native : OrNull(Kids), life : {"unborn", "alive", "dead"},
                    signal : {"none", "term", "kill"}]
    BY DEF Unborn, OrNull
  <2> QED BY <2>1, <2>2 DEF Init, TypeOK, OrNull
<1>2. LocksHeld
  BY DEF Init, LocksHeld, LockHeld, Idle
<1>3. \A k \in Kids : kids[k].life = "unborn" /\ kids[k].runtime = Null
  BY DEF Init, Unborn
<1>4. HandlesOK
  BY <1>3, RuntimeAssumption DEF Init, HandlesOK
<1>5. ExitsOK /\ BindingOK /\ RunningIsHeld
  BY DEF Init, ExitsOK, BindingOK, RunningIsHeld
<1>6. TerminalsHeld
  BY <1>3 DEF TerminalsHeld, Live
<1> QED BY <1>1, <1>2, <1>4, <1>5, <1>6 DEF RInv, Handles

LEMMA NextKeeps == RInv /\ [Next]_vars => RInv'
<1> SUFFICES ASSUME RInv, [Next]_vars
             PROVE  RInv'
  OBVIOUS
<1>1. ASSUME NEW c \in Callers, PtyCall(c)
      PROVE  RInv'
  BY <1>1, LaunchStep, ResumeHeldStep, ResumeLoadStep, StopPtyStep DEF PtyCall
<1>2. ASSUME NEW c \in Callers, RpcCall(c)
      PROVE  RInv'
  BY <1>2, LaunchRpcStep, ResumeRpcStep, StopRpcStep DEF RpcCall, Origins
<1>3. ASSUME NEW c \in Callers, Progress(c) \/ Handshake(c)
      PROVE  RInv'
  BY <1>3, ResumeLoadedStep, UpsertStep, UpsertFailsStep, ResumeRpcLoadedStep, RpcAlreadyStep,
     RpcBuiltStep, RpcBuildFailsStep, ResumeRecordedStep, RpcStoppedStep, RpcStoppedUnrecordedStep, SpawnStep, RpcBuildStep
     DEF Progress, Handshake
<1>4. ASSUME NEW k \in Kids,
             GraceEnds(k) \/ Exit(k) \/ DriverDies(k) \/ \E native \in Kids : Bind(k, native)
      PROVE  RInv'
  BY <1>4, GraceEndsStep, ExitStep, DriverDiesStep, BindStep
<1>5. CASE Background
  BY <1>5, HandleExitStep, ExitRecordedStep, BindUpdateStep, BindRecordedStep DEF Background
<1>6. CASE UNCHANGED vars
  <2>1. UNCHANGED <<store, ptys, exits, exiting, timers, binding, rpc, rows, sql, kids, call,
                    ptyLock, rpcLock>>
    BY <1>6 DEF vars, memory, locks
  <2>2. Handles'
    BY <2>1, QuietStep DEF RInv
  <2>3. LocksHeld'
    BY <2>1, NobodysStep DEF RInv
  <2> QED BY <2>1, <2>2, <2>3 DEF RInv, TypeOK
<1> QED BY <1>1, <1>2, <1>3, <1>4, <1>5, <1>6, ReloadStep, RestartStep DEF Next

\* The locks, the handles, the exit queue and the store agree in every
\* reachable state.
THEOREM RuntimeInvariant == Spec => []RInv
BY InitHolds, NextKeeps, PTL DEF Spec

\* Every live and persisted session, statement and call is well formed.
THEOREM RuntimeTypes == Spec => []TypeOK
<1>1. RInv => TypeOK
  BY DEF RInv
<1> QED BY <1>1, RuntimeInvariant, PTL

\* Every running agent CLI is the one handle of its session, however many
\* launches, resumes, stops, exits and reloads interleave.
THEOREM TerminalsAreHeld == Spec => []TerminalsHeld
<1>1. RInv => TerminalsHeld
  BY DEF RInv, Handles
<1> QED BY <1>1, RuntimeInvariant, PTL

\* The store says running exactly for the sessions that have a handle.
THEOREM RunningMeansHeld == Spec => []RunningIsHeld
<1>1. RInv => RunningIsHeld
  BY DEF RInv, Handles
<1> QED BY <1>1, RuntimeInvariant, PTL

\* SIGKILL follows a SIGTERM to the same child only: a child whose grace runs
\* has been told to stop, and a new child starts with no signal.
THEOREM KillsFollowStops == Spec => KilledOnlyIfStopped
<1> DEFINE Fair == \A k \in Kids :
                     kids'[k].signal = "kill" /\ kids[k].signal # "kill" => kids[k].signal = "term"
<1>1. ASSUME RInv, [Next]_vars
      PROVE  Fair
  <2> SUFFICES ASSUME NEW k \in Kids, kids'[k].signal = "kill", kids[k].signal # "kill"
               PROVE  kids[k].signal = "term"
    OBVIOUS
  <2> USE <1>1
  <2>1. kids[k].signal \in {"none", "term", "kill"} /\ kids \in [Kids -> {kids[j] : j \in Kids}]
    BY DEF RInv, TypeOK
  <2>2. ASSUME NEW j \in Kids, NEW s, NEW runtime, NEW native, Born(j, s, runtime, native)
        PROVE  FALSE
    BY <2>1, <2>2 DEF Born
  <2>3. ASSUME NEW j \in Kids, Dies(j)
        PROVE  FALSE
    BY <2>1, <2>3 DEF Dies
  <2>4. ASSUME NEW c \in Callers, NEW s \in Sessions, StopPty(c, s)
        PROVE  FALSE
    BY <2>1, <2>4 DEF StopPty
  <2>5. ASSUME NEW j \in Kids, GraceEnds(j)
        PROVE  kids[k].signal = "term"
    <3>1. k = j /\ k \in timers
      BY <2>1, <2>5 DEF GraceEnds
    <3> QED BY <3>1, <2>1 DEF RInv, Handles, HandlesOK
  <2>6. ASSUME NEW s, Torn(s)
        PROVE  FALSE
    BY <2>1, <2>6 DEF Torn
  <2>7. CASE Restart
    BY <2>1, <2>7 DEF Restart
  <2>8. kids' # kids
    OBVIOUS
  <2>9. ASSUME NEW c \in Callers, PtyCall(c)
        PROVE  FALSE
    BY ZenonT(60), <2>4, <2>8, <2>9 DEF PtyCall, Launch, ResumeHeld, ResumeLoad
  <2>10. ASSUME NEW c \in Callers, RpcCall(c) \/ Reload(c)
         PROVE  FALSE
    BY Zenon, <2>8, <2>10 DEF RpcCall, LaunchRpc, ResumeRpc, StopRpc, Reload
  <2>11. ASSUME NEW c \in Callers, Progress(c) \/ Handshake(c)
         PROVE  FALSE
    <3>1. \A j \in Kids : ~Spawn(c, j) /\ ~RpcBuild(c, j)
      BY <2>2 DEF Spawn, RpcBuild
    <3>2. ~RpcBuildFails(c)
      <4> SUFFICES ASSUME RpcBuildFails(c)
                   PROVE  FALSE
        OBVIOUS
      <4>1. call[c].kid \in Kids /\ Dies(call[c].kid)
        BY DEF RInv, LocksHeld, LockHeld, RpcBuildFails
      <4> QED BY <4>1, <2>3
    <3>3. ~UpsertFails(c) /\ ~RpcStopped(c) /\ ~RpcStoppedUnrecorded(c)
      BY <2>6, <2>8 DEF UpsertFails, RpcStopped, RpcStoppedUnrecorded
    <3>4. ~ResumeLoaded(c) /\ ~Upsert(c) /\ ~ResumeRpcLoaded(c) /\ ~RpcAlready(c) /\ ~RpcBuilt(c)
          /\ ~ResumeRecorded(c)
      BY <2>8 DEF ResumeLoaded, Upsert, ResumeRpcLoaded, RpcAlready, RpcBuilt, ResumeRecorded
    <3> QED BY <2>11, <3>1, <3>2, <3>3, <3>4 DEF Progress, Handshake
  <2>12. ASSUME NEW j \in Kids,
                Exit(j) \/ DriverDies(j) \/ \E native \in Kids : Bind(j, native)
         PROVE  FALSE
    BY <2>3, <2>8, <2>12 DEF Exit, DriverDies, Bind
  <2>13. ~Background
    BY <2>8 DEF Background, HandleExit, ExitRecorded, BindUpdate, BindRecorded
  <2>14. ~UNCHANGED vars
    BY <2>8 DEF vars
  <2> QED BY <2>5, <2>7, <2>9, <2>10, <2>11, <2>12, <2>13, <2>14 DEF Next
<1>2. RInv /\ [Next]_vars => [Fair]_vars
  BY <1>1
<1>3. Spec => [][Fair]_vars
  BY <1>2, RuntimeInvariant, PTL DEF Spec
<1> QED BY <1>3 DEF KilledOnlyIfStopped

\* A driver is never pushed out by another one for its session.
THEOREM DriversNotReplaced == Spec => DriverNotReplaced
<1> DEFINE Kept == \A s \in DOMAIN rpc : rpc[s] # Null /\ rpc'[s] # Null => rpc'[s] = rpc[s]
<1>1. ASSUME RInv, [Next]_vars
      PROVE  Kept
  <2> SUFFICES ASSUME NEW s \in DOMAIN rpc, rpc[s] # Null, rpc'[s] # Null, rpc'[s] # rpc[s]
               PROVE  FALSE
    OBVIOUS
  <2> USE <1>1
  <2>1. rpc' # rpc /\ rpc \in [Sessions -> OrNull(Kids)]
    BY DEF RInv, TypeOK
  <2>2. ASSUME NEW c \in Callers, RpcBuilt(c)
        PROVE  FALSE
    <3>1. rpc[call[c].session] = Null
      BY <2>2 DEF RInv, LocksHeld, LockHeld, RpcBuilt
    <3> QED BY <2>1, <2>2, <3>1 DEF RpcBuilt
  <2>3. ASSUME NEW t, Torn(t)
        PROVE  FALSE
    BY SMTT(60), <2>1, <2>3 DEF Torn
  <2>4. ASSUME NEW c \in Callers, Progress(c) \/ Handshake(c)
        PROVE  FALSE
    BY Zenon, <2>1, <2>2, <2>3, <2>4
       DEF Progress, Handshake, memory, Spawn, RpcBuild, RpcBuildFails, UpsertFails, RpcStopped, RpcStoppedUnrecorded, ResumeLoaded,
           Upsert, ResumeRpcLoaded, RpcAlready, ResumeRecorded
  <2>5. ASSUME NEW c \in Callers, PtyCall(c) \/ RpcCall(c) \/ Reload(c)
        PROVE  FALSE
    BY Zenon, <2>1, <2>5 DEF PtyCall, RpcCall, memory, Launch, ResumeHeld, ResumeLoad, StopPty,
                      LaunchRpc, ResumeRpc, StopRpc, Reload
  <2>6. ASSUME NEW k \in Kids,
               GraceEnds(k) \/ Exit(k) \/ DriverDies(k) \/ \E native \in Kids : Bind(k, native)
        PROVE  FALSE
    BY <2>1, <2>6 DEF GraceEnds, Exit, DriverDies, Bind, memory
  <2>7. ~Background
    BY <2>1 DEF Background, HandleExit, ExitRecorded, BindUpdate, BindRecorded
  <2>8. ~Restart
    BY <2>1 DEF Restart
  <2>9. ~UNCHANGED vars
    BY <2>1 DEF vars, memory
  <2> QED BY <2>4, <2>5, <2>6, <2>7, <2>8, <2>9 DEF Next
<1>2. RInv /\ [Next]_vars => [Kept]_vars
  BY <1>1
<1>3. Spec => [][Kept]_vars
  BY <1>2, RuntimeInvariant, PTL DEF Spec
<1> QED BY <1>3 DEF DriverNotReplaced

-----------------------------------------------------------------------------
(* The rows of rpc sessions: RpcRecorded and StoppedAsExited, where callers *)
(* ask for no terminals and no reload interrupts them.  A session that is   *)
(* being launched has no row and its launch is the only one; what is past   *)
(* the load of a resume has one; and whoever waits for the permit has one   *)
(* statement in the queue.                                                  *)

RpcCalls ==
  {<<Null, "idle">>, <<"launchRpc", "wait">>, <<"launchRpc", "build">>, <<"launchRpc", "upsert">>,
   <<"resumeRpc", "load">>, <<"resumeRpc", "wait">>, <<"resumeRpc", "build">>, <<"resumeRpc", "state">>,
   <<"stop", "stop">>}
Awaits == {<<"load", "load">>, <<"upsert", "upsert">>, <<"state", "state">>, <<"stop", "state">>}

RpcCallOK(c) ==
  LET s == call[c].session IN
  /\ <<call[c].op, call[c].pc>> \in RpcCalls
  /\ call[c].pc # "idle" => s \in Sessions
  /\ call[c].op = "launchRpc" => rows[s] = Null /\ (call[c].pc # "upsert" => rpc[s] = Null)
  /\ call[c].op = "resumeRpc" /\ call[c].pc # "load" => rows[s] # Null
  /\ call[c].pc = "build" => call[c].kid \in Kids /\ kids[call[c].kid].session = s /\ kids[call[c].kid].life # "unborn"
OneLaunch ==
  \A c, d \in Callers :
    call[c].op = "launchRpc" /\ call[d].op = "launchRpc" /\ call[c].session = call[d].session => c = d
OwnStatements ==
  /\ \A i \in 1..Len(sql) : sql[i].who \in Callers =>
       call[sql[i].who].session = sql[i].session /\ <<call[sql[i].who].pc, sql[i].kind>> \in Awaits
  /\ \A i, j \in 1..Len(sql) : sql[i].who \in Callers /\ sql[i].who = sql[j].who => i = j
Upserting(c, s) == call[c].op = "launchRpc" /\ call[c].pc = "upsert" /\ call[c].session = s
Recorded(s) ==
  /\ kids[rpc[s]].session = s /\ kids[rpc[s]].life # "unborn"
  /\ rows[s] # Null \/ \E c \in Callers : Upserting(c, s)
RecordedInv ==
  /\ \A c \in Callers : RpcCallOK(c)
  /\ OneLaunch /\ OwnStatements
  /\ \A s \in Sessions : rpc[s] # Null => Recorded(s)

NoTerminals == "pty" \notin Runtimes /\ Renderer = {}

LEMMA RowSet ==
  ASSUME TypeOK, NEW s \in Sessions, NEW field, NEW val,
         \/ field = "state" /\ val \in {"running", "exited"}
         \/ field = "native" /\ val \in Kids,
         SetRow(s, field, val)
  PROVE  /\ \A t \in Sessions : (rows'[t] = Null <=> rows[t] = Null) /\ (t # s => rows'[t] = rows[t])
         /\ rows[s] # Null => rows'[s] = [rows[s] EXCEPT ![field] = val] /\ rows[s] \in SessionState
<1>1. CASE rows[s] = Null
  BY <1>1 DEF SetRow
<1>2. CASE rows[s] # Null
  <2>1. rows[s] \in SessionState
    BY <1>2 DEF TypeOK, OrNull
  <2>2. [rows[s] EXCEPT ![field] = val] \in SessionState
    BY <2>1 DEF SessionState, OrNull
  <2>3. rows' = [rows EXCEPT ![s] = [rows[s] EXCEPT ![field] = val]]
    BY <1>2 DEF SetRow
  <2>4. Null \notin SessionState
    BY RuntimeAssumption
  <2> HIDE DEF SessionState
  <2>5. rows'[s] = [rows[s] EXCEPT ![field] = val] /\ \A t \in Sessions : t # s => rows'[t] = rows[t]
    BY <2>3 DEF TypeOK
  <2> QED BY <1>2, <2>1, <2>2, <2>4, <2>5
<1> QED BY <1>1, <1>2

\* A queue that loses its head, or is given a statement more.
LEMMA Shorter ==
  ASSUME TypeOK, sql # <<>>, Executed
  PROVE  /\ sql' \in Seq(Statements) /\ Len(sql') = Len(sql) - 1 /\ Head(sql) = sql[1] /\ 1 \in 1..Len(sql)
         /\ \A i \in 1..Len(sql') : sql'[i] = sql[i + 1] /\ i + 1 \in 1..Len(sql)
         /\ \A i \in 1..Len(sql) : i # 1 => i - 1 \in 1..Len(sql') /\ sql'[i - 1] = sql[i]
BY DEF TypeOK, Executed

LEMMA Longer ==
  ASSUME TypeOK, NEW who, NEW kind, NEW s, NEW val, Issue(who, kind, s, val)
  PROVE  /\ Len(sql') = Len(sql) + 1 /\ Len(sql) \in Nat
         /\ \A i \in 1..Len(sql) : i \in 1..Len(sql') /\ sql'[i] = sql[i]
         /\ Len(sql) + 1 \in 1..Len(sql') /\ sql'[Len(sql) + 1] = Statement(who, kind, s, val)
         /\ \A i \in 1..Len(sql') : i \in 1..Len(sql) \/ i = Len(sql) + 1
BY DEF TypeOK, Issue

LEMMA StatementsExecuted ==
  ASSUME TypeOK, OwnStatements, NEW who, NEW kind, Executes(who, kind), Executed,
         \A w \in Callers : w # who => call'[w] = call[w]
  PROVE  OwnStatements'
<1>1. /\ Head(sql) = sql[1] /\ 1 \in 1..Len(sql) /\ sql[1].who = who
      /\ \A i \in 1..Len(sql') : sql'[i] = sql[i + 1] /\ i + 1 \in 1..Len(sql)
  BY Shorter DEF Executes
<1>2. Len(sql) \in Nat /\ Len(sql') \in Nat
  BY Shorter DEF TypeOK, Executes
<1>3. ASSUME NEW i \in 1..Len(sql'), sql'[i].who \in Callers
      PROVE  call'[sql'[i].who].session = sql'[i].session /\ <<call'[sql'[i].who].pc, sql'[i].kind>> \in Awaits
  <2>1. sql'[i] = sql[i + 1] /\ i + 1 \in 1..Len(sql) /\ i + 1 # 1
    BY <1>1, <1>2
  <2>2. sql[i + 1].who # who
    BY <1>1, <1>3, <2>1 DEF OwnStatements
  <2> QED BY <1>3, <2>1, <2>2 DEF OwnStatements
<1>4. ASSUME NEW i \in 1..Len(sql'), NEW j \in 1..Len(sql'), sql'[i].who \in Callers, sql'[i].who = sql'[j].who
      PROVE  i = j
  <2>1. i + 1 = j + 1
    BY <1>1, <1>4 DEF OwnStatements
  <2> QED BY <1>2, <2>1
<1> QED BY <1>3, <1>4 DEF OwnStatements

LEMMA NothingAwaited ==
  ASSUME OwnStatements, NEW c \in Callers, call[c].pc \in {"idle", "wait", "build"}
  PROVE  \A i \in 1..Len(sql) : sql[i].who # c
BY DEF OwnStatements, Awaits

LEMMA StatementsStay ==
  ASSUME TypeOK, OwnStatements, NEW c \in Callers, call[c].pc \in {"idle", "wait", "build"}, sql' = sql,
         \A w \in Callers \ {c} : call'[w] = call[w]
  PROVE  OwnStatements'
<1>1. \A i \in 1..Len(sql) : sql[i].who # c
  BY NothingAwaited
<1> QED BY <1>1 DEF OwnStatements

LEMMA StatementsIssued ==
  ASSUME TypeOK, OwnStatements, NEW c \in Callers, call[c].pc \in {"idle", "wait", "build"}, NEW kind, NEW s, NEW val,
         Issue(c, kind, s, val), \A w \in Callers \ {c} : call'[w] = call[w],
         call'[c].session = s, <<call'[c].pc, kind>> \in Awaits
  PROVE  OwnStatements'
<1>1. \A i \in 1..Len(sql) : sql[i].who # c
  BY NothingAwaited
<1> DEFINE n == Len(sql) + 1
<1>2. /\ Len(sql) \in Nat /\ \A i \in 1..Len(sql') : (i \in 1..Len(sql) /\ sql'[i] = sql[i]) \/ i = n
      /\ sql'[n] = Statement(c, kind, s, val)
  BY Longer
<1>3. sql'[n].who = c /\ sql'[n].session = s /\ sql'[n].kind = kind
  BY <1>2 DEF Statement
<1> HIDE DEF n
<1>4. ASSUME NEW i \in 1..Len(sql'), sql'[i].who \in Callers
      PROVE  call'[sql'[i].who].session = sql'[i].session /\ <<call'[sql'[i].who].pc, sql'[i].kind>> \in Awaits
  <2>1. CASE i = n
    BY <1>3, <2>1
  <2>2. CASE i \in 1..Len(sql) /\ sql'[i] = sql[i]
    <3>1. sql[i].who \in Callers /\ sql[i].who # c
      BY <1>1, <1>4, <2>2
    <3> QED BY <2>2, <3>1 DEF OwnStatements
  <2> QED BY <1>2, <2>1, <2>2
<1>5. ASSUME NEW i \in 1..Len(sql'), NEW j \in 1..Len(sql'), sql'[i].who \in Callers, sql'[i].who = sql'[j].who
      PROVE  i = j
  BY <1>1, <1>2, <1>3, <1>5 DEF OwnStatements
<1> QED BY <1>4, <1>5 DEF OwnStatements

\* A statement of an exit or a binding.
LEMMA StatementsOfOthers ==
  ASSUME TypeOK, OwnStatements, NEW who \in {"exits", "bind"}, NEW kind, NEW s, NEW val,
         Issue(who, kind, s, val), call' = call
  PROVE  OwnStatements'
<1> DEFINE n == Len(sql) + 1
<1>1. who \notin Callers
  BY RuntimeAssumption
<1>2. /\ Len(sql) \in Nat /\ \A i \in 1..Len(sql') : (i \in 1..Len(sql) /\ sql'[i] = sql[i]) \/ i = n
      /\ sql'[n] = Statement(who, kind, s, val)
  BY Longer
<1>3. sql'[n].who \notin Callers
  BY <1>1, <1>2 DEF Statement
<1> HIDE DEF n
<1>4. ASSUME NEW i \in 1..Len(sql'), sql'[i].who \in Callers
      PROVE  i \in 1..Len(sql) /\ sql'[i] = sql[i]
  BY <1>2, <1>3, <1>4
<1> QED BY <1>4 DEF OwnStatements

\* A step that moves caller c, or nobody, and what it may do to the others.
LEMMA CallerStep ==
  ASSUME TypeOK, RecordedInv, NEW c \in Callers,
         \A w \in Callers \ {c} : call'[w] = call[w],
         \A s \in Sessions : rows[s] # Null => rows'[s] # Null,
         \A s \in Sessions : rows[s] = Null /\ rows'[s] # Null => s = call[c].session /\ call[c].op = "launchRpc",
         \A s \in Sessions : rpc[s] = Null /\ rpc'[s] # Null
                               => s = call[c].session /\ (call[c].op = "launchRpc" \/ rows[s] # Null),
         \A k \in Kids : kids[k].life # "unborn" => kids'[k].session = kids[k].session /\ kids'[k].life # "unborn",
         call'[c].op = "launchRpc" =>
           \A w \in Callers \ {c} : call[w].op = "launchRpc" => call[w].session # call'[c].session,
         RpcCallOK(c)', OwnStatements',
         \A s \in Sessions : rpc'[s] # Null /\ rpc'[s] # rpc[s] => Recorded(s)',
         \A s \in Sessions : Upserting(c, s) => rpc'[s] = Null \/ rows'[s] # Null
  PROVE  RecordedInv'
<1>0. /\ \A w \in Callers : RpcCallOK(w) /\ call[w] \in CallState
      /\ OneLaunch /\ \A s \in Sessions : rpc[s] # Null => Recorded(s) /\ rpc[s] \in Kids
  BY DEF RecordedInv, TypeOK, OrNull
<1>1. ASSUME NEW w \in Callers, w # c PROVE RpcCallOK(w)'
  <2>1. call'[w] = call[w] /\ RpcCallOK(w)
    BY <1>0, <1>1
  <2> DEFINE s == call[w].session
  <2>2. call[w].op \in {"launchRpc", "resumeRpc"} => s \in Sessions
    BY <2>1, RuntimeAssumption DEF RpcCallOK, RpcCalls
  <2>3. call[w].op = "launchRpc" => ~(s = call[c].session /\ call[c].op = "launchRpc")
    BY <1>0, <1>1 DEF OneLaunch
  <2>4. call[w].op = "launchRpc" => rows'[s] = Null /\ (call[w].pc # "upsert" => rpc'[s] = Null)
    BY <2>1, <2>2, <2>3 DEF RpcCallOK
  <2>5. call[w].op = "resumeRpc" /\ call[w].pc # "load" => rows'[s] # Null
    BY <2>1, <2>2 DEF RpcCallOK
  <2>6. call[w].pc = "build" => call[w].kid \in Kids /\ kids'[call[w].kid].session = s /\ kids'[call[w].kid].life # "unborn"
    BY <2>1 DEF RpcCallOK
  <2> QED BY <2>1, <2>4, <2>5, <2>6 DEF RpcCallOK
<1>2. OneLaunch'
  BY <1>0 DEF OneLaunch
<1>3. ASSUME NEW s \in Sessions, rpc'[s] # Null, rpc'[s] = rpc[s] PROVE Recorded(s)'
  <2>1. Recorded(s) /\ rpc[s] \in Kids
    BY <1>0, <1>3
  <2>2. kids'[rpc'[s]].session = s /\ kids'[rpc'[s]].life # "unborn"
    BY <1>3, <2>1 DEF Recorded
  <2>3. ASSUME NEW w \in Callers, Upserting(w, s), w # c PROVE Upserting(w, s)'
    BY <2>3 DEF Upserting
  <2>4. rows'[s] # Null \/ \E w \in Callers : Upserting(w, s)'
    BY <1>3, <2>1, <2>3 DEF Recorded
  <2> QED BY <2>2, <2>4 DEF Recorded
<1>4. \A w \in Callers : RpcCallOK(w)'
  BY <1>1
<1>5. \A s \in Sessions : rpc'[s] # Null => Recorded(s)'
  BY <1>3
<1> QED BY <1>2, <1>4, <1>5 DEF RecordedInv

\* A step of no caller.
LEMMA NoCallersStep ==
  ASSUME TypeOK, RecordedInv, call' = call, rpc' = rpc,
         \A s \in Sessions : rows[s] = Null <=> rows'[s] = Null,
         \A k \in Kids : kids[k].life # "unborn" => kids'[k].session = kids[k].session /\ kids'[k].life # "unborn",
         OwnStatements'
  PROVE  RecordedInv'
<1>1. ASSUME NEW w \in Callers PROVE RpcCallOK(w)'
  <2>1. RpcCallOK(w) /\ (call[w].op = "launchRpc" \/ call[w].op = "resumeRpc" => call[w].session \in Sessions)
    BY RuntimeAssumption DEF RecordedInv, RpcCallOK, RpcCalls
  <2>2. call[w].pc = "build" => call[w].kid \in Kids
    BY DEF RecordedInv, RpcCallOK
  <2> QED BY <2>1, <2>2 DEF RpcCallOK
<1>2. ASSUME NEW s \in Sessions, rpc'[s] # Null PROVE Recorded(s)'
  <2>1. Recorded(s) /\ rpc[s] \in Kids
    BY <1>2 DEF RecordedInv, TypeOK, OrNull
  <2> QED BY <2>1 DEF Recorded, Upserting
<1>3. OneLaunch'
  BY DEF RecordedInv, OneLaunch
<1> QED BY <1>1, <1>2, <1>3 DEF RecordedInv

-----------------------------------------------------------------------------

LEMMA RecordedCalls ==
  ASSUME RInv, RecordedInv, NEW c \in Callers, LaunchRpc(c, "manual") \/ \E s \in Sessions : ResumeRpc(c, s) \/ StopRpc(c, s)
  PROVE  RecordedInv'
<1>0. TypeOK /\ OwnStatements /\ call[c] \in CallState /\ call[c].pc = "idle"
  BY DEF RInv, TypeOK, RecordedInv, LaunchRpc, ResumeRpc, StopRpc
<1>1. UNCHANGED <<rows, rpc, kids>>
  BY DEF LaunchRpc, ResumeRpc, StopRpc, memory
<1>2. \A s \in Sessions : ~Upserting(c, s)
  BY <1>0 DEF Upserting
<1>3. ASSUME LaunchRpc(c, "manual") PROVE RecordedInv'
  <2>1. PICK s \in Sessions :
          /\ FreshSession(s)
          /\ call' = [call EXCEPT ![c] = [Idle EXCEPT !.pc = "wait", !.op = "launchRpc",
                                                      !.session = s, !.origin = "manual"]]
    BY <1>3 DEF LaunchRpc
  <2>2. /\ call'[c].pc = "wait" /\ call'[c].op = "launchRpc" /\ call'[c].session = s
        /\ \A w \in Callers \ {c} : call'[w] = call[w]
    BY <1>0, <2>1 DEF TypeOK, Idle
  <2>3. rows[s] = Null /\ \A w \in Callers : call[w].session # s
    BY <2>1 DEF FreshSession
  <2>4. rpc[s] = Null
    BY <1>0, <2>1 DEF FreshSession, RecordedInv, Recorded, TypeOK, OrNull
  <2>5. RpcCallOK(c)'
    BY <1>1, <2>2, <2>3, <2>4 DEF RpcCallOK, RpcCalls
  <2>6. sql' = sql
    BY <1>3 DEF LaunchRpc
  <2>7. OwnStatements'
    BY <1>0, <2>2, <2>6, StatementsStay
  <2> QED BY <1>0, <1>1, <1>2, <2>2, <2>3, <2>5, <2>7, CallerStep
<1>4. ASSUME NEW s \in Sessions, NEW op \in {"resumeRpc", "stop"}, NEW pc, NEW kind, NEW val,
             op = "resumeRpc" => pc = "load" /\ kind = "load", op = "stop" => pc = "stop" /\ kind = "state",
             Issue(c, kind, s, val), call' = [call EXCEPT ![c] = [Idle EXCEPT !.pc = pc, !.op = op, !.session = s]]
      PROVE RecordedInv'
  <2>2. /\ call'[c].pc = pc /\ call'[c].op = op /\ call'[c].session = s
        /\ \A w \in Callers \ {c} : call'[w] = call[w]
    BY <1>0, <1>4 DEF TypeOK, Idle
  <2>5. RpcCallOK(c)'
    BY <1>1, <1>4, <2>2 DEF RpcCallOK, RpcCalls
  <2>6. <<call'[c].pc, kind>> \in Awaits
    BY <1>4, <2>2 DEF Awaits
  <2>7. OwnStatements'
    BY <1>0, <1>4, <2>2, <2>6, StatementsIssued
  <2> QED BY <1>0, <1>1, <1>2, <2>2, <2>5, <2>7, CallerStep
<1>5. ASSUME NEW s \in Sessions, ResumeRpc(c, s) PROVE RecordedInv'
  BY <1>4, <1>5 DEF ResumeRpc
<1>6. ASSUME NEW s \in Sessions, StopRpc(c, s) PROVE RecordedInv'
  BY <1>4, <1>6 DEF StopRpc
<1> QED BY <1>3, <1>5, <1>6

\* A caller that has its answer.
LEMMA ReturnsStep ==
  ASSUME TypeOK, RecordedInv, NEW c \in Callers, Return(c),
         \A s \in Sessions : rows[s] # Null => rows'[s] # Null,
         \A s \in Sessions : rows[s] = Null /\ rows'[s] # Null => s = call[c].session /\ call[c].op = "launchRpc",
         \A s \in Sessions : rpc'[s] # Null => rpc'[s] = rpc[s],
         \A k \in Kids : kids[k].life # "unborn" => kids'[k].session = kids[k].session /\ kids'[k].life # "unborn",
         \A s \in Sessions : Upserting(c, s) => rpc'[s] = Null \/ rows'[s] # Null,
         \/ sql' = sql /\ call[c].pc = "build"
         \/ \E kind : Executes(c, kind) /\ Executed
  PROVE  RecordedInv'
<1>1. call'[c] = Idle /\ \A w \in Callers \ {c} : call'[w] = call[w]
  BY DEF TypeOK, Return
<1>2. RpcCallOK(c)' /\ call'[c].op # "launchRpc"
  BY <1>1, RuntimeAssumption DEF RpcCallOK, RpcCalls, Idle
<1>3. OwnStatements'
  <2>1. CASE sql' = sql /\ call[c].pc = "build"
    BY <1>1, <2>1, StatementsStay DEF RecordedInv
  <2>2. CASE \E kind : Executes(c, kind) /\ Executed
    BY <1>1, <2>2, StatementsExecuted DEF RecordedInv
  <2> QED BY <2>1, <2>2
<1>4. \A s \in Sessions : rpc[s] = Null => rpc'[s] = Null
  OBVIOUS
<1> QED BY <1>1, <1>2, <1>3, <1>4, CallerStep

LEMMA Served ==
  ASSUME TypeOK, OwnStatements, NEW c \in Callers, NEW kind, Executes(c, kind)
  PROVE  /\ Head(sql).session = call[c].session /\ <<call[c].pc, kind>> \in Awaits
         /\ Head(sql).session \in Sessions
<1>1. /\ Head(sql) = sql[1] /\ 1 \in 1..Len(sql) /\ Head(sql).who = c /\ Head(sql).kind = kind
      /\ Head(sql) \in Statements
  BY DEF Executes, TypeOK
<1>2. Head(sql).session \in Sessions
  BY <1>1 DEF Statements
<1> QED BY <1>1, <1>2 DEF OwnStatements

LEMMA ResumeRpcLoadedRecords ==
  ASSUME RInv, RecordedInv, NEW c \in Callers, ResumeRpcLoaded(c)
  PROVE  RecordedInv'
<1> DEFINE s == call[c].session
<1>1. /\ TypeOK /\ OwnStatements /\ RpcCallOK(c) /\ call[c] \in CallState
      /\ call[c].pc = "load" /\ call[c].op = "resumeRpc" /\ Executes(c, "load") /\ Executed
      /\ UNCHANGED <<rows, rpc, kids>>
  BY DEF RInv, RecordedInv, TypeOK, ResumeRpcLoaded, memory
<1>2. s \in Sessions /\ \A t \in Sessions : ~Upserting(c, t)
  BY <1>1 DEF RpcCallOK, Upserting
<1>3. CASE rows[s] # Null /\ rows[s].native # Null
  <2>1. call' = [call EXCEPT ![c].pc = "wait", ![c].native = rows[s].native, ![c].origin = rows[s].origin,
                             ![c].startedAt = rows[s].startedAt]
    BY <1>3 DEF ResumeRpcLoaded
  <2>2. /\ call'[c].pc = "wait" /\ call'[c].op = "resumeRpc" /\ call'[c].session = s
        /\ \A w \in Callers \ {c} : call'[w] = call[w]
    BY <1>1, <2>1 DEF TypeOK, CallState
  <2>3. RpcCallOK(c)'
    BY <1>1, <1>2, <1>3, <2>2 DEF RpcCallOK, RpcCalls
  <2>4. OwnStatements'
    BY <1>1, <2>2, StatementsExecuted
  <2> QED BY <1>1, <1>2, <2>2, <2>3, <2>4, CallerStep
<1>4. CASE ~(rows[s] # Null /\ rows[s].native # Null)
  <2>1. Return(c)
    BY <1>4 DEF ResumeRpcLoaded
  <2> QED BY <1>1, <1>2, <2>1, ReturnsStep
<1> QED BY <1>3, <1>4

LEMMA RpcAlreadyRecords ==
  ASSUME RInv, RecordedInv, NEW c \in Callers, RpcAlready(c)
  PROVE  RecordedInv'
<1> DEFINE s == call[c].session
<1>1. /\ TypeOK /\ OwnStatements /\ RpcCallOK(c) /\ call[c] \in CallState
      /\ call[c].pc = "wait" /\ rpc[s] # Null /\ Goto(c, "state") /\ Issue(c, "state", s, "running")
      /\ UNCHANGED <<rows, rpc, kids>>
  BY DEF RInv, RecordedInv, TypeOK, RpcAlready, memory
<1>2. call[c].op = "resumeRpc" /\ s \in Sessions /\ \A t \in Sessions : ~Upserting(c, t)
  BY <1>1 DEF RpcCallOK, RpcCalls, Upserting
<1>3. /\ call'[c].pc = "state" /\ call'[c].op = "resumeRpc" /\ call'[c].session = s
      /\ \A w \in Callers \ {c} : call'[w] = call[w]
  BY <1>1, <1>2 DEF TypeOK, CallState, Goto
<1>4. RpcCallOK(c)'
  BY <1>1, <1>2, <1>3 DEF RpcCallOK, RpcCalls
<1>5. <<call'[c].pc, "state">> \in Awaits
  BY <1>3 DEF Awaits
<1>6. OwnStatements'
  BY <1>1, <1>3, <1>5, StatementsIssued
<1> QED BY <1>1, <1>2, <1>3, <1>4, <1>6, CallerStep

LEMMA RpcBuildRecords ==
  ASSUME RInv, RecordedInv, NEW c \in Callers, NEW k \in Kids, RpcBuild(c, k)
  PROVE  RecordedInv'
<1> DEFINE s == call[c].session
<1>1. /\ TypeOK /\ OwnStatements /\ RpcCallOK(c) /\ call[c] \in CallState
      /\ call[c].pc = "wait" /\ IsNext(k) /\ rpc[s] = Null
      /\ Born(k, s, "rpc", IF call[c].native = Null THEN k ELSE call[c].native)
      /\ call' = [call EXCEPT ![c].pc = "build", ![c].kid = k]
      /\ UNCHANGED <<rows, rpc, sql>>
  BY DEF RInv, RecordedInv, TypeOK, RpcBuild, memory
<1>2. /\ call'[c].pc = "build" /\ call'[c].op = call[c].op /\ call'[c].session = s /\ call'[c].kid = k
      /\ \A w \in Callers \ {c} : call'[w] = call[w]
  BY <1>1 DEF TypeOK, CallState
<1>3. /\ kids'[k].session = s /\ kids'[k].life = "alive" /\ kids[k].life = "unborn"
      /\ \A j \in Kids : j # k => kids'[j] = kids[j]
  BY <1>1 DEF Born, TypeOK, IsNext, Unspawned
<1>4. s \in Sessions /\ \A t \in Sessions : ~Upserting(c, t)
  BY <1>1 DEF RpcCallOK, Upserting
<1>5. RpcCallOK(c)'
  BY <1>1, <1>2, <1>3, <1>4 DEF RpcCallOK, RpcCalls
<1>6. OwnStatements'
  BY <1>1, <1>2, StatementsStay
<1>7. call'[c].op = "launchRpc" => \A w \in Callers \ {c} : call[w].op = "launchRpc" => call[w].session # call'[c].session
  BY <1>2 DEF RecordedInv, OneLaunch
<1> QED BY <1>1, <1>2, <1>3, <1>4, <1>5, <1>6, <1>7, CallerStep

LEMMA RpcBuiltRecords ==
  ASSUME RInv, RecordedInv, NEW c \in Callers, RpcBuilt(c)
  PROVE  RecordedInv'
<1> DEFINE s == call[c].session
           k == call[c].kid
           session == [state |-> "running", native |-> k, origin |-> call[c].origin, startedAt |-> k]
           pc == IF call[c].op = "launchRpc" THEN "upsert" ELSE "state"
           val == IF call[c].op = "launchRpc" THEN session ELSE "running"
<1>1. /\ TypeOK /\ OwnStatements /\ RpcCallOK(c) /\ call[c] \in CallState
      /\ call[c].pc = "build" /\ kids[k].life = "alive" /\ rpc' = [rpc EXCEPT ![s] = k]
      /\ UNCHANGED <<rows, kids>>
  BY DEF RInv, RecordedInv, TypeOK, RpcBuilt
<1>2. Goto(c, pc) /\ Issue(c, pc, s, val)
  BY DEF RpcBuilt
<1>3. s \in Sessions /\ k \in Kids /\ kids[k].session = s /\ kids[k].life # "unborn"
      /\ (call[c].op = "launchRpc" \/ rows[s] # Null) /\ call[c].op \in {"launchRpc", "resumeRpc"}
      /\ \A t \in Sessions : ~Upserting(c, t)
  BY <1>1 DEF RpcCallOK, RpcCalls, Upserting
<1>4. /\ call'[c].pc = pc /\ call'[c].op = call[c].op /\ call'[c].session = s
      /\ \A w \in Callers \ {c} : call'[w] = call[w]
  BY <1>1, <1>2 DEF TypeOK, CallState, Goto
<1>5. RpcCallOK(c)'
  BY <1>1, <1>3, <1>4 DEF RpcCallOK, RpcCalls
<1>6. <<call'[c].pc, pc>> \in Awaits
  BY <1>4 DEF Awaits
<1> HIDE DEF pc, val
<1>7. OwnStatements'
  BY <1>1, <1>2, <1>4, <1>6, StatementsIssued
<1>8. rpc'[s] = k /\ \A t \in Sessions : t # s => rpc'[t] = rpc[t]
  BY <1>1, <1>3 DEF TypeOK
<1>9. ASSUME NEW t \in Sessions, t = s PROVE Recorded(t)'
  <2>0. kids'[rpc'[t]].session = t /\ kids'[rpc'[t]].life # "unborn"
    BY <1>1, <1>3, <1>8, <1>9
  <2>1. CASE call[c].op = "launchRpc"
    <3>1. Upserting(c, t)'
      BY <1>4, <1>9, <2>1 DEF Upserting, pc
    <3> QED BY <2>0, <3>1 DEF Recorded
  <2>2. CASE call[c].op # "launchRpc"
    BY <1>1, <1>3, <1>9, <2>0, <2>2 DEF Recorded
  <2> QED BY <2>1, <2>2
<1>10. call'[c].op = "launchRpc" => \A w \in Callers \ {c} : call[w].op = "launchRpc" => call[w].session # call'[c].session
  BY <1>4 DEF RecordedInv, OneLaunch
<1> QED BY <1>1, <1>3, <1>4, <1>5, <1>7, <1>8, <1>9, <1>10, CallerStep

\* A write that may fail adds and removes no row.
LEMMA RowTried ==
  ASSUME TypeOK, NEW s \in Sessions, NEW field, NEW val,
         \/ field = "state" /\ val \in {"running", "exited"}
         \/ field = "native" /\ val \in Kids,
         TrySetRow(s, field, val)
  PROVE  \A t \in Sessions : rows'[t] = Null <=> rows[t] = Null
<1>1. CASE SetRow(s, field, val)
  BY <1>1, RowSet
<1> QED BY <1>1 DEF TrySetRow

\* Whoever returns: its session is torn down, recorded, or was no launch's.
LEMMA RpcReturnsRecord ==
  ASSUME RInv, RecordedInv, NEW c \in Callers,
         RpcBuildFails(c) \/ ResumeRecorded(c) \/ RpcStopped(c) \/ RpcStoppedUnrecorded(c) \/ Upsert(c) \/ UpsertFails(c)
  PROVE  RecordedInv'
<1>1. /\ TypeOK /\ OwnStatements /\ RpcCallOK(c) /\ call[c] \in CallState /\ Return(c)
  BY DEF RInv, RecordedInv, TypeOK, RpcBuildFails, ResumeRecorded, RpcStopped, RpcStoppedUnrecorded, Upsert, UpsertFails
<1>2. ASSUME NEW k, Dies(k)
      PROVE  \A j \in Kids : kids[j].life # "unborn" => kids'[j].session = kids[j].session /\ kids'[j].life # "unborn"
  BY <1>1, <1>2 DEF Dies, TypeOK
<1>3. CASE RpcBuildFails(c)
  <2>1. call[c].pc = "build" /\ Dies(call[c].kid) /\ UNCHANGED <<rows, rpc, sql>> /\ \A s \in Sessions : ~Upserting(c, s)
    BY <1>3 DEF RpcBuildFails, memory, Upserting
  <2> QED BY <1>1, <1>2, <2>1, ReturnsStep
<1>4. CASE ResumeRecorded(c)
  <2>1. /\ Executes(c, "state") /\ Executed /\ TrySetRow(Head(sql).session, "state", "running")
        /\ UNCHANGED <<rpc, kids>> /\ \A s \in Sessions : ~Upserting(c, s)
    BY <1>4 DEF ResumeRecorded, memory, Upserting
  <2>2. Head(sql).session \in Sessions
    BY <1>1, <2>1, Served
  <2>3. \A s \in Sessions : rows'[s] = Null <=> rows[s] = Null
    BY <1>1, <2>1, <2>2, RowTried
  <2> QED BY <1>1, <2>1, <2>3, ReturnsStep
<1>5. ASSUME NEW s \in Sessions, Torn(s)
      PROVE  /\ rpc'[s] = Null /\ \A t \in Sessions : rpc'[t] # Null => rpc'[t] = rpc[t]
             /\ \A j \in Kids : kids[j].life # "unborn" => kids'[j].session = kids[j].session /\ kids'[j].life # "unborn"
  BY <1>1, <1>5 DEF Torn, TypeOK
<1>6. CASE RpcStopped(c)
  <2>1. /\ Executes(c, "state") /\ Executed /\ SetRow(Head(sql).session, "state", "exited")
        /\ Torn(Head(sql).session) /\ \A s \in Sessions : ~Upserting(c, s)
    BY <1>6 DEF RpcStopped, Upserting
  <2>2. Head(sql).session \in Sessions
    BY <1>1, <2>1, Served
  <2>3. \A s \in Sessions : rows'[s] = Null <=> rows[s] = Null
    BY <1>1, <2>1, <2>2, RowSet
  <2>4. \A t \in Sessions : rpc'[t] # Null => rpc'[t] = rpc[t]
    BY <1>5, <2>1, <2>2
  <2>5. \A j \in Kids : kids[j].life # "unborn" => kids'[j].session = kids[j].session /\ kids'[j].life # "unborn"
    BY <1>5, <2>1, <2>2
  <2> QED BY <1>1, <2>1, <2>3, <2>4, <2>5, ReturnsStep
<1>9. CASE RpcStoppedUnrecorded(c)
  <2>1. /\ Executes(c, "state") /\ Executed /\ UNCHANGED rows
        /\ Torn(Head(sql).session) /\ \A s \in Sessions : ~Upserting(c, s)
    BY <1>9 DEF RpcStoppedUnrecorded, Upserting
  <2>2. Head(sql).session \in Sessions
    BY <1>1, <2>1, Served
  <2>3. \A t \in Sessions : rpc'[t] # Null => rpc'[t] = rpc[t]
    BY <1>5, <2>1, <2>2
  <2>4. \A j \in Kids : kids[j].life # "unborn" => kids'[j].session = kids[j].session /\ kids'[j].life # "unborn"
    BY <1>5, <2>1, <2>2
  <2> QED BY <1>1, <2>1, <2>3, <2>4, ReturnsStep
<1>7. CASE Upsert(c)
  <2> DEFINE s == call[c].session
  <2>1. /\ Executes(c, "upsert") /\ Executed /\ UNCHANGED <<rpc, kids>>
        /\ rows' = [rows EXCEPT ![Head(sql).session] =
             IF @ = Null THEN Head(sql).val ELSE [Head(sql).val EXCEPT !.origin = rows[Head(sql).session].origin]]
    BY <1>7 DEF Upsert, memory
  <2>2. /\ Head(sql).session = s /\ s \in Sessions /\ call[c].op = "launchRpc" /\ Head(sql).val \in SessionState
    BY <1>1, <2>1, Served, ExecutedType DEF Awaits, RpcCallOK, RpcCalls, TypeOK
  <2>3. rows[s] = Null
    BY <1>1, <2>2 DEF RpcCallOK
  <2>4. rows'[s] \in SessionState /\ \A t \in Sessions : t # s => rows'[t] = rows[t]
    BY <1>1, <2>1, <2>2, <2>3 DEF TypeOK
  <2>5. rows'[s] # Null
    BY <2>4, RuntimeAssumption
  <2>6. \A t \in Sessions : Upserting(c, t) => rows'[t] # Null
    BY <2>5 DEF Upserting
  <2> QED BY <1>1, <2>1, <2>2, <2>3, <2>4, <2>5, <2>6, ReturnsStep
<1>8. CASE UpsertFails(c)
  <2> DEFINE s == call[c].session
  <2>1. /\ Executes(c, "upsert") /\ Executed /\ UNCHANGED rows
    BY <1>8 DEF UpsertFails
  <2>2. /\ Head(sql).session = s /\ s \in Sessions /\ call[c].op = "launchRpc"
    BY <1>1, <2>1, Served DEF Awaits, RpcCallOK, RpcCalls
  <2>3. Torn(s)
    BY <1>8, <2>2 DEF UpsertFails
  <2>4. /\ rpc'[s] = Null /\ \A t \in Sessions : rpc'[t] # Null => rpc'[t] = rpc[t]
        /\ \A j \in Kids : kids[j].life # "unborn" => kids'[j].session = kids[j].session /\ kids'[j].life # "unborn"
    BY <1>5, <2>2, <2>3
  <2>5. \A t \in Sessions : Upserting(c, t) => rpc'[t] = Null
    BY <2>4 DEF Upserting
  <2> QED BY <1>1, <2>1, <2>4, <2>5, ReturnsStep
<1> QED BY <1>3, <1>4, <1>6, <1>7, <1>8, <1>9

LEMMA BackgroundRecords ==
  ASSUME RInv, RecordedInv,
         \/ \E k \in Kids : GraceEnds(k) \/ Exit(k) \/ DriverDies(k) \/ \E native \in Kids : Bind(k, native)
         \/ Background
  PROVE  RecordedInv'
<1>1. TypeOK /\ OwnStatements /\ call' = call /\ rpc' = rpc
  BY DEF RInv, RecordedInv, GraceEnds, Exit, DriverDies, Bind, Background, HandleExit, ExitRecorded, BindUpdate,
         BindRecorded, memory
<1>2. \A k \in Kids : kids[k].life # "unborn" => kids'[k].session = kids[k].session /\ kids'[k].life # "unborn"
  <2>1. ASSUME NEW k \in Kids, GraceEnds(k) PROVE \A j \in Kids : kids'[j].session = kids[j].session /\ kids'[j].life = kids[j].life
    BY <1>1, <2>1 DEF GraceEnds, TypeOK
  <2>2. ASSUME NEW k \in Kids, Exit(k) \/ DriverDies(k)
        PROVE  \A j \in Kids : kids'[j].session = kids[j].session /\ (kids'[j].life = "dead" \/ kids'[j].life = kids[j].life)
    <3>1. kids' = [kids EXCEPT ![k].life = "dead"]
      BY <2>2 DEF Exit, DriverDies, Dies
    <3> QED BY <1>1, <3>1 DEF TypeOK
  <2>3. ASSUME Background \/ \E k \in Kids, native \in Kids : Bind(k, native) PROVE kids' = kids
    BY <2>3 DEF Background, HandleExit, ExitRecorded, BindUpdate, BindRecorded, Bind
  <2> QED BY <2>1, <2>2, <2>3
<1>3. \A s \in Sessions : rows[s] = Null <=> rows'[s] = Null
  <2>1. CASE ExitRecorded
    <3>1. Head(sql).session \in Sessions /\ TrySetRow(Head(sql).session, "state", "exited")
      BY <1>1, <2>1, ExecutedType DEF ExitRecorded, TypeOK
    <3> QED BY <1>1, <3>1, RowTried
  <2>2. CASE BindRecorded
    <3>1. Head(sql).session \in Sessions /\ Head(sql).val \in Kids /\ TrySetRow(Head(sql).session, "native", Head(sql).val)
      BY <1>1, <2>2, ExecutedType DEF BindRecorded, TypeOK
    <3> QED BY <1>1, <3>1, RowTried
  <2>3. CASE rows' = rows
    BY <2>3
  <2> QED BY <2>1, <2>2, <2>3 DEF GraceEnds, Exit, DriverDies, Bind, Background, HandleExit, BindUpdate
<1>4. OwnStatements'
  <2>1. CASE HandleExit
    BY <1>1, <2>1, StatementsOfOthers DEF HandleExit
  <2>2. CASE BindUpdate
    BY <1>1, <2>2, StatementsOfOthers DEF BindUpdate
  <2>3. CASE ExitRecorded
    BY <1>1, <2>3, StatementsExecuted DEF ExitRecorded
  <2>4. CASE BindRecorded
    BY <1>1, <2>4, StatementsExecuted DEF BindRecorded
  <2>5. CASE sql' = sql
    BY <1>1, <2>5 DEF OwnStatements
  <2> QED BY <2>1, <2>2, <2>3, <2>4, <2>5 DEF GraceEnds, Exit, DriverDies, Bind, Background
<1> QED BY <1>1, <1>2, <1>3, <1>4, NoCallersStep

LEMMA NextRecords ==
  ASSUME RInv, NoTerminals, RecordedInv, [Next]_vars
  PROVE  RecordedInv'
<1>1. ASSUME NEW c \in Callers, RpcCall(c) PROVE RecordedInv'
  BY <1>1, RecordedCalls DEF RpcCall
<1>2. ASSUME NEW c \in Callers, Progress(c) \/ Handshake(c) PROVE RecordedInv'
  <2>1. call[c].pc # "prepare" /\ ~(call[c].pc = "load" /\ call[c].op = "resume")
    BY DEF RecordedInv, RpcCallOK, RpcCalls
  <2>2. ~ResumeLoaded(c) /\ \A k \in Kids : ~Spawn(c, k)
    BY <2>1 DEF ResumeLoaded, Spawn
  <2> QED BY <1>2, <2>2, ResumeRpcLoadedRecords, RpcAlreadyRecords, RpcBuildRecords, RpcBuiltRecords, RpcReturnsRecord
          DEF Progress, Handshake
<1>3. CASE Restart
  <2>1. /\ sql' = <<>> /\ \A c \in Callers : call'[c] = Idle
        /\ \A s \in Sessions : rpc'[s] = Null
    BY <1>3 DEF Restart
  <2>2. \A c \in Callers : RpcCallOK(c)' /\ call'[c].op # "launchRpc"
    BY <2>1, RuntimeAssumption DEF RpcCallOK, RpcCalls, Idle
  <2> QED BY <2>1, <2>2 DEF RecordedInv, OneLaunch, OwnStatements
<1>4. CASE UNCHANGED vars
  <2>1. UNCHANGED <<rows, rpc, kids, sql, call>>
    BY <1>4 DEF vars, memory
  <2>2. OwnStatements'
    BY <2>1 DEF RecordedInv, OwnStatements
  <2> QED BY <2>1, <2>2, NoCallersStep DEF RInv
<1>5. \A c \in Callers : ~Reload(c) /\ "pty" \notin Runtimes
  BY DEF NoTerminals, Reload
<1> QED BY <1>1, <1>2, <1>3, <1>4, <1>5, BackgroundRecords DEF Next

LEMMA RecordsHold == Spec => [](NoTerminals => RecordedInv)
<1>1. Init => RecordedInv
  BY RuntimeAssumption DEF Init, RecordedInv, RpcCallOK, RpcCalls, Idle, OneLaunch, OwnStatements
<1>2. RInv /\ (NoTerminals => RecordedInv) /\ [Next]_vars => (NoTerminals => RecordedInv)'
  BY NextRecords DEF NoTerminals
<1> QED BY <1>1, <1>2, RuntimeInvariant, PTL DEF Spec

\* Where no terminals are asked for and no reload interrupts a call, a driver that lives
\* and is nobody's launch any more has a row: the next run finds its session.
THEOREM DriversAreRecorded == Spec => [](NoTerminals => RpcRecorded)
<1>1. RInv /\ (NoTerminals => RecordedInv) => (NoTerminals => RpcRecorded)
  BY DEF RecordedInv, Recorded, Upserting, RpcRecorded
<1> QED BY <1>1, RecordsHold, RuntimeInvariant, PTL

\* There, a session leaves the live list with a row that reads exited, or with none, but where
\* the UPDATE of the stop itself fails.
THEOREM DriversStopAsExited == NoTerminals /\ Spec => StoppedAsExited
<1> SUFFICES ASSUME NoTerminals PROVE Spec => StoppedAsExited
  OBVIOUS
<1> DEFINE Exited == \A s \in DOMAIN rpc :
             (~Restart /\ (\A c \in Callers : ~RpcStoppedUnrecorded(c)) /\ rpc[s] # Null /\ rpc'[s] = Null /\ rows'[s] # Null) => rows'[s].state = "exited"
<1>1. ASSUME RInv, RecordedInv, [Next]_vars PROVE Exited
  <2> SUFFICES ASSUME NEW s \in DOMAIN rpc, ~Restart, \A c \in Callers : ~RpcStoppedUnrecorded(c), rpc[s] # Null, rpc'[s] = Null, rows'[s] # Null
               PROVE  rows'[s].state = "exited"
    OBVIOUS
  <2>0. TypeOK /\ OwnStatements /\ s \in Sessions
    BY <1>1 DEF RInv, RecordedInv, TypeOK
  <2>1. \E c \in Callers : RpcBuilt(c) \/ UpsertFails(c) \/ RpcStopped(c)
    <3>1. rpc' # rpc
      OBVIOUS
    <3>2. ASSUME NEW c \in Callers, PtyCall(c) \/ RpcCall(c) \/ Reload(c) PROVE FALSE
      BY <3>1, <3>2, Zenon DEF PtyCall, RpcCall, Launch, ResumeHeld, ResumeLoad, StopPty, LaunchRpc, ResumeRpc,
             StopRpc, Reload, memory
    <3>3. ASSUME NEW c \in Callers, Progress(c) \/ Handshake(c) PROVE RpcBuilt(c) \/ UpsertFails(c) \/ RpcStopped(c)
      BY <3>1, <3>3, Zenon DEF Progress, Handshake, ResumeLoaded, Upsert, ResumeRpcLoaded, RpcAlready, RpcBuildFails,
             ResumeRecorded, Spawn, RpcBuild, memory
    <3>4. ASSUME NEW k \in Kids, GraceEnds(k) \/ Exit(k) \/ DriverDies(k) \/ \E native \in Kids : Bind(k, native)
          PROVE  FALSE
      BY <3>1, <3>4, Zenon DEF GraceEnds, Exit, DriverDies, Bind, memory
    <3>5. ~Background /\ ~UNCHANGED vars
      BY <3>1, Zenon DEF Background, HandleExit, ExitRecorded, BindUpdate, BindRecorded, vars, memory
    <3> QED BY <1>1, <3>2, <3>3, <3>4, <3>5 DEF Next
  <2>2. PICK c \in Callers : RpcBuilt(c) \/ UpsertFails(c) \/ RpcStopped(c)
    BY <2>1
  <2>3. RpcCallOK(c)
    BY <1>1 DEF RecordedInv
  <2>4. ~RpcBuilt(c)
    <3> SUFFICES ASSUME RpcBuilt(c) PROVE FALSE
      OBVIOUS
    <3>1. call[c].kid \in Kids /\ rpc' = [rpc EXCEPT ![call[c].session] = call[c].kid]
      BY <2>3 DEF RpcBuilt, RpcCallOK
    <3> QED BY <2>0, <3>1, RuntimeAssumption DEF TypeOK
  <2>5. ASSUME NEW t \in Sessions, Torn(t) PROVE s = t
    BY <2>0, <2>5 DEF Torn, TypeOK
  <2>6. CASE UpsertFails(c)
    <3>1. Head(sql).session = call[c].session /\ call[c].session \in Sessions /\ call[c].op = "launchRpc"
      BY <2>0, <2>3, <2>6, Served DEF UpsertFails, Awaits, RpcCallOK, RpcCalls
    <3>2. s = call[c].session /\ rows' = rows
      BY <2>5, <2>6, <3>1 DEF UpsertFails
    <3> QED BY <2>3, <3>1, <3>2 DEF RpcCallOK
  <2>7. CASE RpcStopped(c)
    <3>1. Head(sql).session \in Sessions /\ SetRow(Head(sql).session, "state", "exited") /\ Torn(Head(sql).session)
      BY <2>0, <2>7, Served DEF RpcStopped
    <3>2. s = Head(sql).session
      BY <2>5, <3>1
    <3>3. rows[s] # Null
      BY <2>0, <3>1, <3>2, RowSet
    <3>4. rows'[s] = [rows[s] EXCEPT !["state"] = "exited"] /\ rows[s] \in SessionState
      BY <2>0, <3>1, <3>2, <3>3, RowSet
    <3> QED BY <3>4 DEF SessionState
  <2> QED BY <2>2, <2>4, <2>6, <2>7
<1>2. RInv /\ (NoTerminals => RecordedInv) /\ [Next]_vars => [Exited]_vars
  BY <1>1
<1>3. Spec => [][Exited]_vars
  BY <1>2, RecordsHold, RuntimeInvariant, PTL DEF Spec
<1> QED BY <1>3 DEF StoppedAsExited

-----------------------------------------------------------------------------
(* The rows of terminal sessions: RowsMirrorStore, where callers ask for    *)
(* terminals only, no INSERT fails and no reload interrupts a call.  Of     *)
(* each field of a session's row, the last statement in the queue that      *)
(* writes it writes what the store says, and where there is none the row    *)
(* says so already; a launch and a resume have the permit to themselves,    *)
(* and the origin of the row.                                               *)

Fields == {"state", "native", "origin", "startedAt"}
Writes(t, s, f) == t.session = s /\ t.kind \in {"upsert", f}
Value(t, f) == IF t.kind = "upsert" THEN t.val[f] ELSE t.val
LastOf(i, s, f) == Writes(sql[i], s, f) /\ \A j \in 1..Len(sql) : Writes(sql[j], s, f) => j <= i
FieldTrue(s, f) ==
  \/ \E i \in 1..Len(sql) : LastOf(i, s, f) /\ Value(sql[i], f) = store[s][f]
  \/ /\ \A i \in 1..Len(sql) : ~Writes(sql[i], s, f)
     /\ rows[s] # Null /\ rows[s][f] = store[s][f]
Mirrored(s) == (\A f \in Fields : FieldTrue(s, f)) /\ (rows[s] # Null => rows[s].origin = store[s].origin)

TerminalCalls ==
  {<<Null, "idle">>, <<"launch", "prepare">>, <<"launch", "upsert">>,
   <<"resume", "load">>, <<"resume", "prepare">>, <<"resume", "upsert">>}
OriginKept(s, origin) ==
  /\ store[s] # Null => store[s].origin = origin
  /\ rows[s] # Null => rows[s].origin = origin
TerminalCallOK(c) ==
  /\ <<call[c].op, call[c].pc>> \in TerminalCalls
  /\ call[c].pc # "idle" => ptyLock = c
  /\ call[c].pc = "prepare" => OriginKept(call[c].session, call[c].origin)

Asked == {"load", "upsert"}
QueueOK ==
  /\ \A i \in 1..Len(sql) : sql[i].kind \in Asked =>
       sql[i].who \in Callers /\ call[sql[i].who].pc = sql[i].kind
  /\ \A i, j \in 1..Len(sql) : sql[i].kind \in Asked /\ sql[j].kind \in Asked => i = j
  /\ \A i \in 1..Len(sql) : sql[i].kind = "state" => sql[i].val = "exited"

MirrorInv ==
  /\ \A c \in Callers : TerminalCallOK(c)
  /\ QueueOK
  /\ \A s \in Sessions : store[s] # Null => Mirrored(s)

OnlyTerminals == "rpc" \notin Runtimes /\ Failing = {} /\ Renderer = {}

\* While nobody holds the permit, or its holder has not spawned, no row is asked for.
LEMMA Unasked ==
  ASSUME MirrorInv, ptyLock = Null \/ \E c \in Callers : ptyLock = c /\ call[c].pc = "prepare"
  PROVE  \A i \in 1..Len(sql) : sql[i].kind \notin Asked
<1> SUFFICES ASSUME NEW i \in 1..Len(sql), sql[i].kind \in Asked PROVE FALSE
  OBVIOUS
<1> DEFINE w == sql[i].who
<1>1. w \in Callers /\ call[w].pc = sql[i].kind /\ call[w].pc # "idle" /\ call[w].pc # "prepare"
  BY DEF MirrorInv, QueueOK, Asked
<1>2. ptyLock = w
  BY <1>1 DEF MirrorInv, TerminalCallOK
<1> QED BY <1>1, <1>2, RuntimeAssumption

LEMMA QueueIssued ==
  ASSUME TypeOK, QueueOK, NEW who, NEW kind, NEW s, NEW val, Issue(who, kind, s, val),
         kind = "state" => val = "exited",
         kind \in Asked => who \in Callers /\ call'[who].pc = kind /\ \A i \in 1..Len(sql) : sql[i].kind \notin Asked,
         kind \notin Asked => call' = call
  PROVE  QueueOK'
<1> DEFINE n == Len(sql) + 1
<1>1. /\ Len(sql) \in Nat /\ \A i \in 1..Len(sql') : (i \in 1..Len(sql) /\ sql'[i] = sql[i]) \/ i = n
      /\ sql'[n] = Statement(who, kind, s, val)
  BY Longer
<1>2. sql'[n].who = who /\ sql'[n].kind = kind /\ sql'[n].val = val
  BY <1>1 DEF Statement
<1> HIDE DEF n
<1>3. ASSUME NEW i \in 1..Len(sql'), sql'[i].kind \in Asked
      PROVE  sql'[i].who \in Callers /\ call'[sql'[i].who].pc = sql'[i].kind
  BY <1>1, <1>2, <1>3 DEF QueueOK
<1>4. ASSUME NEW i \in 1..Len(sql'), NEW j \in 1..Len(sql'), sql'[i].kind \in Asked, sql'[j].kind \in Asked
      PROVE  i = j
  BY <1>1, <1>2, <1>4 DEF QueueOK
<1>5. ASSUME NEW i \in 1..Len(sql'), sql'[i].kind = "state" PROVE sql'[i].val = "exited"
  BY <1>1, <1>2, <1>5 DEF QueueOK
<1> QED BY <1>3, <1>4, <1>5 DEF QueueOK

LEMMA QueueExecuted ==
  ASSUME TypeOK, QueueOK, NEW who, NEW kind, Executes(who, kind), Executed,
         kind \notin Asked => call' = call
  PROVE  QueueOK'
<1>1. /\ Head(sql) = sql[1] /\ 1 \in 1..Len(sql) /\ sql[1].kind = kind
      /\ \A i \in 1..Len(sql') : sql'[i] = sql[i + 1] /\ i + 1 \in 1..Len(sql) /\ i + 1 # 1
  BY Shorter DEF Executes, TypeOK
<1>2. ASSUME NEW i \in 1..Len(sql'), sql'[i].kind \in Asked
      PROVE  kind \notin Asked /\ sql'[i].who \in Callers /\ call'[sql'[i].who].pc = sql'[i].kind
  <2>1. sql'[i] = sql[i + 1] /\ i + 1 \in 1..Len(sql) /\ i + 1 # 1
    BY <1>1
  <2>2. kind \notin Asked
    BY <1>1, <1>2, <2>1 DEF QueueOK
  <2> QED BY <1>2, <2>1, <2>2 DEF QueueOK
<1>3. ASSUME NEW i \in 1..Len(sql'), NEW j \in 1..Len(sql'), sql'[i].kind \in Asked, sql'[j].kind \in Asked
      PROVE  i = j
  <2>1. i + 1 = j + 1
    BY <1>1, <1>3 DEF QueueOK
  <2> QED BY <2>1
<1>4. ASSUME NEW i \in 1..Len(sql'), sql'[i].kind = "state" PROVE sql'[i].val = "exited"
  BY <1>1, <1>4 DEF QueueOK
<1> QED BY <1>2, <1>3, <1>4 DEF QueueOK

LEMMA FieldIssued ==
  ASSUME TypeOK, NEW who, NEW kind, NEW t, NEW val, Issue(who, kind, t, val), NEW s, NEW f,
         Writes(Statement(who, kind, t, val), s, f) => Value(Statement(who, kind, t, val), f) = store'[s][f],
         ~Writes(Statement(who, kind, t, val), s, f)
           => FieldTrue(s, f) /\ store'[s][f] = store[s][f] /\ rows'[s] = rows[s]
  PROVE  FieldTrue(s, f)'
<1> DEFINE n == Len(sql) + 1
           new == Statement(who, kind, t, val)
<1>1. /\ Len(sql) \in Nat /\ \A i \in 1..Len(sql') : (i \in 1..Len(sql) /\ sql'[i] = sql[i]) \/ i = n
      /\ sql'[n] = new /\ n \in 1..Len(sql') /\ \A i \in 1..Len(sql) : i \in 1..Len(sql') /\ sql'[i] = sql[i]
      /\ Len(sql') = n
  BY Longer
<1> HIDE DEF new
<1>2. CASE Writes(new, s, f)
  <2>1. n \in 1..Len(sql') /\ sql'[n] = new /\ \A j \in 1..Len(sql') : j <= n
    BY <1>1
  <2>2. Value(new, f) = store'[s][f]
    BY <1>2 DEF new
  <2> HIDE DEF n
  <2>3. PICK m \in 1..Len(sql') : sql'[m] = new /\ \A j \in 1..Len(sql') : j <= m
    BY <2>1
  <2>4. LastOf(m, s, f)' /\ Value(sql'[m], f) = store'[s][f]
    BY <1>2, <2>2, <2>3 DEF LastOf
  <2> QED BY <2>3, <2>4 DEF FieldTrue
<1>3. CASE ~Writes(new, s, f)
  <2>1. FieldTrue(s, f) /\ store'[s][f] = store[s][f] /\ rows'[s] = rows[s]
    BY <1>3 DEF new
  <2>2. \A i \in 1..Len(sql') : Writes(sql'[i], s, f) => i \in 1..Len(sql) /\ sql'[i] = sql[i]
    BY <1>1, <1>3
  <2>3. ASSUME NEW i \in 1..Len(sql), LastOf(i, s, f), Value(sql[i], f) = store[s][f] PROVE FieldTrue(s, f)'
    <3>1. i \in 1..Len(sql') /\ sql'[i] = sql[i]
      BY <1>1
    <3>2. LastOf(i, s, f)'
      BY <2>2, <2>3, <3>1 DEF LastOf
    <3> QED BY <2>1, <2>3, <3>1, <3>2 DEF FieldTrue, LastOf
  <2>4. ASSUME \A i \in 1..Len(sql) : ~Writes(sql[i], s, f), rows[s] # Null, rows[s][f] = store[s][f]
        PROVE  FieldTrue(s, f)'
    <3>1. \A i \in 1..Len(sql') : ~Writes(sql'[i], s, f)
      BY <2>2, <2>4
    <3> QED BY <2>1, <2>4, <3>1 DEF FieldTrue
  <2> QED BY <2>1, <2>3, <2>4 DEF FieldTrue
<1> QED BY <1>2, <1>3

LEMMA FieldExecuted ==
  ASSUME TypeOK, sql # <<>>, Executed, NEW s, NEW f, FieldTrue(s, f), store'[s][f] = store[s][f],
         ~Writes(sql[1], s, f) /\ rows[s] # Null => rows'[s] # Null /\ rows'[s][f] = rows[s][f],
         LastOf(1, s, f) /\ Value(sql[1], f) = store[s][f] => rows'[s] # Null /\ rows'[s][f] = store[s][f]
  PROVE  FieldTrue(s, f)'
<1>1. /\ Len(sql) \in Nat /\ Len(sql') \in Nat /\ 1 \in 1..Len(sql)
      /\ \A i \in 1..Len(sql') : sql'[i] = sql[i + 1] /\ i + 1 \in 1..Len(sql)
      /\ \A i \in 1..Len(sql) : i # 1 => i - 1 \in 1..Len(sql') /\ sql'[i - 1] = sql[i]
  BY Shorter DEF TypeOK
<1>2. ASSUME NEW i \in 1..Len(sql), LastOf(i, s, f), Value(sql[i], f) = store[s][f], i # 1 PROVE FieldTrue(s, f)'
  <2>1. i - 1 \in 1..Len(sql') /\ sql'[i - 1] = sql[i]
    BY <1>1, <1>2
  <2>2. LastOf(i - 1, s, f)'
    <3>1. ASSUME NEW j \in 1..Len(sql'), Writes(sql'[j], s, f) PROVE j <= i - 1
      <4>1. j + 1 <= i
        BY <1>1, <1>2, <3>1 DEF LastOf
      <4> QED BY <4>1
    <3> QED BY <1>2, <2>1, <3>1 DEF LastOf
  <2> DEFINE m == i - 1
  <2>3. m \in 1..Len(sql') /\ LastOf(m, s, f)' /\ Value(sql'[m], f) = store'[s][f]
    BY <1>2, <2>1, <2>2
  <2> HIDE DEF m
  <2> QED BY <2>3 DEF FieldTrue, LastOf
<1>3. ASSUME LastOf(1, s, f), Value(sql[1], f) = store[s][f] PROVE FieldTrue(s, f)'
  <2>1. rows'[s] # Null /\ rows'[s][f] = store[s][f]
    BY <1>3
  <2>2. ASSUME NEW j \in 1..Len(sql'), Writes(sql'[j], s, f) PROVE FALSE
    <3>1. j + 1 <= 1
      BY <1>1, <1>3, <2>2 DEF LastOf
    <3> QED BY <3>1
  <2> QED BY <2>1, <2>2 DEF FieldTrue
<1>4. ASSUME \A i \in 1..Len(sql) : ~Writes(sql[i], s, f), rows[s] # Null, rows[s][f] = store[s][f]
      PROVE  FieldTrue(s, f)'
  <2>1. ~Writes(sql[1], s, f) /\ \A i \in 1..Len(sql') : ~Writes(sql'[i], s, f)
    BY <1>1, <1>4
  <2> QED BY <1>4, <2>1 DEF FieldTrue
<1> QED BY <1>2, <1>3, <1>4 DEF FieldTrue

-----------------------------------------------------------------------------

LEMMA KindsOf ==
  ASSUME TypeOK, NEW i \in 1..Len(sql)
  PROVE  sql[i].kind \in {"load", "upsert", "state", "native"}
<1>1. sql[i] \in Statements
  BY DEF TypeOK
<1> QED BY <1>1 DEF Statements

\* A step of the caller that holds the permit, or takes it.
LEMMA HoldersStep ==
  ASSUME MirrorInv, NEW c \in Callers, ptyLock = Null \/ ptyLock = c,
         \A w \in Callers \ {c} : call'[w] = call[w], TerminalCallOK(c)'
  PROVE  \A w \in Callers : TerminalCallOK(w)'
<1> SUFFICES ASSUME NEW w \in Callers, w # c PROVE TerminalCallOK(w)'
  OBVIOUS
<1>1. TerminalCallOK(w) /\ ptyLock # w /\ call'[w] = call[w]
  BY RuntimeAssumption DEF MirrorInv
<1>2. call[w].pc = "idle"
  BY <1>1 DEF TerminalCallOK
<1> QED BY <1>1, <1>2 DEF TerminalCallOK

\* A step of no caller.
LEMMA CallersStay ==
  ASSUME RInv, MirrorInv, call' = call, ptyLock' = ptyLock,
         \A s \in Sessions : store'[s] # Null => store[s] # Null /\ store'[s].origin = store[s].origin,
         \A s \in Sessions : rows'[s] # Null => rows[s] # Null /\ rows'[s].origin = rows[s].origin
  PROVE  \A w \in Callers : TerminalCallOK(w)'
<1> SUFFICES ASSUME NEW w \in Callers PROVE TerminalCallOK(w)'
  OBVIOUS
<1>1. TerminalCallOK(w) /\ (call[w].pc = "prepare" => call[w].session \in Sessions)
  BY DEF MirrorInv, RInv, LocksHeld, LockHeld
<1>2. call[w].pc = "prepare" => OriginKept(call[w].session, call[w].origin)'
  BY <1>1 DEF TerminalCallOK, OriginKept
<1> QED BY <1>1, <1>2 DEF TerminalCallOK

\* A step that leaves the sessions, their rows and the queue as they are.
LEMMA RowsStay ==
  ASSUME MirrorInv, UNCHANGED <<store, rows, sql>>,
         call' = call \/ \A i \in 1..Len(sql) : sql[i].kind \notin Asked
  PROVE  QueueOK' /\ \A s \in Sessions : store'[s] # Null => Mirrored(s)'
<1>1. QueueOK'
  BY DEF MirrorInv, QueueOK
<1>2. \A s \in Sessions : store'[s] # Null => Mirrored(s)'
  BY DEF MirrorInv, Mirrored, FieldTrue, LastOf
<1> QED BY <1>1, <1>2

LEMMA LaunchMirrors ==
  ASSUME RInv, MirrorInv, NEW c \in Callers, NEW origin \in Origins, Launch(c, origin)
  PROVE  MirrorInv'
<1> DEFINE old == Reusable(origin)
<1>1. /\ ptyLock = Null /\ ptyLock' = c /\ UNCHANGED <<store, rows, sql>>
      /\ call \in [Callers -> CallState]
  BY DEF Launch, LockPty, memory, RInv, TypeOK
<1>2. PICK s \in Sessions :
        /\ IF old = {} THEN FreshSession(s) ELSE Newest(s, old)
        /\ call' = [call EXCEPT ![c] =
             [pc |-> "prepare", op |-> "launch", session |-> s,
              native |-> IF old = {} THEN Null ELSE store[s].native,
              origin |-> origin, startedAt |-> Null, kid |-> Null]]
  BY DEF Launch
<1>3. OriginKept(s, origin)
  <2>1. CASE old = {}
    BY <1>2, <2>1 DEF FreshSession, OriginKept
  <2>2. CASE old # {}
    <3>1. origin = "manual" /\ store[s] # Null /\ store[s].origin = "manual"
      BY <1>2, <2>2 DEF Newest, Reusable
    <3> QED BY <3>1 DEF MirrorInv, Mirrored, OriginKept
  <2> QED BY <2>1, <2>2
<1>4. /\ call'[c].pc = "prepare" /\ call'[c].op = "launch" /\ call'[c].session = s /\ call'[c].origin = origin
      /\ \A w \in Callers \ {c} : call'[w] = call[w]
  BY <1>1, <1>2
<1>5. TerminalCallOK(c)'
  BY <1>1, <1>3, <1>4 DEF TerminalCallOK, TerminalCalls, OriginKept
<1> QED BY <1>1, <1>4, <1>5, HoldersStep, Unasked, RowsStay DEF MirrorInv

LEMMA ResumeHeldMirrors ==
  ASSUME RInv, MirrorInv, NEW c \in Callers, NEW s \in Sessions, ResumeHeld(c, s)
  PROVE  MirrorInv'
<1>1. /\ ptyLock = Null /\ ptyLock' = c /\ UNCHANGED <<store, rows, sql>> /\ store[s] # Null
      /\ call \in [Callers -> CallState] /\ Resuming(c, s, store[s])
  BY DEF ResumeHeld, LockPty, memory, RInv, TypeOK
<1>2. OriginKept(s, store[s].origin)
  BY <1>1 DEF MirrorInv, Mirrored, OriginKept
<1>3. /\ call'[c].pc = "prepare" /\ call'[c].op = "resume" /\ call'[c].session = s /\ call'[c].origin = store[s].origin
      /\ \A w \in Callers \ {c} : call'[w] = call[w]
  BY <1>1 DEF Resuming
<1>4. TerminalCallOK(c)'
  BY <1>1, <1>2, <1>3 DEF TerminalCallOK, TerminalCalls, OriginKept
<1> QED BY <1>1, <1>3, <1>4, HoldersStep, Unasked, RowsStay DEF MirrorInv

LEMMA ResumeLoadMirrors ==
  ASSUME RInv, MirrorInv, NEW c \in Callers, NEW s \in Sessions, ResumeLoad(c, s)
  PROVE  MirrorInv'
<1>1. /\ ptyLock = Null /\ ptyLock' = c /\ UNCHANGED <<store, rows>> /\ Issue(c, "load", s, Null)
      /\ TypeOK /\ QueueOK
      /\ call' = [call EXCEPT ![c] = [Idle EXCEPT !.pc = "load", !.op = "resume", !.session = s]]
  BY DEF ResumeLoad, LockPty, memory, RInv, MirrorInv
<1>2. call'[c].pc = "load" /\ call'[c].op = "resume" /\ \A w \in Callers \ {c} : call'[w] = call[w]
  BY <1>1 DEF TypeOK, Idle
<1>3. TerminalCallOK(c)'
  BY <1>1, <1>2 DEF TerminalCallOK, TerminalCalls
<1>4. QueueOK'
  BY <1>1, <1>2, Unasked, QueueIssued DEF Asked
<1>5. ASSUME NEW t \in Sessions, store'[t] # Null PROVE Mirrored(t)'
  <2>1. Mirrored(t)
    BY <1>1, <1>5 DEF MirrorInv
  <2>2. \A f \in Fields : ~Writes(Statement(c, "load", s, Null), t, f)
    BY DEF Fields, Writes, Statement
  <2>3. \A f \in Fields : FieldTrue(t, f)'
    BY <1>1, <2>1, <2>2, FieldIssued DEF Mirrored
  <2> QED BY <1>1, <2>1, <2>3 DEF Mirrored
<1> QED BY <1>1, <1>2, <1>3, <1>4, <1>5, HoldersStep DEF MirrorInv

LEMMA ResumeLoadedMirrors ==
  ASSUME RInv, MirrorInv, NEW c \in Callers, ResumeLoaded(c)
  PROVE  MirrorInv'
<1> DEFINE s == call[c].session
<1>1. /\ call[c].pc = "load" /\ call[c].op = "resume" /\ Executes(c, "load") /\ Executed /\ UNCHANGED <<store, rows>>
      /\ TypeOK /\ QueueOK /\ call \in [Callers -> CallState]
  BY DEF ResumeLoaded, memory, RInv, TypeOK, MirrorInv
<1>2. ptyLock = c /\ s \in Sessions /\ store[s] = Null
  BY <1>1 DEF RInv, LocksHeld, LockHeld
<1>3. TerminalCallOK(c)' /\ \A w \in Callers \ {c} : call'[w] = call[w]
  <2>1. CASE rows[s] # Null /\ rows[s].native # Null
    <3>1. Resuming(c, s, rows[s]) /\ ptyLock' = ptyLock
      BY <2>1 DEF ResumeLoaded
    <3>2. /\ call'[c].pc = "prepare" /\ call'[c].op = "resume" /\ call'[c].session = s /\ call'[c].origin = rows[s].origin
          /\ \A w \in Callers \ {c} : call'[w] = call[w]
      BY <1>1, <3>1 DEF Resuming
    <3> QED BY <1>1, <1>2, <3>1, <3>2 DEF TerminalCallOK, TerminalCalls, OriginKept
  <2>2. CASE ~(rows[s] # Null /\ rows[s].native # Null)
    <3>1. Return(c)
      BY <2>2 DEF ResumeLoaded
    <3>2. call'[c] = Idle /\ \A w \in Callers \ {c} : call'[w] = call[w]
      BY <1>1, <3>1 DEF Return
    <3> QED BY <3>2 DEF TerminalCallOK, TerminalCalls, Idle
  <2> QED BY <2>1, <2>2
<1>4. QueueOK'
  BY <1>1, QueueExecuted DEF Asked
<1>5. sql # <<>> /\ sql[1].kind = "load"
  BY <1>1, Shorter DEF Executes
<1>6. ASSUME NEW t \in Sessions, store'[t] # Null PROVE Mirrored(t)'
  <2>1. Mirrored(t)
    BY <1>1, <1>6 DEF MirrorInv
  <2>2. \A f \in Fields : ~Writes(sql[1], t, f) /\ ~LastOf(1, t, f)
    BY <1>5 DEF Fields, Writes, LastOf
  <2>3. \A f \in Fields : FieldTrue(t, f)'
    BY <1>1, <1>5, <2>1, <2>2, FieldExecuted DEF Mirrored
  <2> QED BY <1>1, <2>1, <2>3 DEF Mirrored
<1> QED BY <1>2, <1>3, <1>4, <1>6, HoldersStep DEF MirrorInv

LEMMA SpawnMirrors ==
  ASSUME RInv, MirrorInv, NEW c \in Callers, NEW k \in Kids, Spawn(c, k)
  PROVE  MirrorInv'
<1> DEFINE s == call[c].session
           session == [state |-> "running", native |-> call[c].native, origin |-> call[c].origin,
                       startedAt |-> IF call[c].op = "launch" THEN k ELSE call[c].startedAt]
<1>1. /\ call[c].pc = "prepare" /\ Goto(c, "upsert") /\ Issue(c, "upsert", s, session)
      /\ store' = [store EXCEPT ![s] = session] /\ UNCHANGED <<rows, ptyLock>>
      /\ TypeOK /\ QueueOK /\ call \in [Callers -> CallState] /\ TerminalCallOK(c)
  BY DEF Spawn, locks, RInv, TypeOK, MirrorInv
<1>2. ptyLock = c /\ s \in Sessions /\ OriginKept(s, call[c].origin) /\ <<call[c].op, "prepare">> \in TerminalCalls
  BY <1>1 DEF RInv, LocksHeld, LockHeld, TerminalCallOK
<1>3. call'[c].pc = "upsert" /\ call'[c].op = call[c].op /\ \A w \in Callers \ {c} : call'[w] = call[w]
  BY <1>1 DEF Goto, CallState
<1>4. TerminalCallOK(c)'
  BY <1>1, <1>2, <1>3 DEF TerminalCallOK, TerminalCalls
<1>5. session.origin = call[c].origin
  OBVIOUS
<1> HIDE DEF session
<1>6. QueueOK'
  BY <1>1, <1>2, <1>3, Unasked, QueueIssued DEF Asked
<1>7. store'[s] = session /\ \A t \in Sessions : t # s => store'[t] = store[t]
  BY <1>1, <1>2 DEF TypeOK
<1>8. ASSUME NEW t \in Sessions, store'[t] # Null PROVE Mirrored(t)'
  <2>1. CASE t = s
    <3>1. \A f \in Fields : /\ Writes(Statement(c, "upsert", s, session), t, f)
                            /\ Value(Statement(c, "upsert", s, session), f) = store'[t][f]
      BY <1>7, <2>1 DEF Writes, Value, Statement
    <3>2. \A f \in Fields : FieldTrue(t, f)'
      BY <1>1, <3>1, FieldIssued
    <3>3. rows'[t] # Null => rows'[t].origin = store'[t].origin
      BY <1>1, <1>2, <1>5, <1>7, <2>1 DEF OriginKept
    <3> QED BY <3>2, <3>3 DEF Mirrored
  <2>2. CASE t # s
    <3>1. Mirrored(t) /\ store'[t] = store[t]
      BY <1>7, <1>8, <2>2 DEF MirrorInv
    <3>2. \A f \in Fields : ~Writes(Statement(c, "upsert", s, session), t, f)
      BY <2>2 DEF Writes, Statement
    <3>3. \A f \in Fields : FieldTrue(t, f)'
      BY <1>1, <3>1, <3>2, FieldIssued DEF Mirrored
    <3> QED BY <1>1, <3>1, <3>3 DEF Mirrored
  <2> QED BY <2>1, <2>2
<1> QED BY <1>2, <1>3, <1>4, <1>6, <1>8, HoldersStep DEF MirrorInv

LEMMA UpsertMirrors ==
  ASSUME RInv, MirrorInv, NEW c \in Callers, Upsert(c)
  PROVE  MirrorInv'
<1> DEFINE s == Head(sql).session
           row == Head(sql).val
<1>1. /\ Executes(c, "upsert") /\ Executed /\ Return(c) /\ UNCHANGED store
      /\ rows' = [rows EXCEPT ![s] = IF rows[s] = Null THEN row ELSE [row EXCEPT !.origin = rows[s].origin]]
      /\ ptyLock' = (IF ptyLock = c THEN Null ELSE ptyLock) /\ TypeOK /\ QueueOK
  BY DEF Upsert, memory, RInv, MirrorInv
<1>2. /\ sql # <<>> /\ Head(sql) = sql[1] /\ 1 \in 1..Len(sql) /\ sql[1].who = c /\ sql[1].kind = "upsert"
      /\ s \in Sessions /\ row \in SessionState
  BY <1>1, Shorter, ExecutedType DEF Executes, TypeOK
<1>3. ptyLock = c /\ call'[c] = Idle /\ \A w \in Callers \ {c} : call'[w] = call[w]
  <2>1. call[c].pc = "upsert"
    BY <1>1, <1>2 DEF QueueOK, Asked
  <2> QED BY <1>1, <2>1 DEF MirrorInv, TerminalCallOK, Return, TypeOK
<1>4. TerminalCallOK(c)'
  BY <1>3 DEF TerminalCallOK, TerminalCalls, Idle
<1>5. QueueOK'
  BY <1>1, QueueExecuted DEF Asked
<1>6. \A t \in Sessions : t # s => rows'[t] = rows[t]
  BY <1>1, <1>2 DEF TypeOK
<1>7. rows'[s] \in SessionState /\ \A f \in Fields : f # "origin" => rows'[s][f] = row[f]
  BY <1>1, <1>2 DEF TypeOK, SessionState, Fields, OrNull
<1>8. rows'[s].origin = IF rows[s] = Null THEN row.origin ELSE rows[s].origin
  BY <1>1, <1>2 DEF TypeOK, SessionState, OrNull
<1>9. rows'[s] # Null
  BY <1>7, RuntimeAssumption
<1>10. ASSUME NEW t \in Sessions, store'[t] # Null PROVE Mirrored(t)'
  <2>1. Mirrored(t) /\ store'[t] = store[t]
    BY <1>1, <1>10 DEF MirrorInv
  <2>2. CASE t # s
    <3>1. \A f \in Fields : ~Writes(sql[1], t, f) /\ ~LastOf(1, t, f)
      BY <1>2, <2>2 DEF Writes, LastOf
    <3>2. rows'[t] = rows[t]
      BY <1>6, <2>2
    <3>3. \A f \in Fields : FieldTrue(t, f)'
      BY <1>1, <1>2, <2>1, <3>1, <3>2, FieldExecuted DEF Mirrored
    <3> QED BY <2>1, <3>2, <3>3 DEF Mirrored
  <2>3. CASE t = s
    <3>1. \A f \in Fields : Writes(sql[1], t, f) /\ Value(sql[1], f) = row[f]
      BY <1>2, <2>3 DEF Writes, Value
    <3>2. row.origin = store[t].origin
      <4>1. PICK i \in 1..Len(sql) : LastOf(i, t, "origin") /\ Value(sql[i], "origin") = store[t]["origin"]
        BY <1>2, <2>1, <3>1 DEF Mirrored, FieldTrue, Fields
      <4>2. sql[i].kind = "upsert"
        BY <1>1, <4>1, KindsOf DEF LastOf, Writes
      <4>3. i = 1
        BY <1>1, <1>2, <4>2 DEF QueueOK, Asked
      <4> QED BY <1>2, <4>1, <4>2, <4>3 DEF Value
    <3>3. rows'[t].origin = store[t].origin
      BY <1>8, <2>1, <2>3, <3>2 DEF Mirrored
    <3>4. ASSUME NEW f \in Fields, Value(sql[1], f) = store[t][f] PROVE rows'[t][f] = store[t][f]
      BY <1>7, <2>3, <3>1, <3>3, <3>4
    <3>5. \A f \in Fields : FieldTrue(t, f)'
      BY <1>1, <1>2, <1>9, <2>1, <2>3, <3>1, <3>4, FieldExecuted DEF Mirrored
    <3> QED BY <2>1, <3>3, <3>5 DEF Mirrored
  <2> QED BY <2>2, <2>3
<1> QED BY <1>3, <1>4, <1>5, <1>10, HoldersStep DEF MirrorInv

\* An exit, or a binding, is noted in memory and its statement joins the queue.
LEMMA NotedMirrors ==
  ASSUME RInv, MirrorInv, NEW who, NEW field \in {"state", "native"}, NEW s \in Sessions, NEW val,
         field = "state" => val = "exited", field = "native" => val \in Kids, Issue(who, field, s, val),
         store' = IF store[s] = Null THEN store ELSE [store EXCEPT ![s] = [store[s] EXCEPT ![field] = val]],
         UNCHANGED <<rows, call, ptyLock>>
  PROVE  MirrorInv'
<1>1. TypeOK /\ QueueOK
  BY DEF RInv, MirrorInv
<1>2. /\ \A t \in Sessions : (store'[t] # Null => store[t] # Null) /\ (t # s => store'[t] = store[t])
      /\ store[s] # Null => store'[s] = [store[s] EXCEPT ![field] = val] /\ store[s] \in SessionState
  BY <1>1 DEF TypeOK, OrNull
<1>3. ASSUME store[s] # Null
      PROVE  /\ store'[s][field] = val /\ store'[s].origin = store[s].origin
             /\ \A f \in Fields : f # field => store'[s][f] = store[s][f]
  BY <1>2, <1>3 DEF SessionState, Fields
<1>4. \A w \in Callers : TerminalCallOK(w)'
  BY <1>2, <1>3, CallersStay
<1>5. QueueOK'
  BY <1>1, QueueIssued DEF Asked
<1> DEFINE new == Statement(who, field, s, val)
<1>6. ASSUME NEW t \in Sessions, store'[t] # Null PROVE Mirrored(t)'
  <2>1. Mirrored(t) /\ store[t] # Null
    BY <1>2, <1>6 DEF MirrorInv
  <2>2. ASSUME NEW f \in Fields PROVE FieldTrue(t, f)'
    <3>1. CASE t = s /\ f = field
      <4>1. Value(new, f) = store'[t][f] /\ Writes(new, t, f)
        BY <1>3, <2>1, <3>1 DEF Value, Statement, Writes
      <4> QED BY <1>1, <4>1, FieldIssued
    <3>2. CASE ~(t = s /\ f = field)
      <4>1. ~Writes(new, t, f)
        BY <3>2 DEF Writes, Statement, Fields
      <4>2. store'[t][f] = store[t][f] /\ FieldTrue(t, f)
        BY <1>2, <1>3, <2>1, <2>2, <3>2 DEF Mirrored
      <4> QED BY <1>1, <4>1, <4>2, FieldIssued
    <3> QED BY <3>1, <3>2
  <2>3. rows'[t] # Null => rows'[t].origin = store'[t].origin
    BY <1>2, <1>3, <2>1 DEF Mirrored
  <2> QED BY <2>2, <2>3 DEF Mirrored
<1> QED BY <1>4, <1>5, <1>6 DEF MirrorInv

\* Its statement gets the permit.
LEMMA RecordedMirrors ==
  ASSUME RInv, MirrorInv, NEW who, NEW field \in {"state", "native"}, Executes(who, field), Executed,
         SetRow(Head(sql).session, field, Head(sql).val), UNCHANGED <<store, call, ptyLock>>
  PROVE  MirrorInv'
<1> DEFINE s == Head(sql).session
           val == Head(sql).val
<1>1. TypeOK /\ QueueOK
  BY DEF RInv, MirrorInv
<1>2. /\ sql # <<>> /\ Head(sql) = sql[1] /\ 1 \in 1..Len(sql) /\ sql[1].kind = field
      /\ s \in Sessions /\ (field = "native" => val \in Kids) /\ (field = "state" => val = "exited")
  BY <1>1, Shorter, ExecutedType DEF Executes, TypeOK, QueueOK
<1>3. /\ \A t \in Sessions : (rows'[t] = Null <=> rows[t] = Null) /\ (t # s => rows'[t] = rows[t])
      /\ rows[s] # Null => rows'[s] = [rows[s] EXCEPT ![field] = val] /\ rows[s] \in SessionState
  <2>1. SetRow(s, field, val)
    OBVIOUS
  <2> HIDE DEF s, val
  <2>2. \/ field = "state" /\ val \in {"running", "exited"}
        \/ field = "native" /\ val \in Kids
    BY <1>2
  <2>3. ASSUME NEW x \in Sessions, NEW v, x = s, v = val
        PROVE  /\ \A t \in Sessions : (rows'[t] = Null <=> rows[t] = Null) /\ (t # x => rows'[t] = rows[t])
               /\ rows[x] # Null => rows'[x] = [rows[x] EXCEPT ![field] = v] /\ rows[x] \in SessionState
    <3>1. \/ field = "state" /\ v \in {"running", "exited"}
          \/ field = "native" /\ v \in Kids
      BY <2>2, <2>3
    <3>2. SetRow(x, field, v)
      BY <2>1, <2>3
    <3> QED BY <1>1, <3>1, <3>2, RowSet
  <2> QED BY <1>2, <2>3
<1>4. ASSUME rows[s] # Null
      PROVE  /\ rows'[s][field] = val /\ rows'[s].origin = rows[s].origin
             /\ \A f \in Fields : f # field => rows'[s][f] = rows[s][f]
  BY <1>3, <1>4 DEF SessionState, Fields
<1>5. \A w \in Callers : TerminalCallOK(w)'
  BY <1>3, <1>4, CallersStay
<1>6. QueueOK'
  BY <1>1, QueueExecuted DEF Asked
<1>7. ASSUME NEW t \in Sessions, store'[t] # Null PROVE Mirrored(t)'
  <2>1. Mirrored(t)
    BY <1>7 DEF MirrorInv
  <2>2. ASSUME NEW f \in Fields, ~Writes(sql[1], t, f) \/ t # s, rows[t] # Null PROVE rows'[t] # Null /\ rows'[t][f] = rows[t][f]
    <3>1. t # s \/ f # field
      BY <1>2, <2>2 DEF Writes
    <3> QED BY <1>3, <1>4, <2>2, <3>1
  <2>3. ASSUME NEW f \in Fields, LastOf(1, t, f), Value(sql[1], f) = store[t][f]
        PROVE  rows'[t] # Null /\ rows'[t][f] = store[t][f]
    <3>1. t = s /\ f = field /\ Value(sql[1], f) = val
      BY <1>2, <2>3 DEF LastOf, Writes, Value
    <3>2. rows[s] # Null
      <4>1. FieldTrue(t, "startedAt")
        BY <2>1 DEF Mirrored, Fields
      <4>2. ASSUME NEW i \in 1..Len(sql), Writes(sql[i], t, "startedAt") PROVE FALSE
        <5>1. sql[i].kind = "upsert"
          BY <1>1, <4>2, KindsOf DEF Writes
        <5>2. Writes(sql[i], t, f)
          BY <4>2, <5>1 DEF Writes
        <5>3. i <= 1
          BY <2>3, <5>2 DEF LastOf
        <5>4. i = 1
          BY <5>3
        <5> QED BY <1>2, <5>1, <5>4
      <4> QED BY <3>1, <4>1, <4>2 DEF FieldTrue, LastOf
    <3> QED BY <1>3, <1>4, <2>3, <3>1, <3>2
  <2>4. \A f \in Fields : FieldTrue(t, f)'
    BY <1>1, <1>2, <2>1, <2>2, <2>3, FieldExecuted DEF Mirrored
  <2>5. rows'[t] # Null => rows'[t].origin = store'[t].origin
    BY <1>3, <1>4, <2>1 DEF Mirrored
  <2> QED BY <2>4, <2>5 DEF Mirrored
<1> QED BY <1>5, <1>6, <1>7 DEF MirrorInv

LEMMA BackgroundMirrors ==
  ASSUME RInv, OnlyTerminals, MirrorInv, Background
  PROVE  MirrorInv'
<1>1. CASE HandleExit
  <2> DEFINE s == Head(exits)
  <2>1. s \in Sessions
    BY <1>1 DEF HandleExit, RInv, TypeOK
  <2>2. /\ Issue("exits", "state", s, "exited") /\ UNCHANGED <<rows, call, ptyLock>>
        /\ store' = IF store[s] = Null THEN store ELSE [store EXCEPT ![s] = [store[s] EXCEPT !["state"] = "exited"]]
    BY <1>1 DEF HandleExit, locks
  <2> HIDE DEF s
  <2> QED BY <2>1, <2>2, NotedMirrors
<1>2. CASE BindUpdate
  <2> DEFINE s == binding.session
             native == binding.native
  <2>1. s \in Sessions /\ native \in Kids /\ store[s] # Null
    BY <1>2 DEF BindUpdate, RInv, TypeOK, OrNull, Handles, BindingOK
  <2>2. /\ Issue("bind", "native", s, native) /\ UNCHANGED <<rows, call, ptyLock>>
        /\ store' = IF store[s] = Null THEN store ELSE [store EXCEPT ![s] = [store[s] EXCEPT !["native"] = native]]
    BY <1>2, <2>1 DEF BindUpdate, locks
  <2> HIDE DEF s, native
  <2> QED BY <2>1, <2>2, NotedMirrors
<1>3. CASE ExitRecorded
  <2>1. Head(sql).val = "exited"
    BY <1>3, Shorter DEF ExitRecorded, Executes, MirrorInv, QueueOK, RInv
  <2>2. /\ Executes("exits", "state") /\ Executed /\ UNCHANGED <<store, call, ptyLock>>
        /\ SetRow(Head(sql).session, "state", Head(sql).val)
    BY <1>3, <2>1 DEF ExitRecorded, TrySetRow, OnlyTerminals, locks
  <2> QED BY <2>2, RecordedMirrors
<1>4. CASE BindRecorded
  <2>1. /\ Executes("bind", "native") /\ Executed /\ UNCHANGED <<store, call, ptyLock>>
        /\ SetRow(Head(sql).session, "native", Head(sql).val)
    BY <1>4 DEF BindRecorded, TrySetRow, OnlyTerminals, locks
  <2> QED BY <2>1, RecordedMirrors
<1> QED BY <1>1, <1>2, <1>3, <1>4 DEF Background

LEMMA NextMirrors ==
  ASSUME RInv, OnlyTerminals, MirrorInv, [Next]_vars
  PROVE  MirrorInv'
<1>1. ASSUME UNCHANGED <<store, rows, sql, call, ptyLock>> PROVE MirrorInv'
  <2>1. \A w \in Callers : TerminalCallOK(w)'
    BY <1>1, CallersStay
  <2> QED BY <1>1, <2>1, RowsStay DEF MirrorInv
<1>2. ASSUME NEW c \in Callers, PtyCall(c) PROVE MirrorInv'
  <2>1. ASSUME NEW s \in Sessions, StopPty(c, s) PROVE MirrorInv'
    BY <1>1, <2>1 DEF StopPty, locks
  <2> QED BY <1>2, <2>1, LaunchMirrors, ResumeHeldMirrors, ResumeLoadMirrors DEF PtyCall
<1>3. ASSUME NEW c \in Callers, Progress(c) \/ Handshake(c) PROVE MirrorInv'
  <2>1. /\ call[c].pc \notin {"wait", "build"} /\ call[c].op \notin {"resumeRpc", "stop"} /\ Failing = {}
    BY RuntimeAssumption DEF MirrorInv, TerminalCallOK, TerminalCalls, OnlyTerminals
  <2>2. /\ ~UpsertFails(c) /\ ~ResumeRpcLoaded(c) /\ ~RpcAlready(c) /\ ~RpcBuilt(c) /\ ~RpcBuildFails(c)
        /\ ~ResumeRecorded(c) /\ ~RpcStopped(c) /\ ~RpcStoppedUnrecorded(c) /\ \A k \in Kids : ~RpcBuild(c, k)
    BY <2>1 DEF UpsertFails, ResumeRpcLoaded, RpcAlready, RpcBuilt, RpcBuildFails, ResumeRecorded, RpcStopped, RpcStoppedUnrecorded, RpcBuild
  <2> QED BY <1>3, <2>2, ResumeLoadedMirrors, UpsertMirrors, SpawnMirrors DEF Progress, Handshake
<1>4. ASSUME NEW k \in Kids, GraceEnds(k) \/ Exit(k) \/ DriverDies(k) \/ \E native \in Kids : Bind(k, native)
      PROVE  MirrorInv'
  BY <1>1, <1>4 DEF GraceEnds, Exit, DriverDies, Bind, memory, locks
<1>5. CASE Restart
  <2>1. /\ sql' = <<>> /\ \A s \in Sessions : store'[s] = Null
        /\ \A c \in Callers : call'[c] = Idle
    BY <1>5 DEF Restart
  <2>2. \A c \in Callers : TerminalCallOK(c)'
    BY <2>1 DEF TerminalCallOK, TerminalCalls, Idle
  <2> QED BY <2>1, <2>2 DEF MirrorInv, QueueOK
<1>6. CASE UNCHANGED vars
  BY <1>1, <1>6 DEF vars, memory, locks
<1>7. \A c \in Callers : ~Reload(c) /\ "rpc" \notin Runtimes
  BY DEF OnlyTerminals, Reload
<1> QED BY <1>2, <1>3, <1>4, <1>5, <1>6, <1>7, BackgroundMirrors DEF Next

LEMMA MirrorsHold == Spec => [](OnlyTerminals => MirrorInv)
<1>1. Init => MirrorInv
  BY DEF Init, MirrorInv, TerminalCallOK, TerminalCalls, Idle, QueueOK
<1>2. RInv /\ (OnlyTerminals => MirrorInv) /\ [Next]_vars => (OnlyTerminals => MirrorInv)'
  BY NextMirrors DEF OnlyTerminals
<1> QED BY <1>1, <1>2, RuntimeInvariant, PTL DEF Spec

\* Terminals are all that is held: no driver lives, or leaves the list.
LEMMA NoDrivers == Spec => [](OnlyTerminals => \A s \in DOMAIN rpc : rpc[s] = Null)
<1> DEFINE None == \A s \in DOMAIN rpc : rpc[s] = Null
<1>1. Init => None
  BY DEF Init
<1>2. ASSUME OnlyTerminals, MirrorInv, None, [Next]_vars PROVE None'
  <2> SUFFICES ASSUME rpc' # rpc PROVE None'
    BY <1>2
  <2>1. ASSUME NEW c \in Callers, PtyCall(c) \/ ("rpc" \in Runtimes /\ RpcCall(c)) \/ Reload(c) PROVE FALSE
    BY <1>2, <2>1, Zenon DEF PtyCall, Launch, ResumeHeld, ResumeLoad, StopPty, Reload, OnlyTerminals, memory
  <2>2. ASSUME NEW c \in Callers, Progress(c) \/ Handshake(c) PROVE FALSE
    <3>1. /\ call[c].pc \notin {"wait", "build"} /\ call[c].op \notin {"resumeRpc", "stop"} /\ Failing = {}
      BY <1>2, RuntimeAssumption DEF MirrorInv, TerminalCallOK, TerminalCalls, OnlyTerminals
    <3>2. /\ ~UpsertFails(c) /\ ~ResumeRpcLoaded(c) /\ ~RpcAlready(c) /\ ~RpcBuilt(c) /\ ~RpcBuildFails(c)
          /\ ~ResumeRecorded(c) /\ ~RpcStopped(c) /\ ~RpcStoppedUnrecorded(c) /\ \A k \in Kids : ~RpcBuild(c, k)
      BY <3>1 DEF UpsertFails, ResumeRpcLoaded, RpcAlready, RpcBuilt, RpcBuildFails, ResumeRecorded, RpcStopped, RpcStoppedUnrecorded, RpcBuild
    <3> QED BY <2>2, <3>2, Zenon DEF Progress, Handshake, ResumeLoaded, Upsert, Spawn, memory
  <2>3. ASSUME NEW k \in Kids, GraceEnds(k) \/ Exit(k) \/ DriverDies(k) \/ \E native \in Kids : Bind(k, native)
        PROVE  FALSE
    BY <2>3, Zenon DEF GraceEnds, Exit, DriverDies, Bind, memory
  <2>4. ~Background /\ ~UNCHANGED vars
    BY Zenon DEF Background, HandleExit, ExitRecorded, BindUpdate, BindRecorded, vars, memory
  <2>5. CASE Restart
    BY <2>5 DEF Restart
  <2> QED BY <1>2, <2>1, <2>2, <2>3, <2>4, <2>5 DEF Next
<1>3. (OnlyTerminals => MirrorInv) /\ (OnlyTerminals => None) /\ [Next]_vars => (OnlyTerminals => None)'
  BY <1>2 DEF OnlyTerminals
<1> QED BY <1>1, <1>3, MirrorsHold, PTL DEF Spec

\* Where callers ask for terminals only, no write fails and no reload interrupts a call, the
\* row of every session held says what the store says once nothing is in flight: the upsert of
\* a spawn, its bindings and its exit land in the order they were made.
THEOREM RowsMirrorTheStore == Spec => [](OnlyTerminals => RowsMirrorStore)
<1>1. ASSUME TypeOK, MirrorInv, Settled, NEW s \in Sessions, store[s] # Null PROVE rows[s] = store[s]
  <2>1. ASSUME NEW f \in Fields PROVE rows[s] # Null /\ rows[s][f] = store[s][f]
    <3>1. FieldTrue(s, f) /\ Len(sql) = 0
      BY <1>1, <2>1 DEF MirrorInv, Mirrored, Settled
    <3> QED BY <3>1 DEF FieldTrue, LastOf
  <2>2. rows[s] \in SessionState /\ store[s] \in SessionState
    BY <1>1, <2>1 DEF TypeOK, OrNull, Fields
  <2>3. /\ rows[s].state = store[s].state /\ rows[s].native = store[s].native
        /\ rows[s].origin = store[s].origin /\ rows[s].startedAt = store[s].startedAt
    BY <2>1 DEF Fields
  <2> QED BY <2>2, <2>3 DEF SessionState
<1>2. RInv /\ (OnlyTerminals => MirrorInv) => (OnlyTerminals => RowsMirrorStore)
  BY <1>1 DEF RInv, RowsMirrorStore
<1> QED BY <1>2, MirrorsHold, RuntimeInvariant, PTL
=============================================================================
