----------------------------- MODULE SqliteStore -----------------------------
(***************************************************************************)
(* The one handle on a database (db/sqlite.ts): fibers that run single     *)
(* statements and fibers that run transactions share it through a          *)
(* semaphore of one permit.  A statement takes the permit and gives it     *)
(* back before it runs; a transaction keeps it until its scope closes.     *)
(***************************************************************************)
EXTENDS Naturals, FiniteSets

CONSTANTS
  Readers,    \* fibers that run one statement at a time, without a transaction
  Writers,    \* fibers that run transactions
  Size,       \* statements in a transaction
  Free,       \* no fiber
  MaxWrites   \* bound: statements and transactions begun

Fibers == Readers \cup Writers

StoreAssumption ==
  /\ Size \in Nat \ {0} /\ Free \notin Fibers
  /\ IsFiniteSet(Fibers) /\ Readers \cap Writers = {}

VARIABLES
  at,       \* fiber -> "idle", "waiting", "granted", "running", "committed", "undone"
  permit,   \* the fiber that has the permit
  waiters,  \* Contention.waiters
  holder,   \* Contention.holder
  begun,    \* the transaction open on the handle, and
  before,   \*   the rows when it began
  rows,     \* the rows the handle sees: [by, n, i], the ith of the nth piece of work of a fiber
  doing,    \* fiber -> [n, left]: its piece of work, and the statements left
  lastWork, \* pieces of work ever begun
  outcome   \* what a transaction that is over came to: [n, kept]

vars == <<at, permit, waiters, holder, begun, before, rows, doing, lastWork, outcome>>

Init ==
  /\ at = [f \in Fibers |-> "idle"] /\ permit = Free
  /\ waiters = 0 /\ holder = Free
  /\ begun = Free /\ before = {} /\ rows = {}
  /\ doing = [f \in Fibers |-> [n |-> 0, left |-> 0]]
  /\ lastWork = 0 /\ outcome = {}

Idle(f) == at[f] \notin {"waiting", "granted", "running"}
Insert(f) == rows' = rows \cup {[by |-> f, n |-> doing[f].n, i |-> doing[f].left]}

-----------------------------------------------------------------------------

\* A statement or a transaction asks for the permit.
Ask(f) ==
  /\ Idle(f) /\ lastWork < MaxWrites
  /\ lastWork' = lastWork + 1
  /\ doing' = [doing EXCEPT ![f] = [n |-> lastWork + 1, left |-> IF f \in Writers THEN Size ELSE 1]]
  /\ at' = [at EXCEPT ![f] = "waiting"] /\ waiters' = waiters + 1
  /\ UNCHANGED <<permit, holder, begun, before, rows, outcome>>

\* makeRegularAcquirer: the permit is taken and given back around a clock reading.
AcquireRegular(f) ==
  /\ f \in Readers /\ at[f] = "waiting" /\ permit = Free
  /\ at' = [at EXCEPT ![f] = "granted"] /\ waiters' = waiters - 1
  /\ UNCHANGED <<permit, holder, begun, before, rows, doing, lastWork, outcome>>

\* The statement runs.  Between the permit and this the fiber may have yielded, and
\* a transaction may have begun, of which the row is then a part.
Execute(f) ==
  /\ f \in Readers /\ at[f] = "granted"
  /\ Insert(f) /\ at' = [at EXCEPT ![f] = "committed"]
  /\ UNCHANGED <<permit, waiters, holder, begun, before, doing, lastWork, outcome>>

\* Slip: a transaction gives the permit back like a statement.
NotKept(f) == Free
\* The permit stays taken until the scope's finalizer runs.
Kept(f) == f

\* makeTransactionAcquirer
AcquireTransaction(f) ==
  /\ f \in Writers /\ at[f] = "waiting" /\ permit = Free
  /\ at' = [at EXCEPT ![f] = "granted"] /\ waiters' = waiters - 1
  /\ permit' = Kept(f) /\ holder' = f
  /\ UNCHANGED <<begun, before, rows, doing, lastWork, outcome>>

\* BEGIN; it fails inside of another transaction.
Begin(f) ==
  /\ f \in Writers /\ at[f] = "granted" /\ begun = Free
  /\ at' = [at EXCEPT ![f] = "running"] /\ begun' = f /\ before' = rows
  /\ UNCHANGED <<permit, waiters, holder, rows, doing, lastWork, outcome>>

Run(f) ==
  /\ at[f] = "running" /\ doing[f].left > 0
  /\ Insert(f) /\ doing' = [doing EXCEPT ![f].left = @ - 1]
  /\ UNCHANGED <<at, permit, waiters, holder, begun, before, lastWork, outcome>>

\* The finalizer of the scope, after COMMIT or ROLLBACK.
Close(f, end) ==
  /\ begun' = Free /\ before' = {} /\ at' = [at EXCEPT ![f] = end]
  /\ holder' = Free /\ permit' = Free
  /\ outcome' = outcome \cup {[n |-> doing[f].n, kept |-> end = "committed"]}
  /\ UNCHANGED <<waiters, doing, lastWork>>

Commit(f) ==
  /\ at[f] = "running" /\ doing[f].left = 0
  /\ Close(f, "committed") /\ UNCHANGED rows

\* A statement fails or the fiber is interrupted.
Rollback(f) ==
  /\ at[f] = "running"
  /\ rows' = before /\ Close(f, "undone")

\* Effect.ensuring
Counted == waiters - 1

\* A fiber is interrupted while it waits (a window reloads, a request is cancelled).
Interrupt(f) ==
  /\ at[f] = "waiting" /\ at' = [at EXCEPT ![f] = "undone"]
  /\ waiters' = Counted
  /\ UNCHANGED <<permit, holder, begun, before, rows, doing, lastWork, outcome>>

Turn(f) ==
  AcquireRegular(f) \/ Execute(f) \/ AcquireTransaction(f) \/ Begin(f) \/ Run(f) \/ Commit(f) \/ Rollback(f)

Next == \E f \in Fibers : Ask(f) \/ Turn(f) \/ Interrupt(f)

Spec == Init /\ [][Next]_vars

-----------------------------------------------------------------------------

\* A transaction that is over has left all of its rows or none, and no two are
\* open at a time, whoever waited, yielded or was interrupted; the record of who
\* holds the permit and how many wait (Contention) is true throughout.
Transactional ==
  /\ \A o \in outcome :
       Cardinality({r \in rows : r.n = o.n}) = (IF o.kept THEN Size ELSE 0)
  /\ begun # Free => permit = begun /\ holder = begun
  /\ waiters = Cardinality({f \in Fibers : at[f] = "waiting"})

\* db/sqlite.ts:53 gives the permit of a statement back before the statement runs,
\* since "the event loop already serializes execution"; but a fiber may yield in
\* between, and what it wrote then goes with the transaction of another.
WrittenIsKept ==
  \A f \in Readers : at[f] = "committed" => \E r \in rows : r.n = doing[f].n
=============================================================================
