------------------------------ MODULE Migrations ------------------------------
(***************************************************************************)
(* The migrations of one store (db/migrator.ts) over the releases that its *)
(* database meets.  A record maps ids to named bodies; the ledger keeps    *)
(* the ids and names applied.  Releases change the record in every way     *)
(* that the comments warn of, users go back to earlier ones, and a boot    *)
(* compares the ledger with the record before it runs what is pending, in  *)
(* one transaction that may fail.                                          *)
(***************************************************************************)
EXTENDS Naturals, Sequences, FiniteSetsExt

CONSTANTS
  MaxId,        \* bound: ids of migrations are 1..MaxId
  Names, Bodies,
  MaxReleases   \* bound: changes of the record

MigrationsAssumption == MaxId \in Nat \ {0} /\ MaxReleases \in Nat

Ids == 1..MaxId
Migration == [name : Names, body : Bodies]

VARIABLES
  record,   \* the migrations record of this release: id -> Migration, partial
  ledger,   \* the ledger table: id -> name, partial
  schema,   \* what this database has run: the bodies [id, body], in order
  booted,   \* the last boot of this release got through
  releases

vars == <<record, ledger, schema, booted, releases>>

Init ==
  /\ record \in [{1} -> Migration]
  /\ ledger = <<>> /\ schema = <<>>
  /\ booted = FALSE /\ releases = 0

-----------------------------------------------------------------------------
(* verifyLedger and runMigrations                                          *)

HighWater == Max(DOMAIN ledger \union {0})

\* Every applied row is in the record under the same name.
RowsKnown == \A id \in DOMAIN ledger : id \in DOMAIN record /\ record[id].name = ledger[id]

\* Every id of the record at or below the high-water mark is applied.
NoGapRefilled == \A id \in DOMAIN record : id <= HighWater => id \in DOMAIN ledger

Verified == DOMAIN ledger = {} \/ (RowsKnown /\ NoGapRefilled)

\* The Migrator runs what is above the high-water mark, in the order of the ids.
Pending == {id \in DOMAIN record : id > HighWater}

InOrder(ids) ==
  CHOOSE s \in [1..Cardinality(ids) -> ids] : \A i, j \in 1..Cardinality(ids) : i < j => s[i] < s[j]

Bodied(ids) == [i \in 1..Cardinality(ids) |->
  [id |-> InOrder(ids)[i], body |-> record[InOrder(ids)[i]].body]]

\* One transaction for all that is pending: it ends as a whole or not at all.
Boot ==
  /\ ~booted /\ Verified
  /\ ledger' = [id \in DOMAIN ledger \union Pending |->
                 IF id \in Pending THEN record[id].name ELSE ledger[id]]
  /\ schema' = schema \o Bodied(Pending)
  /\ booted' = TRUE
  /\ UNCHANGED <<record, releases>>

-----------------------------------------------------------------------------
(* What releases do to the record                                          *)

Released(new) ==
  /\ releases < MaxReleases /\ releases' = releases + 1
  /\ record' = new /\ booted' = FALSE
  /\ UNCHANGED <<ledger, schema>>

\* A migration is added: at the end, as it should be, or in a gap.
Add(id, m) ==
  /\ id \notin DOMAIN record
  /\ Released([i \in DOMAIN record \union {id} |-> IF i = id THEN m ELSE record[i]])

\* One that has shipped is renamed or edited.
Change(id, m) ==
  /\ id \in DOMAIN record /\ record[id] # m
  /\ Released([record EXCEPT ![id] = m])

\* One that has shipped is deleted; renumbering one also adds it elsewhere.
Delete(id) ==
  /\ id \in DOMAIN record
  /\ Released([i \in DOMAIN record \ {id} |-> record[i]])

Renumber(id, to) ==
  /\ id \in DOMAIN record /\ to \notin DOMAIN record
  /\ Released([i \in (DOMAIN record \ {id}) \union {to} |->
                 IF i = to THEN record[id] ELSE record[i]])

\* Another database is installed under this release: it has run nothing.
Install ==
  /\ ledger # <<>> /\ ledger' = <<>> /\ schema' = <<>> /\ booted' = FALSE
  /\ UNCHANGED <<record, releases>>

Next ==
  \/ Boot
  \/ \E id \in Ids, m \in Migration : Add(id, m) \/ Change(id, m)
  \/ \E id \in Ids : Delete(id)
  \/ \E id, to \in Ids : Renumber(id, to)
  \/ Install

Spec == Init /\ [][Next]_vars

-----------------------------------------------------------------------------

TypeOK ==
  /\ DOMAIN record \subseteq Ids /\ Range(record) \subseteq Migration
  /\ DOMAIN ledger \subseteq Ids /\ Range(ledger) \subseteq Names
  /\ \A i \in DOMAIN schema : schema[i] \in [id : Ids, body : Bodies]
  /\ booted \in BOOLEAN /\ releases \in 0..MaxReleases

\* A boot that gets through has run the migrations that a fresh install of the
\* release runs, all of them and in their order, whatever releases came before.
BootedInOrder ==
  booted => /\ DOMAIN ledger = DOMAIN record
            /\ \A id \in DOMAIN record : ledger[id] = record[id].name
            /\ [i \in DOMAIN schema |-> schema[i].id] = InOrder(DOMAIN record)

\* db/migrator.ts:75: "an edited/renumbered shipped migration" would be skipped
\* and "the schema would diverge from a fresh install with no signal. This check
\* turns each of those into a loud boot defect".  The check compares ids and
\* names: an edited body under an unchanged name goes through.
BootedIsFresh == booted => schema = Bodied(DOMAIN record)
=============================================================================
