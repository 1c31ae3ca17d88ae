------------------------------ MODULE SearchIndex ------------------------------
(***************************************************************************)
(* The full-text index of arc.sqlite (db/schema.ts, work/schema.ts and the *)
(* trigger bodies of work/work-sql.ts).                                    *)
(*                                                                         *)
(* `search_document` is a table that triggers keep in step with the chats, *)
(* the chat messages and the works; `search_document_fts` is an FTS5 index *)
(* with external content: it stores postings under the table's rowids, and *)
(* only the three triggers on search_document add and remove them.  A row  *)
(* of the table is found through a posting with its rowid                  *)
(* (read/service.ts).                                                      *)
(*                                                                         *)
(* The triggers have changed: since migration 0005 those of chats and      *)
(* messages upsert, which keeps the rowid and fires search_document_au;    *)
(* before, and to this day for works, they INSERT OR REPLACE, which        *)
(* deletes the old row without firing search_document_ad                   *)
(* (recursive_triggers is off) and inserts the new one under a new rowid.  *)
(***************************************************************************)
EXTENDS Naturals, FiniteSetsExt

CONSTANTS
  Chats, Messages, Works, \* the source rows there may be
  Texts,                  \* what a row may say
  MaxRow,                 \* bound: no more changes once a rowid has this value
  Absent                  \* no row, no document

Rows == Chats \union Messages \union Works

\* A document's id says which table its row is of.
IndexAssumption ==
  /\ MaxRow \in Nat \ {0} /\ Messages \intersect Works = {}
  /\ Absent \notin Texts /\ Absent \notin [rowid : Nat, text : Texts]

VARIABLES
  release, \* the last search migration of arcMigrations applied (2: none yet)
  source,  \* row -> its text, or Absent
  docs,    \* row -> its document [rowid, text] in search_document, or Absent
  fts      \* the postings [rowid, text] of search_document_fts

vars == <<release, source, docs, fts>>

Init ==
  /\ release = 2
  /\ source = [r \in Rows |-> Absent]
  /\ docs = [r \in Rows |-> Absent]
  /\ fts = {}

-----------------------------------------------------------------------------
(* The table and its triggers                                              *)

Documents == {r \in Rows : docs[r] # Absent}

\* SQLite gives a new row the rowid after the largest of the table.
NextRowid == 1 + Max({docs[r].rowid : r \in Documents} \union {0})

\* A row enters search_document, and search_document_ai adds its posting.
Insert(r, text) ==
  LET doc == [rowid |-> NextRowid, text |-> text] IN
  /\ docs' = [docs EXCEPT ![r] = doc]
  /\ fts' = fts \union {doc}

\* INSERT OR REPLACE INTO search_document: the old row goes without
\* search_document_ad; the new rowid is taken while the old row is still there.
Replace(r, text) == Insert(r, text)

\* Slip: a conflict leaves the document as it is.
InsertOrIgnore(r, text) ==
  IF docs[r] = Absent THEN Insert(r, text) ELSE UNCHANGED <<docs, fts>>

\* INSERT ... ON CONFLICT(id) DO UPDATE: search_document_au moves the posting.
Upsert(r, text) ==
  IF docs[r] = Absent THEN Insert(r, text)
  ELSE LET doc == [docs[r] EXCEPT !.text = text] IN
       /\ docs' = [docs EXCEPT ![r] = doc]
       /\ fts' = (fts \ {docs[r]}) \union {doc}

\* The trigger of the source table, as the last migration created it.
Project(r, text) ==
  IF release < 3 THEN UNCHANGED <<docs, fts>>
  ELSE IF release < 5 \/ r \in Works THEN Replace(r, text)
  ELSE Upsert(r, text)

-----------------------------------------------------------------------------
(* The source tables                                                       *)

\* A row is inserted or changed: a chat or its title, a message streaming in or
\* changing its status, a work or its current revision or a status event.
Write(r, text) ==
  /\ NextRowid <= MaxRow /\ source[r] # text
  /\ source' = [source EXCEPT ![r] = text]
  /\ Project(r, text)
  /\ UNCHANGED release

\* A message is deleted, chat_messages_search_ad deletes its document, and
\* search_document_ad its posting.  (Nothing deletes a chat or a work.)
Erase(m) ==
  /\ source[m] # Absent
  /\ source' = [source EXCEPT ![m] = Absent]
  /\ docs' = [docs EXCEPT ![m] = Absent]
  /\ fts' = IF docs[m] = Absent THEN fts ELSE fts \ {docs[m]}
  /\ UNCHANGED release

-----------------------------------------------------------------------------
(* The migrations: 0003 of both records, then 0004, then 0005 of arc's     *)

\* The backfill of 0003: a document for each row there is, in some order.
Backfill ==
  LET Present == {r \in Rows : source[r] # Absent} IN
  \E rank \in [Present -> 1..Cardinality(Present)] :
    /\ \A a, b \in Present : rank[a] = rank[b] => a = b
    /\ docs' = [r \in Rows |-> IF r \in Present
                               THEN [rowid |-> rank[r], text |-> source[r]] ELSE Absent]

\* INSERT INTO search_document_fts(search_document_fts) VALUES ('rebuild').
Rebuilt(table) == {table[r] : r \in {x \in Rows : table[x] # Absent}}

Upgrade ==
  /\ release < 5
  /\ release' = release + 1
  /\ IF release = 2 THEN Backfill ELSE UNCHANGED docs
  /\ fts' = Rebuilt(docs')
  /\ UNCHANGED source

Next ==
  \/ \E r \in Rows, text \in Texts : Write(r, text)
  \/ \E m \in Messages : Erase(m)
  \/ Upgrade

Spec == Init /\ [][Next]_vars

-----------------------------------------------------------------------------

TypeOK ==
  LET Doc == [rowid : 1..(MaxRow + 1), text : Texts] IN
  /\ release \in 2..5
  /\ source \in [Rows -> Texts \union {Absent}]
  /\ docs \in [Rows -> Doc \union {Absent}]
  /\ fts \subseteq Doc

\* Every row can be found by what it says: it has its own document, with its
\* text, and the posting of it.
EveryRowIsFound ==
  release >= 3 =>
    /\ \A r \in Rows : IF source[r] = Absent THEN docs[r] = Absent
                       ELSE docs[r] # Absent /\ docs[r].text = source[r] /\ docs[r] \in fts
    /\ \A r, s \in Documents : docs[r].rowid = docs[s].rowid => r = s

\* And by nothing else: no posting left behind by an earlier text has the rowid
\* of a document that is there now.  (In the releases with 0003 and 0004 a
\* deleted message could free a rowid that a stale posting still had.)
HitsAreCurrent ==
  release = 5 => \A r \in Documents : \A p \in fts : p.rowid = docs[r].rowid => p = docs[r]

\* db/schema.ts:613 of the migration 0005: "FTS stays strictly 1:1 with
\* search_document".  The triggers of the works still replace.
FtsIsOneToOne ==
  release = 5 => fts = {docs[r] : r \in Documents}
=============================================================================
