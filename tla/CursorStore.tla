----------------------------- MODULE CursorStore -----------------------------
(***************************************************************************)
(* Cursor's transcripts (ingest/providers/cursor.ts).  A session is a      *)
(* SQLite file in WAL mode that the CLI writes while Arc polls it: blobs,  *)
(* which refer to earlier ones by their hash, and the id of the latest     *)
(* root.  The reader takes the root, then the blobs; when the file cannot  *)
(* be read it copies the file, then its log, and reads the copy.  The      *)
(* conversation is what the root reaches, dependencies first; a warning    *)
(* tells of content it does not reach.                                     *)
(***************************************************************************)
EXTENDS Naturals, Sequences, FiniteSets, SequencesExt

CONSTANTS
  Says,        \* contents: a text, a tool call, a result
  MaxCommits,  \* bound on the writes of the CLI
  Unreadable   \* a blob with no JSON in it

CursorStoreAssumption == Unreadable \notin Says /\ MaxCommits \in Nat

VARIABLES
  log,         \* the commits: a blob with its refs and content, or a new root
  checkpoint,  \* how many of them the file holds
  walFrom,     \* the log holds the commits after this one
  poll,        \* the read in progress
  extracted    \* the last extraction

disk == <<log, checkpoint, walFrom>>
vars == <<disk, poll, extracted>>

-----------------------------------------------------------------------------
(* Reading a set of commits.  A blob's id is its commit: a hash names one  *)
(* content.                                                                *)

All == 1..Len(log)
BlobIds(seen) == {i \in seen : log[i].refs # <<0>>}
Roots(seen) == seen \ BlobIds(seen)
latestRootBlobId(seen) ==
  IF Roots(seen) = {} THEN 0 ELSE log[CHOOSE i \in Roots(seen) : \A j \in Roots(seen) : j <= i].root

\* extractJsonFromBinary: blobs without JSON are left out, and so are the
\* references to them.
Recovered(seen) == {i \in BlobIds(seen) : log[i].says # Unreadable}

\* Without the root, the blob with most references, the latest of them.
MostReferring(ids) ==
  CHOOSE i \in ids : \A j \in ids :
    Len(log[j].refs) < Len(log[i].refs) \/ (Len(log[j].refs) = Len(log[i].refs) /\ j <= i)

End(ids, root) == IF root \in ids THEN root ELSE MostReferring(ids)

Walks == [visited : SUBSET All, sorted : Seq(All)]
Walk(visited, sorted) == [visited |-> visited, sorted |-> sorted]

\* The work stack of the walk: a blob is marked when it is pushed, and put
\* out once its references are.
Push(ids, id) ==
  LET push[walk \in Walks, i \in All \cup {0}] ==
        IF i \in walk.visited \/ i \notin ids THEN walk
        ELSE LET after == FoldLeft(LAMBDA w, r : push[w, r],
                                   Walk(walk.visited \cup {i}, walk.sorted), log[i].refs)
             IN  Walk(after.visited, Append(after.sorted, i))
  IN  push[Walk({}, <<>>), id]

\* Slip: a blob is put out when it is pushed.
PushEarly(ids, id) ==
  LET push[walk \in Walks, i \in All \cup {0}] ==
        IF i \in walk.visited \/ i \notin ids THEN walk
        ELSE FoldLeft(LAMBDA w, r : push[w, r],
                      Walk(walk.visited \cup {i}, Append(walk.sorted, i)), log[i].refs)
  IN  push[Walk({}, <<>>), id]
Early(ids, root) == IF ids = {} THEN <<>> ELSE PushEarly(ids, End(ids, root)).sorted

topologicalSort(ids, root) == IF ids = {} THEN <<>> ELSE Push(ids, End(ids, root)).sorted

contentSignatures(ids) == {log[i].says : i \in ids}

\* Orphans are told of only for content the conversation does not have.
Lost(ids, root, sorted) ==
  \E i \in ids \ Range(sorted) : log[i].says \notin contentSignatures(Range(sorted))

\* normalizeCursorBlobs, in the order of the walk.
Extraction(root, seen, began) ==
  LET ids == Recovered(seen)
      sorted == topologicalSort(ids, root)
  IN  [sorted |-> sorted, warned |-> Lost(ids, root, sorted), ids |-> ids, root |-> root, began |-> began]

Nobody == [pc |-> "idle", began |-> 0, root |-> 0, copied |-> {}]

Init ==
  /\ log = <<>> /\ checkpoint = 0 /\ walFrom = 0 /\ poll = Nobody
  /\ extracted = Extraction(0, {}, 0)

-----------------------------------------------------------------------------
(* The CLI.                                                                *)

\* A commit; the log starts over when all of it is in the file.
Commit(c) ==
  /\ Len(log) < MaxCommits /\ log' = Append(log, c)
  /\ walFrom' = IF checkpoint = Len(log) THEN checkpoint ELSE walFrom
  /\ UNCHANGED <<checkpoint, poll, extracted>>

AddBlob(refs, says) == Commit([refs |-> refs, says |-> says, root |-> 0])

\* The latest root, or an earlier one: the user went back.
SetRoot(id) == Commit([refs |-> <<0>>, says |-> Unreadable, root |-> id])

Checkpoint ==
  /\ checkpoint < Len(log) /\ checkpoint' = Len(log)
  /\ UNCHANGED <<log, walFrom, poll, extracted>>

\* The CLI exits: the last connection checkpoints, and the log is deleted.
Exit ==
  /\ walFrom < Len(log) /\ checkpoint' = Len(log) /\ walFrom' = Len(log)
  /\ UNCHANGED <<log, poll, extracted>>

-----------------------------------------------------------------------------
(* The poll.                                                               *)

Goto(pc) == poll' = [poll EXCEPT !.pc = pc]

collect ==
  /\ poll.pc = "idle" /\ log # <<>>
  /\ poll' = [Nobody EXCEPT !.pc = "meta", !.began = Len(log)]
  /\ UNCHANGED <<disk, extracted>>

readMeta ==
  /\ poll.pc = "meta" /\ poll' = [poll EXCEPT !.pc = "blobs", !.root = latestRootBlobId(All)]
  /\ UNCHANGED <<disk, extracted>>

readBlobs ==
  /\ poll.pc = "blobs" /\ poll' = Nobody
  /\ extracted' = Extraction(poll.root, All, poll.began)
  /\ UNCHANGED disk

\* The file is locked, or the read dies.
Locked ==
  /\ poll.pc \in {"meta", "blobs"} /\ Goto("copy")
  /\ UNCHANGED <<disk, extracted>>

copyStore ==
  /\ poll.pc = "copy" /\ poll' = [poll EXCEPT !.pc = "copyWal", !.copied = 1..checkpoint]
  /\ UNCHANGED <<disk, extracted>>

\* The copy is read with the log found by then, if there is one; nobody
\* writes it any more.
readViaSnapshot ==
  LET seen == poll.copied \cup (walFrom + 1)..Len(log) IN
  /\ poll.pc = "copyWal" /\ poll' = Nobody
  /\ extracted' = Extraction(latestRootBlobId(seen), seen, poll.began)
  /\ UNCHANGED disk

\* CursorReadError: the session is left for the next poll.
ReadFails ==
  /\ poll.pc \in {"copy", "copyWal"} /\ poll' = Nobody
  /\ UNCHANGED <<disk, extracted>>

-----------------------------------------------------------------------------

\* parseReferences: no reference twice.
RefLists ==
  {<<>>} \cup {<<i>> : i \in BlobIds(All)}
  \cup {s \in {<<i, j>> : i, j \in BlobIds(All)} : s[1] # s[2]}

Cli ==
  \/ Checkpoint \/ Exit
  \/ \E refs \in RefLists, says \in Says \cup {Unreadable} : AddBlob(refs, says)
  \/ \E id \in BlobIds(All) : SetRoot(id)

Poll == collect \/ readMeta \/ readBlobs \/ Locked \/ copyStore \/ readViaSnapshot \/ ReadFails

Next == Cli \/ Poll
Spec == Init /\ [][Next]_vars

-----------------------------------------------------------------------------

TypeOK ==
  /\ walFrom <= Len(log) /\ checkpoint <= Len(log)
  /\ poll.pc \in {"idle", "meta", "blobs", "copy", "copyWal"} /\ extracted.warned \in BOOLEAN

Position(i) == CHOOSE k \in 1..Len(extracted.sorted) : extracted.sorted[k] = i

\* Whatever was written between the read of the root and the read of the
\* blobs, the conversation has no blob twice, every blob after those it
\* refers to, and - the root being there - nothing the root does not reach.
DependenciesFirst ==
  LET sorted == extracted.sorted IN
  /\ \A j, k \in 1..Len(sorted) : sorted[j] = sorted[k] => j = k
  /\ \A i \in Range(sorted) : \A r \in Range(log[i].refs) \cap extracted.ids :
       r \in Range(sorted) /\ Position(r) < Position(i)
  /\ \A k \in 1..Len(sorted) - 1 : \E j \in k + 1..Len(sorted) : sorted[k] \in Range(log[sorted[j]].refs)
  /\ extracted.root \in extracted.ids => Last(sorted) = extracted.root

\* Content of a store that was read is in the conversation, or a warning says
\* that some is missing.
LossIsTold ==
  ~extracted.warned =>
    contentSignatures(extracted.ids) = contentSignatures(Range(extracted.sorted))

\* "-wal/-shm may not exist; the main db copy is enough" (readViaSnapshot):
\* a read has every blob that was committed when it began.
ReadsWhatWasThere ==
  \A i \in 1..extracted.began :
    log[i].refs # <<0>> /\ log[i].says # Unreadable => i \in extracted.ids
=============================================================================
