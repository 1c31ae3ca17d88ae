------------------------------ MODULE Worktrees ------------------------------
(***************************************************************************)
(* Git worktrees: services/git/worktree.ts over a repository whose stash   *)
(* stack is one for all its trees and for everybody who works in them.     *)
(* Creating a tree may carry the uncommitted work of the source along: it  *)
(* is stashed, applied in the new tree by its object id and then dropped   *)
(* by its place on the stack; each git command may fail and the process    *)
(* may end between two of them.  Rows about the trees are kept beside git. *)
(***************************************************************************)
EXTENDS Naturals, Sequences, FiniteSets

CONSTANTS
  Source,   \* the main tree, the workspace worktrees are created from
  Branches, \* branches to give a tree of their own
  Edits,    \* pieces of uncommitted work
  Intrude,  \* others stash while a creation is under way
  MaxStash  \* bound on the stash stack

WorktreesAssumption == Source \notin Branches /\ Intrude \in BOOLEAN

Trees == {Source} \cup Branches

VARIABLES
  work,      \* tree -> its uncommitted work
  stash,     \* the stack, newest first: by whom, and what
  live,      \* branches with a registered tree
  vanished,  \* those of them whose directory was deleted
  branches,  \* branches that exist
  theirs,    \* those of them that users made
  treeRows,  \* worktree rows, by branch
  openTrees, \* trees with a workspace that is not archived
  sidebar,   \* those in the list that was last pushed to the window
  found,     \* the list of trees that a detection or a prune has read and not yet written
  create,    \* the creation under way
  owed       \* work that nobody committed or threw away

gitVars == <<work, stash, live, vanished, branches, theirs>>
rowVars == <<treeRows, openTrees, sidebar>>
vars == <<gitVars, rowVars, found, create, owed>>

Idle == [at |-> "idle", branch |-> Source, new |-> FALSE, ref |-> <<>>]

Init ==
  /\ work = [t \in Trees |-> {}] /\ stash = <<>>
  /\ live = {} /\ vanished = {} /\ owed = {}
  /\ treeRows = {} /\ openTrees = {} /\ sidebar = {}
  /\ found = [by |-> "nobody", live |-> {}]
  /\ branches \in SUBSET Branches /\ theirs = branches
  /\ create = Idle

Go(at) == create' = [create EXCEPT !.at = at]
Drop == stash' = IF stash = <<>> THEN <<>> ELSE Tail(stash)

-----------------------------------------------------------------------------
(* The users and agents at work in the trees.                              *)

\* Nobody works in a tree whose creation has not answered.
Edit(t, e) ==
  /\ t = Source \/ t \in live \ (vanished \cup {create.branch})
  /\ \A u \in Trees : e \notin work[u]
  /\ \A i \in DOMAIN stash : e \notin stash[i].what
  /\ work' = [work EXCEPT ![t] = @ \cup {e}] /\ owed' = owed \cup {e}
  /\ UNCHANGED <<stash, live, vanished, branches, theirs, rowVars, found, create>>

\* git stash, in any tree.
StashAway(t) ==
  /\ Intrude \/ create.at = "idle"
  /\ work[t] # {} /\ t \notin vanished /\ Len(stash) < MaxStash
  /\ stash' = <<[by |-> t, what |-> work[t]]>> \o stash
  /\ work' = [work EXCEPT ![t] = {}]
  /\ UNCHANGED <<live, vanished, branches, theirs, rowVars, found, create, owed>>

\* git commit: what is committed is no longer at stake.
Commit(t) ==
  /\ work[t] # {} /\ t \notin vanished
  /\ work' = [work EXCEPT ![t] = {}] /\ owed' = owed \ work[t]
  /\ UNCHANGED <<stash, live, vanished, branches, theirs, rowVars, found, create>>

\* A clean tree's directory is deleted by hand.
Vanish(b) ==
  /\ b \in live \ vanished /\ work[b] = {} /\ create.branch # b
  /\ vanished' = vanished \cup {b}
  /\ UNCHANGED <<work, stash, live, branches, theirs, rowVars, found, create, owed>>

-----------------------------------------------------------------------------
(* createWorktree.                                                         *)

\* The work to carry is looked for before it is stashed.
Create(b, new, carry) ==
  /\ create.at = "idle" /\ b \notin live
  /\ create' = [at |-> IF carry /\ work[Source] # {} THEN "push" ELSE "add",
                branch |-> b, new |-> new, ref |-> <<>>]
  /\ UNCHANGED <<gitVars, rowVars, found, owed>>

\* With nothing left to stash, git succeeds and pushes nothing.
Push ==
  /\ create.at = "push"
  /\ \/ /\ IF work[Source] = {} THEN UNCHANGED stash
             ELSE Len(stash) <= MaxStash /\ stash' = <<[by |-> create.branch, what |-> work[Source]]>> \o stash
        /\ work' = [work EXCEPT ![Source] = {}] /\ Go("resolve")
     \/ Go("idle") /\ UNCHANGED <<work, stash>>
  /\ UNCHANGED <<live, vanished, branches, theirs, rowVars, found, owed>>

\* stashSha
Resolve ==
  /\ create.at = "resolve"
  /\ create' = IF stash = <<>> THEN Idle ELSE [create EXCEPT !.at = "add", !.ref = <<Head(stash)>>]
  /\ UNCHANGED <<gitVars, rowVars, found, owed>>

\* git worktree add refuses a branch it should make and that exists, one it
\* should find and that does not, or fails otherwise.
Add ==
  /\ create.at = "add"
  /\ \/ /\ create.new <=> create.branch \notin branches
        /\ live' = live \cup {create.branch} /\ branches' = branches \cup {create.branch}
        /\ Go(IF create.ref = <<>> THEN "detect" ELSE "apply")
     \/ Go(IF create.ref = <<>> THEN "idle" ELSE "restore") /\ UNCHANGED <<live, branches>>
  /\ UNCHANGED <<work, stash, vanished, theirs, rowVars, found, owed>>

BranchesLeft == IF create.new THEN branches \ {create.branch} ELSE branches

\* The work is applied in the new tree; when it does not apply, the tree and a
\* branch made for it are taken away as far as git can.
Apply ==
  /\ create.at = "apply"
  /\ \/ work' = [work EXCEPT ![create.branch] = @ \cup create.ref[1].what] /\ Go("drop") /\ UNCHANGED <<live, branches>>
     \/ /\ Go("restore") /\ UNCHANGED work
        /\ \/ live' = live \ {create.branch} /\ branches' \in {branches, BranchesLeft}
           \/ UNCHANGED <<live, branches>>
  /\ UNCHANGED <<stash, vanished, theirs, rowVars, found, owed>>

\* Slip: the entry is dropped although it could not be restored.
RestoreFails == Go("restored")
\* The work stays stashed, and the error says so.
GiveUp == create' = Idle

\* restoreToSource
Restore ==
  /\ create.at = "restore"
  /\ \/ work' = [work EXCEPT ![Source] = @ \cup create.ref[1].what] /\ Go("restored")
     \/ GiveUp /\ UNCHANGED work
  /\ UNCHANGED <<stash, live, vanished, branches, theirs, rowVars, found, owed>>
DropRestored ==
  /\ create.at = "restored" /\ create' = Idle
  /\ Drop
  /\ UNCHANGED <<work, live, vanished, branches, theirs, rowVars, found, owed>>

DropCarried ==
  /\ create.at = "drop" /\ Go("detect")
  /\ Drop
  /\ UNCHANGED <<work, live, vanished, branches, theirs, rowVars, found, owed>>

\* detectRepository records every tree, and the new one's row is read back; it
\* is made here when the detection missed it.
Detect ==
  /\ create.at = "detect" /\ create' = Idle
  /\ treeRows' = treeRows \cup live /\ sidebar' = openTrees
  /\ UNCHANGED <<gitVars, openTrees, found, owed>>

\* The process ends; what git holds stays.
Stop == create.at # "idle" /\ create' = Idle /\ UNCHANGED <<gitVars, rowVars, found, owed>>

-----------------------------------------------------------------------------
(* The other operations.                                                   *)

\* openWorktree registers the tree as a workspace, pushes the list and detects.
OpenTree(b) ==
  /\ b \in live \ (vanished \cup {create.branch}) /\ openTrees' = openTrees \cup {b} /\ sidebar' = openTrees'
  /\ found.by = "nobody" /\ found' = [by |-> "detect", live |-> live]
  /\ UNCHANGED <<gitVars, treeRows, create, owed>>

\* A checkout hook or a boot detects: git's list is read, and then written to the
\* rows, of which none is deleted; the workspace list is pushed again.
Scan ==
  /\ found.by = "nobody" /\ found' = [by |-> "detect", live |-> live]
  /\ UNCHANGED <<gitVars, rowVars, create, owed>>

\* pruneWorktrees reads the list that the prune leaves, and deletes the rows that
\* are not in it.
Prune ==
  /\ found.by = "nobody" /\ found' = [by |-> "prune", live |-> live \ vanished]
  /\ live' = live \ vanished /\ vanished' = {}
  /\ UNCHANGED <<work, stash, branches, theirs, rowVars, create, owed>>
Record ==
  /\ found.by # "nobody" /\ found' = [by |-> "nobody", live |-> {}]
  /\ IF found.by = "detect"
       THEN treeRows' = treeRows \cup found.live /\ sidebar' = openTrees /\ UNCHANGED openTrees
       ELSE treeRows' = treeRows \cap found.live /\ openTrees' = openTrees \ (treeRows \ found.live) /\ UNCHANGED sidebar
  /\ UNCHANGED <<gitVars, create, owed>>

\* removeWorktree of a row: git refuses a tree with work unless it is forced
\* to, and a row that git no longer knows is only deleted.  With the row the
\* workspace is archived.
Remove(b, force) ==
  /\ b \in treeRows /\ create.branch # b
  /\ b \in live => work[b] = {} \/ force
  /\ live' = live \ {b} /\ vanished' = vanished \ {b}
  /\ work' = [work EXCEPT ![b] = {}] /\ owed' = owed \ work[b]
  /\ treeRows' = treeRows \ {b} /\ openTrees' = openTrees \ {b}
  /\ UNCHANGED <<stash, branches, theirs, sidebar, found, create>>

\* git branch: only users delete a branch they made.
Branch(b) ==
  /\ b \notin branches /\ branches' = branches \cup {b} /\ theirs' = theirs \cup {b}
  /\ UNCHANGED <<work, stash, live, vanished, rowVars, found, create, owed>>

Next ==
  \/ Push \/ Resolve \/ Add \/ Apply \/ Restore \/ DropRestored \/ DropCarried \/ Detect \/ Stop \/ Scan \/ Prune \/ Record
  \/ \E t \in Trees : StashAway(t) \/ Commit(t) \/ \E e \in Edits : Edit(t, e)
  \/ \E b \in Branches : Vanish(b) \/ Branch(b) \/ OpenTree(b)
  \/ \E b \in Branches, new, carry \in BOOLEAN : Create(b, new, carry)
  \/ \E b \in Branches, force \in BOOLEAN : Remove(b, force)

Spec == Init /\ [][Next]_vars

-----------------------------------------------------------------------------

\* At whatever step a creation that carries work along fails or is cut short,
\* the work is in some tree or on the stash stack, with what others stashed
\* before; and no branch that a user made is deleted by the clean-up.
NothingLost ==
  /\ owed \subseteq UNION ({work[t] : t \in Trees} \cup {stash[i].what : i \in DOMAIN stash})
  /\ \A t \in Branches : work[t] # {} => t \in live \ vanished
  /\ theirs \subseteq branches

\* "hiding completed work from the normal sidebar": a workspace that the removal
\* of its tree archived is not in the list the window shows.
ArchivedIsHidden == sidebar \subseteq openTrees

\* "Resolve the pushed stash to a stable OID for every `apply`": what a creation
\* resolves is the entry it pushed, whoever else stashes in that repository.
ResolvesPushed == create.ref # <<>> => create.ref[1].by = create.branch
=============================================================================
