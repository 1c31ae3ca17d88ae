------------------------------- MODULE GitViews -------------------------------
(***************************************************************************)
(* The changes of a workspace as the Git pane shows them: the status that  *)
(* git prints (services/git/parse.ts), joined with line counts and with    *)
(* what the optional sem binary saw (git/sem.ts), made into groups of      *)
(* files in the order worth reading (git/diff-tree.ts), and the pane that  *)
(* folds them (renderer git/DiffTree.tsx, GitPane.tsx).  The working tree  *)
(* is edited all along, between two readings of one refresh too.           *)
(***************************************************************************)
EXTENDS Naturals, Sequences, SequencesExt, FiniteSets

CONSTANTS
  Paths,         \* files, in the order of their paths
  DirOf(_),      \* file -> the segments of its directory
  NamedAs(_),    \* file -> its kind by its name and directory
  Letters,       \* what an edit does to a file, as git's two letters,
  Sorts,         \* and to its entities: "rewrite", "reformat" or "test"
  Lines,         \* numbers of lines an edit may change
  MaxEdits       \* bound on edits

Files == Range(Paths)
Before(f, g) == \E i, j \in DOMAIN Paths : i < j /\ Paths[i] = f /\ Paths[j] = g

Kinds == {"source", "test", "schema", "config", "docs", "generated"}
GitViewsAssumption == \A f \in Files : NamedAs(f) \in Kinds

Clean == [xy |-> <<" ", " ">>, lines |-> 0, sort |-> "none"]

VARIABLES
  tree,    \* file -> how it differs from HEAD
  listed,  \* the status that was read: a sequence of changes
  facts,   \* what sem saw, by file
  reading, \* the readings that a refresh still waits for
  groups,  \* the tree the pane shows
  from,    \* the changes it was made of
  sem,     \* what sem saw of them
  mounted, \* the pane has a tree to show
  folded,  \* groups folded away
  edits

readVars == <<listed, facts, reading>>
paneVars == <<groups, from, sem, mounted, folded>>
vars == <<tree, readVars, paneVars, edits>>

NoFacts == [f \in Files |-> "unseen"]

Init ==
  /\ tree = [f \in Files |-> Clean]
  /\ listed = <<>> /\ facts = NoFacts /\ reading = {}
  /\ groups = <<>> /\ from = <<>> /\ sem = NoFacts
  /\ mounted = FALSE /\ folded = {}
  /\ edits = 0

-----------------------------------------------------------------------------
(* The status.                                                             *)

statusFor(xy) ==
  LET has(c) == xy[1] = c \/ xy[2] = c IN
  CASE xy = <<"?", "?">> -> "untracked"
    [] has("U") \/ xy \in {<<"A", "A">>, <<"D", "D">>} -> "unmerged"
    [] has("R") -> "renamed"
    [] has("C") -> "copied"
    [] has("A") -> "added"
    [] has("D") -> "deleted"
    [] has("M") -> "modified"
    [] OTHER -> "unknown"

statusOrder == <<"added", "untracked", "modified", "renamed", "copied", "deleted", "unmerged", "unknown">>
IndexOf(s) == CHOOSE i \in DOMAIN statusOrder : statusOrder[i] = s

\* git writes a rename inside a directory as dir/{old => new}, of which the map
\* of line counts keeps "new}": the change finds no counts.
Counted(f) ==
  IF statusFor(tree[f].xy) = "renamed" /\ DirOf(f) # <<>> THEN 0 ELSE tree[f].lines

Change(f) == [path |-> f, status |-> statusFor(tree[f].xy), lines |-> Counted(f)]

\* SortSeq is not stable by itself: ties keep the order of the sequence.
Stable(s, above(_, _)) ==
  LET order == SortSeq([i \in DOMAIN s |-> i],
                 LAMBDA i, j : above(s[i], s[j]) \/ (~above(s[j], s[i]) /\ i < j))
  IN [i \in DOMAIN s |-> s[order[i]]]

statusOf ==
  Stable([i \in DOMAIN SelectSeq(Paths, LAMBDA f : tree[f] # Clean) |->
            Change(SelectSeq(Paths, LAMBDA f : tree[f] # Clean)[i])],
         LAMBDA a, b : IndexOf(a.status) < IndexOf(b.status))

\* sem reads the same tree at another moment; it may be missing or fail.
Refresh ==
  /\ reading = {} /\ reading' = {"status", "sem"}
  /\ UNCHANGED <<tree, listed, facts, paneVars, edits>>

ReadStatus ==
  /\ "status" \in reading /\ reading' = reading \ {"status"} /\ listed' = statusOf
  /\ UNCHANGED <<tree, facts, paneVars, edits>>

semFactsFor ==
  /\ "sem" \in reading /\ reading' = reading \ {"sem"}
  /\ \/ facts' = [f \in Files |-> IF tree[f] = Clean THEN "unseen" ELSE tree[f].sort]
     \/ facts' = NoFacts
  /\ UNCHANGED <<tree, listed, paneVars, edits>>

-----------------------------------------------------------------------------
(* The tree.                                                               *)

classifyFile(f) ==
  IF NamedAs(f) = "generated" THEN "generated"
  ELSE IF facts[f] = "test" THEN "test" ELSE NamedAs(f)

Structural(seen, f) == seen[f] \in {"rewrite", "test"}
fileWeight(c) == (IF Structural(facts, c.path) THEN 1000 ELSE 0) + c.lines
groupWeight(g) == FoldLeft(LAMBDA w, c : w + fileWeight(c), 0, g.files)

\* Generated files are of one group wherever they are.
GroupId(c) ==
  LET kind == classifyFile(c.path) IN
  [kind |-> kind, dir |-> IF kind = "generated" THEN <<>> ELSE DirOf(c.path)]

OfGroup(id) == [id |-> id, files |-> SelectSeq(listed, LAMBDA c : GroupId(c) = id)]
Drafts ==
  LET ids == [i \in DOMAIN listed |-> GroupId(listed[i])]
      once == FoldLeft(LAMBDA s, id : IF Contains(s, id) THEN s ELSE Append(s, id), <<>>, ids)
  IN [i \in DOMAIN once |-> OfGroup(once[i])]

\* The module that a group of tests covers: the longest directory above, the
\* first of several.  A directory without a name, the root's, covers nothing.
Covers(rest, t) ==
  {i \in DOMAIN rest : rest[i].id.dir # <<>> /\ IsPrefix(rest[i].id.dir, t.id.dir)}
Cover(rest, t) ==
  CHOOSE i \in Covers(rest, t) : \A j \in Covers(rest, t) :
    \/ Len(rest[i].id.dir) > Len(rest[j].id.dir)
    \/ Len(rest[i].id.dir) = Len(rest[j].id.dir) /\ i <= j

NotAttached(gs) == gs
attachTestGroups(gs) ==
  LET tests == SelectSeq(gs, LAMBDA g : g.id.kind = "test")
      rest == SelectSeq(gs, LAMBDA g : g.id.kind # "test")
      under(i) == SelectSeq(tests, LAMBDA t : Covers(rest, t) # {} /\ Cover(rest, t) = i)
      orphans == SelectSeq(tests, LAMBDA t : Covers(rest, t) = {})
  IN IF tests = <<>> \/ rest = <<>> THEN gs
     ELSE FlattenSeq([i \in DOMAIN rest |-> <<rest[i]>> \o under(i)]) \o orphans

buildDiffTree ==
  LET ordered == Stable(Drafts, LAMBDA g, h : groupWeight(g) > groupWeight(h))
      generated(g) == g.id.kind = "generated"
      arranged == attachTestGroups(SelectSeq(ordered, LAMBDA g : ~generated(g)))
      inside(g) == [g EXCEPT !.files = Stable(@, LAMBDA a, b : fileWeight(a) > fileWeight(b))]
      all == arranged \o SelectSeq(ordered, generated)
  IN [i \in DOMAIN all |-> inside(all[i])]

\* The pane is mounted with the first tree it has, and folds then what is to be
\* folded by default; later trees come to what is folded already.
Ids(gs) == {gs[i].id : i \in DOMAIN gs}
Show ==
  /\ reading = {} /\ ~(mounted /\ from = listed)
  /\ groups' = buildDiffTree /\ from' = listed /\ sem' = facts
  /\ mounted' = TRUE
  /\ folded' = IF mounted THEN folded ELSE {id \in Ids(groups') : id.kind = "generated"}
  /\ UNCHANGED <<tree, readVars, edits>>

\* Another workspace, or the pane closed: the next tree mounts a new one.
Leave ==
  /\ mounted /\ mounted' = FALSE
  /\ groups' = <<>> /\ from' = <<>> /\ sem' = NoFacts /\ folded' = {}
  /\ UNCHANGED <<tree, readVars, edits>>

toggle(id) ==
  /\ id \in Ids(groups)
  /\ folded' = IF id \in folded THEN folded \ {id} ELSE folded \cup {id}
  /\ UNCHANGED <<tree, readVars, groups, from, sem, mounted, edits>>

-----------------------------------------------------------------------------
(* The users and the agents at work.                                       *)

Edit(f, xy, lines, sort) ==
  /\ edits < MaxEdits /\ edits' = edits + 1
  /\ tree' = [tree EXCEPT ![f] = [xy |-> xy, lines |-> lines, sort |-> sort]]
  /\ tree' # tree
  /\ UNCHANGED <<readVars, paneVars>>

Commit ==
  /\ edits < MaxEdits /\ edits' = edits + 1
  /\ tree' = [f \in Files |-> Clean] /\ tree' # tree
  /\ UNCHANGED <<readVars, paneVars>>

Next ==
  \/ Refresh \/ ReadStatus \/ semFactsFor \/ Show \/ Leave \/ Commit
  \/ \E i \in DOMAIN groups : toggle(groups[i].id)
  \/ \E f \in Files, xy \in Letters, lines \in Lines, sort \in Sorts : Edit(f, xy, lines, sort)

Spec == Init /\ [][Next]_vars

-----------------------------------------------------------------------------
(* Properties.                                                             *)

KindAt(i) == groups[i].id.kind

\* Whatever the order the groups come to by weight: each change of the status is
\* in one group, generated files come last, and a group of tests stands under the
\* nearest module above it, with nothing but other tests of it between
\* (diff-tree.ts:17-25, 323-329).
ReadInOrder ==
  /\ \A i \in DOMAIN from : Cardinality({p \in (DOMAIN groups) \X (DOMAIN from) :
       p[2] \in DOMAIN groups[p[1]].files /\ groups[p[1]].files[p[2]] = from[i]}) = 1
  /\ \A i, j \in DOMAIN groups : (KindAt(i) = "generated" /\ i < j) => KindAt(j) = "generated"
  /\ \A i \in DOMAIN groups :
       LET above == {j \in DOMAIN groups : KindAt(j) \notin {"test", "generated"}
                       /\ groups[j].id.dir # <<>> /\ IsPrefix(groups[j].id.dir, groups[i].id.dir)}
       IN (KindAt(i) = "test" /\ above # {}) =>
            \E j \in above : j < i /\ (\A k \in above : Len(groups[k].id.dir) <= Len(groups[j].id.dir))
                                   /\ \A k \in j + 1 .. i : KindAt(k) = "test"

\* What the code's comments say, and it does not keep.
\* A group of generated files is folded until somebody unfolds it: one that
\* appears after the pane was mounted is not (DiffTree.tsx:27, diff-tree.ts:209).
GeneratedComesFolded ==
  [][ \A i \in DOMAIN groups' : LET id == groups'[i].id IN
        (id.kind = "generated" /\ id \notin Ids(groups) /\ mounted') => id \in folded' ]_groups

\* A reformatted file sinks below a rewritten one regardless of line counts.
RankedByMovement ==
  \A i \in DOMAIN groups : \A j, k \in DOMAIN groups[i].files :
    (j < k /\ Structural(sem, groups[i].files[k].path)) => Structural(sem, groups[i].files[j].path)

\* Every modified or renamed file shows its line counts.
RenamesAreCounted == \A i \in DOMAIN from : from[i].lines # 0
=============================================================================
