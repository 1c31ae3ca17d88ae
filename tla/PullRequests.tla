----------------------------- MODULE PullRequests -----------------------------
(***************************************************************************)
(* The pull request a workspace shows for its branch.  GitService takes    *)
(* the repository's name on GitHub from the remotes, lists its pull        *)
(* requests with gh and keeps them in rows, one statement per row; two     *)
(* syncs may cross.  The branch's pull request is read back from the rows. *)
(* GitHub, its users and git's configuration are external.                 *)
(***************************************************************************)
EXTENDS Integers, Sequences, FiniteSets

CONSTANTS
  Repos,       \* repositories on GitHub, each with branches of the same names
  Branches,
  RemotesSet,  \* the remotes a clone may have, in git's order: [name, at]
  Limit,       \* how many pull requests gh lists
  MaxPrs,      \* bound: pull requests
  MaxChanges,  \* bound: what happens to them on GitHub
  MaxSyncs,    \* bound: syncs
  NoRepo, NoPr

States == {"open", "closed", "merged"}
Prs == [number : Nat, base : Repos, head : Repos, branch : Branches, state : States,
        checks : SUBSET {"running", "failed", "passed"}]
Rows == [number : Nat, head : Repos, branch : Branches, state : States,
         checks : {"none", "failing", "pending", "passing"}, synced : Nat]

PullRequestsAssumption ==
  /\ RemotesSet \subseteq Seq([name : STRING, at : Repos \cup {NoRepo}])
  /\ Limit \in Nat /\ NoPr \notin Prs \cup Rows

VARIABLES
  remotes,
  github,   \* the repository row's identity
  hub,      \* all pull requests: [number, base, head, branch, state, checks]
  changes, syncs,
  clock,
  under,    \* per trigger the sync under way: [slug, todo, now] and, ghosts, what
            \* was there when gh listed it and whether another one has written since
  prRows,   \* the pull_requests rows, by number
  told      \* ghost: what the last sync that none crossed had listed

vars == <<remotes, github, hub, changes, syncs, clock, under, prRows, told>>

By == {"push", "create"}
NoSyncing == [slug |-> NoRepo, todo |-> {}, now |-> 0, listed |-> {}, crossed |-> FALSE]
Unknown == {NoPr}

-----------------------------------------------------------------------------
(* Reading.                                                                *)

\* The first remote on GitHub, origin before the others.
githubIdentity(rs) ==
  LET named == {i \in DOMAIN rs : rs[i].at # NoRepo}
      origin == {i \in named : rs[i].name = "origin"}
      from == IF origin = {} THEN named ELSE origin
  IN IF named = {} THEN NoRepo ELSE rs[CHOOSE i \in from : \A j \in from : i <= j].at

summarizeChecks(checks) ==
  CASE checks = {} -> "none"
    [] "failed" \in checks -> "failing"
    [] "failed" \notin checks /\ "running" \in checks -> "pending"
    [] OTHER -> "passing"

mapGhPullRequest(pr, now) ==
  [number |-> pr.number, head |-> pr.head, branch |-> pr.branch, state |-> pr.state,
   checks |-> summarizeChecks(pr.checks), synced |-> now]

\* The newest, up to the limit.
List(slug) ==
  LET all == {pr \in hub : pr.base = slug}
  IN {pr \in all : Cardinality({b \in all : b.number > pr.number}) < Limit}

headInRepository(row) == row.head = github

Better(a, b) ==
  \/ a.state = "open" /\ b.state # "open"
  \/ /\ (a.state = "open") = (b.state = "open")
     /\ a.synced > b.synced \/ (a.synced = b.synced /\ a.number > b.number)

First(rows, Precedes(_, _)) ==
  IF rows = {} THEN NoPr ELSE CHOOSE a \in rows : \A b \in rows \ {a} : Precedes(a, b)

RowSet == {prRows[n] : n \in DOMAIN prRows}

\* A plausible bug: a fork's branch of the name counts.
AnyHead(branch) == First({row \in RowSet : row.branch = branch}, Better)

pullRequestForBranch(branch) ==
  First({row \in RowSet : row.branch = branch /\ headInRepository(row)}, Better)

-----------------------------------------------------------------------------
(* Detection and syncs.                                                    *)

Init ==
  /\ remotes \in RemotesSet
  /\ github = NoRepo
  /\ hub = {} /\ changes = 0 /\ syncs = 0 /\ clock = 0
  /\ under = [by \in By |-> NoSyncing]
  /\ prRows = <<>>
  /\ told = Unknown

Detect ==
  /\ github' = githubIdentity(remotes)
  /\ UNCHANGED <<remotes, hub, changes, syncs, clock, under, prRows, told>>

Begin(by, slug) ==
  /\ syncs < MaxSyncs /\ syncs' = syncs + 1
  /\ under' = [under EXCEPT ![by] = [NoSyncing EXCEPT !.slug = slug, !.todo = List(slug),
                                                     !.listed = {pr \in hub : pr.base = slug}]]
  /\ UNCHANGED <<remotes, github, hub, changes, clock, prRows, told>>

\* A push interrupts the push's sync before it, wherever that is.
SyncPushed == github # NoRepo /\ Begin("push", github)

\* gh makes the pull request, unless the branch has an open one; its sync lists
\* what there is by then.
Create(branch) ==
  /\ under["create"] = NoSyncing /\ github # NoRepo /\ Cardinality(hub) < MaxPrs
  /\ ~\E pr \in hub : pr.base = github /\ pr.head = github /\ pr.branch = branch /\ pr.state = "open"
  /\ hub' = hub \union {[number |-> Cardinality(hub) + 1, base |-> github, head |-> github,
                         branch |-> branch, state |-> "open", checks |-> {}]}
  /\ under' = [under EXCEPT !["create"] = [NoSyncing EXCEPT !.slug = github]]
  /\ UNCHANGED <<remotes, github, changes, syncs, clock, prRows, told>>

ListCreated ==
  /\ under["create"].slug # NoRepo /\ under["create"].todo = {}
  /\ Begin("create", under["create"].slug)

\* One row at a time, the newest first, under the time the first one takes; the last
\* one ends the sync.
upsertPullRequest(by) == \E pr \in under[by].todo :
  LET sync == under[by]
      now == IF sync.now = 0 THEN clock + 1 ELSE sync.now
      row == mapGhPullRequest(pr, now)
      over == sync.todo = {pr}
  IN /\ \A other \in sync.todo : pr.number >= other.number
     /\ clock' = IF sync.now = 0 THEN now ELSE clock
     /\ prRows' = [n \in DOMAIN prRows \union {row.number} |-> IF n = row.number THEN row ELSE prRows[n]]
     /\ under' = [k \in By |->
          IF k # by THEN [under[k] EXCEPT !.crossed = under[k].todo # {}]
          ELSE IF over THEN NoSyncing ELSE [sync EXCEPT !.todo = @ \ {pr}, !.now = now]]
     /\ told' = IF over /\ ~sync.crossed THEN sync.listed ELSE Unknown
     /\ UNCHANGED <<remotes, github, hub, changes, syncs>>

\* gh fails, its answer does not parse, or the store refuses a row.
SyncFails(by) ==
  /\ under[by] # NoSyncing
  /\ under' = [under EXCEPT ![by] = NoSyncing]
  /\ UNCHANGED <<remotes, github, hub, changes, syncs, clock, prRows, told>>

-----------------------------------------------------------------------------
(* GitHub and the clone (external).                                        *)

Changed == changes < MaxChanges /\ changes' = changes + 1

OpenPr(base, head, branch) ==
  /\ Changed /\ Cardinality(hub) < MaxPrs
  /\ hub' = hub \union {[number |-> Cardinality(hub) + 1, base |-> base, head |-> head,
                         branch |-> branch, state |-> "open", checks |-> {}]}
  /\ UNCHANGED <<remotes, github, syncs, clock, under, prRows, told>>

ChangePr(pr) ==
  /\ Changed
  /\ \E next \in {[pr EXCEPT !.state = s] : s \in IF pr.state = "open" THEN {"closed", "merged"}
                                                  ELSE IF pr.state = "closed" THEN {"open"} ELSE {}}
                 \union {[pr EXCEPT !.checks = c] : c \in {{"running"}, {"failed", "running"}, {"passed"}}} :
       next # pr /\ hub' = (hub \ {pr}) \union {next}
  /\ UNCHANGED <<remotes, github, syncs, clock, under, prRows, told>>

SetRemotes(rs) ==
  /\ Changed /\ rs # remotes
  /\ remotes' = rs
  /\ UNCHANGED <<github, hub, syncs, clock, under, prRows, told>>

Next ==
  \/ Detect \/ SyncPushed \/ ListCreated
  \/ \E branch \in Branches : Create(branch)
  \/ \E by \in By : upsertPullRequest(by) \/ SyncFails(by)
  \/ \E base, head \in Repos, branch \in Branches : OpenPr(base, head, branch)
  \/ \E pr \in hub : ChangePr(pr)
  \/ \E rs \in RemotesSet : SetRemotes(rs)

Spec == Init /\ [][Next]_vars

-----------------------------------------------------------------------------
(* Properties.                                                             *)

Here == {pr \in hub : pr.base = github}

\* The branch's own pull requests on GitHub, an open one first, then the newest.
OnGitHub(branch) ==
  LET own == {pr \in Here : pr.head = github /\ pr.branch = branch}
      open == {pr \in own : pr.state = "open"}
      Newest(prs) == CHOOSE a \in prs : \A b \in prs : a.number >= b.number
  IN IF own = {} THEN NoPr ELSE Newest(IF open = {} THEN own ELSE open)

SameAs(row, pr) ==
  IF row = NoPr \/ pr = NoPr THEN row = pr
  ELSE row.number = pr.number /\ row.state = pr.state /\ row.checks = summarizeChecks(pr.checks)

\* After a sync that nothing crossed, a branch shows the pull request it has on
\* GitHub, in its state there: never a fork's of the same branch name, nor a closed
\* one for an open one, whatever earlier, failed or interrupted syncs have left -
\* as long as gh lists them all and no other repository's rows were there before.
ShowsItsPullRequest ==
  told = Here /\ Cardinality(told) <= Limit /\ DOMAIN prRows \subseteq {pr.number : pr \in told} =>
    \A branch \in Branches : SameAs(pullRequestForBranch(branch), OnGitHub(branch))

\* The same however many pull requests there are.
ShowsItsState ==
  told = Here =>
    \A branch \in Branches :
      pullRequestForBranch(branch) # NoPr =>
        \E pr \in hub : SameAs(pullRequestForBranch(branch), pr)
=============================================================================
