------------------------------- MODULE McpTools -------------------------------
(***************************************************************************)
(* The tools an agent calls over MCP (mcp/server.ts): a bundled update of  *)
(* a piece of work, the spawn of an agent for it, the priming of a spawned *)
(* agent, and a message to one.  Each verb of the work graph that a tool   *)
(* calls takes effect at once (WorkGraph implements WorkItems); a tool     *)
(* calls several, and another agent's calls come in between.               *)
(***************************************************************************)
EXTENDS Naturals, Sequences, FiniteSets

CONSTANTS
  Agents,       \* the target sessions that call
  Kids,         \* ids of sessions to be spawned
  Sets,         \* the parts of "set" that the updates of the runs have: sets of
                \*   "revise", "status" and "priority"
  Cites,        \* what may be cited
  Nobody,       \* no session
  MaxTries      \* bound: an agent calls one tool, an update this often if it fails

ToolsAssumption ==
  /\ Nobody \notin Agents \cup Kids /\ Agents \cap Kids = {}
  /\ Sets \subseteq SUBSET {"revise", "status", "priority"} /\ IsFiniteSet(Cites)

Targets == Agents \cup Kids

VARIABLES
  calling,  \* agent -> the tool it waits for, with its parameters, or Quiet
  todo,     \* agent -> the verbs its update has still to call
  loaded,   \* agent -> its update has a result to answer with
  tries,    \* agent -> how often it has called it
  fields,   \* the work: for each field the agent that set it last
  cites,    \*   what it cites,
  cutBy,    \*   who took a citation off last, or nobody since it was last put on
  comments, \*   and agent -> its comments
  session,  \* target -> what the session manager knows: [attached, native, spawnedBy]
  delegated,\* the sessions the work is delegated to
  learnt,   \* kid -> what it was told by its prompt and by arc.prime
  inbox     \* target -> messages queued

vars == <<calling, todo, loaded, tries, fields, cites, cutBy, comments, session, delegated, learnt, inbox>>
tool == <<calling, todo, loaded, tries>>
graph == <<fields, cites, cutBy, comments>>
agency == <<session, delegated, learnt, inbox>>

Quiet == [tool |-> "none"]
Absent == [attached |-> FALSE, native |-> FALSE, spawnedBy |-> Nobody]

Init ==
  /\ calling = [a \in Agents |-> Quiet] /\ todo = [a \in Agents |-> <<>>]
  /\ loaded = [a \in Agents |-> FALSE] /\ tries = [a \in Agents |-> 0]
  /\ fields = [f \in {"revise", "status", "priority"} |-> Nobody]
  /\ cites = {} /\ cutBy = [c \in Cites |-> Nobody] /\ comments = [a \in Agents |-> 0]
  /\ session = [t \in Targets |-> IF t \in Agents THEN [Absent EXCEPT !.attached = TRUE, !.native = TRUE] ELSE Absent]
  /\ delegated = {} /\ learnt = [k \in Kids |-> {}] /\ inbox = [t \in Targets |-> 0]

-----------------------------------------------------------------------------
(* Who calls (provenance.ts).                                              *)

\* The ids of the bearer, if it was interpolated, else of the headers, else of the
\* parameters.
resolveProvenance(bearer, header, param) ==
  IF bearer # Nobody THEN bearer ELSE IF header # Nobody THEN header ELSE param

-----------------------------------------------------------------------------
(* arc.work.update                                                         *)

Updates ==
  {u \in [tool : {"update"}, set : Sets, remove : SUBSET Cites, add : SUBSET Cites, comment : BOOLEAN] :
     u.set # {} \/ u.remove # {} \/ u.add # {} \/ u.comment}

Verb(name, arg) == [verb |-> name, arg |-> arg]
\* In the order of the arguments, whichever it is.
Each(name, args) ==
  LET verbs == {Verb(name, arg) : arg \in args}
  IN  CHOOSE s \in [1..Cardinality(args) -> verbs] : \A v \in verbs : \E i \in 1..Cardinality(args) : s[i] = v
Part(u, part) == IF part \in u.set THEN <<Verb(part, part)>> ELSE <<>>
Fields(u) == Part(u, "revise") \o Part(u, "status") \o Part(u, "priority")
Comment(u) == IF u.comment THEN <<Verb("comment", "")>> ELSE <<>>

\* Slip: the comment first.
CommentsFirst(u) == Comment(u) \o Fields(u) \o Each("uncite", u.remove) \o Each("cite", u.add)

\* The order of the verbs of a call.
Ordered(u) == Fields(u) \o Each("uncite", u.remove) \o Each("cite", u.add) \o Comment(u)

Calls(a) == calling[a] = Quiet /\ tries[a] = 0 /\ tries' = [tries EXCEPT ![a] = 1]

Update(a, u) ==
  /\ Calls(a)
  /\ calling' = [calling EXCEPT ![a] = u] /\ todo' = [todo EXCEPT ![a] = Ordered(u)]
  /\ loaded' = [loaded EXCEPT ![a] = FALSE]
  /\ UNCHANGED <<graph, agency>>

\* A verb of it takes effect.
Apply(a) ==
  /\ calling[a].tool = "update" /\ todo[a] # <<>>
  /\ LET v == Head(todo[a])
     IN  /\ fields' = IF v.verb \in DOMAIN fields THEN [fields EXCEPT ![v.verb] = a] ELSE fields
         /\ cites' = CASE v.verb = "cite" -> cites \cup {v.arg}
                       [] v.verb = "uncite" -> cites \ {v.arg}
                       [] OTHER -> cites
         /\ cutBy' = CASE v.verb = "cite" -> [cutBy EXCEPT ![v.arg] = Nobody]
                       [] v.verb = "uncite" /\ v.arg \in cites -> [cutBy EXCEPT ![v.arg] = a]
                       [] OTHER -> cutBy
         /\ comments' = IF v.verb = "comment" THEN [comments EXCEPT ![a] = @ + 1] ELSE comments
         /\ loaded' = [loaded EXCEPT ![a] = @ \/ v.verb # "comment"]
  /\ todo' = [todo EXCEPT ![a] = Tail(@)]
  /\ UNCHANGED <<calling, tries, agency>>

\* A call that only comments loads the work to answer with it.
Load(a) ==
  /\ calling[a].tool = "update" /\ todo[a] = <<>> /\ ~loaded[a]
  /\ loaded' = [loaded EXCEPT ![a] = TRUE]
  /\ UNCHANGED <<calling, todo, tries, graph, agency>>

AnswerUpdate(a) ==
  /\ calling[a].tool = "update" /\ todo[a] = <<>> /\ loaded[a]
  /\ calling' = [calling EXCEPT ![a] = Quiet]
  /\ UNCHANGED <<todo, loaded, tries, graph, agency>>

\* A verb fails, or the load: the work is not known or the store does not answer.
\* What was applied stays, and the agent hears of an error only: it calls again.
Fails(a) ==
  /\ calling[a].tool = "update" /\ (todo[a] # <<>> \/ ~loaded[a])
  /\ IF tries[a] < MaxTries
       THEN /\ todo' = [todo EXCEPT ![a] = Ordered(calling[a])]
            /\ tries' = [tries EXCEPT ![a] = @ + 1] /\ UNCHANGED calling
       ELSE /\ calling' = [calling EXCEPT ![a] = Quiet] /\ UNCHANGED <<todo, tries>>
  /\ loaded' = [loaded EXCEPT ![a] = FALSE]
  /\ UNCHANGED <<graph, agency>>

-----------------------------------------------------------------------------
(* arc.agent.spawn, arc.prime and arc.agent.send                           *)

\* The chat of the bearer, which the parameters may not contradict, or theirs.
Placed(bearer, chat) == IF bearer # Nobody THEN chat # "other" ELSE chat # "none"

\* An agent of a client without a bearer is nobody to the server.
Spawn(a, bearer, chat, work) ==
  /\ Calls(a) /\ Placed(bearer, chat)
  /\ calling' = [calling EXCEPT ![a] = [tool |-> "spawn", work |-> work, kid |-> Nobody,
                                        parent |-> resolveProvenance(bearer, Nobody, Nobody)]]
  /\ UNCHANGED <<todo, loaded, graph, agency>>

\* The launch, with the assignment and the way back in the prompt if the work is
\* there; a work that is not ("unknown") is no obstacle yet.
Launch(a, k) ==
  /\ calling[a].tool = "spawn" /\ calling[a].kid = Nobody /\ session[k] = Absent
  /\ session' = [session EXCEPT ![k] = [attached |-> TRUE, native |-> FALSE, spawnedBy |-> calling[a].parent]]
  /\ learnt' = [learnt EXCEPT ![k] = IF calling[a].work = "known" THEN {"work", calling[a].parent} \ {Nobody} ELSE {}]
  /\ calling' = [calling EXCEPT ![a].kid = k]
  /\ UNCHANGED <<todo, loaded, tries, graph, delegated, inbox>>

\* linkTargetSession and the answer; without a work there is the answer only.
AnswerSpawn(a) ==
  /\ calling[a].tool = "spawn" /\ calling[a].kid # Nobody /\ calling[a].work # "unknown"
  /\ delegated' = IF calling[a].work = "known" THEN delegated \cup {calling[a].kid} ELSE delegated
  /\ calling' = [calling EXCEPT ![a] = Quiet]
  /\ UNCHANGED <<todo, loaded, tries, graph, session, learnt, inbox>>

\* The launch fails, or what comes after it: then the agent runs all the same.
SpawnFails(a) ==
  /\ calling[a].tool = "spawn" /\ calling' = [calling EXCEPT ![a] = Quiet]
  /\ UNCHANGED <<todo, loaded, tries, graph, agency>>

\* A kid asks who it is; one whose bearer was not interpolated says so itself.
Prime(k, bearer, param) ==
  /\ session[k].attached
  /\ LET id == resolveProvenance(bearer, Nobody, param)
     IN  learnt' = [learnt EXCEPT ![k] = @ \cup ({session[id].spawnedBy} \ {Nobody})
                                           \cup {w \in {"work"} : id \in delegated}]
  /\ UNCHANGED <<tool, graph, session, delegated, inbox>>

\* The list of sessions is read, and the message queued after that.
Send(a, t) ==
  /\ Calls(a) /\ t # a /\ session[t] # Absent
  /\ session[t].attached \/ session[t].native
  /\ calling' = [calling EXCEPT ![a] = [tool |-> "send", to |-> t]]
  /\ UNCHANGED <<todo, loaded, graph, agency>>

Enqueue(a) ==
  /\ calling[a].tool = "send"
  /\ inbox' = [inbox EXCEPT ![calling[a].to] = @ + 1]
  /\ calling' = [calling EXCEPT ![a] = Quiet]
  /\ UNCHANGED <<todo, loaded, tries, graph, session, delegated, learnt>>

\* The kid's CLI binds it by its hook, or ends.
BindNative(k) ==
  /\ session[k].attached /\ ~session[k].native
  /\ session' = [session EXCEPT ![k].native = TRUE]
  /\ UNCHANGED <<tool, graph, delegated, learnt, inbox>>

Exit(k) ==
  /\ session[k].attached /\ session' = [session EXCEPT ![k].attached = FALSE]
  /\ UNCHANGED <<tool, graph, delegated, learnt, inbox>>

Next ==
  \/ \E a \in Agents :
       \/ \E u \in Updates : Update(a, u)
       \/ Apply(a) \/ Load(a) \/ AnswerUpdate(a) \/ Fails(a)
       \/ \E bearer \in {a, Nobody}, chat \in {"own", "other", "none"}, work \in {"known", "unknown", "no"} :
            Spawn(a, bearer, chat, work)
       \/ \E k \in Kids : Launch(a, k)
       \/ AnswerSpawn(a) \/ SpawnFails(a)
       \/ \E t \in Targets : Send(a, t)
       \/ Enqueue(a)
  \/ \E k \in Kids :
       \/ \E bearer \in {k, Nobody} : Prime(k, bearer, k)
       \/ BindNative(k) \/ Exit(k)

Spec == Init /\ [][Next]_vars

-----------------------------------------------------------------------------

\* A call that retargets a citation, taking off what it also puts on, leaves it on,
\* unless another agent has taken it off since (server.ts:142-144).
Retargeted ==
  \A a \in Agents : AnswerUpdate(a) => \A c \in calling[a].add : c \in cites \/ cutBy[c] # a

\* An update that has more to say than a comment comments once, however often the
\* agent repeats it after an error: the comment is the last that can fail.
CommentedOnce ==
  \A a \in Agents :
    calling[a].tool = "update" /\ (calling[a].set # {} \/ calling[a].remove \cup calling[a].add # {})
      => comments[a] <= 1

\* What the spawn promises: an agent that runs for a piece of work is linked to it
\* once the tool has answered, and one whose spawn failed does not run.
SpawnedIsLinked ==
  [][\A a \in Agents : SpawnFails(a) => calling[a].kid = Nobody]_vars
=============================================================================
