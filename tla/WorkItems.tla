------------------------------ MODULE WorkItems ------------------------------
(***************************************************************************)
(* What the work graph promises its callers, with no tables in it.  A unit *)
(* of work is a document that is only ever edited in place, plus a family  *)
(* of last-writer-wins registers (status, priority, implementer, and one   *)
(* register per citation).  Every accepted call takes effect in one step,  *)
(* on the state that step finds.                                           *)
(***************************************************************************)
EXTENDS Integers

CONSTANTS Clients,     \* concurrent callers of the service
          Works,       \* work refs
          Fields,      \* the authored fields of a document
          Attributes,  \* the registers of a unit of work
          Null

VARIABLES doc,         \* doc[w]: the document, or Null before creation
          register,    \* register[w][a]: [value, at], the latest write
          pending      \* pending[c]: the call c is about to carry out

vars == <<doc, register, pending>>

Unset == [value |-> Null, at |-> 0]
NoCall == [kind |-> "none"]

\* An edit replaces the fields it names and keeps the others.
Edit(edits, content) ==
  [f \in Fields |-> IF edits[f] = Null THEN content[f] ELSE edits[f]]

\* A write takes the register unless it already holds a later one; Null writes
\* nothing.
Overwrite(old, value, at) ==
  IF value # Null /\ old.at < at THEN [value |-> value, at |-> at] ELSE old

Init ==
  /\ doc = [w \in Works |-> Null]
  /\ register = [w \in Works |-> [a \in Attributes |-> Unset]]
  /\ pending = [c \in Clients |-> NoCall]

-----------------------------------------------------------------------------

\* A caller takes up a call, or gives one up without having changed anything.
Request(c) ==
  /\ pending' = [pending EXCEPT ![c] = pending'[c]]
  /\ UNCHANGED <<doc, register>>

\* Some callers give their calls up together.
Withdraw(S) ==
  /\ pending' = [c \in Clients |-> IF c \in S THEN NoCall ELSE pending[c]]
  /\ UNCHANGED <<doc, register>>

\* The call takes effect and is over.
Complete(c, kind) ==
  /\ pending[c].kind = kind
  /\ pending' = [pending EXCEPT ![c] = NoCall]

\* A new document, with the registers its author set.
Create(c) ==
  /\ Complete(c, "create")
  /\ LET p == pending[c] IN
       /\ doc[p.work] = Null
       /\ doc' = [doc EXCEPT ![p.work] = p.content]
       /\ register' = [register EXCEPT ![p.work] =
            [a \in Attributes |-> Overwrite(@[a], p.initial[a], p.at)]]

Revise(c) ==
  /\ Complete(c, "revise")
  /\ LET p == pending[c] IN
       /\ doc[p.work] # Null
       /\ doc' = [doc EXCEPT ![p.work] = Edit(p.edits, @)]
  /\ UNCHANGED register

Write(c) ==
  /\ Complete(c, "write")
  /\ LET p == pending[c] IN
       /\ doc[p.work] # Null
       /\ register' = [register EXCEPT ![p.work][p.attribute] =
                         Overwrite(@, p.value, p.at)]
  /\ UNCHANGED doc

Next ==
  \/ \E c \in Clients : Request(c) \/ Create(c) \/ Revise(c) \/ Write(c)
  \/ \E S \in SUBSET Clients : Withdraw(S)

Spec == Init /\ [][Next]_vars
=============================================================================
