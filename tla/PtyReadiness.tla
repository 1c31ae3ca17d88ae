----------------------------- MODULE PtyReadiness -----------------------------
(***************************************************************************)
(* The first prompt of a terminal session: how the driver of a spawned     *)
(* child clears the gates that stand before its composer, recognises the   *)
(* composer and delivers the prompt that the launch seeded.                *)
(***************************************************************************)
EXTENDS Naturals, Sequences

CONSTANTS
  Gates,    \* the advanceGates of the provider
  MaxPaints \* bound on the chunks of output

Glyph == "glyph" \* readyPromptGlyph

ReadinessAssumption == Gates \cap {Glyph, "prompt", "enter"} = {}

VARIABLES
  seed,      \* how the launch seeds its prompt: "none" (a resume), "paste", "prefill" or "jsonl"
  glyphed,   \* the provider names a glyph
  ahead,     \* the screens that the child has still to pass: gates in some order, then its composer
  paints,
  chunks,    \* output not yet handed to onData, each a set of gate texts and Glyph
  gatesLeft,
  delivered,
  fallback,  \* the timer is armed
  settling,  \* the timer of the Enter on a prefilled draft
  typed,     \* what was written to the child and is not read yet: gates' keys, "prompt", "enter"
  early,     \* the child read the prompt, or its Enter, at a gate
  submitted, \* how often the composer took the prompt
  lapsed     \* the fallback delivered

vars == <<seed, glyphed, ahead, paints, chunks, gatesLeft, delivered, fallback, settling,
          typed, early, submitted, lapsed>>
childVars == <<ahead, paints>>
driverVars == <<gatesLeft, delivered, fallback, settling, lapsed>>
launchVars == <<seed, glyphed>>

hasSeededPrompt == seed # "none"

\* writeAfterStart goes out as text and, 80 ms later, Enter; a JSONL line is
\* one write; a prefilled draft waits 400 ms for its Enter.
DeliverInto(keys, how) ==
  /\ delivered' = TRUE /\ fallback' = FALSE /\ lapsed' = (how = "fallback")
  /\ typed' = IF seed = "prefill" THEN keys ELSE Append(keys, "prompt")
  /\ settling' = (seed = "prefill")

\* drivePtySpawn.  An rpc provider is given its prompt at once.
Init ==
  /\ seed \in {"none", "paste", "prefill", "jsonl"} /\ glyphed \in BOOLEAN
  /\ ahead \in {<<>>} \cup {<<g>> : g \in Gates} \cup {s \in Gates \X Gates : s[1] # s[2]}
  /\ seed = "jsonl" => ahead = <<>>
  /\ paints = 0 /\ chunks = <<>> /\ gatesLeft = Gates
  /\ delivered = (seed = "jsonl") /\ fallback = (seed \in {"paste", "prefill"})
  /\ typed = IF seed = "jsonl" THEN <<"prompt">> ELSE <<>>
  /\ settling = FALSE /\ early = FALSE /\ submitted = 0 /\ lapsed = FALSE

-----------------------------------------------------------------------------
(* The child.                                                              *)

Screen == IF ahead = <<>> THEN {Glyph} ELSE {Head(ahead)}

\* A chunk holds what is on the screen, or not yet all of it, and may reach the
\* driver as one with the chunk before.
Paint ==
  /\ paints < MaxPaints /\ paints' = paints + 1
  /\ \E shown \in {{}, Screen} :
       \/ chunks' = Append(chunks, shown)
       \/ chunks # <<>> /\ chunks' = [chunks EXCEPT ![Len(chunks)] = @ \cup shown]
  /\ UNCHANGED <<launchVars, ahead, driverVars, typed, early, submitted>>

\* A gate takes its own key and swallows what else is typed; the composer
\* takes the prompt, or the Enter on its draft.
Read ==
  /\ typed # <<>> /\ typed' = Tail(typed)
  /\ ahead' = IF ahead # <<>> /\ Head(typed) = Head(ahead) THEN Tail(ahead) ELSE ahead
  /\ early' = (early \/ (ahead # <<>> /\ Head(typed) \in {"prompt", "enter"}))
  /\ submitted' = IF ahead = <<>> /\ Head(typed) \in {"prompt", "enter"} THEN submitted + 1 ELSE submitted
  /\ UNCHANGED <<launchVars, paints, chunks, driverVars>>

\* The user passes a gate by hand.
PassByHand ==
  /\ ahead # <<>> /\ ahead' = Tail(ahead)
  /\ UNCHANGED <<launchVars, paints, chunks, driverVars, typed, early, submitted>>

-----------------------------------------------------------------------------
(* The driver.                                                             *)

\* The composer is up: its glyph shows, or there is no glyph to wait for and any
\* output will do, and no gate was found.
IsReady(shown) == hasSeededPrompt /\ (~glyphed \/ Glyph \in shown)

\* onData, while nothing is delivered and there is a prompt to deliver or a gate
\* to clear: a gate that shows is answered once, and what else was painted with
\* it is forgotten; failing a gate, the composer is looked for.
OnData ==
  /\ chunks # <<>> /\ chunks' = Tail(chunks)
  /\ LET found == Head(chunks) \cap gatesLeft
     IN IF delivered \/ (~hasSeededPrompt /\ gatesLeft = {}) THEN UNCHANGED <<typed, driverVars>>
        ELSE IF found # {}
        THEN \E g \in found :
               /\ gatesLeft' = gatesLeft \ {g} /\ typed' = Append(typed, g)
               /\ UNCHANGED <<delivered, fallback, settling, lapsed>>
        ELSE /\ IF IsReady(Head(chunks)) THEN DeliverInto(typed, "ready")
                ELSE UNCHANGED <<typed, delivered, fallback, settling, lapsed>>
             /\ UNCHANGED gatesLeft
  /\ UNCHANGED <<launchVars, childVars, early, submitted>>

\* deliver returns when the prompt was delivered.
Undelivered == ~delivered

Fallback ==
  /\ seed \in {"paste", "prefill"} /\ (fallback \/ delivered) /\ Undelivered
  /\ DeliverInto(typed, "fallback")
  /\ UNCHANGED <<launchVars, childVars, chunks, gatesLeft, early, submitted>>

Settle ==
  /\ settling /\ settling' = FALSE /\ typed' = Append(typed, "enter")
  /\ UNCHANGED <<launchVars, childVars, chunks, gatesLeft, delivered, fallback, lapsed, early, submitted>>

Next == Paint \/ Read \/ PassByHand \/ OnData \/ Fallback \/ Settle

Spec == Init /\ [][Next]_vars
FairSpec == Spec /\ WF_vars(Read) /\ WF_vars(OnData) /\ WF_vars(Fallback) /\ WF_vars(Settle)

-----------------------------------------------------------------------------

\* The composer takes a seeded prompt once, and no gate swallows it unless the
\* ten seconds of the fallback passed before its composer showed: whichever
\* gates there are, in whichever chunks they are painted.
SeededOnce ==
  /\ submitted <= 1
  /\ glyphed /\ ~lapsed => ~early

\* A seeded prompt is delivered in the end, whatever the child paints.
SeedIsDelivered == hasSeededPrompt ~> delivered

\* "Pre-session gates to clear before the ready glyph can appear": no key of a
\* gate is written once the composer is up.
GatesArePreSession == \A i \in 1..Len(typed) : typed[i] \in Gates => ahead # <<>>
=============================================================================
