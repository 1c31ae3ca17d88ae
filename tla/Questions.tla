------------------------------ MODULE Questions ------------------------------
(***************************************************************************)
(* One question an agent asks its user, and the card the chat shows of it. *)
(* The card is written from two sides: the hooks of the tool, in their     *)
(* order, and projections of the transcript, each of a snapshot that may   *)
(* be older than the card it lands on.  Every provider words the question  *)
(* and its answer in its own way.                                          *)
(*                                                                         *)
(* A text is the sequence of its parts between commas, which is all that   *)
(* joining answers and splitting them again depends on.  The agent and the *)
(* user who answers in its terminal are external.                          *)
(***************************************************************************)
EXTENDS Integers, Sequences, SequencesExt, FiniteSets

CONSTANTS
  Providers,
  Asks,       \* the questions asked: [prompt, options, multi], of options [id, label]
  FreeTexts,  \* what users write when no option suits
  NoText      \* an option's absent id

VARIABLES
  provider, asked,
  picks,      \* per question the options chosen, or a free text
  tool,       \* "idle", "asked", "answered", "failed"
  hooks,      \* the tool's hooks on their way
  written,    \* the transcript: "none", "call", "result"
  snapshot,   \* what a projection under way has read of it
  projected,  \* what the last projection had read
  card        \* the request row's payload

world == <<provider, asked>>
vars == <<world, picks, tool, hooks, written, snapshot, projected, card>>

NoCard == [state |-> "none", questions |-> <<>>, answer |-> FALSE]
NoPick == [options |-> <<>>, text |-> <<>>]
NoResponse == [kind |-> "none", answers |-> <<>>]
FreeForm == [kind |-> "text", answers |-> <<>>]  \* a sentence no schema takes

-----------------------------------------------------------------------------
(* What the tool returns, by provider (external).                          *)

Chosen(pick) == {pick.options[n] : n \in DOMAIN pick.options}
Ids(pick) == [n \in DOMAIN pick.options |-> pick.options[n].id]
Labels(pick) == [n \in DOMAIN pick.options |-> pick.options[n].label]

Said(pick) ==
  IF pick.text # <<>> THEN pick.text
  ELSE FlattenSeq(IF provider = "cursor" THEN Ids(pick) ELSE Labels(pick))

Response == IF tool = "answered"
            THEN [kind |-> "map", answers |-> [i \in DOMAIN asked |-> Said(picks[i])]]
            ELSE FreeForm

-----------------------------------------------------------------------------
(* Reading a question: one shape for all providers.                        *)

claudeOption(option) == [label |-> option.label, value |-> option.label]

codexOption(option) == [label |-> option.label, value |-> option.label]

cursorOption(option) ==
  [label |-> option.label, value |-> IF option.id = NoText THEN option.label ELSE option.id]

\* Ids become labels, one by one; an id no option has stays as it is.
cursorSelectionLabels(selection, options) ==
  LET Named(part) == {n \in DOMAIN options : <<part>> \in {options[n].value, options[n].label}}
      First(ns) == CHOOSE n \in ns : \A k \in ns : n <= k
      Label(part) == IF Named(part) = {} THEN <<part>> ELSE options[First(Named(part))].label
  IN FlattenSeq([n \in DOMAIN selection |-> Label(selection[n])])

Answer(response, i) == IF response.kind = "map" THEN response.answers[i] ELSE <<>>

Normalized(Option(_), Lifted(_, _), response) ==
  [i \in DOMAIN asked |->
     LET options == [n \in DOMAIN asked[i].options |-> Option(asked[i].options[n])]
     IN [options |-> options, answer |-> Lifted(Answer(response, i), options)]]

AsSaid(answer, options) == answer

normalizeClaudeQuestions(response) == Normalized(claudeOption, AsSaid, response)
normalizeCodexQuestions(response) == Normalized(codexOption, AsSaid, response)
normalizeCursorQuestions(response) == Normalized(cursorOption, cursorSelectionLabels, response)

decodeQuestionTool(response) ==
  CASE provider = "cursor" ->
         LET questions == normalizeCursorQuestions(response)
         IN [questions |-> questions,
             structured |-> \E i \in DOMAIN questions : questions[i].answer # <<>>]
    [] provider = "claude" -> [questions |-> normalizeClaudeQuestions(response),
                               structured |-> response.kind = "map"]
    [] provider = "codex" -> [questions |-> normalizeCodexQuestions(response),
                              structured |-> response.kind = "map"]

\* A hook knows the state of the tool; its answer goes on the questions, or on the
\* card when they cannot take it.
claudeUserQuestionDraft(state) ==
  LET decoded == decodeQuestionTool(IF state = "pending" THEN NoResponse ELSE Response)
  IN [state |-> state, questions |-> decoded.questions,
      answer |-> state # "pending" /\ ~decoded.structured]

cursorQuestionDraft(state) ==
  LET answer == IF state = "pending" THEN NoResponse ELSE Response
      decoded == decodeQuestionTool(answer)
  IN [state |-> state, questions |-> decoded.questions,
      answer |-> answer # NoResponse /\ ~decoded.structured]

questionDraft(state) ==
  IF provider = "cursor" THEN cursorQuestionDraft(state) ELSE claudeUserQuestionDraft(state)

NoSidecar(read) == IF read = "result" /\ provider # "claude" THEN Response ELSE NoResponse  \* a plausible bug

\* The transcript knows no state: output means an answer.
rawResponse(read) == IF read = "result" THEN Response ELSE NoResponse

artifactQuestionProjection(read) ==
  LET decoded == decodeQuestionTool(rawResponse(read))
      text == read = "result"
  IN [state |-> IF decoded.structured \/ text THEN "answered" ELSE "pending",
      questions |-> decoded.questions,
      answer |-> text /\ ~(provider \in {"claude", "cursor"} /\ decoded.structured)]

-----------------------------------------------------------------------------
(* The row both sides write.                                               *)

Reopens(next) == card.state \in {"answered", "failed"} /\ next.state = "pending"

\* A plausible bug: the questions already shown win.
KeepsQuestions(next) ==
  IF card = NoCard THEN next
  ELSE [state |-> IF Reopens(next) THEN card.state ELSE next.state,
        questions |-> card.questions,
        answer |-> next.answer \/ card.answer]

\* The newer questions win with their answers; an answer on the card stays.
mergeRequestJson(next) ==
  IF card = NoCard THEN next
  ELSE [state |-> IF Reopens(next) THEN card.state ELSE next.state,
        questions |-> next.questions,
        answer |-> next.answer \/ card.answer]

Upsert(next) == card' = mergeRequestJson(next)

-----------------------------------------------------------------------------
(* The card as it is drawn.                                                *)

\* A plausible bug: an answer is always taken apart.
PartsOnly(question, option) ==
  \E n \in DOMAIN question.answer : <<question.answer[n]>> \in {option.value, option.label}

isChosen(question, option) ==
  \/ question.answer \in {option.value, option.label}
  \/ \E n \in DOMAIN question.answer : <<question.answer[n]>> \in {option.value, option.label}

Lit(i) == {n \in DOMAIN card.questions[i].options :
             isChosen(card.questions[i], card.questions[i].options[n])}

\* The line of an answer that is none of the options.
Line(i) == Lit(i) = {} /\ card.questions[i].answer # <<>>

anyQuestionAnswered == \E i \in DOMAIN card.questions : card.questions[i].answer # <<>>

Footer == card.answer /\ ~anyQuestionAnswered

-----------------------------------------------------------------------------

Init ==
  /\ provider \in Providers
  /\ asked \in Asks
  /\ picks = [i \in DOMAIN asked |-> NoPick]
  /\ tool = "idle"
  /\ hooks = <<>>
  /\ written = "none" /\ snapshot = "none" /\ projected = "none"
  /\ card = NoCard

Hook(event) == hooks' = IF provider = "codex" THEN hooks ELSE Append(hooks, event)

Ask ==
  /\ tool = "idle"
  /\ tool' = "asked"
  /\ Hook("pending")
  /\ UNCHANGED <<world, picks, written, snapshot, projected, card>>

\* Claude asks for permission to ask; the hook is drafted like the first.
Permission ==
  /\ tool = "asked" /\ provider = "claude" /\ Len(hooks) < 2  \* bound
  /\ Hook("pending")
  /\ UNCHANGED <<world, picks, tool, written, snapshot, projected, card>>

Replies(question) ==
  {[options |-> <<question.options[n]>>, text |-> <<>>] : n \in DOMAIN question.options}
    \union {[options |-> <<>>, text |-> text] : text \in FreeTexts}
    \union (IF question.multi /\ provider # "cursor"
            THEN {[options |-> question.options, text |-> <<>>]} ELSE {})

AnswerAll(choice) ==
  /\ tool = "asked"
  /\ tool' = "answered"
  /\ picks' = choice
  /\ Hook("answered")
  /\ UNCHANGED <<world, written, snapshot, projected, card>>

Fail ==
  /\ tool = "asked"
  /\ tool' = "failed"
  /\ Hook("failed")
  /\ UNCHANGED <<world, picks, written, snapshot, projected, card>>

WriteLine ==
  /\ \/ written = "none" /\ tool # "idle" /\ written' = "call"
     \/ written = "call" /\ tool \in {"answered", "failed"} /\ written' = "result"
  /\ UNCHANGED <<world, picks, tool, hooks, snapshot, projected, card>>

HandleHook ==
  /\ hooks # <<>>
  /\ hooks' = Tail(hooks)
  /\ Upsert(questionDraft(Head(hooks)))
  /\ UNCHANGED <<world, picks, tool, written, snapshot, projected>>

Read ==
  /\ snapshot = "none" /\ projected # written
  /\ snapshot' = written
  /\ UNCHANGED <<world, picks, tool, hooks, written, projected, card>>

Project ==
  /\ snapshot # "none"
  /\ Upsert(artifactQuestionProjection(snapshot))
  /\ projected' = snapshot
  /\ snapshot' = "none"
  /\ UNCHANGED <<world, picks, tool, hooks, written>>

Next ==
  \/ Ask \/ Permission \/ Fail \/ WriteLine \/ HandleHook \/ Read \/ Project
  \/ \E one \in Replies(asked[1]), last \in Replies(Last(asked)) :
       AnswerAll([i \in DOMAIN asked |-> IF i = 1 THEN one ELSE last])

Spec == Init /\ [][Next]_vars

-----------------------------------------------------------------------------
(* Properties.                                                             *)

AtRest == tool \in {"answered", "failed"} /\ hooks = <<>> /\ snapshot = "none"
            /\ projected = "result"

\* No two options of a question, nor a part of one and the other, have one wording.
Apart(question) ==
  \A m, n \in DOMAIN question.options :
    m # n => LET one == question.options[m]  other == question.options[n]
                 Parts(text) == {<<text[k]>> : k \in DOMAIN text} \union {text}
             IN {other.id, other.label} \intersect (Parts(one.id) \union Parts(one.label)) = {}

Among(text, question) ==
  \E n \in DOMAIN question.options, k \in DOMAIN text :
    <<text[k]>> \in {question.options[n].id, question.options[n].label}

\* Once hooks and transcript have said all they will, the card of an answered
\* question lights every option the user chose, and no other when their wordings
\* are apart; an answer in the user's own words stands on a line of its own.
ShownAsPicked ==
  AtRest /\ tool = "answered" =>
    \A i \in DOMAIN asked :
      LET chosen == {n \in DOMAIN asked[i].options : asked[i].options[n] \in Chosen(picks[i])}
      IN /\ chosen \subseteq Lit(i)
         /\ Apart(asked[i]) /\ picks[i].text = <<>> => Lit(i) = chosen
         /\ picks[i].text # <<>> /\ ~Among(picks[i].text, asked[i]) => Line(i)

\* What Question.tsx says where it leaves out the badge: a card that counts as
\* answered shows an answer.
AnsweredSaysSo ==
  card.state = "answered" =>
    Footer \/ \E i \in DOMAIN card.questions : Lit(i) # {} \/ Line(i)

\* Free text is drawn in full even when a part of it reads like an option.
FreeTextIsDrawn ==
  AtRest /\ tool = "answered" => \A i \in DOMAIN asked : picks[i].text # <<>> => Line(i)

\* A question that failed is not shown as answered.
FailedStaysFailed == AtRest /\ tool = "failed" /\ provider # "codex" => card.state = "failed"
=============================================================================
