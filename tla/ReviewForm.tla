----------------------------- MODULE ReviewForm -----------------------------
(***************************************************************************)
(* The form of one pending review: HumanReview.jsx in the browser, the     *)
(* HumanReviewForm callbacks of chat/human_review.py that fill it and      *)
(* check its answers, and the part of submit_action (chat/hitl.py) that    *)
(* meets a submission.  HitlWorkflow models everything behind that.        *)
(*                                                                         *)
(* A text is a word between blanks or not; trim (JavaScript) and strip     *)
(* (Python) remove the blanks, and a text without a word is empty.         *)
(***************************************************************************)
EXTENDS Naturals, Sequences, FiniteSets

CONSTANTS
  Words,       \* words that choices and answers are made of
  NoWord,      \* the word of a text that is empty or blank
  Batches,     \* reviews to look at: sequences of [choices, allowOther]
  MaxSubmits   \* bound: how often the user submits or cancels

Text == [word : Words \cup {NoWord}, blank : BOOLEAN]
Empty == [word |-> NoWord, blank |-> FALSE]
Trim(text) == [text EXCEPT !.blank = FALSE]
Trimmed(texts) == [i \in DOMAIN texts |-> Trim(texts[i])]

Review == [choices : SUBSET Text, allowOther : BOOLEAN]

ASSUME ReviewFormAssumption ==
  /\ NoWord \notin Words
  /\ Batches \subseteq Seq(Review)
  /\ MaxSubmits \in Nat

VARIABLES
  batch,       \* the reviews of the pending calls
  responses,   \* React state: the answer in each section
  submitting,  \* React state
  error,       \* React state: an error is shown
  formShown,   \* the element is in the thread
  flights,     \* submissions that the server has not handled yet
  replies,     \* replies that the browser has not received yet
  awaited,     \* the submission whose reply send awaits
  submits,     \* how many there were
  review,      \* the ledger: pending, answered or cancelled
  refusal,     \* history: why the last submission was refused
  removing     \* control.remove was called

form == <<responses, submitting, error, formShown, awaited, submits>>
wire == <<flights, replies>>
reviewLedger == <<review, refusal, removing>>
formVars == <<batch, form, wire, reviewLedger>>

Section == DOMAIN batch
Cancel == <<>>   \* the payload { cancel: true }; answers are never empty

FormTypeOK ==
  /\ batch \in Batches
  /\ responses \in [Section -> Text]
  /\ submitting \in BOOLEAN /\ error \in BOOLEAN /\ formShown \in BOOLEAN
  /\ flights \subseteq [id : 1 .. MaxSubmits, outputs : {Cancel} \cup [Section -> Text]]
  /\ replies \subseteq [id : 1 .. MaxSubmits, ok : BOOLEAN]
  /\ awaited \in 0 .. MaxSubmits /\ submits \in 0 .. MaxSubmits
  /\ review \in {"pending", "answered", "cancelled"}
  /\ refusal \in {"none", "closed", "blank", "choice"}
  /\ removing \in BOOLEAN

FormInit ==
  /\ batch \in Batches
  /\ responses = [i \in Section |-> Empty]
  /\ submitting = FALSE
  /\ error = FALSE
  /\ formShown = TRUE
  /\ flights = {}
  /\ replies = {}
  /\ awaited = 0
  /\ submits = 0
  /\ review = "pending"
  /\ refusal = "none"
  /\ removing = FALSE

-----------------------------------------------------------------------------
(* human_review.py.                                                        *)

\* props: the form offers free text for a review without choices as well.
OffersOther(r) == r.allowOther \/ r.choices = {}

\* Mutated form of Accepts: only the choices.
AcceptsChoice(r, answer) == answer \in r.choices

\* HumanReview.accepts.
Accepts(r, answer) == r.choices = {} \/ r.allowOther \/ answer \in r.choices

\* validate_outputs of a complete batch, and what it raises.
Blank(outputs) == \E i \in Section : Trim(outputs[i]).word = NoWord
NotAllowed(outputs) == \E i \in Section : ~Accepts(batch[i], Trim(outputs[i]))

-----------------------------------------------------------------------------
(* HumanReview.jsx.                                                        *)

\* A click on a choice, or typing.
Choose(i, text) ==
  text \in batch[i].choices \/ OffersOther(batch[i])

SetResponse(i, text) ==
  /\ formShown /\ ~submitting
  /\ Choose(i, text)
  /\ responses' = [responses EXCEPT ![i] = text]
  /\ UNCHANGED <<batch, submitting, error, formShown, awaited, submits, wire,
                 reviewLedger>>

\* send up to the reply of callAction.
SendDecision(outputs) ==
  /\ formShown /\ ~submitting /\ submits < MaxSubmits
  /\ submits' = submits + 1
  /\ awaited' = submits + 1
  /\ submitting' = TRUE
  /\ error' = FALSE
  /\ flights' = flights \cup {[id |-> submits + 1, outputs |-> outputs]}
  /\ UNCHANGED <<batch, responses, formShown, replies, reviewLedger>>

\* Submit is enabled when every section has an answer.
SubmitAnswers ==
  /\ batch # <<>>
  /\ \A i \in Section : Trim(responses[i]).word # NoWord
  /\ SendDecision(Trimmed(responses))

CancelReview == SendDecision(Cancel)

\* Mutated form of ReplyReceived: the reply's ok is not looked at.
ReplyIgnored(reply) ==
  /\ reply \in replies
  /\ replies' = replies \ {reply}
  /\ IF reply.id = awaited
       THEN awaited' = 0 /\ submitting' = FALSE /\ UNCHANGED error
       ELSE UNCHANGED <<awaited, submitting, error>>
  /\ UNCHANGED <<batch, responses, formShown, submits, flights, reviewLedger>>

\* callAction returns; a reply that is not ok shows its error.
ReplyReceived(reply) ==
  /\ reply \in replies
  /\ replies' = replies \ {reply}
  /\ IF reply.id = awaited
       THEN awaited' = 0 /\ submitting' = FALSE /\ error' = ~reply.ok
       ELSE UNCHANGED <<awaited, submitting, error>>
  /\ UNCHANGED <<batch, responses, formShown, submits, flights, reviewLedger>>

\* The call's connection is lost: callAction rejects, while the server may
\* still handle the submission or have done so.
CallRejects ==
  /\ submitting
  /\ awaited' = 0
  /\ submitting' = FALSE
  /\ error' = TRUE
  /\ UNCHANGED <<batch, responses, formShown, submits, wire, reviewLedger>>

-----------------------------------------------------------------------------
(* submit_action.                                                          *)

Reply(flight, ok) == replies' = replies \cup {[id |-> flight.id, ok |-> ok]}

Why(outputs) == IF review # "pending" THEN "closed"
                ELSE IF Blank(outputs) THEN "blank" ELSE "choice"

\* A submission of a closed review, or one that validate_outputs rejects.
Refuse(flight) ==
  /\ flight \in flights
  /\ \/ review # "pending"
     \/ flight.outputs # Cancel /\ (Blank(flight.outputs) \/ NotAllowed(flight.outputs))
  /\ flights' = flights \ {flight}
  /\ refusal' = Why(flight.outputs)
  /\ Reply(flight, FALSE)
  /\ UNCHANGED <<batch, form, review, removing>>

\* The review is closed.  Then the form is removed and the reply is ok, unless
\* message.update raised: the action fails before either.
Close(flight) ==
  /\ flight \in flights /\ review = "pending"
  /\ flight.outputs # Cancel =>
       ~Blank(flight.outputs) /\ ~NotAllowed(flight.outputs)
  /\ flights' = flights \ {flight}
  /\ review' = IF flight.outputs = Cancel THEN "cancelled" ELSE "answered"
  /\ removing' \in BOOLEAN
  /\ Reply(flight, removing')
  /\ UNCHANGED <<batch, form, refusal>>

\* control.remove reaches the browser, before or after the reply; it need
\* not: a failed removal is only logged.
RemoveForm ==
  /\ formShown /\ removing
  /\ formShown' = FALSE
  /\ UNCHANGED <<batch, responses, submitting, error, awaited, submits, wire,
                 reviewLedger>>

FormNext ==
  \/ \E i \in Section, text \in Text : SetResponse(i, text)
  \/ SubmitAnswers \/ CancelReview \/ CallRejects
  \/ \E reply \in replies : ReplyReceived(reply)
  \/ \E flight \in flights : Refuse(flight) \/ Close(flight)
  \/ RemoveForm

FormSpec == FormInit /\ [][FormNext]_formVars
-----------------------------------------------------------------------------
(* Properties.                                                             *)

(* "The reply is {"ok": True} once the answers are recorded, or {"ok":     *)
(* False, "error": message}, which the element shows" (hitl.py:210-211): a *)
(* form that waits for nothing and shows no error has closed its review.   *)
NothingFailsSilently == submits > 0 /\ ~submitting /\ ~error => review # "pending"

(* The form offers what validate_outputs accepts: a pending review refuses *)
(* none of its answers, unless a choice itself begins or ends with blanks, *)
(* which the form trims away.                                              *)
OfferedAnswersAccepted ==
  refusal \in {"blank", "choice"} =>
    \E i \in Section : ~OffersOther(batch[i]) /\ \E c \in batch[i].choices : c.blank
=============================================================================
