-------------------------- MODULE PageFormsProofs ---------------------------
(***************************************************************************)
(* Proofs about the two forms of a page: ReviewForm, for every batch of    *)
(* reviews, every set of words and any number of submissions, and          *)
(* SavedSettings, for every set of texts, every range of numbers and any   *)
(* releases of the application.  At the end, the page of MCPageControls,   *)
(* with what is proved of each of its controls.                            *)
(***************************************************************************)
EXTENDS MCPageControls, SpeechPlayerProofs, DictationProofs

-----------------------------------------------------------------------------
(* The review form.                                                        *)

(* Trimming keeps the word and drops the blanks.                           *)
LEMMA TrimText ==
  ASSUME NEW text \in Text
  PROVE  /\ Trim(text) \in Text
         /\ Trim(text).word = text.word /\ Trim(text).blank = FALSE
         /\ ~ text.blank => Trim(text) = text
  BY DEF Text, Trim

-----------------------------------------------------------------------------
(* The inductive invariant of ReviewForm.                                  *)

\* An answer in the form is still empty, or was offered by its section.
ResponsesOffered == \A i \in Section : responses[i] = Empty \/ Choose(i, responses[i])

\* What is under way holds a word for each section, trimmed of what was offered.
FlightsOffered ==
  \A flight \in flights : flight.outputs # Cancel =>
    \A i \in Section : \E text \in Text :
      /\ text.word # NoWord /\ Choose(i, text)
      /\ flight.outputs[i] = Trim(text)

\* The form awaits a reply while it is submitting, and only a closed review's
\* reply is ok.
RepliesTell ==
  /\ submitting <=> awaited # 0
  /\ \A reply \in replies : reply.ok => review # "pending"

FormInv ==
  /\ FormTypeOK
  /\ ResponsesOffered
  /\ FlightsOffered
  /\ RepliesTell
  /\ NothingFailsSilently
  /\ OfferedAnswersAccepted

(* What the form makes of its answers is a submission of trimmed texts.    *)
LEMMA TrimmedOutputs ==
  ASSUME FormTypeOK
  PROVE  /\ Trimmed(responses) \in [Section -> Text]
         /\ \A i \in Section : Trimmed(responses)[i] = Trim(responses[i])
  BY TrimText DEF FormTypeOK, Trimmed

(* Every step keeps the types: one case per step of the browser or server. *)
LEMMA FormTypeStep == FormTypeOK /\ [FormNext]_formVars => FormTypeOK'
<1> SUFFICES ASSUME FormTypeOK, [FormNext]_formVars PROVE FormTypeOK'
  OBVIOUS
<1>a. /\ MaxSubmits \in Nat
      /\ awaited \in 0 .. MaxSubmits /\ submits \in 0 .. MaxSubmits
      /\ submitting \in BOOLEAN /\ error \in BOOLEAN /\ formShown \in BOOLEAN
  BY ReviewFormAssumption DEF FormTypeOK
<1>b. \A flight \in flights : flight.id \in 1 .. MaxSubmits
  BY DEF FormTypeOK
<1>c. replies \subseteq [id : 1 .. MaxSubmits, ok : BOOLEAN]
  BY DEF FormTypeOK
<1> USE DEF form, wire, reviewLedger, Section
<1>1. ASSUME NEW i \in Section, NEW text \in Text, SetResponse(i, text) PROVE FormTypeOK'
  BY <1>1 DEF FormTypeOK, SetResponse
<1>2. ASSUME NEW outputs \in {Cancel} \cup [Section -> Text], SendDecision(outputs)
      PROVE  FormTypeOK'
  <2>1. submits' = submits + 1 /\ awaited' = submits + 1 /\ submits + 1 \in 1 .. MaxSubmits
    BY <1>a, <1>2 DEF SendDecision
  <2>2. [id |-> submits + 1, outputs |-> outputs]
           \in [id : 1 .. MaxSubmits, outputs : {Cancel} \cup [Section -> Text]]
    BY <2>1
  <2>3. flights' \subseteq [id : 1 .. MaxSubmits, outputs : {Cancel} \cup [Section -> Text]]
    BY <1>2, <2>2 DEF SendDecision, FormTypeOK
  <2>4. batch' = batch
    BY <1>2 DEF SendDecision
  <2>5. UNCHANGED <<responses, formShown, replies, review, refusal, removing>>
    BY <1>2 DEF SendDecision
  <2>6. submitting' = TRUE /\ error' = FALSE
    BY <1>2 DEF SendDecision
  <2> QED
    <3>1. awaited' \in 0 .. MaxSubmits /\ submits' \in 0 .. MaxSubmits
      BY <2>1
    <3>2. submitting' \in BOOLEAN /\ error' \in BOOLEAN
      BY <2>6
    <3> QED
      BY <2>3, <2>4, <2>5, <3>1, <3>2 DEF FormTypeOK
<1>3. CASE SubmitAnswers
  BY <1>2, <1>3, TrimmedOutputs DEF SubmitAnswers
<1>4. CASE CancelReview
  BY <1>2, <1>4 DEF CancelReview
<1>5. CASE CallRejects
  <2>1. UNCHANGED <<batch, responses, formShown, submits, flights, replies, review, refusal,
                    removing>>
    BY <1>5 DEF CallRejects
  <2>2. awaited' \in 0 .. MaxSubmits
    <3>1. awaited' = 0 \/ awaited' = awaited
      BY <1>5 DEF CallRejects
    <3> QED
      BY <3>1, <1>a
  <2>3. submitting' \in BOOLEAN /\ error' \in BOOLEAN
    BY <1>5, <1>a DEF CallRejects
  <2> QED
    BY <2>1, <2>2, <2>3, <1>a DEF FormTypeOK
<1>6. ASSUME NEW reply \in replies, ReplyReceived(reply) PROVE FormTypeOK'
  <2>1. UNCHANGED <<batch, responses, formShown, submits, flights, review, refusal, removing>>
    BY <1>6 DEF ReplyReceived
  <2>2. awaited' \in 0 .. MaxSubmits
    <3>1. awaited' = 0 \/ awaited' = awaited
      BY <1>6 DEF ReplyReceived
    <3> QED
      BY <3>1, <1>a
  <2>3. submitting' \in BOOLEAN /\ error' \in BOOLEAN
    BY <1>6, <1>a DEF ReplyReceived
  <2>4. replies' \subseteq replies
    BY <1>6 DEF ReplyReceived
  <2> QED
    BY <2>1, <2>2, <2>3, <2>4 DEF FormTypeOK
<1>7. ASSUME NEW flight \in flights, Refuse(flight) PROVE FormTypeOK'
  <2>1. UNCHANGED <<batch, responses, submitting, error, formShown, awaited, submits, review,
                    removing>>
    BY <1>7 DEF Refuse
  <2>2. refusal' \in {"none", "closed", "blank", "choice"}
    BY <1>7 DEF Refuse, Why, FormTypeOK
  <2>3. flights' \subseteq flights
    BY <1>7 DEF Refuse
  <2>4. replies' \subseteq [id : 1 .. MaxSubmits, ok : BOOLEAN]
    <3>1. [id |-> flight.id, ok |-> FALSE] \in [id : 1 .. MaxSubmits, ok : BOOLEAN]
      BY <1>b
    <3> QED
      BY <1>7, <1>c, <3>1 DEF Refuse, Reply
  <2> QED
    BY <2>1, <2>2, <2>3, <2>4 DEF FormTypeOK
<1>8. ASSUME NEW flight \in flights, Close(flight) PROVE FormTypeOK'
  <2>1. UNCHANGED <<batch, responses, submitting, error, formShown, awaited, submits, refusal>>
    BY <1>8 DEF Close
  <2>2. review' \in {"pending", "answered", "cancelled"} /\ removing' \in BOOLEAN
    BY <1>8 DEF Close
  <2>3. flights' \subseteq flights
    BY <1>8 DEF Close
  <2>4. replies' \subseteq [id : 1 .. MaxSubmits, ok : BOOLEAN]
    <3>1. [id |-> flight.id, ok |-> removing'] \in [id : 1 .. MaxSubmits, ok : BOOLEAN]
      BY <1>b, <2>2
    <3> QED
      BY <1>8, <1>c, <3>1 DEF Close, Reply
  <2> QED
    BY <2>1, <2>2, <2>3, <2>4 DEF FormTypeOK
<1>9. CASE RemoveForm
  BY <1>9 DEF RemoveForm, FormTypeOK
<1>10. CASE UNCHANGED formVars
  BY <1>10 DEF formVars, FormTypeOK
<1> QED
  BY <1>1, <1>3, <1>4, <1>5, <1>6, <1>7, <1>8, <1>9, <1>10 DEF FormNext

(* The reviews of the form are those of its pending calls.                 *)
LEMMA BatchStays == [FormNext]_formVars => batch' = batch
  BY DEF FormNext, SetResponse, SubmitAnswers, CancelReview, SendDecision, CallRejects,
         ReplyReceived, Refuse, Close, RemoveForm, formVars

(* The form keeps only what its sections offer.                            *)
LEMMA ResponsesOfferedStep == FormInv /\ [FormNext]_formVars => ResponsesOffered'
<1> SUFFICES ASSUME FormInv, [FormNext]_formVars, NEW k \in Section
             PROVE  (responses[k] = Empty \/ Choose(k, responses[k]))'
  BY BatchStays DEF ResponsesOffered, Section
<1>1. ASSUME UNCHANGED <<batch, responses>>
      PROVE  (responses[k] = Empty \/ Choose(k, responses[k]))'
  BY <1>1 DEF FormInv, ResponsesOffered, Choose
<1>2. ASSUME NEW i \in Section, NEW text \in Text, SetResponse(i, text)
      PROVE  (responses[k] = Empty \/ Choose(k, responses[k]))'
  <2>1. /\ responses' = [responses EXCEPT ![i] = text] /\ batch' = batch
        /\ Choose(i, text)
    BY <1>2 DEF SetResponse
  <2>2. CASE k = i
    <3>1. responses'[k] = text
      BY <2>1, <2>2 DEF FormInv, FormTypeOK
    <3> QED
      BY <2>1, <2>2, <3>1 DEF Choose
  <2>3. CASE k # i
    <3>1. responses'[k] = responses[k]
      BY <2>1, <2>3 DEF FormInv, FormTypeOK
    <3> QED
      BY <2>1, <3>1 DEF FormInv, ResponsesOffered, Choose
  <2> QED
    BY <2>2, <2>3
<1> QED
  BY <1>1, <1>2
  DEF FormNext, SubmitAnswers, CancelReview, SendDecision, CallRejects, ReplyReceived, Refuse,
      Close, RemoveForm, formVars, form

(* A submission is made of what the form offered.                          *)
LEMMA FlightsOfferedStep == FormInv /\ [FormNext]_formVars => FlightsOffered'
<1> DEFINE Offered(outputs) ==
             outputs # Cancel => \A i \in Section : \E text \in Text :
                                   /\ text.word # NoWord /\ Choose(i, text)
                                   /\ outputs[i] = Trim(text)
<1> SUFFICES ASSUME FormInv, [FormNext]_formVars PROVE FlightsOffered'
  OBVIOUS
<1>1. \A flight \in flights : Offered(flight.outputs)
  BY DEF FormInv, FlightsOffered
<1>2. batch' = batch
  BY BatchStays
<1>3. SUFFICES \A flight \in flights' : Offered(flight.outputs)
  BY <1>2 DEF FlightsOffered, Section, Choose
<1>4. CASE flights' \subseteq flights
  BY <1>1, <1>4
<1>5. ASSUME NEW outputs, SendDecision(outputs), Offered(outputs)
      PROVE  \A flight \in flights' : Offered(flight.outputs)
  <2>1. flights' = flights \cup {[id |-> submits + 1, outputs |-> outputs]}
    BY <1>5 DEF SendDecision
  <2>2. ASSUME NEW flight \in flights' PROVE Offered(flight.outputs)
    <3>1. CASE flight \in flights
      BY <1>1, <3>1
    <3>2. CASE flight = [id |-> submits + 1, outputs |-> outputs]
      <4>1. flight.outputs = outputs
        BY <3>2
      <4> HIDE DEF Offered
      <4> QED
        BY <1>5, <4>1
    <3> QED
      BY <2>1, <2>2, <3>1, <3>2
  <2> QED
    BY <2>2
<1>6. CASE SubmitAnswers
  <2>1. ASSUME NEW i \in Section
        PROVE  \E text \in Text : /\ text.word # NoWord /\ Choose(i, text)
                                  /\ Trimmed(responses)[i] = Trim(text)
    <3>1. responses[i] \in Text
      BY DEF FormInv, FormTypeOK
    <3>2. responses[i].word # NoWord
      <4>1. Trim(responses[i]).word # NoWord
        BY <1>6 DEF SubmitAnswers
      <4> QED
        BY <3>1, <4>1, TrimText
    <3>3. Choose(i, responses[i])
      BY <3>2 DEF FormInv, ResponsesOffered, Empty
    <3> QED
      BY <3>1, <3>2, <3>3, TrimmedOutputs DEF FormInv
  <2> HIDE DEF Offered
  <2>2. Offered(Trimmed(responses))
    BY <2>1 DEF Offered
  <2> QED
    BY <1>5, <1>6, <2>2 DEF SubmitAnswers
<1>7. CASE CancelReview
  BY <1>5, <1>7 DEF CancelReview
<1> HIDE DEF Offered
<1> QED
  BY <1>4, <1>6, <1>7
  DEF FormNext, SetResponse, CallRejects, ReplyReceived, Refuse, Close, RemoveForm, formVars,
      wire

(* The browser waits, or shows how its last submission ended.              *)
LEMMA RepliesTellStep ==
  FormInv /\ [FormNext]_formVars => (RepliesTell /\ NothingFailsSilently)'
<1> SUFFICES ASSUME FormInv, [FormNext]_formVars
             PROVE  (RepliesTell /\ NothingFailsSilently)'
  OBVIOUS
<1>a. /\ submitting <=> awaited # 0
      /\ \A reply \in replies : reply.ok => review # "pending"
      /\ submits > 0 /\ ~submitting /\ ~error => review # "pending"
      /\ submits \in Nat
      /\ \A reply \in replies : reply.id # 0 /\ reply.ok \in BOOLEAN
  BY ReviewFormAssumption
  DEF FormInv, RepliesTell, NothingFailsSilently, FormTypeOK
<1> USE DEF RepliesTell, NothingFailsSilently, form, wire, reviewLedger
<1>1. ASSUME NEW i, NEW text, SetResponse(i, text)
      PROVE  (RepliesTell /\ NothingFailsSilently)'
  BY <1>a, <1>1 DEF SetResponse
<1>2. ASSUME NEW outputs, SendDecision(outputs)
      PROVE  (RepliesTell /\ NothingFailsSilently)'
  <2>1. /\ awaited' = submits + 1 /\ submitting' = TRUE
        /\ UNCHANGED <<replies, review>>
    BY <1>2 DEF SendDecision
  <2>2. awaited' # 0
    BY <1>a, <2>1
  <2> QED
    BY <1>a, <2>1, <2>2
<1>3. CASE CallRejects
  BY <1>a, <1>3 DEF CallRejects
<1>4. ASSUME NEW reply \in replies, ReplyReceived(reply)
      PROVE  (RepliesTell /\ NothingFailsSilently)'
  BY <1>a, <1>4 DEF ReplyReceived
<1>5. ASSUME NEW flight \in flights, Refuse(flight)
      PROVE  (RepliesTell /\ NothingFailsSilently)'
  BY <1>a, <1>5 DEF Refuse, Reply
<1>6. ASSUME NEW flight \in flights, Close(flight)
      PROVE  (RepliesTell /\ NothingFailsSilently)'
  <2>1. review' # "pending"
    BY <1>6 DEF Close
  <2>2. UNCHANGED <<submitting, awaited>>
    BY <1>6 DEF Close
  <2> QED
    BY <1>a, <2>1, <2>2
<1>7. CASE RemoveForm
  BY <1>a, <1>7 DEF RemoveForm
<1>8. CASE UNCHANGED formVars
  BY <1>a, <1>8 DEF formVars
<1> HIDE DEF RepliesTell, NothingFailsSilently
<1> QED
  BY <1>1, <1>2, <1>3, <1>4, <1>5, <1>6, <1>7, <1>8
  DEF FormNext, SubmitAnswers, CancelReview

(* validate_outputs refuses nothing that the form offers and sends: only a *)
(* choice that the form trims is not among the choices any more.           *)
LEMMA OfferedAnswersAcceptedStep ==
  FormInv /\ [FormNext]_formVars => OfferedAnswersAccepted'
<1> SUFFICES ASSUME FormInv, [FormNext]_formVars PROVE OfferedAnswersAccepted'
  OBVIOUS
<1> DEFINE TrimsChoice ==
      \E i \in Section : ~OffersOther(batch[i]) /\ \E c \in batch[i].choices : c.blank
<1>1. batch' = batch
  BY BatchStays
<1>2. CASE UNCHANGED refusal
  BY <1>1, <1>2 DEF FormInv, OfferedAnswersAccepted, Section
<1>3. ASSUME NEW flight \in flights, Refuse(flight), review = "pending"
      PROVE  TrimsChoice
  <2>1. flight.outputs # Cancel /\ (Blank(flight.outputs) \/ NotAllowed(flight.outputs))
    BY <1>3 DEF Refuse
  <2>2. \A i \in Section : \E text \in Text :
          /\ text.word # NoWord /\ Choose(i, text)
          /\ flight.outputs[i] = Trim(text)
    BY <2>1 DEF FormInv, FlightsOffered
  <2>3. ~ Blank(flight.outputs)
    <3> SUFFICES ASSUME NEW i \in Section PROVE Trim(flight.outputs[i]).word # NoWord
      BY DEF Blank
    <3>1. PICK text \in Text : text.word # NoWord /\ flight.outputs[i] = Trim(text)
      BY <2>2
    <3> QED
      BY <3>1, TrimText
  <2>4. PICK i \in Section : ~Accepts(batch[i], Trim(flight.outputs[i]))
    BY <2>1, <2>3 DEF NotAllowed
  <2>5. PICK text \in Text : Choose(i, text) /\ flight.outputs[i] = Trim(text)
    BY <2>2
  <2>6. Trim(flight.outputs[i]) = Trim(text)
    BY <2>5, TrimText
  <2>7. ~OffersOther(batch[i]) /\ Trim(text) \notin batch[i].choices
    BY <2>4, <2>6 DEF Accepts, OffersOther
  <2>8. text \in batch[i].choices /\ text.blank
    <3>1. text \in batch[i].choices
      BY <2>5, <2>7 DEF Choose
    <3>2. CASE ~ text.blank
      BY <2>7, <3>1, <3>2, TrimText
    <3> QED
      BY <3>1, <3>2
  <2> QED
    BY <2>7, <2>8
<1>4. ASSUME NEW flight \in flights, Refuse(flight) PROVE OfferedAnswersAccepted'
  <2>1. CASE review = "pending"
    <3>1. TrimsChoice
      BY <1>3, <1>4, <2>1
    <3> QED
      BY <1>1, <3>1 DEF OfferedAnswersAccepted, Section
  <2>2. CASE review # "pending"
    BY <1>4, <2>2 DEF Refuse, Why, OfferedAnswersAccepted
  <2> QED
    BY <2>1, <2>2
<1> QED
  BY <1>2, <1>4
  DEF FormNext, SetResponse, SubmitAnswers, CancelReview, SendDecision, CallRejects,
      ReplyReceived, Close, RemoveForm, formVars, reviewLedger

(* The invariant holds of the first state and of every state after it.     *)
THEOREM FormInductive == FormSpec => []FormInv
<1>1. FormInit => FormInv
  <2> SUFFICES ASSUME FormInit PROVE FormInv
    OBVIOUS
  <2>1. FormTypeOK
    <3>1. Empty \in Text /\ 0 \in 0 .. MaxSubmits
      BY ReviewFormAssumption DEF Empty, Text
    <3>2. responses \in [Section -> Text]
      BY <3>1 DEF FormInit
    <3> QED
      BY <3>1, <3>2 DEF FormInit, FormTypeOK
  <2>2. ResponsesOffered /\ FlightsOffered /\ RepliesTell
    BY DEF FormInit, ResponsesOffered, FlightsOffered, RepliesTell
  <2>3. NothingFailsSilently /\ OfferedAnswersAccepted
    BY DEF FormInit, NothingFailsSilently, OfferedAnswersAccepted
  <2> QED
    BY <2>1, <2>2, <2>3 DEF FormInv
<1>2. FormInv /\ [FormNext]_formVars => FormInv'
  <2> SUFFICES ASSUME FormInv, [FormNext]_formVars PROVE FormInv'
    OBVIOUS
  <2>1. FormTypeOK'
    BY FormTypeStep DEF FormInv
  <2>2. RepliesTell' /\ NothingFailsSilently'
    BY RepliesTellStep
  <2> QED
    BY <2>1, <2>2, ResponsesOfferedStep, FlightsOfferedStep, OfferedAnswersAcceptedStep
    DEF FormInv
<1> QED
  BY <1>1, <1>2, PTL DEF FormSpec

(* Every submission and reply is one of the form's, and every answer a     *)
(* text.                                                                   *)
THEOREM FormTypeCorrect == FormSpec => []FormTypeOK
<1>1. FormInv => FormTypeOK
  BY DEF FormInv
<1> QED
  BY <1>1, FormInductive, PTL

(* A form that waits for nothing and shows no error has closed its review, *)
(* whatever was lost, refused or answered late.                            *)
THEOREM NeverSilent == FormSpec => []NothingFailsSilently
<1>1. FormInv => NothingFailsSilently
  BY DEF FormInv
<1> QED
  BY <1>1, FormInductive, PTL

(* A pending review refuses no answer that its form offered, but for the   *)
(* choices that the form trims.                                            *)
THEOREM AlwaysAccepted == FormSpec => []OfferedAnswersAccepted
<1>1. FormInv => OfferedAnswersAccepted
  BY DEF FormInv
<1> QED
  BY <1>1, FormInductive, PTL

-----------------------------------------------------------------------------
(* The values of a setting.                                                *)

(* The type of a value tells which values it is one of.                    *)
LEMMA ValueShape ==
  ASSUME NEW v \in Value
  PROVE  /\ v.type = "bool" => v \in Bools
         /\ v.type = "int" => v \in Ints
         /\ v.type = "float" => v \in Floats
         /\ v.type = "str" => v \in Strings
         /\ v.type \in {"bool", "int", "float", "str"}
  BY DEF Value, Bools, Ints, Floats, Strings

(* A number widget reports an integer as the float equal to it, and a      *)
(* whole float is read back as that integer.                               *)
LEMMA IntAndFloat ==
  ASSUME NEW v \in Ints
  PROVE  /\ AsFloat(v) \in Floats /\ AsFloat(v).type = "float"
         /\ AsFloat(v).n = v.n /\ v.n % 2 = 0
         /\ [AsFloat(v) EXCEPT !.type = "int"] = v
  BY SavedSettingsAssumption DEF Ints, Floats, AsFloat

(* What is not an integer is reported as it is.                            *)
LEMMA OtherReported ==
  ASSUME NEW v \in Value, v.type # "int"
  PROVE  AsFloat(v) = v
  BY DEF AsFloat

(* A whole float has an integer equal to it.                               *)
LEMMA WholeFloat ==
  ASSUME NEW v \in Floats, v.n % 2 = 0
  PROVE  /\ [v EXCEPT !.type = "int"] \in Ints
         /\ AsFloat([v EXCEPT !.type = "int"]) = v
  BY SavedSettingsAssumption DEF Ints, Floats, AsFloat

(* What a widget reports of a value is a value.                            *)
LEMMA AsFloatValue ==
  ASSUME NEW v \in Value
  PROVE  AsFloat(v) \in Value
<1>1. CASE v.type = "int"
  BY <1>1, ValueShape, IntAndFloat DEF Value
<1>2. CASE v.type # "int"
  BY <1>2, OtherReported
<1> QED
  BY <1>1, <1>2

(* What serialize_settings normalizes a value to is a value.               *)
LEMMA AsDefaultTypeValue ==
  ASSUME NEW v \in Value, NEW default \in Value
  PROVE  AsDefaultType(v, default) \in Value
<1>1. CASE v.type = "float" /\ v.n % 2 = 0
  <2>1. [v EXCEPT !.type = "int"] \in Value
    BY <1>1, ValueShape, WholeFloat DEF Value
  <2> QED
    BY <2>1 DEF AsDefaultType
<1>2. CASE ~ (v.type = "float" /\ v.n % 2 = 0)
  BY <1>2 DEF AsDefaultType
<1> QED
  BY <1>1, <1>2

(* A release is a setting with a default among its options.                *)
LEMMA ReleaseShape ==
  ASSUME NEW s \in Releases
  PROVE  /\ s.default \in Value /\ s.kind \in {"boolean", "integer", "string", "number"}
         /\ s.options # {} =>
              /\ s.default \in s.options
              /\ \/ s.kind = "integer" /\ s.options \subseteq Ints
                 \/ s.kind = "string" /\ s.options \subseteq Strings
  BY SavedSettingsAssumption DEF Setting

(* A widget starts from a value of its setting's type and options.         *)
LEMMA InitialShape ==
  ASSUME NEW s \in Releases, HasWidget(s), NEW v \in Value \cup {None}
  PROVE  /\ InitialOf(s, v) \in Value
         /\ InitialOf(s, v).type = s.default.type
         /\ s.options # {} => InitialOf(s, v) \in s.options
  BY ReleaseShape DEF InitialOf, Restores

(* A widget reports values, and may report the one that it starts from.    *)
LEMMA InitialReported ==
  ASSUME NEW s \in Releases, HasWidget(s), NEW v \in Value, v.type = s.default.type,
         s.options # {} => v \in s.options
  PROVE  AsFloat(v) \in Reports(s)
<1>1. CASE s.options # {}
  BY <1>1 DEF Reports
<1>2. CASE s.options = {}
  <2>1. CASE s.kind = "boolean" /\ v.type = "bool"
    BY <1>2, <2>1, ValueShape, OtherReported DEF Reports
  <2>2. CASE s.kind = "integer" /\ v.type = "int"
    BY <1>2, <2>2, ValueShape, IntAndFloat DEF Reports
  <2>3. CASE s.kind = "string" /\ v.type = "str"
    BY <1>2, <2>3, ValueShape, OtherReported DEF Reports
  <2> QED
    BY <2>1, <2>2, <2>3 DEF HasWidget
<1> QED
  BY <1>1, <1>2

-----------------------------------------------------------------------------
(* The saved value.                                                        *)

(* The saved value is always what serialize_settings left of the selection *)
(* that it was saved from, in the release that saved it.                   *)
SettingsInv ==
  /\ SettingsTypeOK
  /\ saved = Serialized(encoded.release, encoded.selected)
  /\ shown # None => HasWidget(release)

(* Every step keeps the types: one case per step.                          *)
LEMMA SettingsStep == SettingsInv /\ [SettingsNext]_settingsVars => SettingsInv'
<1> SUFFICES ASSUME SettingsInv, [SettingsNext]_settingsVars PROVE SettingsInv'
  OBVIOUS
<1> USE SavedSettingsAssumption DEF SettingsInv, SettingsTypeOK
<1>1. CASE OpenSettings
  <2>1. CASE HasWidget(release)
    <3>1. shown' = InitialOf(release, saved) /\ selected' = AsFloat(shown')
      BY <1>1, <2>1 DEF OpenSettings
    <3>2. shown' \in Value
      BY <2>1, <3>1, InitialShape
    <3>3. selected' \in Value
      BY <3>1, <3>2, AsFloatValue
    <3> QED
      BY <1>1, <2>1, <3>2, <3>3 DEF OpenSettings
  <2>2. CASE ~ HasWidget(release)
    BY <1>1, <2>2 DEF OpenSettings
  <2> QED
    BY <2>1, <2>2
<1>2. ASSUME NEW v \in Value, SelectValue(v) PROVE SettingsInv'
  BY <1>2 DEF SelectValue
<1>3. CASE SaveSettings
  <2>1. /\ saved' = Serialized(release, selected)
        /\ encoded' = [release |-> release, selected |-> selected]
    BY <1>3 DEF SaveSettings
  <2>2. saved' \in Value \cup {None}
    BY <2>1, ReleaseShape, AsDefaultTypeValue DEF Serialized
  <2> QED
    BY <1>3, <2>1, <2>2 DEF SaveSettings
<1>4. CASE Deploy
  BY <1>4 DEF Deploy
<1>5. CASE UNCHANGED settingsVars
  BY <1>5 DEF settingsVars
<1> QED
  BY <1>1, <1>2, <1>3, <1>4, <1>5 DEF SettingsNext

(* The types hold, and saved stays what serialize_settings made of the     *)
(* selection, through every session and release after it.                  *)
THEOREM SettingsInductive == SettingsSpec => []SettingsInv
<1>1. SettingsInit => SettingsInv
  BY DEF SettingsInit, SettingsInv, SettingsTypeOK, Serialized
<1> QED
  BY <1>1, SettingsStep, PTL DEF SettingsSpec

(* Over the defaults, the saved text gives the selection back with its     *)
(* type, although the defaults are left out of it.                         *)
THEOREM AlwaysApplied == SettingsSpec => []AppliedAsSelected
<1>1. SettingsInv => AppliedAsSelected
  <2> DEFINE default == encoded.release.default
             applied == IF saved = None THEN default ELSE saved
             chosen == encoded.selected
  <2> SUFFICES ASSUME SettingsInv, chosen # None
               PROVE  applied \in {chosen, AsDefaultType(chosen, default)}
    BY DEF AppliedAsSelected
  <2>1. chosen \in Value /\ default \in Value
    BY ReleaseShape DEF SettingsInv, SettingsTypeOK
  <2>2. AsDefaultType(chosen, default) # None
    BY <2>1, AsDefaultTypeValue, SavedSettingsAssumption
  <2>3. saved = IF AsDefaultType(chosen, default) = default THEN None
                ELSE AsDefaultType(chosen, default)
    BY DEF SettingsInv, Serialized, IsDefault
  <2> QED
    BY <2>2, <2>3
<1> QED
  BY <1>1, SettingsInductive, PTL

(* What a widget reports of a setting without a fraction is restored by    *)
(* the same setting's widget.                                              *)
LEMMA ReportRestored ==
  ASSUME NEW s \in Releases, HasWidget(s), NEW chosen \in Reports(s),
         chosen.type = "float" => chosen.n % 2 = 0
  PROVE  AsFloat(InitialOf(s, Serialized(s, chosen))) = chosen
<1> DEFINE normalized == AsDefaultType(chosen, s.default)
<1>1. ASSUME normalized \in Value, normalized.type = s.default.type,
             s.options # {} => normalized \in s.options,
             AsFloat(normalized) = chosen, chosen # None
      PROVE  AsFloat(InitialOf(s, Serialized(s, chosen))) = chosen
  <2>1. CASE normalized = s.default
    <3>1. Serialized(s, chosen) = None
      BY <1>1, <2>1 DEF Serialized, IsDefault
    <3>2. InitialOf(s, Serialized(s, chosen)) = normalized
      BY <2>1, <3>1 DEF InitialOf, Restores
    <3> QED
      BY <1>1, <3>2
  <2>2. CASE normalized # s.default
    <3>1. Serialized(s, chosen) = normalized
      BY <1>1, <2>2 DEF Serialized, IsDefault
    <3>2. Restores(s, normalized)
      BY <1>1, SavedSettingsAssumption DEF Restores
    <3> QED
      BY <1>1, <3>1, <3>2 DEF InitialOf
  <2> QED
    BY <2>1, <2>2
<1>2. CASE s.kind = "integer" /\ s.default.type = "int"
  <2>1. PICK v \in Ints : chosen = AsFloat(v) /\ (s.options # {} => v \in s.options)
    <3>1. CASE s.options # {}
      BY <1>2, <3>1, ReleaseShape DEF Reports
    <3>2. CASE s.options = {}
      <4>1. chosen \in Floats
        BY <1>2, <3>2 DEF Reports
      <4>2. chosen.n % 2 = 0
        BY <4>1 DEF Floats
      <4> QED
        BY <3>2, <4>1, <4>2, WholeFloat
    <3> QED
      BY <3>1, <3>2
  <2>2. normalized = v
    BY <1>2, <2>1, IntAndFloat DEF AsDefaultType
  <2>3. v \in Value /\ v.type = "int" /\ chosen # None
    BY <2>1, IntAndFloat, SavedSettingsAssumption DEF Value, Ints
  <2> QED
    BY <1>1, <1>2, <2>1, <2>2, <2>3
<1>3. CASE s.kind = "string" /\ s.default.type = "str"
  <2>1. chosen \in Strings /\ (s.options # {} => chosen \in s.options)
    <3>1. CASE s.options # {}
      <4>1. PICK v \in s.options : chosen = AsFloat(v)
        BY <3>1 DEF Reports
      <4>2. v \in Strings
        BY <1>3, <3>1, ReleaseShape
      <4> QED
        BY <4>1, <4>2, OtherReported DEF Value, Strings
    <3>2. CASE s.options = {}
      BY <1>3, <3>2 DEF Reports
    <3> QED
      BY <3>1, <3>2
  <2>2. chosen \in Value /\ chosen.type = "str"
    BY <2>1 DEF Value, Strings
  <2>3. normalized = chosen /\ AsFloat(chosen) = chosen
    BY <1>3, <2>2, OtherReported DEF AsDefaultType
  <2> QED
    BY <1>1, <1>3, <2>1, <2>2, <2>3, SavedSettingsAssumption
<1>4. CASE s.kind = "boolean" /\ s.default.type = "bool"
  <2>1. s.options = {}
    BY <1>4, ReleaseShape
  <2>2. chosen \in Bools
    BY <1>4, <2>1 DEF Reports
  <2>3. chosen \in Value /\ chosen.type = "bool"
    BY <2>2 DEF Value, Bools
  <2>4. normalized = chosen /\ AsFloat(chosen) = chosen
    BY <1>4, <2>3, OtherReported DEF AsDefaultType
  <2> QED
    BY <1>1, <1>4, <2>1, <2>3, <2>4, SavedSettingsAssumption
<1> QED
  BY <1>2, <1>3, <1>4 DEF HasWidget

(* A session's widget starts from the selection that the same release      *)
(* saved, and from a value of its own whatever another one saved.          *)
THEOREM AlwaysRestored == SettingsSpec => SelectionRestored
<1>1. SettingsInv /\ [SettingsNext]_settingsVars => [RestoredStep]_settingsVars
  <2> DEFINE chosen == encoded.selected
  <2> SUFFICES ASSUME SettingsInv, OpenSettings, shown' # None
               PROVE  /\ AsFloat(shown') \in Reports(release)
                      /\ /\ encoded.release = release /\ chosen \in Reports(release)
                         /\ chosen.type = "float" => chosen.n % 2 = 0
                         => AsFloat(shown') = chosen
    BY DEF RestoredStep
  <2>1. HasWidget(release) /\ shown' = InitialOf(release, saved)
    BY DEF OpenSettings
  <2>2. release \in Releases /\ saved \in Value \cup {None}
    BY DEF SettingsInv, SettingsTypeOK
  <2>3. AsFloat(shown') \in Reports(release)
    BY <2>1, <2>2, InitialShape, InitialReported
  <2>4. ASSUME encoded.release = release, chosen \in Reports(release),
               chosen.type = "float" => chosen.n % 2 = 0
        PROVE  AsFloat(shown') = chosen
    <3>1. saved = Serialized(release, chosen)
      BY <2>4 DEF SettingsInv
    <3> QED
      BY <2>1, <2>2, <2>4, <3>1, ReportRestored
  <2> QED
    BY <2>3, <2>4
<1> QED
  BY <1>1, SettingsInductive, PTL DEF SettingsSpec, SelectionRestored

-----------------------------------------------------------------------------
(* The page.  A step of one control leaves the others alone, so that the   *)
(* page behaves as each of them specifies.                                 *)
LEMMA PageImplementsControls ==
  PageSpec => Spec /\ DictationSpec /\ FormSpec /\ SettingsSpec
<1>1. PageInit => Init /\ DictationInit /\ FormInit /\ SettingsInit
  BY DEF PageInit
<1>2. [PageNext]_pageVars =>
        /\ [Next]_vars /\ [DictationNext]_dictationVars
        /\ [FormNext]_formVars /\ [SettingsNext]_settingsVars
  BY DEF PageNext, pageVars
<1> QED
  BY <1>1, <1>2, PTL DEF PageSpec, Spec, DictationSpec, FormSpec, SettingsSpec

(* The controls together keep their types.                                 *)
THEOREM PageTypeCorrect == PageSpec => []ControlsTypeOK
<1>1. SpeechInv /\ DictationInv /\ FormInv /\ SettingsInv => ControlsTypeOK
  BY DEF SpeechInv, DictationInv, FormInv, SettingsInv, ControlsTypeOK
<1> QED
  BY <1>1, PageImplementsControls, SpeechInductive, DictationInductive, FormInductive,
     SettingsInductive, PTL

(* What the run of the page checks, but for its liveness, holds on a page  *)
(* of any size: silence after Stop, transcripts of their own recordings,   *)
(* no silent failure, no refused offer, settings applied and restored as   *)
(* they were selected, and parts in order.                                 *)
THEOREM PageCorrect ==
  PageSpec => /\ [](StoppedIsSilent /\ TranscriptOfRecording /\ NothingFailsSilently
                     /\ OfferedAnswersAccepted /\ AppliedAsSelected)
              /\ PartsInOrder
              /\ SelectionRestored
  BY PageImplementsControls, AlwaysSilent, AlwaysOwnTranscript, NeverSilent,
     AlwaysAccepted, AlwaysApplied, AlwaysInOrder, AlwaysRestored, PTL
=============================================================================
