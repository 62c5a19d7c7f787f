--------------------------- MODULE MCPageControls ----------------------------
(***************************************************************************)
(* The controls of a chat page for TLC: the speech button, dictation, the  *)
(* review form and the settings.  They share no state, so their product    *)
(* would show nothing that each one alone does not: a behaviour exercises  *)
(* one of them, the control, and the others stay as they are at first.     *)
(***************************************************************************)
EXTENDS SpeechPlayer, Dictation, ReviewForm, SavedSettings

CONSTANTS a, b  \* words and texts

VARIABLE control

pageVars == <<control, vars, dictationVars, formVars, settingsVars>>

\* Free text only, choices or other, and two reviews with closed choices, one
\* of which has blanks around it.
MCBatches ==
  LET Plain(word) == [word |-> word, blank |-> FALSE]
      Of(choices, other) == [choices |-> choices, allowOther |-> other]
  IN  {<<Of({}, FALSE)>>,
       <<Of({Plain(a)}, TRUE)>>,
       <<Of({Plain(a), Plain(b)}, FALSE),
         Of({[word |-> a, blank |-> TRUE], Plain(b)}, FALSE)>>}

\* Every kind of setting, and releases that change kind, default, range or
\* enum; the last one has no widget.
MCReleases ==
  LET Number(type, n) == [type |-> type, n |-> n]
      Of(kind, default, options) ==
        [kind |-> kind, default |-> default, options |-> options]
  IN  {Of("boolean", Number("bool", 2), {}),
       Of("integer", Number("int", 2), {}),
       Of("integer", Number("int", 2), {Number("int", 0), Number("int", 2)}),
       Of("integer", Number("int", 4), {Number("int", 2), Number("int", 4)}),
       Of("string", Number("str", a), {}),
       Of("string", Number("str", a), {Number("str", a)}),
       Of("number", Number("float", 2), {})}

ControlsTypeOK == TypeOK /\ DictationTypeOK /\ FormTypeOK /\ SettingsTypeOK

PageInit ==
  /\ control \in {"speech", "dictation", "form", "settings"}
  /\ Init /\ DictationInit /\ FormInit /\ SettingsInit
  /\ control # "form" => batch = CHOOSE one \in Batches : TRUE
  /\ control # "settings" => release = CHOOSE one \in Releases : TRUE

PageNext ==
  \/ control = "speech" /\ Next
       /\ UNCHANGED <<control, dictationVars, formVars, settingsVars>>
  \/ control = "dictation" /\ DictationNext
       /\ UNCHANGED <<control, vars, formVars, settingsVars>>
  \/ control = "form" /\ FormNext
       /\ UNCHANGED <<control, vars, dictationVars, settingsVars>>
  \/ control = "settings" /\ SettingsNext
       /\ UNCHANGED <<control, vars, dictationVars, formVars>>

PageSpec == PageInit /\ [][PageNext]_pageVars /\ Fairness /\ DictationFairness
=============================================================================
