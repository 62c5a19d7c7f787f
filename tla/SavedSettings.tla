---------------------------- MODULE SavedSettings ----------------------------
(***************************************************************************)
(* One chat setting from its widget to the saved JSON and back:            *)
(* settings_widgets and serialize_settings of chat/settings.py, called as  *)
(* the README shows, across sessions and releases of the application that  *)
(* change the setting's schema and default.                                *)
(*                                                                         *)
(* A value is its Python type and what it is equal by: numbers count in    *)
(* halves and True is 1, so that 1, 1.0 and True are equal values of three *)
(* types.  Every other setting is handled alike and on its own, but for    *)
(* the length limit of their common text.                                  *)
(***************************************************************************)
EXTENDS Integers

CONSTANTS
  Texts,     \* strings
  MaxHalf,   \* bound: numbers are from 0 to MaxHalf halves
  None,      \* no value
  Releases   \* the setting's definitions in the application's releases

Bools == [type : {"bool"}, n : {0, 2}]
Ints == [type : {"int"}, n : {h \in 0 .. MaxHalf : h % 2 = 0}]
Floats == [type : {"float"}, n : 0 .. MaxHalf]
Strings == [type : {"str"}, n : Texts]
Value == Bools \cup Ints \cup Floats \cup Strings

\* options: the strings of an enum, or the range of an integer with minimum
\* and maximum; {} for neither.
Setting == [kind : {"boolean", "integer", "string", "number"}, default : Value,
            options : SUBSET (Ints \cup Strings)]

ASSUME SavedSettingsAssumption ==
  /\ MaxHalf \in Nat
  /\ None \notin Value
  /\ Releases \subseteq Setting
  /\ \A s \in Releases : s.options # {} =>
       /\ s.default \in s.options
       /\ \/ s.kind = "integer" /\ s.options \subseteq Ints
          \/ s.kind = "string" /\ s.options \subseteq Strings

VARIABLES
  release,   \* the definition in the running release
  shown,     \* the initial value of the session's widget, if it has one
  selected,  \* the session's value of the setting, if it has one
  saved,     \* the saved value, if the setting was saved
  encoded    \* history: [release, selected] that saved comes from

settingsVars == <<release, shown, selected, saved, encoded>>

SettingsTypeOK ==
  /\ release \in Releases
  /\ shown \in Value \cup {None} /\ selected \in Value \cup {None}
  /\ saved \in Value \cup {None}
  /\ encoded.release \in Releases /\ encoded.selected \in Value \cup {None}

SettingsInit ==
  /\ release \in Releases
  /\ shown = None
  /\ selected = None
  /\ saved = None
  /\ encoded = [release |-> release, selected |-> None]

-----------------------------------------------------------------------------
(* settings_widgets: _widget_for_property.                                 *)

\* A widget is made for these kinds, when the default has the kind's type.
HasWidget(s) ==
  <<s.kind, s.default.type>> \in
    {<<"boolean", "bool">>, <<"integer", "int">>, <<"string", "str">>}

\* A saved value that the widget starts from.
Restores(s, v) ==
  /\ v # None /\ v.type = s.default.type
  /\ s.options # {} => v \in s.options

\* Mutated form of InitialOf: a saved False, 0 or "" counts as none.
InitialIfTrue(s, v) ==
  IF Restores(s, v) /\ v.n # 0 THEN v ELSE s.default

InitialOf(s, v) == IF Restores(s, v) THEN v ELSE s.default

-----------------------------------------------------------------------------
(* serialize_settings.                                                     *)

\* _as_default_type: number widgets report floats.
AsDefaultType(v, default) ==
  IF default.type = "int" /\ v.type = "float" /\ v.n % 2 = 0
    THEN [v EXCEPT !.type = "int"] ELSE v

\* Mutated form of IsDefault: Python's ==.
EqualsDefault(v, default) ==
  v.n = default.n /\ (v.type = "str" <=> default.type = "str")

\* The type decides too: json.dumps writes 1 and True differently.
IsDefault(v, default) == v = default

\* What is left of the setting in the encoded text.
Serialized(s, v) ==
  LET normalized == AsDefaultType(v, s.default)
  IN  IF v = None THEN None
      ELSE IF IsDefault(normalized, s.default) THEN None ELSE normalized

-----------------------------------------------------------------------------
(* The application and its user.                                           *)

\* External: what a widget reports, number widgets as floats.
AsFloat(v) == IF v.type = "int" THEN [v EXCEPT !.type = "float"] ELSE v

Reports(s) ==
  IF s.options # {} THEN {AsFloat(v) : v \in s.options}
  ELSE CASE s.kind = "boolean" -> Bools
         [] s.kind = "integer" -> Floats
         [] s.kind = "string"  -> Strings

\* A session starts with the widgets' initial values.
OpenSettings ==
  /\ shown' = IF HasWidget(release) THEN InitialOf(release, saved) ELSE None
  /\ selected' = IF HasWidget(release) THEN AsFloat(shown') ELSE None
  /\ UNCHANGED <<release, saved, encoded>>

SelectValue(v) ==
  /\ shown # None
  /\ v \in Reports(release)
  /\ selected' = v
  /\ UNCHANGED <<release, shown, saved, encoded>>

\* The selection is encoded and saved.
SaveSettings ==
  /\ saved' = Serialized(release, selected)
  /\ encoded' = [release |-> release, selected |-> selected]
  /\ UNCHANGED <<release, shown, selected>>

\* The application is deployed anew; its users keep what they selected.
Deploy ==
  /\ release' \in Releases
  /\ shown' = None
  /\ UNCHANGED <<selected, saved, encoded>>

SettingsNext ==
  \/ OpenSettings
  \/ \E v \in Value : SelectValue(v)
  \/ SaveSettings
  \/ Deploy

SettingsSpec == SettingsInit /\ [][SettingsNext]_settingsVars
-----------------------------------------------------------------------------
(* Properties.                                                             *)

(* Defaults are left out of the text (line 51), yet who reads it over the  *)
(* defaults gets the selection back, type included, even a selection that  *)
(* was made of another release's widget.                                   *)
AppliedAsSelected ==
  LET default == encoded.release.default
      applied == IF saved = None THEN default ELSE saved
      chosen  == encoded.selected
  IN  chosen # None => applied \in {chosen, AsDefaultType(chosen, default)}

(* A session's widget starts from what was saved in the same release,      *)
(* unless it is the fraction that an integer's number input lets through;  *)
(* and whatever another release saved, it starts from a value of its own   *)
(* type and range.                                                         *)
RestoredStep ==
  LET chosen == encoded.selected
      whole  == chosen.type = "float" => chosen.n % 2 = 0
  IN  OpenSettings /\ shown' # None =>
        /\ AsFloat(shown') \in Reports(release)
        /\ encoded.release = release /\ chosen \in Reports(release) /\ whole =>
             AsFloat(shown') = chosen
SelectionRestored == [][RestoredStep]_settingsVars
=============================================================================
