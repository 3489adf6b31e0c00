------------------------------- MODULE Wizard -------------------------------
(***************************************************************************)
(* The setup wizard of `provanity` without arguments (cli/wizard.go): a    *)
(* menu, then the fields of the chosen mode one by one, with a way back,   *)
(* then the arguments of the command to run.  A probe of the devices       *)
(* answers at any time: with a single GPU the question for devices goes.   *)
(*                                                                         *)
(* A text is what matters of it: "" , the default, another valid text, or  *)
(* an invalid one.                                                         *)
(***************************************************************************)
EXTENDS Integers, Sequences, SequencesExt

CONSTANT
  MaxBacks  (* bound of the model: times the user goes back                 *)

ASSUME MaxBacksAssumption == MaxBacks \in Nat

VARIABLES
  mode,    (* selectedMode, "" in the menu                                  *)
  cursor,  (* modeCursor, from 1                                            *)
  index,   (* fieldIndex, from 1                                            *)
  choice,  (* choiceCursor, from 1                                          *)
  input,   (* the text being typed                                          *)
  flagged, (* whether the status line shows a validation error              *)
  values,  (* the answers by key                                            *)
  probe,   (* the devices probe: "running", "one", "several" or no answer   *)
  wizard,  (* "editing", "canceled", "failed", "done"                       *)
  args,    (* the arguments of the command                                  *)
  backs    (* times the user went back                                      *)

formVars == <<mode, cursor, index, choice, input, flagged, values, wizard, args>>
wizardVars == <<formVars, probe, backs>>

-----------------------------------------------------------------------------
Modes == <<"generate", "generate_tron", "quit">>

Typed == {"", "typed", "wrong"}

\* The value of a key nobody has answered.
Unset == "unset"

Keys == {"pattern_format", "pattern_leading_hex", "pattern_leading_count", "pattern_value",
         "tron_mode", "tron_prefix_value", "tron_suffix_value", "devices", "device_ids"}

NoChoices == <<>>
Choice(key, choices, default) == [key |-> key, choices |-> choices, default |-> default, placeholder |-> FALSE]
Text(key, default, placeholder) == [key |-> key, choices |-> NoChoices, default |-> default, placeholder |-> placeholder]

DeviceFields ==
  <<Choice("devices", <<"all", "select", "custom">>, "all"), Text("device_ids", "default", FALSE)>>

\* wizardFields: the questions of a mode, in order.
Fields(m) ==
  IF m = "generate"
  THEN <<Choice("pattern_format", <<"leading", "pattern">>, "leading"),
         Text("pattern_leading_hex", "default", TRUE), Text("pattern_leading_count", "default", TRUE),
         Text("pattern_value", "default", TRUE)>> \o DeviceFields
  ELSE IF m = "generate_tron"
  THEN <<Choice("tron_mode", <<"prefix", "suffix">>, "prefix"),
         Text("tron_prefix_value", "default", TRUE), Text("tron_suffix_value", "default", TRUE)>>
       \o DeviceFields
  ELSE <<>>

\* The question and the answer a field depends on (valueIs).
Depends ==
  [pattern_leading_hex |-> <<"pattern_format", "leading">>, pattern_leading_count |-> <<"pattern_format", "leading">>,
   pattern_value |-> <<"pattern_format", "pattern">>,
   tron_prefix_value |-> <<"tron_mode", "prefix">>, tron_suffix_value |-> <<"tron_mode", "suffix">>,
   device_ids |-> <<"devices", "custom">>]

\* values["_device_count"] = "1", which only the probe's answer sets.
SingleGpu == probe = "one"

\* fieldVisible, for answers v and a known single GPU.
VisibleIn(field, v, single) ==
  /\ field.key = "devices" => ~single
  /\ field.key \in DOMAIN Depends => v[Depends[field.key][1]] = Depends[field.key][2]

VisibleIndices(m, v, single) == {i \in 1 .. Len(Fields(m)) : VisibleIn(Fields(m)[i], v, single)}

\* currentField: none when its field has become invisible.
HasField == mode # "" /\ index \in VisibleIndices(mode, values, SingleGpu)
Field == Fields(mode)[index]

\* validateWizardField: required, and valid.
Refused(text) == text \in {"", "wrong"}

PositionOf(seq, x) == IF x \in ToSet(seq) THEN CHOOSE i \in 1 .. Len(seq) : seq[i] = x ELSE 1

WizardInit ==
  /\ mode = "" /\ cursor = 1 /\ index = 1 /\ choice = 1 /\ input = "" /\ flagged = FALSE
  /\ values = [k \in Keys |-> Unset] /\ probe = "running"
  /\ wizard = "editing" /\ args = <<>> /\ backs = 0

-----------------------------------------------------------------------------
ValueOrDefault(v, key, default) == IF v[key] = Unset THEN default ELSE v[key]

\* resolveWizardTronPattern.
TronPatternOf(v) ==
  IF ValueOrDefault(v, "tron_mode", "prefix") = "suffix"
  THEN <<"suffix", ValueOrDefault(v, "tron_suffix_value", "default")>>
  ELSE <<"prefix", ValueOrDefault(v, "tron_prefix_value", "default")>>

\* Mutant: a pattern that was once typed wins over the format chosen since.
PatternOf_Typed(m, v) ==
  IF m = "generate"
  THEN IF v["pattern_value"] # Unset THEN <<"pattern", v["pattern_value"]>>
       ELSE <<"leading", ValueOrDefault(v, "pattern_leading_hex", "default"),
              ValueOrDefault(v, "pattern_leading_count", "default")>>
  ELSE TronPatternOf(v)

\* resolveWizardPattern.
PatternOf(m, v) ==
  IF m = "generate"
  THEN IF ValueOrDefault(v, "pattern_format", "leading") = "pattern"
       THEN <<"pattern", ValueOrDefault(v, "pattern_value", "default")>>
       ELSE <<"leading", ValueOrDefault(v, "pattern_leading_hex", "default"),
              ValueOrDefault(v, "pattern_leading_count", "default")>>
  ELSE TronPatternOf(v)

\* appendDeviceArgs: --select-gpu, or the text of --devices.
DeviceArgs(v) ==
  CASE ValueOrDefault(v, "devices", "all") = "select" -> "select"
    [] ValueOrDefault(v, "devices", "all") = "custom" -> v["device_ids"]
    [] OTHER -> "all"

\* finish: the arguments, or the error of a pattern that does not parse.
Finish(v) ==
  LET pattern == PatternOf(mode, v) IN
  IF \E i \in 2 .. Len(pattern) : Refused(pattern[i])
  THEN wizard' = "failed" /\ UNCHANGED args
  ELSE wizard' = "done" /\ args' = [command |-> mode, pattern |-> pattern, devices |-> DeviceArgs(v)]

\* resetCurrentField: a choice stands at the earlier answer or the default, a
\* text too, but a placeholder is not filled in.
ResetTo(i, v) ==
  LET field == Fields(mode')[i] IN
  /\ index' = i /\ flagged' = FALSE
  /\ IF field.choices = NoChoices
     THEN /\ input' = IF field.placeholder THEN ValueOrDefault(v, field.key, "")
                      ELSE ValueOrDefault(v, field.key, field.default)
          /\ UNCHANGED choice
     ELSE /\ choice' = PositionOf(field.choices, ValueOrDefault(v, field.key, field.default))
          /\ input' = ""

\* nextField and resetCurrentField, or finish and quit.
Advance(v, single) ==
  LET later == {i \in VisibleIndices(mode, v, single) : i > index} IN
  IF later # {}
  THEN ResetTo(CHOOSE i \in later : \A j \in later : i <= j, v) /\ UNCHANGED <<wizard, args>>
  ELSE Finish(v) /\ UNCHANGED <<index, choice, input, flagged>>

Editing == wizard = "editing"

-----------------------------------------------------------------------------
(* The keys.                                                               *)

\* ctrl+c and esc.
Escape ==
  /\ Editing /\ wizard' = "canceled"
  /\ UNCHANGED <<mode, cursor, index, choice, input, flagged, values, args, probe, backs>>

\* "up" and "down": in the menu, or among the choices of a field.
Moves ==
  /\ Editing
  /\ \/ /\ mode = "" /\ \E d \in {-1, 1} : cursor + d \in 1 .. Len(Modes) /\ cursor' = cursor + d
        /\ UNCHANGED choice
     \/ /\ HasField /\ Field.choices # NoChoices
        /\ \E d \in {-1, 1} : choice + d \in 1 .. Len(Field.choices) /\ choice' = choice + d
        /\ UNCHANGED cursor
  /\ UNCHANGED <<mode, index, input, flagged, values, wizard, args, probe, backs>>

\* "enter" in the menu.
PicksMode ==
  /\ Editing /\ mode = "" /\ UNCHANGED <<cursor, values, args, probe, backs>>
  /\ IF Modes[cursor] = "quit"
     THEN wizard' = "canceled" /\ UNCHANGED <<mode, index, choice, input, flagged>>
     ELSE /\ mode' = Modes[cursor] /\ UNCHANGED wizard
          /\ ResetTo(1, values)

\* "enter" on a choice.
PicksChoice ==
  /\ Editing /\ HasField /\ Field.choices # NoChoices
  /\ values' = [values EXCEPT ![Field.key] = Field.choices[choice]]
  /\ UNCHANGED <<mode, cursor, probe, backs>>
  /\ Advance(values', SingleGpu)

\* The text "enter" takes: an empty placeholder is its default.
Entered == IF input = "" /\ Field.placeholder THEN Field.default ELSE input

\* "enter" on a text: refused with a message, or stored.
EntersText ==
  /\ Editing /\ HasField /\ Field.choices = NoChoices /\ UNCHANGED <<mode, cursor, probe, backs>>
  /\ IF Refused(Entered)
     THEN flagged' = TRUE /\ UNCHANGED <<index, choice, input, values, wizard, args>>
     ELSE values' = [values EXCEPT ![Field.key] = Entered] /\ Advance(values', SingleGpu)

\* Runes, space and backspace: the text becomes another one, which liveStatus
\* judges.
Types ==
  /\ Editing /\ HasField /\ Field.choices = NoChoices
  /\ \E text \in Typed : input' = text /\ flagged' = (text = "wrong")
  /\ UNCHANGED <<mode, cursor, index, choice, values, wizard, args, probe, backs>>

\* A key other than "left" when the current field has become invisible.
LostField ==
  /\ Editing /\ mode # "" /\ ~HasField
  /\ Finish(values)
  /\ UNCHANGED <<mode, cursor, index, choice, input, flagged, values, probe, backs>>

\* "left": previousField, or back to the menu.
GoesBack ==
  /\ Editing /\ mode # "" /\ backs < MaxBacks /\ backs' = backs + 1
  /\ UNCHANGED <<values, wizard, args, probe>>
  /\ LET earlier == {i \in VisibleIndices(mode, values, SingleGpu) : i < index} IN
     IF earlier # {}
     THEN /\ UNCHANGED <<mode, cursor>>
          /\ ResetTo(CHOOSE i \in earlier : \A j \in earlier : i >= j, values)
     ELSE /\ mode' = "" /\ cursor' = PositionOf(Modes, mode) /\ index' = 1 /\ flagged' = FALSE
          /\ UNCHANGED <<choice, input>>

\* devicesProbedMsg: a single GPU answers the question for devices, the one
\* on the screen too.
ProbeAnswers ==
  /\ Editing /\ probe = "running" /\ probe' = "one"
  /\ values' = [values EXCEPT !["devices"] = "all"]
  /\ UNCHANGED <<mode, cursor, backs>>
  /\ IF mode # "" /\ Field.key = "devices" THEN Advance(values', TRUE)
     ELSE UNCHANGED <<index, choice, input, flagged, wizard, args>>

\* Several devices, a failure, or five seconds without an answer: nothing
\* changes.
ProbeIsIgnored ==
  /\ Editing /\ probe = "running" /\ probe' = "several" /\ UNCHANGED <<formVars, backs>>

Keypress == Escape \/ Moves \/ PicksMode \/ PicksChoice \/ EntersText \/ Types \/ LostField \/ GoesBack

WizardNext == Keypress \/ ProbeAnswers \/ ProbeIsIgnored

-----------------------------------------------------------------------------
(* Properties.                                                             *)

\* The arguments are valid and are the answers on the screen: a question that
\* was asked and is still visible has been answered and its answer is used,
\* whatever was answered before going back, and an answer to a question that
\* is no longer visible is not used.
ArgsAreTheAnswers ==
  wizard \in {"done", "failed"} =>
    LET visible == {Fields(mode)[i].key : i \in VisibleIndices(mode, values, SingleGpu)} IN
    /\ wizard = "done"
    /\ \A k \in visible : values[k] # Unset
    /\ \A k \in visible \cap {"pattern_leading_hex", "pattern_leading_count", "pattern_value",
                              "tron_prefix_value", "tron_suffix_value"} : values[k] \in ToSet(args.pattern)
    /\ args.devices = IF "device_ids" \in visible THEN values["device_ids"]
                      ELSE IF "devices" \in visible /\ values["devices"] = "select" THEN "select" ELSE "all"
=============================================================================
