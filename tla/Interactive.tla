----------------------------- MODULE Interactive -----------------------------
(***************************************************************************)
(* One interactive session: the wizard builds the command, or the user     *)
(* types it; runGenerate (cli/generate.go) settles the devices, with the   *)
(* picker when it was asked for one, and hands the search to the           *)
(* dashboard, whose outcome it prints.                                     *)
(*                                                                         *)
(* Each screen's state is gone when the next one opens.                    *)
(***************************************************************************)
EXTENDS Wizard, GpuSelect, Dashboard

CONSTANT Requests  (* the texts a user gives to --devices *)

ASSUME RequestsAssumption == \A parts \in Requests : parts \in Seq(ToSet(parts))

VARIABLES
  stage,   (* "prompt", "wizard", "command", "picker", "chosen",            *)
           (* "dashboard", "over"                                           *)
  request, (* --devices and --select-gpu                                    *)
  ids,     (* Options.DeviceIDs                                             *)
  told     (* what the user is told in the end                              *)

screenVars == <<wizardVars, pickerVars>>
commandVars == <<request, ids>>
sessionVars == <<screenVars, vars, stage, commandVars, told>>

NoRequest == [devices |-> <<>>, select |-> FALSE]

InteractiveInit ==
  /\ WizardInit /\ PickerInit /\ Init
  /\ stage = "prompt" /\ request = NoRequest /\ ids = <<>> /\ told = "nothing"

Over(what) == stage' = "over" /\ told' = what

-----------------------------------------------------------------------------
\* `provanity` alone, or a command with its flags.
Starts ==
  /\ stage = "prompt" /\ UNCHANGED <<screenVars, vars, ids, told>>
  /\ \/ stage' = "wizard" /\ UNCHANGED request
     \/ /\ stage' = "command"
        /\ \E devices \in Requests, select \in BOOLEAN : request' = [devices |-> devices, select |-> select]

WizardStep == stage = "wizard" /\ WizardNext /\ UNCHANGED <<pickerVars, vars, stage, commandVars, told>>

\* The ids a text of the wizard stands for.
IdsOf(text) == IF text = "default" THEN <<"0">> ELSE <<"1", "0", "1">>

\* runInteractiveWizard after the program: a new root command with the
\* arguments.
WizardEnds ==
  /\ stage = "wizard" /\ wizard # "editing"
  /\ UNCHANGED <<screenVars, vars, ids>>
  /\ IF wizard # "done" THEN Over(wizard) /\ UNCHANGED request
     ELSE /\ stage' = "command" /\ UNCHANGED told
          /\ request' = CASE args.devices = "select" -> [devices |-> <<"all">>, select |-> TRUE]
                          [] args.devices = "all" -> [devices |-> <<"all">>, select |-> FALSE]
                          [] OTHER -> [devices |-> IdsOf(args.devices), select |-> FALSE]

\* runGenerate as far as the search or the picker: a text that does not
\* parse, and a probe that fails, are errors; a single device is not picked.
Settles ==
  LET parsed == ParseDeviceIDs(request.devices) IN
  /\ stage = "command" /\ UNCHANGED <<wizardVars, vars, request>>
  /\ \/ parsed.err /\ Over("refused") /\ UNCHANGED <<pickerVars, ids>>
     \/ /\ ~parsed.err /\ ~(parsed.select \/ request.select)
        /\ ids' = parsed.ids /\ stage' = "chosen" /\ UNCHANGED <<pickerVars, told>>
     \/ /\ ~parsed.err /\ (parsed.select \/ request.select)
        /\ \/ Over("refused") /\ UNCHANGED <<pickerVars, ids>>
           \/ \E devices \in Machines :
                IF Len(devices) = 1
                THEN ids' = <<>> /\ stage' = "chosen" /\ UNCHANGED <<pickerVars, told>>
                ELSE OpensPicker(devices) /\ stage' = "picker" /\ UNCHANGED <<ids, told>>

PickerStep == stage = "picker" /\ PickerNext /\ UNCHANGED <<wizardVars, vars, stage, commandVars, told>>

\* RunGPUSelect after the program.
PickerEnds ==
  /\ stage = "picker" /\ picker # "open" /\ UNCHANGED <<screenVars, vars, request>>
  /\ IF picker = "canceled" \/ Picked = <<>>
     THEN Over("refused") /\ UNCHANGED ids
     ELSE ids' = Picked /\ stage' = "chosen" /\ UNCHANGED told

\* RunDashboard; the screens and the flags before it are forgotten.
Searches ==
  /\ stage = "chosen" /\ stage' = "dashboard"
  /\ mode' = "" /\ cursor' = 1 /\ index' = 1 /\ choice' = 1 /\ input' = "" /\ flagged' = FALSE
  /\ values' = [k \in Keys |-> Unset] /\ probe' = "running"
  /\ wizard' = "editing" /\ args' = <<>> /\ backs' = 0
  /\ picker' = "closed" /\ offered' = <<>> /\ position' = 1 /\ ticked' = {}
  /\ request' = NoRequest /\ ids' = <<>>
  /\ UNCHANGED <<vars, told>>

\* The goroutines of the dashboard go on after the last line is printed, as
\* long as the process is there.
Running(A) == (stage = "dashboard" \/ main = "returned") /\ A

DashboardStep == Running(Next) /\ UNCHANGED <<screenVars, stage, commandVars, told>>

\* runGenerate after RunDashboard: a result is printed even with an error.
Prints ==
  /\ stage = "dashboard" /\ main = "returned" /\ UNCHANGED <<screenVars, vars, commandVars>>
  /\ Over(IF ret.err # "none" /\ ret.result = 0
          THEN IF ret.err = "canceled" THEN "canceled" ELSE "error"
          ELSE "printed")

InteractiveNext ==
  \/ Starts \/ WizardStep \/ WizardEnds \/ Settles \/ PickerStep \/ PickerEnds \/ Searches
  \/ DashboardStep \/ Prints

\* Every goroutine is scheduled, and a search that is cancelled comes to its
\* next callback (`generate` asks for one every second) and ends.
InteractiveSpec ==
  /\ InteractiveInit /\ [][InteractiveNext]_sessionVars
  /\ WF_vars(Running(Emit)) /\ WF_runVars(Running(RunGoesOn)) /\ WF_runVars(Running(canceled /\ Ends))
  /\ WF_vars(Running(CloseEvents)) /\ WF_vars(Running(SendDone))
  /\ WF_vars(Running(WaitEvent)) /\ WF_vars(Running(WaitDone))
  /\ WF_vars(Running(TakesEvent)) /\ WF_vars(Running(TakesDone)) /\ WF_vars(Running(Main))

-----------------------------------------------------------------------------
(* Properties.                                                             *)

\* The search runs on the devices the user chose, however they were chosen
\* (the wizard, a list, the picker) and whatever is there when it starts, or
\* it fails: never on others, and never on all because a selection was lost.
\* The device whose parameters are tuned is one of them.
ChosenAreSearched ==
  stage = "chosen" =>
    \A available \in Machines :
      LET wanted == IF picker = "done" THEN ticked
                    ELSE IF request.select \/ request.devices \in {<<>>, <<"all">>, <<"select">>}
                    THEN ToSet(available) ELSE ToSet(request.devices)
      IN /\ SearchedDevices(ids, available) \in {{}, wanted}
         /\ SearchedDevices(ids, available) # {} =>
              TuningDevice(ids, available) # {} /\ TuningDevice(ids, available) \subseteq wanted

\* A search that ends by itself, or in answer to a stop request, is shown and
\* returned as it ended (OutcomeIsTold), and what it found is printed in the
\* end, or a cancellation that says so, or its error.
OutcomeIsPrinted ==
  /\ OutcomeIsTold
  /\ (stage = "over" /\ model.completed) =>
       told = IF outcome.result > 0 THEN "printed"
              ELSE IF outcome.err = "canceled" THEN "canceled" ELSE "error"
=============================================================================
