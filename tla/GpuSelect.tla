------------------------------ MODULE GpuSelect ------------------------------
(***************************************************************************)
(* Which devices a search runs on: the text of --devices                   *)
(* (local/devices.go) and the picker shown when the user asked to choose   *)
(* (tui/gpu_select.go).  A list without a device means every device, so a  *)
(* selection must never become empty on its way.                           *)
(*                                                                         *)
(* A text is the sequence of its parts between commas; a part is the id of *)
(* a GPU, or one of Malformed.                                             *)
(***************************************************************************)
EXTENDS Integers, Sequences, SequencesExt

CONSTANTS
  Machines,  (* the lists of devices ProbeDevices may report                *)
  Malformed  (* parts that are empty, not a number or negative              *)

ASSUME MachinesAssumption ==
  \A devices \in Machines :
    /\ devices \in Seq(ToSet(devices)) /\ devices # <<>>
    /\ IsInjective(devices) /\ ToSet(devices) \cap Malformed = {}

VARIABLES
  picker,   (* "closed", "open", "canceled", "done"                         *)
  offered,  (* devices                                                      *)
  position, (* cursor, from 1                                               *)
  ticked    (* selected                                                     *)

pickerVars == <<picker, offered, position, ticked>>

-----------------------------------------------------------------------------
(* ParseDeviceIDs: the ids, whether to show the picker, an error.          *)

Parsed(ids, select, err) == [ids |-> ids, select |-> select, err |-> err]

\* The first occurrence of every id.
Deduplicated(parts) ==
  FoldLeft(LAMBDA ids, part : IF part \in ToSet(ids) THEN ids ELSE Append(ids, part), <<>>, parts)

\* Mutant: a malformed part is skipped.
ParseDeviceIDs_Lenient(parts) ==
  IF parts \in {<<>>, <<"all">>} THEN Parsed(<<>>, FALSE, FALSE)
  ELSE IF parts = <<"select">> THEN Parsed(<<>>, TRUE, FALSE)
  ELSE Parsed(Deduplicated(SelectSeq(parts, LAMBDA part : part \notin Malformed)), FALSE, FALSE)

ParseDeviceIDs(parts) ==
  IF parts \in {<<>>, <<"all">>} THEN Parsed(<<>>, FALSE, FALSE)
  ELSE IF parts = <<"select">> THEN Parsed(<<>>, TRUE, FALSE)
  ELSE IF \E i \in 1 .. Len(parts) : parts[i] \in Malformed \cup {"all", "select"}
       THEN Parsed(<<>>, FALSE, TRUE)
       ELSE Parsed(Deduplicated(parts), FALSE, FALSE)

-----------------------------------------------------------------------------
(* RunGPUSelect.                                                           *)

PickerInit == picker = "closed" /\ offered = <<>> /\ position = 1 /\ ticked = {}

\* The picker opens with every device ticked.
OpensPicker(devices) ==
  picker' = "open" /\ offered' = devices /\ position' = 1 /\ ticked' = ToSet(devices)

PickerKey == picker = "open" /\ UNCHANGED offered

PickerEscape == PickerKey /\ picker' = "canceled" /\ UNCHANGED <<position, ticked>>

PickerMoves ==
  /\ PickerKey /\ UNCHANGED <<picker, ticked>>
  /\ \E d \in {-1, 1} : position + d \in 1 .. Len(offered) /\ position' = position + d

\* " ".
Toggles ==
  /\ PickerKey /\ UNCHANGED <<picker, position>>
  /\ LET id == offered[position] IN
     ticked' = IF id \in ticked THEN ticked \ {id} ELSE ticked \cup {id}

\* "a": all, or none when all are ticked.
TogglesAll ==
  /\ PickerKey /\ UNCHANGED <<picker, position>>
  /\ ticked' = IF ticked = ToSet(offered) THEN {} ELSE ToSet(offered)

\* "enter", refused with nothing ticked.
Accepts == PickerKey /\ ticked # {} /\ picker' = "done" /\ UNCHANGED <<position, ticked>>

PickerNext == PickerEscape \/ PickerMoves \/ Toggles \/ TogglesAll \/ Accepts

\* The ids RunGPUSelect returns, in the order of the devices.
Picked == FoldLeft(LAMBDA ids, id : IF id \in ticked THEN Append(ids, id) ELSE ids, <<>>, offered)

-----------------------------------------------------------------------------
(* The devices a run uses.                                                 *)

\* multiDeviceRunConfig and the backend: no ids stand for every device, and
\* an id that is not there fails the run.
SearchedDevices(ids, available) ==
  IF ids = <<>> THEN ToSet(available)
  ELSE IF ToSet(ids) \subseteq ToSet(available) THEN ToSet(ids) ELSE {}

\* selectTuningDevice: the first of the ids that is there; {} for none.
TuningDevice(ids, available) ==
  IF ids = <<>> THEN {available[1]}
  ELSE LET there == {i \in DOMAIN ids : ids[i] \in ToSet(available)} IN
       IF there = {} THEN {} ELSE {ids[Min(there)]}
=============================================================================
