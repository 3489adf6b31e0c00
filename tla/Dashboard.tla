------------------------------ MODULE Dashboard ------------------------------
(***************************************************************************)
(* The dashboard of `generate` (tui/dashboard.go): the goroutine of the    *)
(* search (RunEvents) sends its events through a bounded channel and its   *)
(* outcome through `done`; two commands of the terminal library carry them *)
(* to the event loop, among the keys; RunDashboard then decides what to    *)
(* return and runGenerate (cli/generate.go) what to print.                 *)
(***************************************************************************)
EXTENDS RunEvents, Sequences

CONSTANTS
  Capacity,  (* make(chan RunEvent, 64)                                     *)
  Kept       (* candidates the dashboard keeps: 8                           *)

ASSUME CapacityAssumption == Capacity \in Nat \ {0} /\ Kept \in Nat \ {0}

VARIABLES
  events,    (* the events channel                                          *)
  closed,    (* whether it is closed                                        *)
  done,      (* the done channel                                            *)
  finished,  (* whether the outcome was sent to it                          *)
  eventCmd,  (* waitEvent: "idle", or the message it holds                  *)
  doneCmd,   (* waitDone: "idle", "holds" the outcome, "over"               *)
  model,     (* dashboardModel                                              *)
  main,      (* RunDashboard: "program", "failed", "ended", "waiting",      *)
             (* "returned"                                                  *)
  ret,       (* what RunDashboard returned                                  *)
  keepAsked  (* history: "p" was pressed in time                            *)

chanVars   == <<events, closed, done, finished, eventCmd, doneCmd>>
mainVars   == <<main, ret>>
vars == <<runVars, canceled, chanVars, model, mainVars, keepAsked>>

-----------------------------------------------------------------------------
Closed  == Event("closed", 0)

Fresh ==
  [status |-> "warming", tuning |-> "none", started |-> FALSE, stopping |-> FALSE,
   completed |-> FALSE, candidates |-> <<>>, result |-> 0, err |-> "none"]

Init ==
  /\ RunInit
  /\ events = <<>> /\ closed = FALSE /\ done = <<>> /\ finished = FALSE
  /\ eventCmd = NoEvent /\ doneCmd = "idle"
  /\ model = Fresh /\ main = "program" /\ ret = NoOutcome /\ keepAsked = FALSE

-----------------------------------------------------------------------------
(* The goroutine of the search.                                            *)

SearchStep == RunNext /\ UNCHANGED <<canceled, chanVars, model, mainVars, keepAsked>>

\* startRun after run returned: close(events), then done <-.
CloseEvents ==
  /\ at = "returned" /\ Ready /\ ~closed /\ closed' = TRUE
  /\ UNCHANGED <<runVars, canceled, events, done, finished, eventCmd, doneCmd, model, mainVars, keepAsked>>

SendDone ==
  /\ closed /\ ~finished /\ done' = <<outcome>> /\ finished' = TRUE
  /\ UNCHANGED <<runVars, canceled, events, closed, eventCmd, doneCmd, model, mainVars, keepAsked>>

EmitStep ==
  /\ sending # NoEvent /\ sending' = NoEvent
  /\ UNCHANGED <<at, attempt, best, kept, settled, outcome, canceled, closed, done, finished,
                 eventCmd, doneCmd, model, mainVars, keepAsked>>

\* Mutant: emit without the case of ctx.Done.
Emit_Blocking == EmitStep /\ Len(events) < Capacity /\ events' = Append(events, sending)

\* emit: the send, or ctx.Done; when both are ready either may be taken.
Emit ==
  /\ EmitStep
  /\ \/ Len(events) < Capacity /\ events' = Append(events, sending)
     \/ canceled /\ UNCHANGED events

Search == SearchStep \/ CloseEvents \/ SendDone \/ Emit

-----------------------------------------------------------------------------
(* The commands of the terminal library: goroutines that wait on a channel *)
(* and hand what they got to the event loop.  They outlive the program.    *)

WaitEvent ==
  /\ eventCmd = NoEvent
  /\ \/ events # <<>> /\ eventCmd' = Head(events) /\ events' = Tail(events)
     \/ /\ events = <<>> /\ closed
        /\ eventCmd' = Closed /\ UNCHANGED events
  /\ UNCHANGED <<runVars, canceled, closed, done, finished, doneCmd, model, mainVars, keepAsked>>

\* The receive of waitDone; the message is `outcome`.
WaitDone ==
  /\ doneCmd = "idle" /\ done # <<>>
  /\ doneCmd' = "holds" /\ done' = <<>>
  /\ UNCHANGED <<runVars, canceled, events, closed, finished, eventCmd, model, mainVars, keepAsked>>

Commands == WaitEvent \/ WaitDone

-----------------------------------------------------------------------------
(* The model, and the event loop.                                          *)

\* The messages the first progress may replace: the initial one, "GPU ready",
\* the selected parameters, and those of emit_phase (isPhaseStatus).
SetupStatus == {"warming", "ready", "phase", "selected"}

IsAutotuning(m) == m.tuning = "active"

SearchStatus(m) == IF IsAutotuning(m) THEN "autotuning" ELSE "searching"

\* tuningStatus: the other states leave the status alone.
TuningStatus(m) ==
  CASE m.tuning = "active"   -> "autotuning"
    [] m.tuning = "selected" -> "selected"
    [] m.tuning = "default"  -> "baseline"
    [] OTHER                 -> m.status

WithTuning(m, state) ==
  LET tuned == [m EXCEPT !.tuning = state] IN [tuned EXCEPT !.status = TuningStatus(tuned)]

\* The newest candidate first.
WithCandidate(m, score) ==
  [m EXCEPT !.started = TRUE, !.status = "verifying",
            !.candidates = SubSeq(<<score>> \o @, 1, IF Len(@) < Kept THEN Len(@) + 1 ELSE Kept)]

WithProgress(m) ==
  [m EXCEPT !.started = TRUE, !.status = IF @ \in SetupStatus THEN SearchStatus(m) ELSE @]

\* applyEvent.
Applied(m, e) ==
  CASE e.kind \in {"active", "skipped", "selected", "default"} -> WithTuning(m, e.kind)
    [] e.kind = "candidate" -> WithCandidate(m, e.score)
    [] e.kind = "result"    -> [m EXCEPT !.started = TRUE, !.result = e.score, !.status = "verified"]
    [] e.kind = "progress"  -> WithProgress(m)
    [] e.kind = "found"     -> [m EXCEPT !.started = TRUE, !.status = "found"]
    [] OTHER                -> [m EXCEPT !.status = e.kind]

LoopStep == main = "program" /\ UNCHANGED <<runVars, events, closed, done, finished, ret>>

\* eventMsg: applied, and waitEvent started again; eventsClosedMsg: nothing.
TakesEvent ==
  /\ LoopStep /\ eventCmd \notin {NoEvent, Closed}
  /\ model' = Applied(model, eventCmd) /\ eventCmd' = NoEvent
  /\ UNCHANGED <<canceled, doneCmd, main, keepAsked>>

\* Mutant: doneMsg keeps the error but not the result.
TakesDone_NoResult ==
  /\ LoopStep /\ doneCmd = "holds" /\ doneCmd' = "over"
  /\ model' = [model EXCEPT !.completed = TRUE, !.err = outcome.err]
  /\ main' = "ended" /\ UNCHANGED <<canceled, eventCmd, keepAsked>>

\* doneMsg: the outcome of run replaces what was shown, and the program quits.
TakesDone ==
  /\ LoopStep /\ doneCmd = "holds" /\ doneCmd' = "over"
  /\ model' = [model EXCEPT !.completed = TRUE, !.result = outcome.result, !.err = outcome.err]
  /\ main' = "ended" /\ UNCHANGED <<canceled, eventCmd, keepAsked>>

\* Mutant: a stop request only marks the model.
Stop_NoCancel(status) ==
  /\ model' = [model EXCEPT !.stopping = TRUE, !.status = status]
  /\ UNCHANGED <<canceled, main>>

Stop(status) ==
  /\ model' = [model EXCEPT !.stopping = TRUE, !.status = status]
  /\ canceled' = TRUE /\ UNCHANGED main

\* "q" and ctrl+c: first a graceful stop, then out.
PressQ ==
  /\ LoopStep
  /\ \/ ~model.stopping /\ Stop("stopping")
     \/ model.stopping /\ main' = "ended" /\ UNCHANGED <<canceled, model>>
  /\ UNCHANGED <<eventCmd, doneCmd, keepAsked>>

\* "p": stop and keep the best candidate so far.
PressP ==
  /\ LoopStep /\ ~model.stopping
  /\ Stop("stopping") /\ keepAsked' = TRUE
  /\ UNCHANGED <<eventCmd, doneCmd>>

\* copyText, and what the BEST panel shows: the result before any candidate.
Shown == IF model.result > 0 THEN model.result
         ELSE IF model.candidates # <<>> THEN Head(model.candidates) ELSE 0

PressC ==
  /\ LoopStep
  /\ model' = [model EXCEPT !.status = IF Shown > 0 THEN "copied" ELSE "nothing"]
  /\ UNCHANGED <<canceled, eventCmd, doneCmd, main, keepAsked>>

Loop == TakesEvent \/ TakesDone

\* The library ends the program: SIGTERM quits, SIGINT or a terminal that
\* fails is an error.
ProgramEnds ==
  /\ LoopStep /\ main' \in {"ended", "failed"}
  /\ UNCHANGED <<canceled, eventCmd, doneCmd, model, keepAsked>>

-----------------------------------------------------------------------------
(* RunDashboard after program.Run.                                         *)

MainStep == UNCHANGED <<runVars, events, closed, finished, eventCmd, doneCmd, model, keepAsked>>

\* The deferred cancel.
Return(score, err) == main' = "returned" /\ ret' = Outcome(score, err) /\ canceled' = TRUE

\* A program error: the search has up to five seconds to end.
AfterError ==
  /\ main = "failed" /\ MainStep
  /\ done' \in {done, <<>>}
  /\ Return(0, "failed")

\* Without a result the search is cancelled and waited for.
AfterProgram ==
  /\ main = "ended" /\ MainStep /\ UNCHANGED done
  /\ IF model.result = 0
     THEN main' = "waiting" /\ canceled' = TRUE /\ UNCHANGED ret
     ELSE Return(model.result, "none")

\* The outcome comes within two seconds, or not.  A message that is there is
\* taken.
FinalWait ==
  /\ main = "waiting" /\ MainStep
  /\ \/ done # <<>> /\ done' = <<>> /\ Return(outcome.result, outcome.err)
     \/ done = <<>> /\ UNCHANGED done /\ Return(model.result, model.err)

Main == AfterError \/ AfterProgram \/ FinalWait

User == PressQ \/ PressP \/ PressC \/ ProgramEnds

Next == Search \/ Commands \/ Loop \/ User \/ Main

Spec == Init /\ [][Next]_vars

-----------------------------------------------------------------------------
(* Properties.                                                             *)

\* headerView: the badge while the search goes on, and after it.
Badge ==
  IF model.completed /\ model.err # "none" /\ model.result = 0 THEN "error"
  ELSE IF model.completed /\ IsPartial(model.result) THEN "stopped"
  ELSE IF model.completed /\ IsMatch(model.result) THEN "matched"
  ELSE IF model.stopping THEN "stopping"
  ELSE IF ~model.started /\ ~IsAutotuning(model) THEN "warming up"
  ELSE "searching"

\* When the search ends by itself or in answer to one stop request, its
\* outcome is what RunDashboard returns and what the last screen's badge
\* says: a match, the best partial result, or the error, whatever events
\* were shown or dropped before, and even when an error overtakes them.
OutcomeIsTold ==
  model.completed =>
    /\ Badge = IF outcome.result = 0 THEN "error" ELSE IF IsMatch(outcome.result) THEN "matched" ELSE "stopped"
    /\ main = "returned" => ret = outcome

\* A stop request, or the end of the program, leads to RunDashboard's return.
StopReturns == (model.stopping \/ main # "program") ~> (main = "returned")

\* A cancelled search ends, even when nobody reads its events any more.
SearchEnds == canceled ~> finished

\* Help text, dashboard.go:761: "p" stops the search and keeps the best
\* candidate so far.  When the program is ended before the search has
\* stopped, by a "q" say, waitDone takes the outcome the final wait is for.
StopKeepsBest ==
  (keepAsked /\ main = "returned" /\ ret.err = "none" /\ doneCmd = "holds") => ret.result = outcome.result
=============================================================================
