------------------------------ MODULE MultiRun ------------------------------
(***************************************************************************)
(* cuda.Run over several GPUs (cuda/loader_linux.go runMulti, runSingle    *)
(* and multiRunAggregator; cuda/callback_linux.go): one goroutine per GPU  *)
(* sits in provanity_cuda_run, whose callbacks come back through the       *)
(* context checks of provanityCudaCallback and the two mutexes of the      *)
(* aggregator to the session's callback.                                   *)
(*                                                                         *)
(* The backend of a GPU appears as its callbacks: ready, a phase, then     *)
(* found events of rising score (CudaBackend implements KeySearch),        *)
(* progress events only if the interval is not 0, or a failure.  Attempt   *)
(* and hashrate sums are left out.                                         *)
(***************************************************************************)
EXTENDS Session, FiniteSets

CONSTANTS
  Devices,    (* the selected GPUs: runMulti is for two or more           *)
  ProgressOn  (* cfg.ProgressIntervalMS > 0                               *)

ASSUME DevicesAssumption == IsFiniteSet(Devices) /\ Cardinality(Devices) > 1
ASSUME ProgressAssumption == ProgressOn \in BOOLEAN

VARIABLES
  pc,        (* where the goroutine of a GPU is                             *)
  stage,     (* how far its backend is: "ready", "phase", then "loop"       *)
  event,     (* the event of its callback under way                         *)
  answer,    (* what the session's callback answered to it                  *)
  gpuBest,   (* score_max of its backend                                    *)
  runRet,    (* what its runSingle returned                                 *)
  callbackMu,  (* whether callbackMu is locked                              *)
  stop,      (* agg.stop                                                    *)
  firstErr,  (* agg.firstErr                                                *)
  runsCancelled,  (* whether runCtx was cancelled by agg.cancel             *)
  userCancelled,  (* whether ctx was cancelled by its owner                 *)
  returned   (* what runMulti returned, "no" while it has not               *)

gpuVars == <<pc, stage, event, answer, gpuBest, runRet>>
aggVars == <<callbackMu, stop, firstErr, runsCancelled>>
vars == <<gpuVars, aggVars, userCancelled, returned, sessionVars>>

NoEvent  == [type |-> "none", score |-> None]

\* convertCEvent: what a callback is given of a backend's event.
Event(t, s) == [type |-> t, score |-> s]

\* runCtx is a child of ctx.
Cancelled == userCancelled \/ runsCancelled

Goto(d, where) == pc' = [pc EXCEPT ![d] = where]

Init ==
  /\ SessionInit
  /\ pc = [d \in Devices |-> "backend"] /\ stage = [d \in Devices |-> "ready"]
  /\ event = [d \in Devices |-> NoEvent] /\ answer = [d \in Devices |-> FALSE]
  /\ gpuBest = [d \in Devices |-> None] /\ runRet = [d \in Devices |-> "no"]
  /\ callbackMu = FALSE /\ stop = FALSE /\ firstErr = "nil" /\ runsCancelled = FALSE
  /\ userCancelled = FALSE /\ returned = "no"

-----------------------------------------------------------------------------
(* The backend of GPU d calls back, or fails.                              *)

Calls(d, e) ==
  /\ pc[d] = "backend"
  /\ event' = [event EXCEPT ![d] = e]
  /\ Goto(d, "gate")
  /\ UNCHANGED <<stage, answer, runRet, aggVars, userCancelled, returned, sessionVars>>

EmitsSetup(d) ==
  /\ stage[d] \in {"ready", "phase"}
  /\ Calls(d, Event(stage[d], None))
  /\ UNCHANGED gpuBest

EmitsProgress(d) ==
  /\ stage[d] = "loop" /\ ProgressOn
  /\ Calls(d, Event("progress", None))
  /\ UNCHANGED gpuBest

EmitsFound(d) ==
  /\ stage[d] = "loop"
  /\ \E s \in Scores : s > gpuBest[d] /\ gpuBest' = [gpuBest EXCEPT ![d] = s]
                       /\ Calls(d, Event("found", s))

\* A failing CUDA call; most are announced by an error event first.
EmitsError(d) ==
  /\ Calls(d, Event("error", None))
  /\ UNCHANGED gpuBest

FailsSilently(d) ==
  /\ pc[d] = "backend"
  /\ runRet' = [runRet EXCEPT ![d] = "failed"]
  /\ Goto(d, "ended")
  /\ UNCHANGED <<stage, event, answer, gpuBest, aggVars, userCancelled, returned, sessionVars>>

-----------------------------------------------------------------------------
(* provanityCudaCallback and the aggregator.                               *)

\* The first ctx.Err check of the callback.
Gate(d) ==
  /\ pc[d] = "gate"
  /\ IF Cancelled THEN answer' = [answer EXCEPT ![d] = TRUE] /\ Goto(d, "answered")
     ELSE UNCHANGED answer /\ Goto(d, "dispatch")
  /\ UNCHANGED <<stage, event, gpuBest, runRet, aggVars, userCancelled, returned, sessionVars>>

SetErr(e) == firstErr' = IF firstErr = "nil" THEN e ELSE firstErr

\* emitDeviceEvent up to callbackMu: a ready event is merged and goes no
\* further, an error is recorded before it is passed on.
Dispatch(d) ==
  /\ pc[d] = "dispatch"
  /\ IF event[d].type = "error" THEN SetErr("failed") ELSE UNCHANGED firstErr
  /\ IF event[d].type = "ready"
     THEN Goto(d, "recheck") /\ answer' = [answer EXCEPT ![d] = FALSE]
     ELSE Goto(d, "lock") /\ UNCHANGED answer
  /\ UNCHANGED <<stage, event, gpuBest, runRet, callbackMu, stop, runsCancelled,
                 userCancelled, returned, sessionVars>>

\* Mutant: call without callbackMu.
LockCallback_Not(d) ==
  /\ pc[d] = "lock"
  /\ callbackMu' = TRUE
  /\ Goto(d, "emit")
  /\ UNCHANGED <<stage, event, answer, gpuBest, runRet, stop, firstErr, runsCancelled,
                 userCancelled, returned, sessionVars>>

LockCallback(d) ==
  /\ pc[d] = "lock" /\ ~callbackMu
  /\ callbackMu' = TRUE
  /\ Goto(d, "emit")
  /\ UNCHANGED <<stage, event, answer, gpuBest, runRet, stop, firstErr, runsCancelled,
                 userCancelled, returned, sessionVars>>

\* a.emit(event), then callbackMu.Unlock.
Emit(d) ==
  /\ pc[d] = "emit"
  /\ \E halt \in BOOLEAN :
       /\ answer' = [answer EXCEPT ![d] = halt]
       /\ Goto(d, IF halt THEN "stop" ELSE "recheck")
       /\ \/ event[d].type = "found" /\ OnFound(event[d].score, halt)
          \/ event[d].type = "error" /\ OnError("error", halt)
          \/ event[d].type \notin {"found", "error"} /\ ~halt /\ UNCHANGED sessionVars
  /\ callbackMu' = FALSE
  /\ UNCHANGED <<stage, event, gpuBest, runRet, stop, firstErr, runsCancelled,
                 userCancelled, returned>>

\* stopRuns under mu: the first caller marks the aggregator stopped and goes
\* on to cancel runCtx.  It is called by a stopping callback ("stop") and by
\* recordRunError ("stop_run").
MarkStopped(d) ==
  /\ pc[d] \in {"stop", "stop_run"}
  /\ stop' = TRUE
  /\ Goto(d, IF stop THEN (IF pc[d] = "stop" THEN "recheck" ELSE "done")
             ELSE (IF pc[d] = "stop" THEN "cancel" ELSE "cancel_run"))
  /\ UNCHANGED <<stage, event, answer, gpuBest, runRet, callbackMu, firstErr, runsCancelled,
                 userCancelled, returned, sessionVars>>

\* Mutant: the flag is set and runCtx is not cancelled.
CancelRuns_Not(d) ==
  /\ pc[d] \in {"cancel", "cancel_run"}
  /\ Goto(d, IF pc[d] = "cancel" THEN "recheck" ELSE "done")
  /\ UNCHANGED <<stage, event, answer, gpuBest, runRet, callbackMu, stop, firstErr, runsCancelled,
                 userCancelled, returned, sessionVars>>

CancelRuns(d) ==
  /\ pc[d] \in {"cancel", "cancel_run"}
  /\ runsCancelled' = TRUE
  /\ Goto(d, IF pc[d] = "cancel" THEN "recheck" ELSE "done")
  /\ UNCHANGED <<stage, event, answer, gpuBest, runRet, callbackMu, stop, firstErr,
                 userCancelled, returned, sessionVars>>

\* The second ctx.Err check of the callback.
Recheck(d) ==
  /\ pc[d] = "recheck"
  /\ answer' = [answer EXCEPT ![d] = @ \/ Cancelled]
  /\ Goto(d, "answered")
  /\ UNCHANGED <<stage, event, gpuBest, runRet, aggVars, userCancelled, returned, sessionVars>>

-----------------------------------------------------------------------------
(* Back in the backend, and out of runSingle.                              *)

\* A heeded non-zero answer makes provanity_cuda_run return 0 and runSingle
\* ctx.Err(); the answer to an error event is ignored, the run returns -1.
BackendResumes(d) ==
  /\ pc[d] = "answered"
  /\ event' = [event EXCEPT ![d] = NoEvent] /\ answer' = [answer EXCEPT ![d] = FALSE]
  /\ \/ /\ event[d].type = "error"
        /\ runRet' = [runRet EXCEPT ![d] = "failed"]
        /\ Goto(d, "ended") /\ UNCHANGED stage
     \/ /\ event[d].type # "error" /\ answer[d]
        /\ runRet' = [runRet EXCEPT ![d] = IF Cancelled THEN "cancelled" ELSE "nil"]
        /\ Goto(d, "ended") /\ UNCHANGED stage
     \/ /\ event[d].type # "error" /\ ~answer[d]
        /\ stage' = [stage EXCEPT ![d] = IF @ = "ready" THEN "phase" ELSE "loop"]
        /\ Goto(d, "backend") /\ UNCHANGED runRet
  /\ UNCHANGED <<gpuBest, aggVars, userCancelled, returned, sessionVars>>

\* Mutant: every error is recorded, a cancellation of our own too.
RecordRunError_All(d) ==
  /\ pc[d] = "ended"
  /\ IF runRet[d] = "nil" THEN UNCHANGED firstErr /\ Goto(d, "done")
     ELSE SetErr(runRet[d]) /\ Goto(d, "stop_run")
  /\ UNCHANGED <<stage, event, answer, gpuBest, runRet, callbackMu, stop, runsCancelled,
                 userCancelled, returned, sessionVars>>

\* recordRunError: a cancellation after agg.stop is no error.
RecordRunError(d) ==
  /\ pc[d] = "ended"
  /\ IF runRet[d] = "nil" \/ (stop /\ runRet[d] = "cancelled")
     THEN UNCHANGED firstErr /\ Goto(d, "done")
     ELSE SetErr(runRet[d]) /\ Goto(d, "stop_run")
  /\ UNCHANGED <<stage, event, answer, gpuBest, runRet, callbackMu, stop, runsCancelled,
                 userCancelled, returned, sessionVars>>

\* Mutant: a run that somebody stopped has succeeded.
ReturnValue_StopIsSuccess ==
  IF userCancelled THEN "cancelled"
  ELSE IF stop THEN "nil"
  ELSE IF \E d \in Devices : runRet[d] = "failed" THEN "failed"
  ELSE "nil"

\* What runMulti returns once wg.Wait lets it go on: ctx.Err, then the first
\* error recorded, then any left in errs.
ReturnValue ==
  IF userCancelled THEN "cancelled"
  ELSE IF firstErr # "nil" THEN firstErr
  ELSE IF \E d \in Devices : runRet[d] = "failed" THEN "failed"
  ELSE IF ~stop /\ \E d \in Devices : runRet[d] = "cancelled" THEN "cancelled"
  ELSE "nil"

\* Mutant: runMulti waits for the first goroutine only.
ReturnMulti_First ==
  /\ returned = "no"
  /\ \E d \in Devices : pc[d] = "done"
  /\ returned' = ReturnValue
  /\ EndAttempt(IF returned' = "nil" THEN "nil" ELSE "error")
  /\ UNCHANGED <<gpuVars, aggVars, userCancelled>>

\* wg.Wait, the return of runMulti, and the rest of runCUDAAttempt.
ReturnMulti ==
  /\ returned = "no"
  /\ \A d \in Devices : pc[d] = "done"
  /\ returned' = ReturnValue
  /\ EndAttempt(IF returned' = "nil" THEN "nil" ELSE "error")
  /\ UNCHANGED <<gpuVars, aggVars, userCancelled>>

\* The owner of ctx cancels: a signal, a stop command, a key in the dashboard.
UserCancels ==
  /\ ~userCancelled /\ returned = "no"
  /\ userCancelled' = TRUE
  /\ UNCHANGED <<gpuVars, aggVars, returned, sessionVars>>

\* What a goroutine does of its own accord.
Proceeds(d) ==
  \/ EmitsSetup(d) \/ EmitsProgress(d) \/ Gate(d) \/ Dispatch(d) \/ LockCallback(d) \/ Emit(d)
  \/ MarkStopped(d) \/ CancelRuns(d) \/ Recheck(d) \/ BackendResumes(d) \/ RecordRunError(d)

Next ==
  \/ \E d \in Devices : Proceeds(d) \/ EmitsFound(d) \/ EmitsError(d) \/ FailsSilently(d)
  \/ ReturnMulti \/ UserCancels

Spec == Init /\ [][Next]_vars

\* Goroutines are scheduled, rounds end and, with an interval set, the clock
\* brings the next progress event.  Nothing makes a GPU find a key, fail, or
\* the user cancel.
Fairness == (\A d \in Devices : WF_vars(Proceeds(d))) /\ WF_vars(ReturnMulti)

FairSpec == Spec /\ Fairness

-----------------------------------------------------------------------------
(* Properties.                                                             *)

\* The types of a goroutine's variables.
GpuTypeOK ==
  /\ pc \in [Devices -> {"backend", "gate", "dispatch", "lock", "emit", "stop", "cancel",
                         "recheck", "answered", "ended", "stop_run", "cancel_run", "done"}]
  /\ stage \in [Devices -> {"ready", "phase", "loop"}]
  /\ event \in [Devices -> [type : {"none", "ready", "phase", "progress", "found", "error"},
                            score : 0 .. MaxScore]]
  /\ \A d \in Devices : event[d].type = "found" => event[d].score # None
  /\ answer \in [Devices -> BOOLEAN] /\ gpuBest \in [Devices -> 0 .. MaxScore]
  /\ runRet \in [Devices -> {"no", "nil", "cancelled", "failed"}]
  /\ \A d \in Devices : pc[d] = "ended" => runRet[d] # "no"

\* The types of what the goroutines share.
AggTypeOK ==
  /\ callbackMu \in BOOLEAN /\ stop \in BOOLEAN
  /\ firstErr \in {"nil", "cancelled", "failed"}
  /\ runsCancelled \in BOOLEAN /\ userCancelled \in BOOLEAN
  /\ returned \in {"no", "nil", "cancelled", "failed"}

\* The types of the variables.
TypeOK == SessionTypeOK /\ GpuTypeOK /\ AggTypeOK

\* The session's callback, which has no lock of its own, never runs twice at
\* once although every GPU has its own thread.
CallbackSerialised == Cardinality({d \in Devices : pc[d] = "emit"}) <= 1

\* A match stops the other GPUs by cancelling their context; the context
\* errors they return for it never become the error of the run.
OwnCancelIsNoError ==
  returned \notin {"no", "nil"} => userCancelled \/ \E d \in Devices : runRet[d] = "failed"

\* A GPU that failed is never taken for one that was stopped: runMulti then
\* returns an error, even when another GPU stopped the run first.
FailureIsReturned ==
  returned = "nil" => \A d \in Devices : runRet[d] # "failed"

\* Whatever the interleaving of the GPUs' found events: what the attempt
\* returns as found is a match; as partial, the best candidate handed to the
\* session, which saw no match; it returns none only if it saw none, or
\* finalising the best one failed.
BestIsReturned ==
  /\ outcome.kind = "found" => Matched(outcome.score)
  /\ outcome.kind = "partial" => outcome.score = seen
  /\ outcome.kind \in {"partial", "none"} => ~Matched(seen)
  /\ outcome.kind = "none" => seen = None \/ Faulty

\* After the return of runMulti no straggling callback touches the session.
QuietAfterReturn == [][returned # "no" => UNCHANGED sessionVars]_vars

\* A stopped, failed or cancelled run returns.
RunReturns ==
  (userCancelled \/ stop \/ \E d \in Devices : runRet[d] = "failed") ~> (returned # "no")

\* README of the worker, line 31: the worker exits when it finds a match or
\* receives a stop command.  With the default interval of 0 a GPU that finds
\* nothing notices neither.
WorkerExits == (userCancelled \/ result # None) ~> (returned # "no")
=============================================================================
