------------------------------ MODULE Autotune ------------------------------
(***************************************************************************)
(* runCUDAAutotuned (local/run.go): one search made of many attempts.      *)
(* Every candidate set of launch parameters is probed, the best two are    *)
(* confirmed, then the search goes on with the winner until it matches or  *)
(* is stopped.  Each attempt is a run of the session's callback from       *)
(* scratch: only bestPartial, the samples and the attempt count survive.   *)
(*                                                                         *)
(* cuda.Run is that of one GPU or of several (MultiRun), reduced to its    *)
(* callbacks, made one at a time.  With several, a GPU that looked at ctx  *)
(* before the search was stopped still gets its answer: its event waits    *)
(* for callbackMu behind the one that stops the search.  cuda.Run always   *)
(* makes progress events: the search is autotuned only with an interval.   *)
(* The time and attempts carried over in cudaRunState are only shown.      *)
(***************************************************************************)
EXTENDS Session, FiniteSets, SequencesExt

CONSTANTS
  Probes,      (* onlineTuningCandidates: parameters 1..Probes are tried     *)
  Rates,       (* the hashrates a progress event may report                  *)
  MaxProgress, (* bound of the model: progress events of one attempt         *)
  GpuCounts    (* how many GPUs opts.DeviceIDs may stand for                 *)

ASSUME ProbesAssumption == Probes \in Nat \ {0}
ASSUME RatesAssumption == Rates \subseteq Nat /\ MaxProgress \in Nat
ASSUME GpuCountsAssumption == GpuCounts \subseteq Nat \ {0}

VARIABLES
  gpus,       (* the GPUs of the search                                     *)
  phase,      (* "setup", "loop", "stopping" inside cuda.Run, then "judge", "returned" *)
  live,       (* the GPUs whose backend has not ended                       *)
  attempt,    (* [stage, params]: the attempt under way                     *)
  toConfirm,  (* what is left of confirmParams                              *)
  samples,    (* the rates measured for each set of parameters              *)
  bestProbe,  (* bestProbeHashrate                                          *)
  bestPartial,(* the score of bestPartial                                   *)
  nprogress,  (* progress events of this attempt                            *)
  rate,       (* lastProgress.Hashrate                                      *)
  abandoned,  (* the probe was given up as too slow                         *)
  cudaErr,    (* the error the GPUs have left for cuda.Run to return        *)
  skipped,    (* history: attempts abandoned or out of memory               *)
  overtaken,  (* history: matches after which another GPU matched or failed *)
  saved,      (* the parameters in the profile cache, None before           *)
  cancelled,  (* whether ctx was cancelled                                  *)
  returned    (* what the search returned, Pending before                   *)

runVars == <<nprogress, rate, abandoned, cudaErr>>
tuneVars == <<attempt, toConfirm, samples, bestProbe, bestPartial, skipped, saved>>
vars == <<gpus, phase, live, runVars, tuneVars, overtaken, cancelled, returned, sessionVars>>

Params == 1 .. Probes

Attempt(stage, p) == [stage |-> stage, params |-> p]

Init ==
  /\ SessionInit
  /\ gpus \in GpuCounts /\ live = gpus
  /\ phase = "setup" /\ attempt = Attempt("probe", 1) /\ toConfirm = <<>>
  /\ samples = [p \in Params |-> <<>>] /\ bestProbe = 0 /\ bestPartial = None
  /\ nprogress = 0 /\ rate = 0 /\ abandoned = FALSE /\ cudaErr = "nil"
  /\ skipped = {} /\ overtaken = {} /\ saved = None
  /\ cancelled = FALSE /\ returned = Pending

-----------------------------------------------------------------------------
(* Inside cuda.Run.                                                        *)

Several == gpus > 1

\* An event is delivered while nobody has stopped the search, or after that
\* from a GPU that had looked at ctx before.
Delivers(phases) == (phase \in phases /\ ~cancelled) \/ (phase = "stopping" /\ live > 0)

\* A GPU's backend returns: its callback answered so, or it failed.  The
\* others are told to stop.
GpuEnds == live' = live - 1 /\ phase' = "stopping"

\* runMulti returns the first error recorded, and the order of recording is
\* not that of the callbacks.
Records(e) == cudaErr' \in {e} \cup ({cudaErr} \ {"nil"})

\* A match or an error of another GPU comes after the match in hand.
Overtakes == overtaken' = overtaken \cup ({result} \ {None})

\* Ready and the phases of the first GPU are through; its round loop begins.
SetupDone ==
  /\ phase = "setup" /\ ~cancelled
  /\ phase' = "loop"
  /\ UNCHANGED <<gpus, live, runVars, tuneVars, overtaken, cancelled, returned, sessionVars>>

\* A failing CUDA call: the buffers of a large batch do not fit, or other.
CudaError ==
  /\ Delivers({"setup", "loop"})
  /\ \E e \in Errors : OnError(e, TRUE) /\ Records(e)
  /\ GpuEnds /\ Overtakes
  /\ UNCHANGED <<gpus, nprogress, rate, abandoned, tuneVars, cancelled, returned>>

\* A failure before the first event, or one whose error event finds ctx
\* cancelled.
FailsUnheard ==
  /\ \/ phase = "setup"
     \/ phase = "loop" /\ (Several \/ cancelled)
     \/ phase = "stopping" /\ live > 0
  /\ \E e \in Errors : Records(e)
  /\ GpuEnds
  /\ UNCHANGED <<gpus, nprogress, rate, abandoned, tuneVars, overtaken, cancelled, returned,
                 sessionVars>>

\* Every GPU reports rising scores; a second one may stay behind the first.
Found ==
  /\ Delivers({"loop"})
  /\ \E s \in Scores :
       /\ Several \/ s > best
       /\ \/ OnFound(s, FALSE) /\ UNCHANGED <<phase, live, overtaken>>
          \/ OnFound(s, TRUE) /\ GpuEnds /\ Overtakes
  /\ UNCHANGED <<gpus, runVars, tuneVars, cancelled, returned>>

\* A probe is abandoned below 80% of the best one.
TooSlow(r) ==
  /\ attempt.stage = "probe" /\ nprogress' >= 3
  /\ r > 0 /\ r < (bestProbe * 80) \div 100

\* adjustCUDAEvent and stopProgress: the first event starts the window of a
\* timed attempt, a later one ends it or gives the probe up.
Progress ==
  /\ Delivers({"loop"}) /\ nprogress < MaxProgress
  /\ nprogress' = nprogress + 1
  /\ \E r \in Rates :
       /\ rate' = r
       /\ abandoned' = (abandoned \/ TooSlow(r))
       /\ \/ GpuEnds /\ (TooSlow(r) \/ (nprogress > 0 /\ attempt.stage # "final"))
          \/ ~TooSlow(r) /\ UNCHANGED <<phase, live>>
  /\ UNCHANGED <<gpus, cudaErr, tuneVars, overtaken, cancelled, returned, sessionVars>>

\* Mutant: ctx is looked at before the search only.
StopNoticed_AtSetup ==
  /\ phase = "setup" /\ cancelled
  /\ GpuEnds
  /\ UNCHANGED <<gpus, runVars, tuneVars, overtaken, cancelled, returned, sessionVars>>

\* The next callback finds ctx cancelled.
StopNoticed ==
  /\ phase \in {"setup", "loop"} /\ cancelled
  /\ GpuEnds
  /\ UNCHANGED <<gpus, runVars, tuneVars, overtaken, cancelled, returned, sessionVars>>

\* What cuda.Run returns: runMulti looks at ctx first, runSingle at its own
\* error.
RunError == IF cancelled /\ (Several \/ cudaErr = "nil") THEN "error" ELSE cudaErr

\* The GPUs that are left have noticed the stop; cuda.Run has returned.
AttemptEnds ==
  /\ phase = "stopping"
  /\ EndAttempt(RunError)
  /\ phase' = "judge" /\ live' = 0 /\ cudaErr' = "nil"
  /\ UNCHANGED <<gpus, nprogress, rate, abandoned, tuneVars, overtaken, cancelled, returned>>

-----------------------------------------------------------------------------
(* What runCUDAAutotuned makes of it.                                      *)

\* Mutant: the last partial result wins.
Better_Last(s) == s # None

\* mergePartial: whether a partial result replaces bestPartial.
Better(s) == s > bestPartial

BestPartial == IF outcome.kind = "partial" /\ Better(outcome.score) THEN outcome.score
               ELSE bestPartial

\* The variables of the attempt and what was made of it go out of scope.
Forget ==
  /\ ResetAttempt /\ outcome' = Pending
  /\ nprogress' = 0 /\ rate' = 0 /\ abandoned' = FALSE /\ UNCHANGED <<cudaErr, emitVars>>

\* finishWith.
Finish(kind, s) ==
  /\ returned' = IF kind \in {"found", "partial"} /\ (kind = "found" \/ s >= bestPartial')
                 THEN [kind |-> kind, score |-> s]
                 ELSE IF bestPartial' # None THEN [kind |-> "partial", score |-> bestPartial']
                 ELSE [kind |-> "error", score |-> None]
  /\ phase' = "returned" /\ Forget
  /\ UNCHANGED <<live, attempt, toConfirm, saved>>

\* The next attempt starts.
Start(stage, p) ==
  /\ attempt' = Attempt(stage, p)
  /\ phase' = "setup" /\ live' = gpus
  /\ Forget /\ UNCHANGED returned

Measured(f) == {p \in Params : f[p] # <<>>}

\* medianUint64 of at most two samples: the lower one.
Median(f, p) == CHOOSE r \in ToSet(f[p]) : \A q \in ToSet(f[p]) : r <= q

\* topTuningParams: by falling rate, the earlier probe first, two at most.
\* There is just one such list.
TopParams(f) ==
  LET Before(p, q) == Median(f, p) > Median(f, q) \/ (Median(f, p) = Median(f, q) /\ p < q)
      n == IF Cardinality(Measured(f)) > 2 THEN 2 ELSE Cardinality(Measured(f))
  IN  {list \in [1 .. n -> Measured(f)] :
         \A i \in 1 .. n : Cardinality({q \in Measured(f) : Before(q, list[i])}) = i - 1}

\* bestTuningParams ranges over a map: any of the best is taken.
BestParams(f) == {p \in Measured(f) : \A q \in Measured(f) : Median(f, q) <= Median(f, p)}

\* The search proper, with the best parameters saved, or with the defaults.
StartFinal(f) ==
  /\ \/ Measured(f) = {} /\ Start("final", None) /\ UNCHANGED saved
     \/ \E p \in BestParams(f) : Start("final", p) /\ saved' \in {saved, p}   \* saving may fail
  /\ UNCHANGED toConfirm

\* The next probe; after the last one the confirmations, then the search.
StartNext(f) ==
  \/ /\ attempt.stage = "probe" /\ attempt.params < Probes
     /\ Start("probe", attempt.params + 1) /\ UNCHANGED <<toConfirm, saved>>
  \/ /\ attempt.stage = "probe" => attempt.params = Probes
     /\ \E list \in IF attempt.stage = "probe" THEN TopParams(f) ELSE {toConfirm} :
          IF list # <<>>
          THEN Start("confirm", Head(list)) /\ toConfirm' = Tail(list) /\ UNCHANGED saved
          ELSE StartFinal(f)

\* An attempt that failed: out of memory skips the parameters of a probe or
\* confirmation, whatever the attempt has announced; anything else ends the
\* search.
JudgeError ==
  /\ phase = "judge" /\ outcome.kind \in Errors
  /\ UNCHANGED <<gpus, bestPartial, samples, bestProbe, overtaken, cancelled>>
  /\ IF outcome.kind = "memory" /\ attempt.stage # "final"
     THEN StartNext(samples) /\ skipped' = skipped \cup {attempt}
     ELSE Finish("error", None) /\ UNCHANGED skipped

\* A match, or the end of the last attempt.
JudgeLast ==
  /\ phase = "judge" /\ outcome.kind \notin Errors
  /\ attempt.stage = "final" \/ outcome.kind = "found"
  /\ UNCHANGED <<gpus, bestPartial, samples, bestProbe, skipped, overtaken, cancelled>>
  /\ Finish(outcome.kind, outcome.score)

\* Mutant: an abandoned probe leaves its sample.
Samples_Abandoned ==
  IF rate > 0 THEN [samples EXCEPT ![attempt.params] = Append(@, rate)] ELSE samples

\* An abandoned probe, or an attempt without progress, leaves no sample.
Samples ==
  IF rate > 0 /\ ~abandoned THEN [samples EXCEPT ![attempt.params] = Append(@, rate)]
  ELSE samples

\* Mutant: an abandoned probe goes on to the next without a look at ctx.
StopsHere_NotAbandoned == cancelled /\ ~abandoned

\* ctx.Err after a probe or a confirmation.
StopsHere == cancelled

\* A timed attempt that ended without a match.
JudgeTimed ==
  /\ phase = "judge" /\ outcome.kind \in {"partial", "none"} /\ attempt.stage # "final"
  /\ bestPartial' = BestPartial
  /\ samples' = Samples
  /\ bestProbe' = IF attempt.stage = "probe" /\ ~abandoned /\ rate > bestProbe THEN rate
                  ELSE bestProbe
  /\ skipped' = IF abandoned THEN skipped \cup {attempt} ELSE skipped
  /\ IF StopsHere THEN Finish("error", None) ELSE StartNext(Samples)
  /\ UNCHANGED <<gpus, overtaken, cancelled>>

UserCancels ==
  /\ ~cancelled /\ phase # "returned"
  /\ cancelled' = TRUE
  /\ UNCHANGED <<gpus, phase, live, runVars, tuneVars, overtaken, returned, sessionVars>>

Proceeds ==
  SetupDone \/ Progress \/ StopNoticed \/ AttemptEnds \/ JudgeError \/ JudgeLast \/ JudgeTimed

Next == Proceeds \/ CudaError \/ FailsUnheard \/ Found \/ UserCancels

Spec == Init /\ [][Next]_vars

\* The search goes on by itself; what is found, what fails and when it is
\* cancelled is not up to it.
FairSpec == Spec /\ WF_vars(Proceeds)

-----------------------------------------------------------------------------
(* Properties.                                                             *)

\* A match that was announced and that another GPU then replaced by its own
\* match or by an error.
Lost(s) == Several /\ Matched(s) /\ s \in overtaken

\* Every attempt announces its result, then forgets it; what the search
\* returns is at least as good as anything that was announced.  With several
\* GPUs a match may be lost, but only to the later match or error of another.
AnnouncedIsKept ==
  phase = "returned" =>
    \A s \in announced : s <= returned.score \/ Lost(s)

\* Parameters that were too slow or did not fit in memory when probed are
\* neither confirmed nor searched with, nor saved for later searches.
SkippedNeverChosen ==
  /\ Attempt("probe", saved) \notin skipped
  /\ attempt.stage # "probe" => Attempt("probe", attempt.params) \notin skipped

\* After a match no further attempt starts, nor after a cancellation, except
\* that an attempt that ran out of memory makes way for one more.  That error
\* follows a match only when it is another GPU's and waited behind it.
NoFurtherAttempt ==
  [][attempt' # attempt =>
       /\ \A s \in announced : Matched(s) => Lost(s)
       /\ cancelled \/ result # None => outcome.kind = "memory"]_vars

\* A cancelled search returns.
CancelReturns == cancelled ~> phase = "returned"

\* The comment at local/run.go:143: parameters that run out of memory are
\* unusable and skipped.  The sample of the probe outlives a confirmation
\* that ran out of memory.
OutOfMemoryIsUnusable ==
  attempt.stage = "final" => Attempt("confirm", attempt.params) \notin skipped
=============================================================================
