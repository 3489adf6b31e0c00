----------------------------- MODULE Benchmark ------------------------------
(***************************************************************************)
(* Benchmark (local/benchmark.go) and the panel that shows it              *)
(* (cli/bench.go).  Unless the parameters are given, every candidate is    *)
(* probed, the best are confirmed forwards and then backwards, the best of *)
(* the confirmed ones is measured, and, once that has succeeded, saved.    *)
(* Each of these is one cuda.Run, reduced to its progress and error events *)
(* on their way from the GPUs to the callback; the first progress event    *)
(* delivered is the warm-up.                                               *)
(*                                                                         *)
(* A GPU looks at ctx and, when there are several, computes the aggregated *)
(* event under mu; the callback is made later, under callbackMu.  So       *)
(* events may be delivered in another order than they were computed in,    *)
(* and after the one that stops the search.                                *)
(***************************************************************************)
EXTENDS ProfileCache

CONSTANTS
  Candidates,  (* tuningCandidates: parameters 1 .. Candidates              *)
  Confirms,    (* the limit of topTuningParams: 3                           *)
  Rates,       (* the hashrates a progress event may report                 *)
  Duration,    (* of a sample or of the measurement, in units of time       *)
  GpuCounts,   (* how many GPUs opts.DeviceIDs may stand for                *)
  Bench        (* the benchmark's process                                   *)

ASSUME BenchAssumption ==
  /\ Bench \in Processes \ Others /\ Params = 1 .. Candidates
  /\ Candidates \in Nat /\ Confirms \in Nat
  /\ Duration \in Nat \ {0} /\ Rates \subseteq Nat \ {0} /\ GpuCounts \subseteq Nat \ {0}

VARIABLES
  stage,     (* "start", "idle", "running", "tuned", "measuring", "complete" or "failed" *)
  source,    (* paramSource: "manual", "default" or "autotune"              *)
  sample,    (* the sample under way: its round, index and parameters       *)
  top,       (* topParams, in the order of the confirmations to come        *)
  gpu,       (* [g]: what GPU g is doing in this cuda.Run                   *)
  clock,     (* the largest of elapsedMS                                    *)
  n,         (* progress events delivered, the third standing for all later *)
  first,     (* ElapsedMS of firstProgress                                  *)
  abandoned, (* abandoned                                                   *)
  failed,    (* runErr, or the error that cuda.Run returns                  *)
  samples,   (* [params -> the hashrates of its samples]                    *)
  confirmed, (* the parameters with a sample of the round "confirm"         *)
  bestProbe, (* bestProbeHashrate                                           *)
  chosen,    (* the parameters and the rate selected                        *)
  given,     (* history: the samples given up or failed                     *)
  canceled,  (* ctx                                                         *)
  panel      (* benchmarkLiveRenderer                                       *)

sampleVars == <<sample, top, samples, confirmed, bestProbe, given>>
runVars == <<gpu, clock, n, first, abandoned, failed>>
benchVars == <<stage, source, sampleVars, runVars, chosen, canceled, panel>>
vars == <<benchVars, cacheVars>>

NoSample == [round |-> "none", index |-> 0, count |-> 0, params |-> NoParams]
NoChoice == [params |-> NoParams, rate |-> 0]

\* In cuda.Run, its event before the callback, or its backend has ended.
Searching == [state |-> "searching", elapsed |-> 0]
Reporting(elapsed) == [state |-> "reporting", elapsed |-> elapsed]
Failing == [state |-> "failing", elapsed |-> 0]
Ended == [state |-> "ended", elapsed |-> 0]

GPUs == DOMAIN gpu

Init ==
  /\ CacheInit
  /\ stage = "start" /\ source = "default" /\ sample = NoSample /\ top = <<>>
  /\ \E count \in GpuCounts : gpu = [g \in 1 .. count |-> Searching]
  /\ clock = 0 /\ n = 0 /\ first = 0 /\ abandoned = FALSE /\ failed = FALSE
  /\ samples = [p \in Params |-> <<>>] /\ confirmed = {} /\ bestProbe = 0 /\ chosen = NoChoice
  /\ given = {} /\ canceled = FALSE
  /\ panel = [state |-> "none", round |-> "none", index |-> 0, total |-> 0, tuned |-> 0,
              status |-> "starting", error |-> FALSE]

-----------------------------------------------------------------------------
(* The panel.                                                              *)

\* updateTuning.
Tunes(shown, state, at, elapsed) ==
  [shown EXCEPT !.state = state, !.round = at.round, !.index = at.index, !.total = at.count,
                !.tuned = elapsed,
                !.status = IF state = "active" THEN "autotune" ELSE state]

\* updateGPU: a progress event.  The status of a ReadyEvent counts as "starting".
ShowsProgress(shown) ==
  [shown EXCEPT !.status = IF @ \in {"starting", "selected", "default"} THEN "benchmarking" ELSE @]

\* updateGPU: an error event.
ShowsError(shown) == [shown EXCEPT !.error = TRUE, !.status = "error"]

Capped(x) == IF x > Duration THEN Duration ELSE x

IsAutotuning(shown) == shown.state \in {"active", "sampled", "skipped"}

\* Mutant: a skipped sample does not count.
Bar_SkippedIsNone(shown) ==
  LET part == IF shown.state = "sampled" THEN Duration ELSE Capped(shown.tuned) IN
  (shown.index - 1) * Duration + part

\* progressRatio while tuning, in parts of total * Duration.
Bar(shown) ==
  LET part == IF shown.state \in {"sampled", "skipped"} THEN Duration ELSE Capped(shown.tuned) IN
  (shown.index - 1) * Duration + part

-----------------------------------------------------------------------------
(* What the samples say.                                                   *)

\* medianUint64: the middle one in rising order, the lower one of two.
Median(rates) ==
  LET middle == (Len(rates) + 1) \div 2 IN
  CHOOSE r \in ToSet(rates) :
    /\ Cardinality({i \in DOMAIN rates : rates[i] < r}) < middle
    /\ middle <= Cardinality({i \in DOMAIN rates : rates[i] <= r})

Sampled(S) == {p \in S : samples[p] # <<>>}

\* topTuningParams sorts by falling rate, the earlier candidate first.
Before(p, q) ==
  \/ Median(samples[p]) > Median(samples[q])
  \/ Median(samples[p]) = Median(samples[q]) /\ p < q

Rank(p) == Cardinality({q \in Sampled(Params) : Before(q, p)})

TopParams ==
  LET best == {p \in Sampled(Params) : Rank(p) < Confirms}
  IN [i \in 1 .. Cardinality(best) |-> CHOOSE p \in best : Rank(p) = i - 1]

\* bestTuningParams ranges over a map: any of the best is taken.
BestOf(S) == {p \in Sampled(S) : \A q \in Sampled(S) : Median(samples[q]) <= Median(samples[p])}

\* Mutant: the best of all samples, the probes' included.
BestConfirmed_All == BestOf(Params)

\* bestConfirmedTuningParams: without a confirmation the best of the probes.
BestConfirmed == BestOf(IF confirmed = {} THEN Params ELSE confirmed)

-----------------------------------------------------------------------------
(* cuda.Run, and the callback of runBenchmarkFixed.                        *)

CacheUnchanged == UNCHANGED cacheVars

Several == Cardinality(GPUs) > 1

Running == stage \in {"running", "measuring"}

\* The first GPU to end, or to fail, stops the others.
Stopped == \E g \in GPUs : gpu[g] = Ended

Sets(g, state) == gpu' = [gpu EXCEPT ![g] = state]

\* A GPU looks at ctx and has something to say.
Speaks(g) == Running /\ ~canceled /\ ~Stopped /\ g \in GPUs /\ gpu[g] = Searching

\* emitProgress computes the largest elapsed time.  GPU 1 began first: its
\* clock is ahead, so that its report raises the largest one; that of
\* another may.
Reports(g) ==
  /\ Speaks(g)
  /\ clock' = clock + 1 \/ (g # 1 /\ clock' = clock)
  /\ Sets(g, Reporting(clock'))
  /\ UNCHANGED <<stage, source, sampleVars, n, first, abandoned, failed, chosen, canceled, panel>>
  /\ CacheUnchanged

Breaks(g) ==
  /\ Speaks(g)
  /\ Sets(g, Failing)
  /\ UNCHANGED <<stage, source, sampleVars, clock, n, first, abandoned, failed, chosen, canceled, panel>>
  /\ CacheUnchanged

\* runBenchmarkFixed gives up a probe below 80% of the best one.
TooSlow(rate) ==
  sample.round = "probe" /\ n' >= 3 /\ rate < (bestProbe * 80) \div 100

\* The first progress event starts the window.
Counts(elapsed) ==
  /\ n' = IF n < 3 THEN n + 1 ELSE n
  /\ first' = IF n = 0 THEN elapsed ELSE first

\* benchmarkWindowElapsed: without a later elapsed time the host's clock
\* decides.
WindowOver(elapsed) ==
  IF n = 0 THEN {FALSE} ELSE IF elapsed > first THEN {elapsed - first >= Duration} ELSE BOOLEAN

\* The callback is made with a progress event.
Progress(g) ==
  /\ Running /\ g \in GPUs /\ gpu[g].state = "reporting"
  /\ LET elapsed == gpu[g].elapsed IN
     /\ Counts(elapsed)
     /\ \E rate \in Rates, over \in WindowOver(elapsed) :
          /\ abandoned' = (abandoned \/ TooSlow(rate))
          /\ Sets(g, IF TooSlow(rate) \/ over \/ Stopped \/ canceled THEN Ended ELSE Searching)
     /\ panel' = IF stage = "running" THEN Tunes(ShowsProgress(panel), "active", sample, elapsed)
                 ELSE ShowsProgress(panel)
  /\ UNCHANGED <<stage, source, sampleVars, clock, failed, chosen, canceled>> /\ CacheUnchanged

\* The callback is made with an error event.
TellsError(g) ==
  /\ Running /\ g \in GPUs /\ gpu[g] = Failing
  /\ Sets(g, Ended) /\ failed' = TRUE
  /\ panel' = ShowsError(panel)
  /\ UNCHANGED <<stage, source, sampleVars, clock, n, first, abandoned, chosen, canceled>>
  /\ CacheUnchanged

\* A GPU fails without an error event that is heard, or a minute passes
\* without the window being over.
FailsUnheard(g) ==
  /\ Running /\ g \in GPUs /\ gpu[g] = Searching
  /\ Sets(g, Ended) /\ failed' = TRUE
  /\ UNCHANGED <<stage, source, sampleVars, clock, n, first, abandoned, chosen, canceled, panel>>
  /\ CacheUnchanged

\* Mutant: stopRuns does not cancel; a GPU that is searching goes on.
AllThrough_NotCancelled == \A g \in GPUs : gpu[g] = Ended

\* No event is on its way any more; the GPUs still searching find ctx
\* cancelled.
AllThrough == \A g \in GPUs : gpu[g] \in {Searching, Ended}

\* cuda.Run returns.  It, its callback and their variables are gone.
RunReturns ==
  /\ canceled \/ Stopped
  /\ AllThrough
  /\ gpu' = [g \in GPUs |-> Searching]
  /\ clock' = 0 /\ n' = 0 /\ first' = 0 /\ abandoned' = FALSE /\ failed' = FALSE

-----------------------------------------------------------------------------
(* The samples.                                                            *)

\* The flags, and whether there is a device to tune for.
Starts ==
  /\ stage = "start"
  /\ \/ stage' = "idle" /\ source' = "autotune" /\ UNCHANGED panel
     \/ stage' = "tuned" /\ source' = "manual" /\ UNCHANGED panel
     \/ /\ stage' = "tuned" /\ UNCHANGED source
        /\ panel' = Tunes(panel, "default", NoSample, 0)
  /\ UNCHANGED <<sampleVars, runVars, chosen, canceled>> /\ CacheUnchanged

\* The sample that comes next: the next candidate; each of the best, then
\* each of them again in reverse order; none when all are through.
NextSample ==
  LET confirms == IF sample.round = "confirm" THEN top
                  ELSE TopParams \o Reverse(TopParams)
      index == IF sample.round = "confirm" THEN sample.index + 1 ELSE 1
  IN
  IF sample.round # "confirm" /\ sample.index < Candidates
  THEN [at |-> [round |-> "probe", index |-> sample.index + 1, count |-> Candidates,
                params |-> sample.index + 1],
        rest |-> top]
  ELSE IF confirms = <<>> THEN [at |-> NoSample, rest |-> <<>>]
  ELSE [at |-> [round |-> "confirm", index |-> index, count |-> index - 1 + Len(confirms),
                params |-> Head(confirms)],
        rest |-> Tail(confirms)]

\* runAutotuneSample begins.
StartsSample ==
  /\ stage = "idle" /\ NextSample.at # NoSample
  /\ stage' = "running" /\ sample' = NextSample.at /\ top' = NextSample.rest
  /\ panel' = Tunes(panel, "active", NextSample.at, 0)
  /\ UNCHANGED <<source, samples, confirmed, bestProbe, given, runVars, chosen, canceled>>
  /\ CacheUnchanged

\* The sample under way was given up.
GivesUp ==
  /\ given' = given \cup {sample}
  /\ UNCHANGED <<samples, confirmed, bestProbe>>

\* The window's rate (benchmarkResult) is added to the samples.
Takes(rate) ==
  /\ samples' = [samples EXCEPT ![sample.params] = Append(@, rate)]
  /\ confirmed' = IF sample.round = "confirm" THEN confirmed \cup {sample.params} ELSE confirmed
  /\ bestProbe' = IF sample.round = "probe" /\ rate > bestProbe THEN rate ELSE bestProbe
  /\ UNCHANGED given

\* runAutotuneSample ends: sampled, abandoned or not, or skipped.
SampleEnds ==
  /\ stage = "running" /\ ~canceled /\ RunReturns
  /\ stage' = "idle"
  /\ panel' = Tunes(panel, IF failed THEN "skipped" ELSE "sampled", sample, 0)
  /\ IF failed \/ abandoned THEN GivesUp ELSE \E rate \in Rates : Takes(rate)
  /\ UNCHANGED <<source, sample, top, chosen, canceled>> /\ CacheUnchanged

\* autotuneBenchmark is over.
Selects ==
  /\ stage = "idle" /\ NextSample.at = NoSample
  /\ stage' = "tuned"
  /\ \/ \E p \in BestConfirmed :
          /\ chosen' = [params |-> p, rate |-> Median(samples[p])]
          /\ panel' = Tunes(panel, "selected", NoSample, 0)
          /\ UNCHANGED source
     \/ /\ BestConfirmed = {} /\ source' = "default"
        /\ panel' = Tunes(panel, "default", NoSample, 0)
        /\ UNCHANGED chosen
  /\ UNCHANGED <<sampleVars, runVars, canceled>> /\ CacheUnchanged

-----------------------------------------------------------------------------
(* The measurement.                                                        *)

\* autotuneBenchmark has returned; its samples are only shown from here on.
Forgets ==
  /\ sample' = NoSample /\ samples' = [p \in Params |-> <<>>] /\ confirmed' = {} /\ given' = {}
  /\ bestProbe' = 0 /\ top' = <<>>

Measures ==
  /\ stage = "tuned"
  /\ stage' = "measuring" /\ Forgets
  /\ UNCHANGED <<source, runVars, chosen, canceled, panel>> /\ CacheUnchanged

\* Mutant: what was selected is saved though its measurement failed.
SavedBy_Always(stop) == source = "autotune"

\* Whether the end of the measurement saves: only a success does.
SavedBy(stop) == source = "autotune" /\ stop = "complete"

Ends(stop) ==
  /\ stage' = IF stop = "complete" THEN "complete" ELSE "failed"
  /\ panel' = [panel EXCEPT !.status = stop, !.error = @ \/ stop = "error", !.state = "none"]
  /\ IF SavedBy(stop)
     THEN /\ saving' = [saving EXCEPT ![Bench] = "reads"]
          /\ tuned' = [tuned EXCEPT ![Bench] = chosen.params]
     ELSE UNCHANGED <<saving, tuned>>
  /\ \E k \in Keys :
       /\ key' = [key EXCEPT ![Bench] = k]
       /\ measured' = IF stop = "complete" THEN measured \cup {<<k, chosen.params>>} ELSE measured
  /\ UNCHANGED <<file, cache, using, expected, spoilt>>

\* The measurement has ended, or a cancellation was noticed by any cuda.Run.
RunEnds ==
  /\ stage = "measuring" \/ (stage = "running" /\ canceled)
  /\ RunReturns
  /\ Ends(IF failed \/ canceled THEN "error" ELSE "complete")
  /\ Forgets
  /\ UNCHANGED <<source, chosen, canceled>>

Cancels ==
  /\ ~canceled /\ canceled' = TRUE
  /\ UNCHANGED <<stage, source, sampleVars, runVars, chosen, panel>> /\ CacheUnchanged

\* GPU g goes on: it reports, and the callback answers.
GpuRuns(g) == Reports(g) \/ Progress(g) \/ TellsError(g)

BenchRuns ==
  \/ Starts \/ StartsSample \/ SampleEnds \/ Selects \/ Measures \/ RunEnds
  \/ (\E g \in GPUs : GpuRuns(g))
  \/ (Saves(Bench) /\ UNCHANGED benchVars)

\* What other processes did before is in the contents the file may hold.
Interferes ==
  /\ stage = "complete"
  /\ \E p \in Others : Saves(p) \/ \E k \in Keys : Resolves(p, k)
  /\ UNCHANGED benchVars

Next ==
  \/ BenchRuns \/ Cancels \/ Interferes
  \/ \E g \in GPUs : Breaks(g) \/ FailsUnheard(g)

Spec == Init /\ [][Next]_vars

\* The benchmark goes on; GPU 1, whose clock is ahead, reports and is heard.
FairSpec == Spec /\ WF_vars(BenchRuns) /\ WF_vars(GpuRuns(1))

-----------------------------------------------------------------------------
(* Properties.                                                             *)

\* The parameters selected stood the test: they were never given up, and they
\* were confirmed if any were; parameters that were always faster must have
\* failed a confirmation; the rate saved with them was reached in at least
\* half of their samples.
ChosenStoodTheTest ==
  (stage = "tuned" /\ source = "autotune") =>
    LET p == chosen.params IN
    /\ \A s \in given : s.params = p => s.round = "confirm"
    /\ confirmed # {} => p \in confirmed
    /\ \A q \in Sampled(Params) :
         (\A i \in DOMAIN samples[p], j \in DOMAIN samples[q] : samples[p][i] < samples[q][j])
           => \E s \in given : s.round = "confirm" /\ s.params = q
    /\ 2 * Cardinality({i \in DOMAIN samples[p] : samples[p][i] >= chosen.rate}) >= Len(samples[p])

\* The progress bar of a round of tuning never goes back, over samples that
\* are taken, given up or skipped, but for one cause: of several GPUs one had
\* computed its event earlier, and it is delivered in the same sample after a
\* later one.
BarFallsOnlyToLateProgress ==
  [][(/\ IsAutotuning(panel) /\ IsAutotuning(panel') /\ panel.round = panel'.round
      /\ Bar(panel') < Bar(panel))
       => /\ Several /\ stage = "running" /\ UNCHANGED sample
          /\ \E g \in GPUs : /\ gpu[g].state = "reporting" /\ gpu'[g].state # "reporting"
                             /\ gpu[g].elapsed < panel.tuned /\ panel'.tuned = gpu[g].elapsed]_vars

\* What the cache holds, and what a search takes from it, was measured on a
\* device of that key: a selection whose measurement fails is not saved.
CacheHoldsMeasured ==
  /\ \A k \in Keys : Entry(k) # NoParams => <<k, Entry(k)>> \in measured
  /\ \A p \in Others : using[p].source = "cache" => <<key[p], using[p].params>> \in measured

\* The benchmark comes to its end, whatever samples fail, and so does its save.
BenchEnds == <>(stage \in {"complete", "failed"} /\ saving[Bench] = "no")
=============================================================================
