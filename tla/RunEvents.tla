------------------------------ MODULE RunEvents ------------------------------
(***************************************************************************)
(* What a search tells its host: the events local.Run (local/run.go)       *)
(* passes to `emit`, one at a time, and the outcome it returns.  The       *)
(* dashboard and the worker are the two hosts.  MultiRun and Autotune look *)
(* into the attempts; here an attempt announces its parameters, sets up,   *)
(* searches, and leaves a match, a partial result or nothing.              *)
(*                                                                         *)
(* With several GPUs, one whose callback looked at ctx before the search   *)
(* was stopped still gets its turn: its event comes after the match, the   *)
(* error or the cancellation, and may change what the attempt comes to.    *)
(* How many there are is left open.                                        *)
(*                                                                         *)
(* A result is its score, 0 for none; a match is one of at least           *)
(* TargetScore.                                                            *)
(***************************************************************************)
EXTENDS Integers

CONSTANTS
  Attempts,    (* attempts of the search; all but the last are tuning probes*)
  TargetScore, (* Pattern.TargetScore()                                     *)
  MaxScore,    (* greatest score of an address                              *)
  Several      (* whether several GPUs search                               *)

ASSUME SearchAssumption ==
  /\ Attempts \in Nat \ {0} /\ TargetScore \in Nat \ {0} /\ MaxScore \in Nat
  /\ TargetScore <= MaxScore /\ Several \in BOOLEAN

VARIABLES
  at,       (* "announce", "setup", "search", "found", "matched", "ended",  *)
            (* "returned"                                                   *)
  attempt,  (* the current attempt                                          *)
  best,     (* bestScore of the attempt                                     *)
  kept,     (* bestPartial of the attempts so far                           *)
  settled,  (* "no", or what the attempt comes to: a result, "match", or a  *)
            (* runErr, "error" or "memory"                                  *)
  sending,  (* the event handed to emit                                     *)
  outcome,  (* what Run returned                                            *)
  canceled  (* its context is cancelled                                     *)

runVars == <<at, attempt, best, kept, settled, sending, outcome>>

-----------------------------------------------------------------------------
Kinds == {"active", "skipped", "selected", "default", "ready", "phase", "progress",
          "found", "candidate", "result", "error"}

Event(kind, score) == [kind |-> kind, score |-> score]
NoEvent == Event("none", 0)

Outcome(score, err) == [result |-> score, err |-> err]
NoOutcome == Outcome(0, "none")
IsPartial(score) == score > 0 /\ score < TargetScore
IsMatch(score)   == score >= TargetScore

Better(x, y) == IF x >= y THEN x ELSE y

RunInit ==
  /\ at = "announce" /\ attempt = 1 /\ best = 0 /\ kept = 0 /\ settled = "no"
  /\ sending = NoEvent /\ outcome = NoOutcome /\ canceled = FALSE

-----------------------------------------------------------------------------
\* The next event is emitted when emit has returned.
Ready == sending = NoEvent
Emits(kind, score) == sending' = Event(kind, score)

\* An event of the backend: its callback answers a cancelled context with a
\* stop and passes nothing on, and makes no event once it was stopped, but
\* for those of other GPUs that wait for their turn.
Heard(kind, score) ==
  /\ Several \/ (~canceled /\ settled = "no")
  /\ Emits(kind, score)

\* Mutant: an error hides the partial result.
Returns_ErrorFirst(score, err) ==
  /\ outcome' = Outcome(IF err = "none" THEN score ELSE 0, err)
  /\ at' = "returned"

\* finishWith: a result hides the error.
Returns(score, err) ==
  /\ outcome' = Outcome(score, IF score > 0 THEN "none" ELSE err)
  /\ at' = "returned"

\* emitTuning before an attempt: a probe is active, the last attempt has
\* selected or default parameters.
Announces ==
  /\ at = "announce" /\ Ready
  /\ \/ attempt < Attempts /\ Emits("active", 0)
     \/ attempt = Attempts /\ \E kind \in {"selected", "default"} : Emits(kind, 0)
  /\ at' = "setup" /\ best' = 0 /\ settled' = "no"
  /\ UNCHANGED <<attempt, kept, outcome>>

\* The ready event and the phases of the backend.  suppressRepeatedReady lets
\* the first ready event through, which need not be of the first attempt.
SetsUp ==
  /\ at = "setup" /\ Ready
  /\ \/ \E kind \in {"phase", "ready"} : Heard(kind, 0) /\ UNCHANGED at
     \/ at' = "search" /\ UNCHANGED sending
  /\ UNCHANGED <<attempt, best, kept, settled, outcome>>

Progresses ==
  /\ at = "search" /\ Ready /\ Heard("progress", 0)
  /\ UNCHANGED <<at, attempt, best, kept, settled, outcome>>

\* A FOUND event that beats the best one or matches is followed by the
\* candidate event, once it has been sent.  Each GPU's scores rise.
Finds ==
  /\ at = "search" /\ Ready
  /\ \E score \in 1 .. MaxScore :
       /\ Several \/ score > best
       /\ Heard("found", score)
       /\ \/ (score > best \/ IsMatch(score)) /\ best' = score /\ at' = "found"
          \/ ~(score > best \/ IsMatch(score)) /\ UNCHANGED <<best, at>>
  /\ UNCHANGED <<attempt, kept, settled, outcome>>

Proposes ==
  /\ at = "found" /\ Ready /\ Emits("candidate", best)
  /\ at' = IF IsMatch(best) THEN "matched" ELSE "search"
  /\ UNCHANGED <<attempt, best, kept, settled, outcome>>

\* finalizeCUDAResult and writeResult: the result, which also clears an
\* earlier error, or an error, which also drops a result emitted before.
Finalises ==
  /\ at = "matched" /\ Ready /\ at' = "search"
  /\ \/ Emits("result", best) /\ settled' = "match"
     \/ UNCHANGED sending /\ settled' = "error"
  /\ UNCHANGED <<attempt, best, kept, outcome>>

\* An error event of the backend; a probe survives one for lack of memory.
Breaks ==
  /\ at \in {"setup", "search"} /\ Ready /\ Heard("error", 0) /\ at' = "search"
  /\ settled' = "error" \/ (attempt < Attempts /\ settled' = "memory")
  /\ UNCHANGED <<attempt, best, kept, outcome>>

\* cuda.Run has returned, after a match, an error, or for lack of memory.
Matches ==
  /\ at = "search" /\ settled = "match" /\ Ready /\ Returns(best, "none")
  /\ UNCHANGED <<attempt, best, kept, settled, sending>>

Fails ==
  /\ at = "search" /\ settled = "error" /\ Ready /\ Returns(kept, "failed")
  /\ UNCHANGED <<attempt, best, kept, settled, sending>>

Skips ==
  /\ at = "search" /\ settled = "memory" /\ Ready /\ Emits("skipped", 0)
  /\ at' = "announce" /\ attempt' = attempt + 1
  /\ UNCHANGED <<best, kept, settled, outcome>>

\* Or else: it is cancelled, its window is over, or the backend returned.
\* The best candidate becomes a partial result unless it cannot be finalised.
Ends ==
  /\ at = "search" /\ settled = "no" /\ Ready /\ at' = "ended"
  /\ \/ best > 0 /\ Emits("result", best) /\ kept' = Better(best, kept)
     \/ UNCHANGED <<sending, kept>>
  /\ UNCHANGED <<attempt, best, settled, outcome>>

\* After an attempt: the next one, unless the search is cancelled or failed.
\* An abandoned probe is announced as skipped.
Continues ==
  /\ at = "ended" /\ Ready /\ UNCHANGED <<best, kept, settled>>
  /\ UNCHANGED sending \/ (attempt < Attempts /\ Emits("skipped", 0))
  /\ \/ canceled /\ Returns(kept, "canceled") /\ UNCHANGED attempt
     \/ ~canceled /\ Returns(kept, "failed") /\ UNCHANGED attempt
     \/ /\ ~canceled /\ attempt < Attempts
        /\ at' = "announce" /\ attempt' = attempt + 1 /\ UNCHANGED outcome

\* What the search does without waiting for a GPU.
RunGoesOn ==
  \/ Announces \/ Proposes \/ Finalises \/ Matches \/ Fails \/ Skips \/ Continues
  \/ SetsUp /\ at' = "search"

RunNext ==
  \/ Announces \/ SetsUp \/ Progresses \/ Finds \/ Proposes \/ Finalises
  \/ Breaks \/ Matches \/ Fails \/ Skips \/ Ends \/ Continues
=============================================================================
