------------------------------ MODULE Session ------------------------------
(***************************************************************************)
(* One search attempt as the host program sees it: the callback that       *)
(* runCUDAAttempt (local/run.go) hands to cuda.Run, and what it makes of   *)
(* the attempt when cuda.Run has returned.  MultiRun and Autotune drive    *)
(* it.  The callback is not safe for concurrent use: each operator below   *)
(* is one whole call of it.                                                *)
(*                                                                         *)
(* A candidate, a result and a result file are named by their score; None  *)
(* stands for a missing one.  Finalising a candidate or writing a file may *)
(* fail.  An error is "memory" if its text says out of memory, else        *)
(* "error".                                                                *)
(***************************************************************************)
EXTENDS Naturals

CONSTANTS
  TargetScore,  (* opts.Pattern.TargetScore(): the least score of a match *)
  MaxScore,     (* the best score: a leading run may be longer than asked for *)
  WithOutput,   (* opts.OutputPath # ""                             *)
  Faulty        (* whether finalising and writing may fail          *)

ASSUME TargetAssumption ==
  TargetScore \in Nat \ {0} /\ MaxScore \in Nat /\ MaxScore >= TargetScore
ASSUME OutputAssumption == WithOutput \in BOOLEAN /\ Faulty \in BOOLEAN

VARIABLES
  best,          (* bestScore and bestEvent                               *)
  result,        (* the result of a match                                 *)
  runErr,        (* runErr, "nil" for none                                *)
  outcome,       (* what runCUDAAttempt returned last                     *)
  seen,          (* history: the best score of the attempt's found events *)
  announced,     (* history: the scores of all result events              *)
  file           (* what the output file holds                            *)

attemptVars == <<best, result, runErr, seen>>
emitVars    == <<announced, file>>
sessionVars == <<attemptVars, outcome, emitVars>>

Scores == 1 .. MaxScore
None   == 0
\* os.WriteFile truncates first: a failed write leaves neither old nor new.
Damaged == MaxScore + 1

Matched(s) == s >= TargetScore

Errors == {"memory", "error"}

Pending == [kind |-> "pending", score |-> None]

AttemptInit == best = None /\ result = None /\ runErr = "nil" /\ seen = None

SessionInit ==
  /\ AttemptInit /\ outcome = Pending
  /\ announced = {} /\ file = None

\* The variables a new attempt starts with; what was emitted stays emitted.
ResetAttempt == best' = None /\ result' = None /\ runErr' = "nil" /\ seen' = None

\* writeResult: nothing without an output path.
Write(s, ok) ==
  file' = IF ~WithOutput THEN file ELSE IF ok THEN s ELSE Damaged

\* The emission of a result event.
EmitResult(s) == announced' = announced \cup {s}

\* Mutant: the last candidate wins.
OnImprovement_Always(s) == best' = s

\* A better score, or any match, even one behind the best, becomes the best;
\* it is emitted as a candidate event.
OnImprovement(s) == best' = IF s > best \/ Matched(s) THEN s ELSE best

\* A FoundEvent; `stop` is the callback's answer.  Finalising a match assigns
\* both result and runErr: one that succeeds clears an earlier error.
OnFound(s, stop) ==
  /\ OnImprovement(s)
  /\ seen' = IF s > seen THEN s ELSE seen
  /\ stop = Matched(s)
  /\ UNCHANGED outcome
  /\ \/ ~Matched(s) /\ UNCHANGED <<result, runErr, announced, file>>
     \/ /\ Matched(s) /\ Faulty   \* finalizeCUDAResult fails
        /\ result' = None /\ runErr' = "error"
        /\ UNCHANGED <<announced, file>>
     \/ /\ Matched(s) /\ WithOutput /\ Faulty   \* writeResult fails
        /\ result' = s /\ runErr' = "error"
        /\ Write(s, FALSE)
        /\ UNCHANGED announced
     \/ /\ Matched(s)
        /\ result' = s /\ runErr' = "nil"
        /\ Write(s, TRUE)
        /\ EmitResult(s)

\* An ErrorEvent of text e.
OnError(e, stop) ==
  /\ stop = TRUE
  /\ runErr' = e
  /\ UNCHANGED <<best, result, seen, outcome, emitVars>>

\* After cuda.Run has returned err.  A run error comes first, then a match,
\* then the best candidate as a partial result (its file may fail unnoticed),
\* then the error of cuda.Run.
EndAttempt(err) ==
  LET Done(kind, s) == outcome' = [kind |-> kind, score |-> s]
      Failed == Done(IF err = "nil" THEN "none" ELSE err, None) /\ UNCHANGED emitVars
  IN
  /\ UNCHANGED attemptVars
  /\ \/ runErr # "nil" /\ Done(runErr, None) /\ UNCHANGED emitVars
     \/ runErr = "nil" /\ result # None /\ Done("found", result) /\ UNCHANGED emitVars
     \/ /\ runErr = "nil" /\ result = None /\ best # None
        /\ \/ Faulty /\ Failed
           \/ /\ Done("partial", best)
              /\ \E ok \in BOOLEAN : (ok \/ Faulty) /\ Write(best, ok)
              /\ EmitResult(best)
     \/ runErr = "nil" /\ result = None /\ best = None /\ Failed

OutcomeKinds == {"pending", "memory", "error", "found", "partial", "none"}

SessionTypeOK ==
  /\ best \in 0 .. MaxScore /\ result \in 0 .. MaxScore /\ runErr \in {"nil"} \cup Errors
  /\ outcome \in [kind : OutcomeKinds, score : 0 .. MaxScore]
  /\ seen \in 0 .. MaxScore /\ announced \subseteq 0 .. MaxScore
  /\ file \in 0 .. Damaged
=============================================================================
