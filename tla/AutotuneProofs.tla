--------------------------- MODULE AutotuneProofs ---------------------------
(***************************************************************************)
(* Proofs about Autotune, for any number of probes, any scores, any rates, *)
(* any number of progress events and any number of GPUs: what was          *)
(* announced is returned, no attempt follows a match or a cancellation,    *)
(* and parameters that failed their probe are never chosen.  With several  *)
(* GPUs an announced match may be lost, and an attempt may follow it, but  *)
(* only when the match or the error of another one came after it.          *)
(***************************************************************************)
EXTENDS Autotune, FiniteSetTheorems, TLAPS

-----------------------------------------------------------------------------
(* What the session has in its hands.                                      *)

HandsOK ==
  /\ best \in 0 .. MaxScore /\ result \in 0 .. MaxScore /\ runErr \in {"nil"} \cup Errors
  /\ outcome \in [kind : OutcomeKinds, score : 0 .. MaxScore]
  /\ announced \subseteq 0 .. MaxScore
  /\ cudaErr \in {"nil"} \cup Errors

LEMMA OnFoundHands ==
  ASSUME HandsOK, NEW s \in Scores, NEW halt \in BOOLEAN, OnFound(s, halt), cudaErr' = cudaErr
  PROVE  HandsOK'
<1>1. best' \in 0 .. MaxScore /\ outcome' = outcome
  BY TargetAssumption DEF OnFound, OnImprovement, HandsOK, Scores
<1>2. \/ ~Matched(s) /\ UNCHANGED <<result, runErr, announced>>
      \/ /\ Matched(s) /\ result' \in {None, s} /\ runErr' \in {"nil", "error"}
         /\ UNCHANGED announced \/ EmitResult(s)
  BY DEF OnFound
<1>3. s \in 0 .. MaxScore /\ None \in 0 .. MaxScore
  BY TargetAssumption DEF Scores, None
<1>4. result' \in 0 .. MaxScore
  BY <1>2, <1>3 DEF HandsOK
<1>5. runErr' \in {"nil"} \cup Errors
  BY <1>2 DEF HandsOK, Errors
<1>6. announced' \subseteq 0 .. MaxScore
  BY <1>2, <1>3 DEF EmitResult, HandsOK
<1> QED
  BY <1>1, <1>4, <1>5, <1>6 DEF HandsOK

LEMMA EndAttemptHands ==
  ASSUME HandsOK, NEW err \in {"nil"} \cup Errors, EndAttempt(err), cudaErr' = "nil"
  PROVE  HandsOK'
<1>1. /\ UNCHANGED attemptVars
      /\ outcome' \in [kind : OutcomeKinds, score : 0 .. MaxScore]
  BY TargetAssumption DEF EndAttempt, HandsOK, None, Errors, OutcomeKinds
<1>2. UNCHANGED announced \/ EmitResult(best)
  BY DEF EndAttempt, emitVars
<1>3. announced' \subseteq 0 .. MaxScore
  BY <1>2 DEF EmitResult, HandsOK
<1> QED
  BY <1>1, <1>3 DEF attemptVars, HandsOK

LEMMA UnchangedHands == HandsOK /\ UNCHANGED <<sessionVars, cudaErr>> => HandsOK'
  BY DEF HandsOK, sessionVars, attemptVars, emitVars

-----------------------------------------------------------------------------
(* The announced results.                                                  *)

\* An announced score that nobody can lose any more, or that is lost already.
Settled(s) == s <= bestPartial \/ Lost(s)

\* Once a GPU has ended, one that is left is one of several.
GpusInv ==
  /\ gpus \in Nat \ {0}
  /\ phase \in {"setup", "loop"} => live = gpus
  /\ phase = "stopping" => live \in Int /\ live < gpus

\* Before the callback has seen a match.
SearchingInv ==
  phase \in {"setup", "loop"} =>
    /\ result = None /\ runErr = "nil" /\ best < TargetScore
    /\ \A s \in announced : Settled(s)

\* The search is being stopped: what is not settled is the match in hand.
StoppingInv ==
  phase = "stopping" =>
    /\ result = None \/ result >= TargetScore
    /\ runErr = "nil" /\ result = None => best < TargetScore
    /\ \A s \in announced : Settled(s) \/ (s = result /\ runErr = "nil")

\* The attempt has its outcome, which stands for what is not settled.
OutcomeInv ==
  /\ outcome.kind \in Errors \cup {"found", "partial", "none"}
  /\ outcome.kind = "found" => outcome.score >= TargetScore
  /\ outcome.kind = "partial" => outcome.score < TargetScore
  /\ outcome.kind \in {"partial", "none"} => result = None
  /\ \A s \in announced :
       Settled(s) \/ (s = outcome.score /\ outcome.kind \in {"found", "partial"})

\* What was announced is settled, or is what the search has in its hands.
KeptInv ==
  /\ HandsOK /\ GpusInv
  /\ phase \in {"setup", "loop", "stopping", "judge", "returned"}
  /\ bestPartial \in 0 .. MaxScore /\ bestPartial < TargetScore
  /\ SearchingInv /\ StoppingInv
  /\ phase = "judge" => OutcomeInv
  /\ AnnouncedIsKept

LEMMA InitKept == Init => KeptInv
<1> SUFFICES ASSUME Init PROVE KeptInv
  OBVIOUS
<1>1. /\ phase = "setup" /\ bestPartial = 0 /\ cudaErr = "nil" /\ result = 0
      /\ runErr = "nil" /\ best = 0 /\ announced = {} /\ live = gpus /\ gpus \in Nat \ {0}
  BY GpuCountsAssumption DEF Init, SessionInit, AttemptInit, None
<1>2. outcome \in [kind : OutcomeKinds, score : 0 .. MaxScore]
  BY TargetAssumption DEF Init, SessionInit, Pending, None, OutcomeKinds
<1>3. 0 \in 0 .. MaxScore /\ 0 < TargetScore
  BY TargetAssumption
<1>4. HandsOK
  BY <1>1, <1>2, <1>3 DEF HandsOK
<1> QED
  BY <1>1, <1>3, <1>4
     DEF KeptInv, GpusInv, SearchingInv, StoppingInv, AnnouncedIsKept, None

\* What is settled stays so.
LEMMA SettledStays ==
  ASSUME gpus' = gpus, overtaken \subseteq overtaken', bestPartial \in Nat, bestPartial' \in Nat,
         bestPartial <= bestPartial', NEW s \in Nat, Settled(s)
  PROVE  Settled(s)'
<1>1. CASE Lost(s)
  BY <1>1 DEF Settled, Lost, Several, Matched
<1>2. CASE s <= bestPartial
  BY <1>2 DEF Settled
<1> QED
  BY <1>1, <1>2 DEF Settled

\* The match in hand is lost when another GPU's answer comes after it.
LEMMA OvertakenIsLost ==
  ASSUME Overtakes, gpus' = gpus, Several, NEW s \in Nat, s = result, s # None, Matched(s)
  PROVE  Lost(s)'
  BY DEF Overtakes, Lost, Several, Matched

LEMMA EndingGpu ==
  ASSUME GpusInv, gpus' = gpus, GpuEnds,
         phase \in {"setup", "loop"} \/ (phase = "stopping" /\ live > 0)
  PROVE  GpusInv' /\ phase' = "stopping" /\ (phase = "stopping" => Several)
  BY DEF GpusInv, GpuEnds, Several

-----------------------------------------------------------------------------
(* Inside cuda.Run.                                                        *)

\* A step inside cuda.Run that leaves the session alone.
LEMMA QuietStepKeeps ==
  ASSUME KeptInv, UNCHANGED <<sessionVars, gpus, bestPartial, overtaken, returned>>,
         cudaErr' \in {"nil"} \cup Errors,
         phase \in {"setup", "loop", "stopping"},
         \/ UNCHANGED <<phase, live>>
         \/ phase = "setup" /\ phase' = "loop" /\ UNCHANGED live
         \/ GpuEnds /\ (phase = "stopping" => live > 0)
  PROVE  KeptInv'
<1>1. UNCHANGED <<best, result, runErr, outcome, announced>>
  BY DEF sessionVars, attemptVars, emitVars
<1>2. HandsOK'
  BY <1>1 DEF KeptInv, HandsOK
<1>3. GpusInv' /\ phase' \in {"setup", "loop", "stopping"} /\ (phase' # "stopping" => phase # "stopping")
  <2>1. CASE GpuEnds /\ (phase = "stopping" => live > 0)
    BY <2>1, EndingGpu DEF KeptInv
  <2>2. CASE UNCHANGED <<phase, live>> \/ (phase = "setup" /\ phase' = "loop" /\ UNCHANGED live)
    BY <2>2 DEF KeptInv, GpusInv
  <2> QED
    BY <2>1, <2>2
<1>4. \A s \in announced : Settled(s)' <=> Settled(s)
  BY DEF Settled, Lost, Several, Matched
<1> QED
  BY <1>1, <1>2, <1>3, <1>4 DEF KeptInv, SearchingInv, StoppingInv, AnnouncedIsKept

\* An error event: the callback stops the search, and a match in hand is lost.
LEMMA ErrorKeeps ==
  ASSUME KeptInv, CudaError
  PROVE  KeptInv'
<1>1. PICK e \in Errors : OnError(e, TRUE) /\ Records(e)
  BY DEF CudaError
<1>2. /\ UNCHANGED <<gpus, bestPartial, returned>> /\ GpuEnds /\ Overtakes
      /\ phase \in {"setup", "loop"} \/ (phase = "stopping" /\ live > 0)
  BY DEF CudaError, Delivers, tuneVars
<1>3. UNCHANGED <<best, result, announced, outcome>> /\ runErr' = e
  BY <1>1 DEF OnError, emitVars
<1>4. e # "nil" /\ cudaErr' \in {"nil"} \cup Errors
  BY <1>1 DEF Errors, Records, KeptInv, HandsOK
<1>5. HandsOK'
  BY <1>3, <1>4 DEF KeptInv, HandsOK
<1>6. GpusInv' /\ phase' = "stopping" /\ (phase = "stopping" => Several)
  BY <1>2, EndingGpu DEF KeptInv
<1>7. ASSUME NEW s \in announced PROVE Settled(s)'
  <2>1. s \in Nat /\ bestPartial \in Nat /\ overtaken \subseteq overtaken'
    BY <1>2 DEF KeptInv, HandsOK, Overtakes
  <2>2. CASE Settled(s)
    BY <2>1, <2>2, <1>2, SettledStays
  <2>3. CASE ~Settled(s)
    <3>1. phase = "stopping" /\ s = result
      BY <2>3, <1>2 DEF KeptInv, SearchingInv, StoppingInv
    <3>2. result # None
      BY <3>1, <2>1, <2>3 DEF Settled, None
    <3>3. Matched(s)
      BY <3>1, <3>2 DEF KeptInv, StoppingInv, Matched
    <3>4. Lost(s)'
      BY <2>1, <3>1, <3>2, <3>3, <1>2, <1>6, OvertakenIsLost
    <3> QED
      BY <3>4 DEF Settled
  <2> QED
    BY <2>2, <2>3
<1>8. result = None \/ result >= TargetScore
  BY <1>2 DEF KeptInv, SearchingInv, StoppingInv
<1>9. StoppingInv'
  BY <1>3, <1>4, <1>7, <1>8 DEF StoppingInv
<1> QED
  BY <1>2, <1>5, <1>6, <1>9 DEF KeptInv, SearchingInv, AnnouncedIsKept

LEMMA FoundKeeps ==
  ASSUME KeptInv, Found
  PROVE  KeptInv'
<1>1. PICK s \in Scores :
        \/ OnFound(s, FALSE) /\ UNCHANGED <<phase, live, overtaken>>
        \/ OnFound(s, TRUE) /\ GpuEnds /\ Overtakes
  BY DEF Found
<1>2. /\ UNCHANGED <<gpus, bestPartial, returned, cudaErr>>
      /\ phase = "loop" \/ (phase = "stopping" /\ live > 0)
  BY DEF Found, Delivers, runVars, tuneVars
<1>3. HandsOK'
  BY <1>1, <1>2, OnFoundHands DEF KeptInv
<1>4. /\ s \in Nat /\ TargetScore \in Nat \ {0} /\ best \in Nat /\ bestPartial \in Nat
      /\ announced \subseteq Nat /\ bestPartial < TargetScore
  BY TargetAssumption DEF Scores, KeptInv, HandsOK
<1>5. CASE OnFound(s, FALSE) /\ UNCHANGED <<phase, live, overtaken>>
  <2>1. ~Matched(s) /\ UNCHANGED <<result, runErr, announced, outcome>>
    BY <1>5 DEF OnFound
  <2>2. best' = s \/ best' = best
    BY <1>5 DEF OnFound, OnImprovement
  <2>3. best < TargetScore => best' < TargetScore
    BY <2>1, <2>2, <1>4 DEF Matched
  <2>4. \A t \in announced : Settled(t)' <=> Settled(t)
    BY <1>2, <1>5 DEF Settled, Lost, Several, Matched
  <2> QED
    BY <2>1, <2>3, <2>4, <1>2, <1>3, <1>5
       DEF KeptInv, GpusInv, SearchingInv, StoppingInv, AnnouncedIsKept
<1>6. CASE OnFound(s, TRUE) /\ GpuEnds /\ Overtakes
  <2>1. GpusInv' /\ phase' = "stopping" /\ (phase = "stopping" => Several)
    BY <1>2, <1>6, EndingGpu DEF KeptInv
  <2>2. Matched(s) /\ s >= TargetScore
    BY <1>6 DEF OnFound, Matched
  <2>3. \/ result' = None /\ runErr' = "error" /\ announced' = announced
        \/ result' = s /\ runErr' = "error" /\ announced' = announced
        \/ result' = s /\ runErr' = "nil" /\ announced' = announced \cup {s}
    BY <1>6, <2>2 DEF OnFound, EmitResult
  <2>4. ASSUME NEW t \in announced PROVE Settled(t)'
    <3>1. t \in Nat /\ overtaken \subseteq overtaken'
      BY <1>4, <1>6 DEF Overtakes
    <3>2. CASE Settled(t)
      BY <3>1, <3>2, <1>2, <1>4, SettledStays
    <3>3. CASE ~Settled(t)
      <4>1. phase = "stopping" /\ t = result
        BY <3>3, <1>2 DEF KeptInv, SearchingInv, StoppingInv
      <4>2. result # None
        BY <4>1, <3>1, <3>3, <1>4 DEF Settled, None
      <4>3. Matched(result)
        BY <4>1, <4>2 DEF KeptInv, StoppingInv, Matched
      <4>4. Several /\ t \in overtaken' /\ Matched(t)
        BY <4>1, <4>2, <4>3, <1>6, <2>1 DEF Overtakes
      <4> QED
        BY <4>4, <1>2 DEF Settled, Lost, Several, Matched
    <3> QED
      BY <3>2, <3>3
  <2>5. result' = None \/ result' >= TargetScore
    BY <2>2, <2>3
  <2>6. \A t \in announced' : Settled(t)' \/ (t = result' /\ runErr' = "nil")
    BY <2>3, <2>4
  <2>7. runErr' = "nil" => result' # None
    BY <2>2, <2>3, <1>4 DEF None
  <2>8. StoppingInv'
    BY <2>5, <2>6, <2>7 DEF StoppingInv
  <2> QED
    BY <2>1, <2>8, <1>2, <1>3 DEF KeptInv, SearchingInv, AnnouncedIsKept
<1> QED
  BY <1>1, <1>5, <1>6

\* The outcome of an attempt stands for all it has announced.
LEMMA EndKeeps ==
  ASSUME KeptInv, AttemptEnds
  PROVE  KeptInv'
<1>1. /\ EndAttempt(RunError) /\ phase = "stopping" /\ phase' = "judge"
      /\ UNCHANGED <<best, result, runErr, gpus, bestPartial, overtaken, returned>>
      /\ cudaErr' = "nil"
  BY DEF AttemptEnds, EndAttempt, attemptVars, tuneVars
<1>2. RunError \in {"nil"} \cup Errors
  BY DEF RunError, Errors, KeptInv, HandsOK
<1>3. HandsOK'
  BY <1>1, <1>2, EndAttemptHands DEF KeptInv
<1>4. /\ result = None \/ result >= TargetScore
      /\ runErr = "nil" /\ result = None => best < TargetScore
      /\ \A s \in announced : Settled(s) \/ (s = result /\ runErr = "nil")
      /\ announced \subseteq Nat /\ bestPartial \in Nat /\ runErr \in {"nil"} \cup Errors
  BY <1>1 DEF KeptInv, HandsOK, StoppingInv
<1>5. \A s : Settled(s)' <=> Settled(s)
  BY <1>1 DEF Settled, Lost, Several, Matched
<1>6. OutcomeInv'
  <2>1. CASE runErr # "nil" /\ outcome' = [kind |-> runErr, score |-> None] /\ UNCHANGED emitVars
    BY <2>1, <1>4, <1>5 DEF OutcomeInv, emitVars, Errors
  <2>2. CASE runErr = "nil" /\ result # None /\ UNCHANGED emitVars
             /\ outcome' = [kind |-> "found", score |-> result]
    BY <2>2, <1>4, <1>5 DEF OutcomeInv, emitVars, Errors
  <2>3. ASSUME runErr = "nil", result = None PROVE \A s \in announced : Settled(s)
    BY <2>3, <1>4 DEF Settled, None
  <2>4. CASE runErr = "nil" /\ result = None /\ UNCHANGED emitVars
             /\ outcome' = [kind |-> IF RunError = "nil" THEN "none" ELSE RunError, score |-> None]
    BY <2>3, <2>4, <1>1, <1>2, <1>5 DEF OutcomeInv, emitVars, Errors
  <2>5. CASE runErr = "nil" /\ result = None /\ EmitResult(best)
             /\ outcome' = [kind |-> "partial", score |-> best]
    <3>1. announced' = announced \cup {best} /\ best < TargetScore
      BY <2>5, <1>4 DEF EmitResult
    <3> QED
      BY <2>3, <2>5, <3>1, <1>1, <1>5 DEF OutcomeInv, Errors
  <2> QED
    BY <2>1, <2>2, <2>4, <2>5, <1>1 DEF EndAttempt
<1> QED
  BY <1>1, <1>3, <1>6 DEF KeptInv, GpusInv, SearchingInv, StoppingInv, AnnouncedIsKept

-----------------------------------------------------------------------------
(* What runCUDAAutotuned makes of it.                                      *)

\* The end of the search returns the best of its outcome and bestPartial.
LEMMA FinishKeeps ==
  ASSUME KeptInv, phase = "judge", NEW kind, NEW s \in 0 .. MaxScore, Finish(kind, s),
         UNCHANGED <<gpus, overtaken>>,
         bestPartial' \in 0 .. MaxScore, bestPartial' < TargetScore,
         kind = "found" => s >= TargetScore,
         \A t \in announced :
           t <= bestPartial' \/ Lost(t) \/ (kind \in {"found", "partial"} /\ t = s)
  PROVE  KeptInv'
<1>1. /\ phase' = "returned" /\ UNCHANGED <<announced, cudaErr>> /\ outcome' = Pending
      /\ best' = None /\ result' = None /\ runErr' = "nil"
      /\ returned' = IF kind \in {"found", "partial"} /\ (kind = "found" \/ s >= bestPartial')
                     THEN [kind |-> kind, score |-> s]
                     ELSE IF bestPartial' # None THEN [kind |-> "partial", score |-> bestPartial']
                     ELSE [kind |-> "error", score |-> None]
  BY DEF Finish, Forget, ResetAttempt, emitVars
<1>2. HandsOK'
  <2>1. None \in 0 .. MaxScore
    BY TargetAssumption DEF None
  <2> QED
    BY <2>1, <1>1 DEF HandsOK, KeptInv, Pending, OutcomeKinds
<1>3. announced \subseteq Nat /\ bestPartial' \in Nat /\ s \in Nat /\ TargetScore \in Nat
  BY TargetAssumption DEF KeptInv, HandsOK
<1>4. /\ returned'.score >= bestPartial' /\ returned'.score \in Nat
      /\ kind \in {"found", "partial"} => returned'.score >= s
  <2>1. CASE kind \in {"found", "partial"} /\ (kind = "found" \/ s >= bestPartial')
    <3>1. returned'.score = s
      BY <2>1, <1>1
    <3>2. s >= bestPartial'
      BY <2>1, <1>3
    <3> QED
      BY <3>1, <3>2, <1>3
  <2>2. CASE ~(kind \in {"found", "partial"} /\ (kind = "found" \/ s >= bestPartial'))
    <3>1. returned'.score = bestPartial'
      BY <2>2, <1>1 DEF None
    <3> QED
      BY <2>2, <3>1, <1>3
  <2> QED
    BY <2>1, <2>2
<1>5. ASSUME NEW t \in announced PROVE t <= returned'.score \/ Lost(t)'
  <2>1. Lost(t) => Lost(t)'
    BY DEF Lost, Several, Matched
  <2>2. t <= bestPartial' => t <= returned'.score
    BY <1>3, <1>4
  <2> QED
    BY <2>1, <2>2, <1>3, <1>4
<1>6. AnnouncedIsKept'
  BY <1>1, <1>5 DEF AnnouncedIsKept
<1> QED
  BY <1>1, <1>2, <1>6 DEF KeptInv, GpusInv, SearchingInv, StoppingInv

\* A new attempt starts from nothing but what is kept.
LEMMA StartKeeps ==
  ASSUME KeptInv, phase = "judge", NEW stage, NEW p, Start(stage, p),
         UNCHANGED <<gpus, overtaken>>,
         bestPartial' \in 0 .. MaxScore, bestPartial' < TargetScore,
         \A t \in announced : t <= bestPartial' \/ Lost(t)
  PROVE  KeptInv'
<1>1. /\ phase' = "setup" /\ best' = 0 /\ result' = None /\ runErr' = "nil"
      /\ outcome' = Pending /\ UNCHANGED <<cudaErr, announced, returned>> /\ live' = gpus
  BY DEF Start, Forget, ResetAttempt, emitVars, None
<1>2. 0 \in 0 .. MaxScore /\ None = 0 /\ 0 < TargetScore
  BY TargetAssumption DEF None
<1>3. HandsOK'
  BY <1>1, <1>2 DEF HandsOK, KeptInv, Pending, OutcomeKinds
<1>4. ASSUME NEW t \in announced PROVE Settled(t)'
  BY DEF Settled, Lost, Several, Matched
<1>5. SearchingInv' /\ GpusInv'
  BY <1>1, <1>2, <1>4 DEF SearchingInv, GpusInv, KeptInv
<1> QED
  BY <1>1, <1>3, <1>5 DEF KeptInv, StoppingInv, AnnouncedIsKept

LEMMA StartNextStarts ==
  ASSUME NEW f, StartNext(f)
  PROVE  \E stage, p : Start(stage, p)
  BY DEF StartNext, StartFinal

LEMMA JudgeErrorKeeps ==
  ASSUME KeptInv, JudgeError
  PROVE  KeptInv'
<1>1. /\ phase = "judge" /\ outcome.kind \in Errors /\ UNCHANGED <<gpus, overtaken, bestPartial>>
      /\ StartNext(samples) \/ Finish("error", None)
  BY DEF JudgeError
<1>2. /\ bestPartial' \in 0 .. MaxScore /\ bestPartial' < TargetScore
      /\ \A t \in announced : t <= bestPartial' \/ Lost(t)
  BY <1>1 DEF KeptInv, OutcomeInv, Settled, Errors
<1>3. CASE StartNext(samples)
  <2>1. PICK stage, p : Start(stage, p)
    BY <1>3, StartNextStarts
  <2> QED
    BY <2>1, <1>1, <1>2, StartKeeps
<1>4. CASE Finish("error", None)
  <2>1. None \in 0 .. MaxScore
    BY TargetAssumption DEF None
  <2> QED
    BY <2>1, <1>1, <1>2, <1>4, FinishKeeps
<1> QED
  BY <1>1, <1>3, <1>4

LEMMA JudgeLastKeeps ==
  ASSUME KeptInv, JudgeLast
  PROVE  KeptInv'
<1>1. /\ phase = "judge" /\ UNCHANGED <<gpus, overtaken, bestPartial>>
      /\ Finish(outcome.kind, outcome.score)
  BY DEF JudgeLast
<1>2. OutcomeInv /\ outcome.score \in 0 .. MaxScore
      /\ bestPartial' \in 0 .. MaxScore /\ bestPartial' < TargetScore
  BY <1>1 DEF KeptInv, HandsOK
<1>3. /\ outcome.kind = "found" => outcome.score >= TargetScore
      /\ \A t \in announced :
           \/ t <= bestPartial' \/ Lost(t)
           \/ outcome.kind \in {"found", "partial"} /\ t = outcome.score
  BY <1>1, <1>2 DEF OutcomeInv, Settled
<1> QED
  BY <1>1, <1>2, <1>3, FinishKeeps

LEMMA JudgeTimedKeeps ==
  ASSUME KeptInv, JudgeTimed
  PROVE  KeptInv'
<1>1. /\ phase = "judge" /\ outcome.kind \in {"partial", "none"} /\ bestPartial' = BestPartial
      /\ StartNext(Samples) \/ Finish("error", None)
      /\ UNCHANGED <<gpus, overtaken>>
  BY DEF JudgeTimed
<1>2. OutcomeInv /\ outcome.score \in 0 .. MaxScore /\ bestPartial \in 0 .. MaxScore
      /\ bestPartial < TargetScore /\ announced \subseteq Nat /\ TargetScore \in Nat
  BY <1>1, TargetAssumption DEF KeptInv, HandsOK
<1>3. bestPartial' = IF outcome.kind = "partial" /\ outcome.score > bestPartial THEN outcome.score
                     ELSE bestPartial
  BY <1>1 DEF BestPartial, Better
<1>4. bestPartial' \in 0 .. MaxScore /\ bestPartial' < TargetScore
  BY <1>2, <1>3 DEF OutcomeInv
<1>5. ASSUME NEW t \in announced PROVE t <= bestPartial' \/ Lost(t)
  <2>1. bestPartial' >= bestPartial /\ (outcome.kind = "partial" => bestPartial' >= outcome.score)
    BY <1>2, <1>3
  <2>2. t <= bestPartial \/ Lost(t) \/ (t = outcome.score /\ outcome.kind = "partial")
    BY <1>1, <1>2 DEF OutcomeInv, Settled
  <2> QED
    BY <2>1, <2>2, <1>2, <1>4
<1>6. CASE StartNext(Samples)
  <2>1. PICK stage, p : Start(stage, p)
    BY <1>6, StartNextStarts
  <2> QED
    BY <2>1, <1>1, <1>4, <1>5, StartKeeps
<1>7. CASE Finish("error", None)
  <2>1. None \in 0 .. MaxScore
    BY TargetAssumption DEF None
  <2> QED
    BY <2>1, <1>1, <1>4, <1>5, <1>7, FinishKeeps
<1> QED
  BY <1>1, <1>6, <1>7

\* A cancellation, or no step at all.
LEMMA StutterKeeps ==
  ASSUME KeptInv,
         UNCHANGED <<gpus, phase, live, sessionVars, bestPartial, cudaErr, overtaken, returned>>
  PROVE  KeptInv'
<1>1. HandsOK'
  BY UnchangedHands DEF KeptInv
<1>2. UNCHANGED <<best, result, runErr, outcome, announced>>
  BY DEF sessionVars, attemptVars, emitVars
<1>3. \A s : (Settled(s)' <=> Settled(s)) /\ (Lost(s)' <=> Lost(s))
  BY DEF Settled, Lost, Several, Matched
<1> QED
  BY <1>1, <1>2, <1>3
     DEF KeptInv, GpusInv, SearchingInv, StoppingInv, OutcomeInv, AnnouncedIsKept

LEMMA NextKeeps == KeptInv /\ [Next]_vars => KeptInv'
<1> SUFFICES ASSUME KeptInv, [Next]_vars PROVE KeptInv'
  OBVIOUS
<1> DEFINE Quiet == /\ UNCHANGED <<sessionVars, gpus, bestPartial, overtaken, returned>>
                    /\ cudaErr' \in {"nil"} \cup Errors
<1>1. cudaErr \in {"nil"} \cup Errors
  BY DEF KeptInv, HandsOK
<1>2. CASE SetupDone
  <2>1. Quiet /\ phase = "setup" /\ phase' = "loop" /\ UNCHANGED live
    BY <1>1, <1>2 DEF SetupDone, runVars, tuneVars
  <2> QED
    BY <2>1, QuietStepKeeps
<1>3. CASE Progress
  <2>1. /\ Quiet /\ phase \in {"loop", "stopping"} /\ (phase = "stopping" => live > 0)
        /\ GpuEnds \/ UNCHANGED <<phase, live>>
    BY <1>1, <1>3 DEF Progress, Delivers, tuneVars
  <2> QED
    BY <2>1, QuietStepKeeps
<1>4. CASE StopNoticed
  <2>1. Quiet /\ phase \in {"setup", "loop"} /\ GpuEnds
    BY <1>1, <1>4 DEF StopNoticed, runVars, tuneVars
  <2> QED
    BY <2>1, QuietStepKeeps
<1>5. CASE FailsUnheard
  <2>1. cudaErr' \in {"nil"} \cup Errors
    BY <1>1, <1>5 DEF FailsUnheard, Records
  <2>2. /\ Quiet /\ phase \in {"setup", "loop", "stopping"} /\ (phase = "stopping" => live > 0)
        /\ GpuEnds
    BY <2>1, <1>5 DEF FailsUnheard, tuneVars
  <2> QED
    BY <2>2, QuietStepKeeps
<1>6. CASE UserCancels \/ UNCHANGED vars
  <2>1. UNCHANGED <<gpus, phase, live, sessionVars, bestPartial, cudaErr, overtaken, returned>>
    BY <1>6 DEF UserCancels, vars, runVars, tuneVars
  <2> QED
    BY <2>1, StutterKeeps
<1>7. CASE CudaError
  BY <1>7, ErrorKeeps
<1>8. CASE Found
  BY <1>8, FoundKeeps
<1>9. CASE AttemptEnds
  BY <1>9, EndKeeps
<1>10. CASE JudgeError \/ JudgeLast \/ JudgeTimed
  BY <1>10, JudgeErrorKeeps, JudgeLastKeeps, JudgeTimedKeeps
<1> QED
  BY <1>2, <1>3, <1>4, <1>5, <1>6, <1>7, <1>8, <1>9, <1>10 DEF Next, Proceeds

\* KeptInv is inductive.
THEOREM KeptInductive == Spec => []KeptInv
  BY InitKept, NextKeeps, PTL DEF Spec

\* What the search returns is at least as good as anything any of its attempts
\* announced, however many GPUs, probes, failures and cancellations there were,
\* but for a match after which another GPU matched or failed.
THEOREM NothingAnnouncedIsLost == Spec => []AnnouncedIsKept
<1>1. KeptInv => AnnouncedIsKept
  BY DEF KeptInv
<1> QED
  BY <1>1, KeptInductive, PTL

\* The attempts stop where the search has its match or is cancelled, unless
\* the last one ran out of memory: after a match, that of another GPU.
THEOREM AttemptsStop == Spec => NoFurtherAttempt
<1> DEFINE Stops == /\ \A s \in announced : Matched(s) => Lost(s)
                    /\ cancelled \/ result # None => outcome.kind = "memory"
<1>1. ASSUME KeptInv, Next, attempt' # attempt
      PROVE  Stops
  <2>1. ASSUME phase = "judge", outcome.kind # "found"
        PROVE  \A s \in announced : Matched(s) => Lost(s)
    <3>1. OutcomeInv /\ bestPartial < TargetScore /\ bestPartial \in Nat /\ announced \subseteq Nat
          /\ TargetScore \in Nat /\ outcome.score \in Nat
      BY <1>1, <2>1, TargetAssumption DEF KeptInv, HandsOK
    <3>2. ASSUME NEW s \in announced, s >= TargetScore
          PROVE  Lost(s)
      <4>1. ~(s <= bestPartial) /\ ~(s = outcome.score /\ outcome.kind = "partial")
        BY <3>1, <3>2 DEF OutcomeInv
      <4> QED
        BY <4>1, <3>1, <2>1 DEF OutcomeInv, Settled
    <3> QED
      BY <3>2 DEF Matched
  <2>2. CASE JudgeError
    <3>1. outcome.kind = "memory" /\ phase = "judge"
      BY <1>1, <2>2 DEF JudgeError, Finish
    <3> QED
      BY <2>1, <3>1
  <2>3. CASE JudgeLast
    BY <1>1, <2>3 DEF JudgeLast, Finish
  <2>4. CASE JudgeTimed
    <3>1. phase = "judge" /\ outcome.kind \in {"partial", "none"} /\ ~cancelled
      BY <1>1, <2>4 DEF JudgeTimed, StopsHere, Finish
    <3>2. result = None
      BY <1>1, <3>1 DEF KeptInv, OutcomeInv
    <3> QED
      BY <2>1, <3>1, <3>2
  <2>5. CASE SetupDone \/ Progress \/ StopNoticed \/ AttemptEnds
    BY <1>1, <2>5 DEF SetupDone, Progress, StopNoticed, AttemptEnds, tuneVars
  <2>6. CASE CudaError \/ FailsUnheard \/ Found \/ UserCancels
    BY <1>1, <2>6 DEF CudaError, FailsUnheard, Found, UserCancels, tuneVars
  <2> QED
    BY <1>1, <2>2, <2>3, <2>4, <2>5, <2>6 DEF Next, Proceeds
<1>2. KeptInv /\ [Next]_vars => [attempt' # attempt => Stops]_vars
  BY <1>1
<1> QED
  BY <1>2, KeptInductive, PTL DEF Spec, NoFurtherAttempt

-----------------------------------------------------------------------------
(* The parameters that failed their probe.                                 *)

Stages   == {"probe", "confirm", "final"}
Attempts == [stage : Stages, params : 0 .. Probes]

\* The probe of p failed.
Refused(p) == Attempt("probe", p) \in skipped

\* Parameters with a sample were not refused, which is why those chosen by
\* their samples were not.
ChoiceTypes ==
  /\ attempt \in Attempts /\ skipped \subseteq Attempts
  /\ samples \in [Params -> Seq(Nat)] /\ toConfirm \in Seq(Params)
  /\ rate \in Nat /\ saved \in 0 .. Probes
  /\ attempt.stage # "final" => attempt.params \in Params

RefusedInv ==
  /\ \A p \in Params : Refused(p) => samples[p] = <<>>
  /\ ~Refused(None)

\* Probes run in order: what is still to be probed has neither sample nor verdict.
ToProbeInv ==
  attempt.stage = "probe" =>
    /\ toConfirm = <<>>
    /\ phase # "returned" =>
         \A q \in Params : q >= attempt.params => samples[q] = <<>> /\ ~Refused(q)

ChosenInv ==
  /\ attempt.stage # "probe" => ~Refused(attempt.params)
  /\ \A i \in 1 .. Len(toConfirm) : ~Refused(toConfirm[i])
  /\ ~Refused(saved)
  /\ attempt.stage # "final" => saved = None

ChoiceInv == ChoiceTypes /\ RefusedInv /\ ToProbeInv /\ ChosenInv

LEMMA InitChoice == Init => ChoiceInv
<1> SUFFICES ASSUME Init PROVE ChoiceInv
  OBVIOUS
<1>1. /\ attempt = [stage |-> "probe", params |-> 1] /\ toConfirm = <<>> /\ skipped = {}
      /\ samples = [p \in Params |-> <<>>] /\ saved = 0 /\ rate = 0
  BY DEF Init, Attempt, None
<1>2. 1 \in Params /\ 1 \in 0 .. Probes
  BY ProbesAssumption DEF Params
<1>3. ChoiceTypes
  BY <1>1, <1>2, ProbesAssumption DEF ChoiceTypes, Attempts, Stages
<1> QED
  BY <1>1, <1>3 DEF ChoiceInv, RefusedInv, ToProbeInv, ChosenInv, Refused, None

\* A sequence of the best measured parameters, two at most.
LEMMA TopParamsAreMeasured ==
  ASSUME NEW f, NEW list \in TopParams(f)
  PROVE  list \in Seq(Params) /\ \A i \in 1 .. Len(list) : list[i] \in Measured(f)
<1> DEFINE n == IF Cardinality(Measured(f)) > 2 THEN 2 ELSE Cardinality(Measured(f))
<1>1. IsFiniteSet(Params)
  BY FS_Interval, ProbesAssumption DEF Params
<1>2. Cardinality(Measured(f)) \in Nat
  BY <1>1, FS_Subset, FS_CardinalityType DEF Measured
<1>3. n \in Nat
  BY <1>2
<1>4. list \in [1 .. n -> Measured(f)]
  BY DEF TopParams
<1> HIDE DEF n
<1>5. Measured(f) \subseteq Params
  BY DEF Measured
<1>6. list \in [1 .. n -> Params]
  BY <1>4, <1>5
<1>7. list \in Seq(Params) /\ Len(list) = n
  BY <1>3, <1>6
<1> QED
  BY <1>4, <1>7

\* What comes after a probe or a confirmation, as the samples and the verdicts
\* then are.
LEMMA StartNextChooses ==
  ASSUME ChoiceTypes, attempt.stage # "final", saved = None, StartNext(samples'),
         skipped' \subseteq Attempts, samples' \in [Params -> Seq(Nat)], RefusedInv',
         attempt.stage = "probe" =>
           /\ toConfirm = <<>>
           /\ \A q \in Params : q > attempt.params => samples'[q] = <<>> /\ Attempt("probe", q) \notin skipped',
         \A i \in 1 .. Len(toConfirm) : Attempt("probe", toConfirm[i]) \notin skipped'
  PROVE  ChoiceInv'
<1>1. /\ attempt.params \in Params /\ attempt.params \in Nat /\ Probes \in Nat
      /\ toConfirm \in Seq(Params) /\ Params \subseteq 0 .. Probes
  BY ProbesAssumption DEF ChoiceTypes, Params
<1>2. ASSUME NEW p \in Params, samples'[p] # <<>>
      PROVE  Attempt("probe", p) \notin skipped'
  BY <1>2 DEF RefusedInv, Refused
<1>3. CASE /\ attempt.stage = "probe" /\ attempt.params < Probes
           /\ Start("probe", attempt.params + 1) /\ UNCHANGED <<toConfirm, saved>>
  <2>1. attempt' = [stage |-> "probe", params |-> attempt.params + 1] /\ rate' = 0
    BY <1>3 DEF Start, Forget, Attempt
  <2>2. attempt.params + 1 \in Params /\ attempt.params + 1 \in 0 .. Probes
    BY <1>1, <1>3 DEF Params
  <2>3. ChoiceTypes'
    BY <2>1, <2>2, <1>1, <1>3 DEF ChoiceTypes, Attempts, Stages
  <2>4. ToProbeInv'
    <3>1. ASSUME NEW q \in Params, q >= attempt.params + 1
          PROVE  q > attempt.params
      BY <3>1, <1>1 DEF Params
    <3> QED
      BY <3>1, <2>1, <1>3 DEF ToProbeInv, Refused
  <2>5. ChosenInv'
    BY <2>1, <1>3 DEF ChosenInv, RefusedInv, Refused
  <2> QED
    BY <2>3, <2>4, <2>5 DEF ChoiceInv
<1>4. ASSUME NEW list \in IF attempt.stage = "probe" THEN TopParams(samples') ELSE {toConfirm},
             IF list # <<>>
             THEN Start("confirm", Head(list)) /\ toConfirm' = Tail(list) /\ UNCHANGED saved
             ELSE StartFinal(samples')
      PROVE  ChoiceInv'
  <2>1. list \in Seq(Params) /\ \A i \in 1 .. Len(list) : Attempt("probe", list[i]) \notin skipped'
    <3>1. CASE attempt.stage = "probe"
      <4>1. /\ list \in Seq(Params)
            /\ \A i \in 1 .. Len(list) : list[i] \in Measured(samples')
        BY <3>1, <1>4, TopParamsAreMeasured
      <4> QED
        BY <4>1, <1>2 DEF Measured
    <3>2. CASE attempt.stage # "probe"
      BY <3>2, <1>1, <1>4
    <3> QED
      BY <3>1, <3>2
  <2>2. CASE list # <<>>
    <3>1. /\ attempt' = [stage |-> "confirm", params |-> Head(list)] /\ rate' = 0
          /\ toConfirm' = Tail(list) /\ saved' = saved
      BY <2>2, <1>4 DEF Start, Forget, Attempt
    <3>2. /\ Head(list) \in Params /\ Head(list) = list[1] /\ 1 \in 1 .. Len(list)
          /\ Tail(list) \in Seq(Params)
      BY <2>1, <2>2
    <3>3. ASSUME NEW i \in 1 .. Len(Tail(list))
          PROVE  Tail(list)[i] = list[i + 1] /\ i + 1 \in 1 .. Len(list)
      BY <2>1, <2>2
    <3>4. ChoiceTypes'
      BY <3>1, <3>2, <1>1 DEF ChoiceTypes, Attempts, Stages
    <3>5. ChosenInv'
      <4>1. Attempt("probe", Head(list)) \notin skipped'
        BY <3>2, <2>1
      <4>2. \A i \in 1 .. Len(Tail(list)) : Attempt("probe", Tail(list)[i]) \notin skipped'
        BY <3>3, <2>1
      <4>3. Attempt("probe", None) \notin skipped'
        BY DEF RefusedInv, Refused
      <4> QED
        BY <4>1, <4>2, <4>3, <3>1 DEF ChosenInv, Refused
    <3> QED
      BY <3>1, <3>4, <3>5 DEF ChoiceInv, ToProbeInv
  <2>3. CASE list = <<>>
    <3>1. StartFinal(samples')
      BY <2>3, <1>4
    <3>2. PICK p \in {None} \cup BestParams(samples') :
            Start("final", p) /\ saved' \in {saved, p} /\ UNCHANGED toConfirm
      BY <3>1 DEF StartFinal
    <3>3. p \in 0 .. Probes /\ Attempt("probe", p) \notin skipped'
      <4>1. CASE p = None
        BY <4>1, <1>1 DEF RefusedInv, Refused, None
      <4>2. CASE p \in BestParams(samples')
        BY <4>2, <1>1, <1>2 DEF BestParams, Measured
      <4> QED
        BY <4>1, <4>2
    <3>4. attempt' = [stage |-> "final", params |-> p] /\ rate' = 0
      BY <3>2 DEF Start, Forget, Attempt
    <3>5. ChoiceTypes'
      BY <3>2, <3>3, <3>4, <1>1 DEF ChoiceTypes, Attempts, Stages, None
    <3>6. ChosenInv'
      <4>1. Attempt("probe", saved') \notin skipped'
        BY <3>2, <3>3 DEF RefusedInv, Refused
      <4>2. \A i \in 1 .. Len(toConfirm') : Attempt("probe", toConfirm'[i]) \notin skipped'
        BY <3>2
      <4> QED
        BY <4>1, <4>2, <3>3, <3>4 DEF ChosenInv, Refused
    <3> QED
      BY <3>4, <3>5, <3>6 DEF ChoiceInv, ToProbeInv
  <2> QED
    BY <2>2, <2>3
<1> QED
  BY <1>3, <1>4 DEF StartNext

\* A step that chooses nothing.
LEMMA OtherStepChooses ==
  ASSUME ChoiceInv, UNCHANGED <<attempt, toConfirm, samples, skipped, saved>>,
         rate' \in Nat, phase = "returned" => phase' = "returned"
  PROVE  ChoiceInv'
<1>1. ChoiceTypes'
  BY DEF ChoiceInv, ChoiceTypes
<1> QED
  BY <1>1 DEF ChoiceInv, RefusedInv, ToProbeInv, ChosenInv, Refused

\* A probe or a confirmation leaves a sample or a verdict, never both.
LEMMA JudgeChooses ==
  ASSUME ChoiceInv, phase = "judge", attempt.stage # "final",
         \/ samples' = samples /\ skipped' \in {skipped, skipped \cup {attempt}}
         \/ /\ samples' = [samples EXCEPT ![attempt.params] = Append(@, rate)]
            /\ skipped' = skipped,
         StartNext(samples') \/ \E kind, s : Finish(kind, s)
  PROVE  ChoiceInv'
<1>1. /\ attempt \in Attempts /\ attempt.params \in Params /\ Params \subseteq Nat
      /\ samples \in [Params -> Seq(Nat)] /\ rate \in Nat /\ skipped \subseteq Attempts
      /\ saved = None
  BY ProbesAssumption DEF ChoiceInv, ChoiceTypes, ChosenInv, Params
<1>2. samples' \in [Params -> Seq(Nat)] /\ skipped' \subseteq Attempts
  <2>1. Append(samples[attempt.params], rate) \in Seq(Nat)
    BY <1>1
  <2> QED
    BY <2>1, <1>1
<1>3. \A q \in Params : q # attempt.params => samples'[q] = samples[q]
  BY <1>1
<1>4. \A p : Attempt("probe", p) \in skipped' =>
        \/ Attempt("probe", p) \in skipped
        \/ /\ attempt.stage = "probe" /\ p = attempt.params /\ samples' = samples
  BY DEF Attempt
<1>5. attempt.stage = "probe" =>
        \A q \in Params : q >= attempt.params =>
          samples[q] = <<>> /\ Attempt("probe", q) \notin skipped
  BY DEF ChoiceInv, ToProbeInv, Refused
<1>6. RefusedInv'
  <2>1. ASSUME NEW p \in Params, Attempt("probe", p) \in skipped'
        PROVE  samples'[p] = <<>>
    <3>1. CASE Attempt("probe", p) \in skipped
      <4>1. samples[p] = <<>>
        BY <3>1 DEF ChoiceInv, RefusedInv, Refused
      <4>2. CASE p = attempt.params
        <5>1. attempt.stage # "probe"
          BY <3>1, <4>2, <1>1, <1>5
        <5>2. FALSE
          BY <5>1, <4>2, <3>1 DEF ChoiceInv, ChosenInv, Refused
        <5> QED
          BY <5>2
      <4> QED
        BY <4>1, <4>2, <1>3
    <3>2. CASE attempt.stage = "probe" /\ p = attempt.params /\ samples' = samples
      BY <3>2, <1>1, <1>5
    <3> QED
      BY <2>1, <3>1, <3>2, <1>4
  <2>2. Attempt("probe", None) \notin skipped'
    <3>1. None \notin Params
      BY DEF Params, None
    <3> QED
      BY <3>1, <1>1, <1>4 DEF ChoiceInv, RefusedInv, Refused
  <2> QED
    BY <2>1, <2>2 DEF RefusedInv, Refused
<1>7. attempt.stage = "probe" =>
        /\ toConfirm = <<>>
        /\ \A q \in Params : q > attempt.params =>
             samples'[q] = <<>> /\ Attempt("probe", q) \notin skipped'
  <2>1. ASSUME attempt.stage = "probe", NEW q \in Params, q > attempt.params
        PROVE  samples'[q] = <<>> /\ Attempt("probe", q) \notin skipped'
    <3>1. q \in Nat /\ attempt.params \in Nat
      BY <1>1
    <3>2. q >= attempt.params /\ q # attempt.params
      BY <3>1, <2>1
    <3> QED
      BY <3>2, <2>1, <1>3, <1>4, <1>5
  <2> QED
    BY <2>1 DEF ChoiceInv, ToProbeInv
<1>8. \A i \in 1 .. Len(toConfirm) : Attempt("probe", toConfirm[i]) \notin skipped'
  <2>1. CASE attempt.stage = "probe"
    <3>1. Len(toConfirm) = 0
      BY <2>1, <1>7
    <3> QED
      BY <3>1
  <2>2. CASE attempt.stage # "probe"
    BY <2>2, <1>4 DEF ChoiceInv, ChosenInv, Refused
  <2> QED
    BY <2>1, <2>2
<1>9. CASE StartNext(samples')
  BY <1>1, <1>2, <1>6, <1>7, <1>8, <1>9, StartNextChooses DEF ChoiceInv
<1>10. CASE \E kind, s : Finish(kind, s)
  <2>1. UNCHANGED <<attempt, toConfirm, saved>> /\ rate' = 0 /\ phase' = "returned"
    BY <1>10 DEF Finish, Forget
  <2>2. ChoiceTypes'
    BY <2>1, <1>1, <1>2 DEF ChoiceInv, ChoiceTypes
  <2>3. ToProbeInv'
    BY <2>1, <1>7 DEF ToProbeInv
  <2>4. ChosenInv'
    <3>1. attempt.stage # "probe" => Attempt("probe", attempt.params) \notin skipped'
      BY <1>4 DEF ChoiceInv, ChosenInv, Refused
    <3>2. Attempt("probe", saved) \notin skipped'
      BY <1>1, <1>6 DEF RefusedInv, Refused
    <3> QED
      BY <3>1, <3>2, <2>1, <1>1, <1>8 DEF ChosenInv, Refused
  <2> QED
    BY <2>2, <2>3, <2>4, <1>6 DEF ChoiceInv
<1> QED
  BY <1>9, <1>10

LEMMA NextChooses == ChoiceInv /\ [Next]_vars => ChoiceInv'
<1> SUFFICES ASSUME ChoiceInv, [Next]_vars PROVE ChoiceInv'
  OBVIOUS
<1>1. rate \in Nat
  BY DEF ChoiceInv, ChoiceTypes
<1>2. CASE Progress
  <2>1. rate' \in Nat
    BY <1>2, RatesAssumption DEF Progress
  <2> QED
    BY <2>1, <1>2, OtherStepChooses DEF Progress, Delivers, tuneVars
<1>3. CASE JudgeError
  <2>1. CASE outcome.kind = "memory" /\ attempt.stage # "final" /\ StartNext(samples) /\ skipped' = skipped \cup {attempt}
    BY <2>1, <1>3, JudgeChooses DEF JudgeError
  <2>2. CASE Finish("error", None) /\ UNCHANGED skipped
    BY <2>2, <1>1, <1>3, OtherStepChooses DEF JudgeError, Finish, Forget
  <2> QED
    BY <2>1, <2>2, <1>3 DEF JudgeError
<1>4. CASE JudgeLast
  BY <1>1, <1>4, OtherStepChooses DEF JudgeLast, Finish, Forget
<1>5. CASE JudgeTimed
  <2>1. /\ phase = "judge" /\ attempt.stage # "final" /\ samples' = Samples
        /\ skipped' = (IF abandoned THEN skipped \cup {attempt} ELSE skipped)
    BY <1>5 DEF JudgeTimed
  <2>2. \/ samples' = samples /\ skipped' \in {skipped, skipped \cup {attempt}}
        \/ /\ samples' = [samples EXCEPT ![attempt.params] = Append(@, rate)]
           /\ skipped' = skipped
    BY <2>1 DEF Samples
  <2>3. StartNext(Samples) \/ Finish("error", None)
    BY <1>5 DEF JudgeTimed
  <2>4. StartNext(samples') \/ \E kind, s : Finish(kind, s)
    BY <2>1, <2>3
  <2> QED
    BY <2>1, <2>2, <2>4, JudgeChooses
<1>6. CASE SetupDone \/ StopNoticed \/ AttemptEnds \/ CudaError \/ FailsUnheard
           \/ Found \/ UserCancels
  <2>1. UNCHANGED <<attempt, toConfirm, samples, skipped, saved, rate>> /\ phase # "returned"
    BY <1>6 DEF SetupDone, StopNoticed, AttemptEnds, CudaError, FailsUnheard, Found, Delivers,
                UserCancels, runVars, tuneVars
  <2> QED
    BY <2>1, <1>1, OtherStepChooses
<1>7. CASE UNCHANGED vars
  BY <1>1, <1>7, OtherStepChooses DEF vars, runVars, tuneVars
<1> QED
  BY <1>2, <1>3, <1>4, <1>5, <1>6, <1>7 DEF Next, Proceeds

\* ChoiceInv is inductive.
THEOREM ChoiceInductive == Spec => []ChoiceInv
  BY InitChoice, NextChooses, PTL DEF Spec

\* Parameters that failed their probe are neither confirmed nor searched with
\* nor saved, for any number of candidates and any rates.
THEOREM RefusedNeverChosen == Spec => []SkippedNeverChosen
<1>1. ChoiceInv => SkippedNeverChosen
  BY DEF ChoiceInv, ChosenInv, Refused, SkippedNeverChosen
<1> QED
  BY <1>1, ChoiceInductive, PTL
=============================================================================
