--------------------------- MODULE MultiRunProofs ---------------------------
(***************************************************************************)
(* Proofs about MultiRun, for any number of GPUs and any target score: its *)
(* types, and by one inductive invariant the lock, the errors, the result  *)
(* and the quiet after the return.                                         *)
(***************************************************************************)
EXTENDS MultiRun, FiniteSetTheorems, TLAPS

-----------------------------------------------------------------------------
(* The session's callback keeps the types of its state.                    *)

\* The session starts with well-typed variables.
LEMMA SessionInitType == SessionInit => SessionTypeOK
<1> SUFFICES ASSUME SessionInit PROVE SessionTypeOK
  OBVIOUS
<1> USE TargetAssumption
<1>1. outcome \in [kind : OutcomeKinds, score : 0 .. MaxScore]
  BY DEF SessionInit, Pending, None, OutcomeKinds
<1>2. best = 0 /\ result = None /\ runErr = "nil" /\ seen = 0 /\ announced = {} /\ file = 0
  BY DEF SessionInit, AttemptInit, None
<1>3. best \in 0 .. MaxScore /\ seen \in 0 .. MaxScore /\ announced \subseteq 0 .. MaxScore
      /\ file \in 0 .. Damaged /\ result \in 0 .. MaxScore
  BY <1>2 DEF Damaged, None
<1> QED
  BY <1>1, <1>2, <1>3 DEF SessionTypeOK

\* The session's callback keeps the types of the session.
LEMMA OnFoundType ==
  ASSUME SessionTypeOK, NEW s \in Scores, NEW halt \in BOOLEAN, OnFound(s, halt)
  PROVE  SessionTypeOK'
<1>1. /\ best' \in 0 .. MaxScore /\ seen' \in 0 .. MaxScore
      /\ outcome' = outcome
  BY TargetAssumption DEF OnFound, OnImprovement, SessionTypeOK, Scores
<1>2. \/ ~Matched(s) /\ UNCHANGED <<result, runErr, announced, file>>
      \/ /\ Matched(s) /\ result' \in {None, s} /\ runErr' \in {"nil", "error"}
         /\ file' = file \/ Write(s, TRUE) \/ Write(s, FALSE)
         /\ UNCHANGED announced \/ EmitResult(s)
  BY DEF OnFound
<1>3. result' \in 0 .. MaxScore
  <2>1. result' = result \/ result' = None \/ result' = s
    BY <1>2
  <2> QED
    BY <2>1, TargetAssumption DEF Scores, None, SessionTypeOK
<1>4. runErr' \in {"nil"} \cup Errors
  BY <1>2 DEF SessionTypeOK, Errors
<1>5. file' \in 0 .. Damaged
  BY <1>2, TargetAssumption DEF Write, SessionTypeOK, Damaged, Scores
<1>6. announced' \subseteq 0 .. MaxScore
  <2>1. UNCHANGED announced \/ EmitResult(s)
    BY <1>2
  <2>2. s \in 0 .. MaxScore
    BY TargetAssumption DEF Scores
  <2> QED
    BY <2>1, <2>2 DEF EmitResult, SessionTypeOK
<1> QED
  BY <1>1, <1>3, <1>4, <1>5, <1>6 DEF SessionTypeOK

LEMMA OnErrorType ==
  ASSUME SessionTypeOK, NEW e \in Errors, NEW halt \in BOOLEAN, OnError(e, halt)
  PROVE  SessionTypeOK'
  BY DEF OnError, SessionTypeOK, emitVars

LEMMA EndAttemptType ==
  ASSUME SessionTypeOK, NEW err \in {"nil"} \cup Errors, EndAttempt(err)
  PROVE  SessionTypeOK'
<1>1. UNCHANGED attemptVars
  BY DEF EndAttempt
<1>2. outcome' \in [kind : OutcomeKinds, score : 0 .. MaxScore]
  BY TargetAssumption DEF EndAttempt, SessionTypeOK, None, Errors, OutcomeKinds
<1>3. \/ UNCHANGED emitVars
      \/ (\E ok \in BOOLEAN : Write(best, ok)) /\ EmitResult(best)
  BY DEF EndAttempt
<1>4. file' \in 0 .. Damaged
  BY <1>3, TargetAssumption DEF emitVars, Write, SessionTypeOK, Damaged
<1>5. announced' \subseteq 0 .. MaxScore
  BY <1>3 DEF emitVars, EmitResult, SessionTypeOK
<1> QED
  BY <1>1, <1>2, <1>4, <1>5 DEF attemptVars, SessionTypeOK

LEMMA UnchangedSessionType == SessionTypeOK /\ UNCHANGED sessionVars => SessionTypeOK'
  BY DEF SessionTypeOK, sessionVars, attemptVars, emitVars

-----------------------------------------------------------------------------
(* Types.                                                                  *)

LEMMA InitTypeOK == Init => TypeOK
<1> SUFFICES ASSUME Init PROVE TypeOK
  OBVIOUS
<1> USE TargetAssumption DEF Init
<1>1. SessionTypeOK
  BY SessionInitType
<1>2. NoEvent \in [type : {"none", "ready", "phase", "progress", "found", "error"},
                   score : 0 .. MaxScore] /\ NoEvent.type # "found"
  BY DEF NoEvent, None
<1>3. GpuTypeOK
  BY <1>2 DEF GpuTypeOK, None
<1>4. AggTypeOK
  BY DEF AggTypeOK
<1> QED
  BY <1>1, <1>3, <1>4 DEF TypeOK

\* A callback of a backend: its event, and its best score where it rises.
LEMMA CallsType ==
  ASSUME GpuTypeOK, AggTypeOK, NEW d \in Devices,
         NEW t \in {"ready", "phase", "progress", "found", "error"}, NEW s \in 0 .. MaxScore,
         Calls(d, Event(t, s)), t = "found" => s # None,
         gpuBest' \in [Devices -> 0 .. MaxScore]
  PROVE  GpuTypeOK' /\ AggTypeOK'
<1>1. AggTypeOK'
  BY DEF Calls, AggTypeOK, aggVars
<1>2. /\ pc' = [pc EXCEPT ![d] = "gate"] /\ event' = [event EXCEPT ![d] = Event(t, s)]
      /\ UNCHANGED <<stage, answer, runRet>>
  BY DEF Calls, Goto
<1>3. Event(t, s) \in [type : {"none", "ready", "phase", "progress", "found", "error"},
                       score : 0 .. MaxScore]
  BY DEF Event
<1>4. \A e \in Devices : event'[e].type = "found" => event'[e].score # None
  BY <1>2 DEF Event, GpuTypeOK
<1> QED
  BY <1>1, <1>2, <1>3, <1>4 DEF GpuTypeOK

LEMMA NextTypeOK == TypeOK /\ [Next]_vars => TypeOK'
<1> SUFFICES ASSUME TypeOK, [Next]_vars PROVE TypeOK'
  OBVIOUS
<1> USE DEF TypeOK
<1>1. ASSUME NEW d \in Devices, EmitsSetup(d) PROVE TypeOK'
  <2>1. Calls(d, Event(stage[d], None)) /\ stage[d] \in {"ready", "phase"}
    BY <1>1 DEF EmitsSetup
  <2>2. SessionTypeOK' /\ gpuBest' \in [Devices -> 0 .. MaxScore]
    BY <1>1, UnchangedSessionType DEF EmitsSetup, Calls, GpuTypeOK
  <2> QED
    BY <2>1, <2>2, CallsType, TargetAssumption DEF None
<1>2. ASSUME NEW d \in Devices, EmitsProgress(d) \/ EmitsError(d) PROVE TypeOK'
  <2>1. PICK t \in {"progress", "error"} : Calls(d, Event(t, None))
    BY <1>2 DEF EmitsProgress, EmitsError
  <2>2. SessionTypeOK' /\ gpuBest' \in [Devices -> 0 .. MaxScore]
    BY <1>2, UnchangedSessionType DEF EmitsProgress, EmitsError, Calls, GpuTypeOK
  <2> QED
    BY <2>1, <2>2, CallsType, TargetAssumption DEF None
<1>3. ASSUME NEW d \in Devices, EmitsFound(d) PROVE TypeOK'
  <2>1. PICK s \in Scores : gpuBest' = [gpuBest EXCEPT ![d] = s] /\ Calls(d, Event("found", s))
    BY <1>3 DEF EmitsFound
  <2>2. s \in 0 .. MaxScore /\ s # None
    BY TargetAssumption DEF Scores, None
  <2>3. SessionTypeOK' /\ gpuBest' \in [Devices -> 0 .. MaxScore]
    BY <2>1, <2>2, UnchangedSessionType DEF Calls, GpuTypeOK
  <2> QED
    BY <2>1, <2>2, <2>3, CallsType
<1>4. ASSUME NEW d \in Devices, FailsSilently(d) \/ Gate(d) \/ Dispatch(d) \/ LockCallback(d)
      PROVE TypeOK'
  <2>1. SessionTypeOK'
    BY <1>4, UnchangedSessionType DEF FailsSilently, Gate, Dispatch, LockCallback
  <2>2. GpuTypeOK'
    BY <1>4 DEF FailsSilently, Gate, Dispatch, LockCallback, Goto, GpuTypeOK
  <2>3. AggTypeOK'
    BY <1>4 DEF FailsSilently, Gate, Dispatch, LockCallback, SetErr, AggTypeOK, aggVars
  <2> QED
    BY <2>1, <2>2, <2>3
<1>5. ASSUME NEW d \in Devices, Emit(d) PROVE TypeOK'
  <2>1. PICK halt \in BOOLEAN :
          /\ answer' = [answer EXCEPT ![d] = halt]
          /\ pc' = [pc EXCEPT ![d] = IF halt THEN "stop" ELSE "recheck"]
          /\ \/ event[d].type = "found" /\ OnFound(event[d].score, halt)
             \/ event[d].type = "error" /\ OnError("error", halt)
             \/ UNCHANGED sessionVars
    BY <1>5 DEF Emit, Goto
  <2>2. event[d].type = "found" => event[d].score \in Scores
    BY TargetAssumption DEF GpuTypeOK, Scores, None
  <2>3. SessionTypeOK'
    BY <2>1, <2>2, OnFoundType, OnErrorType, UnchangedSessionType DEF Errors
  <2>4. GpuTypeOK'
    BY <1>5, <2>1 DEF Emit, GpuTypeOK
  <2>5. AggTypeOK'
    BY <1>5 DEF Emit, AggTypeOK
  <2> QED
    BY <2>3, <2>4, <2>5
<1>6. ASSUME NEW d \in Devices, MarkStopped(d) \/ CancelRuns(d) \/ Recheck(d) \/ RecordRunError(d)
      PROVE TypeOK'
  <2>1. SessionTypeOK'
    BY <1>6, UnchangedSessionType DEF MarkStopped, CancelRuns, Recheck, RecordRunError
  <2>2. GpuTypeOK'
    <3>1. answer' \in [Devices -> BOOLEAN]
      BY <1>6 DEF MarkStopped, CancelRuns, Recheck, RecordRunError, GpuTypeOK, Cancelled
    <3> QED
      BY <1>6, <3>1 DEF MarkStopped, CancelRuns, Recheck, RecordRunError, Goto, GpuTypeOK
  <2>3. AggTypeOK'
    <3>1. pc[d] = "ended" => runRet[d] \in {"nil", "cancelled", "failed"}
      BY DEF GpuTypeOK
    <3>2. firstErr' \in {firstErr, runRet[d]}
          /\ (firstErr' = firstErr \/ runRet[d] # "nil") /\ (firstErr' = firstErr \/ pc[d] = "ended")
      BY <1>6 DEF MarkStopped, CancelRuns, Recheck, RecordRunError, SetErr, aggVars
    <3> QED
      BY <1>6, <3>1, <3>2 DEF MarkStopped, CancelRuns, Recheck, RecordRunError, AggTypeOK, aggVars
  <2> QED
    BY <2>1, <2>2, <2>3
<1>7. ASSUME NEW d \in Devices, BackendResumes(d) PROVE TypeOK'
  <2>1. SessionTypeOK' /\ AggTypeOK'
    BY <1>7, UnchangedSessionType DEF BackendResumes, AggTypeOK, aggVars
  <2>2. NoEvent \in [type : {"none", "ready", "phase", "progress", "found", "error"},
                     score : 0 .. MaxScore] /\ NoEvent.type # "found"
    BY TargetAssumption DEF NoEvent, None
  <2>3. event' = [event EXCEPT ![d] = NoEvent]
        /\ answer' = [answer EXCEPT ![d] = FALSE] /\ gpuBest' = gpuBest
    BY <1>7 DEF BackendResumes
  <2>4. PICK r \in {"no", "nil", "cancelled", "failed"}, where \in {"ended", "backend"},
             st \in {"ready", "phase", "loop"} :
          /\ runRet' = [runRet EXCEPT ![d] = r] /\ (where = "ended" => r # "no")
          /\ pc' = [pc EXCEPT ![d] = where] /\ stage' = [stage EXCEPT ![d] = st]
    BY <1>7 DEF BackendResumes, Goto, GpuTypeOK
  <2>5. GpuTypeOK'
    BY <2>2, <2>3, <2>4 DEF GpuTypeOK
  <2> QED
    BY <2>1, <2>5
<1>8. CASE ReturnMulti
  <2>1. ReturnValue \in {"nil", "cancelled", "failed"}
    BY DEF ReturnValue, AggTypeOK
  <2>2. SessionTypeOK'
    <3>1. PICK err \in {"nil", "error"} : EndAttempt(err)
      BY <1>8 DEF ReturnMulti
    <3> QED
      BY <3>1, EndAttemptType DEF Errors
  <2>3. GpuTypeOK' /\ AggTypeOK'
    BY <1>8, <2>1 DEF ReturnMulti, GpuTypeOK, AggTypeOK, gpuVars, aggVars
  <2> QED
    BY <2>2, <2>3
<1>9. CASE UserCancels
  BY <1>9, UnchangedSessionType DEF UserCancels, GpuTypeOK, AggTypeOK, gpuVars, aggVars
<1>10. CASE UNCHANGED vars
  BY <1>10, UnchangedSessionType DEF vars, GpuTypeOK, AggTypeOK, gpuVars, aggVars
<1> QED
  BY <1>1, <1>2, <1>3, <1>4, <1>5, <1>6, <1>7, <1>8, <1>9, <1>10 DEF Next, Proceeds

\* The types of MultiRun hold whatever the number of GPUs and the scores: in
\* particular no found event comes without a score, and no goroutine reaches
\* recordRunError without the return value of its runSingle.
THEOREM TypeCorrect == Spec => []TypeOK
  BY InitTypeOK, NextTypeOK, PTL DEF Spec
-----------------------------------------------------------------------------
(* The inductive invariant.                                                *)

\* A goroutine that has left runSingle.
Over(d) == pc[d] \in {"ended", "stop_run", "cancel_run", "done"}

\* One goroutine: what it returned, its event, and that it cancels or has
\* been cancelled only after somebody stopped the run.
GpuInv ==
  \A d \in Devices :
    /\ runRet[d] # "no" <=> Over(d)
    /\ pc[d] = "backend" \/ Over(d) => event[d].type = "none"
    /\ pc[d] \in {"cancel", "cancel_run"} => stop
    /\ runRet[d] = "cancelled" => userCancelled \/ stop

\* The errors recorded: a cancellation only if it is the owner's, a failure
\* only if a GPU has failed or is announcing it.
ErrInv ==
  /\ runsCancelled => stop
  /\ firstErr = "cancelled" => userCancelled
  /\ firstErr = "failed" => \E d \in Devices : runRet[d] = "failed" \/ event[d].type = "error"

\* Only the holder of callbackMu is in the callback.
LockInv ==
  /\ \A d \in Devices : pc[d] = "emit" => callbackMu
  /\ \A d, e \in Devices : pc[d] = "emit" /\ pc[e] = "emit" => d = e

\* Before a match the best candidate is the best one seen; a match leaves a
\* result or an error.
BestInv ==
  /\ best < TargetScore => best = seen /\ result = None
  /\ best >= TargetScore => result # None \/ runErr # "nil"
  /\ result # None => result >= TargetScore

\* The run returns when every goroutine is done, and not before.
ReturnInv ==
  /\ returned # "no" => \A d \in Devices : pc[d] = "done"
  /\ returned = "no" => outcome = Pending
  /\ OwnCancelIsNoError /\ FailureIsReturned /\ BestIsReturned

IInv == TypeOK /\ GpuInv /\ ErrInv /\ LockInv /\ BestInv /\ ReturnInv

LEMMA InitIInv == Init => IInv
<1> SUFFICES ASSUME Init PROVE IInv
  OBVIOUS
<1>1. GpuInv /\ ErrInv /\ LockInv
  BY DEF Init, GpuInv, ErrInv, LockInv, Over, NoEvent
<1>2. best = seen /\ best = 0 /\ result = None /\ outcome = Pending /\ returned = "no"
  BY DEF Init, SessionInit, AttemptInit, None
<1>3. BestInv
  BY <1>2, TargetAssumption DEF BestInv
<1>4. ReturnInv
  BY <1>2 DEF ReturnInv, OwnCancelIsNoError, FailureIsReturned, BestIsReturned, Pending
<1> QED
  BY <1>1, <1>3, <1>4, InitTypeOK DEF IInv

LEMMA GpuInvStep == IInv /\ [Next]_vars => GpuInv'
<1> SUFFICES ASSUME IInv, [Next]_vars PROVE GpuInv'
  OBVIOUS
<1> USE DEF IInv, TypeOK, GpuInv, Over, GpuTypeOK, aggVars, Goto
<1>1. ASSUME NEW d \in Devices, EmitsSetup(d) \/ EmitsProgress(d) \/ EmitsFound(d) \/ EmitsError(d)
      PROVE  /\ pc[d] = "backend" /\ pc' = [pc EXCEPT ![d] = "gate"]
             /\ \E e : event' = [event EXCEPT ![d] = e]
             /\ UNCHANGED <<runRet, stop, userCancelled>>
  BY <1>1 DEF EmitsSetup, EmitsProgress, EmitsFound, EmitsError, Calls
<1>2. ASSUME NEW d \in Devices, EmitsSetup(d) \/ EmitsProgress(d) \/ EmitsFound(d) \/ EmitsError(d)
      PROVE  GpuInv'
  BY <1>1, <1>2
<1>3. ASSUME NEW d \in Devices, FailsSilently(d) \/ Gate(d) \/ Dispatch(d) \/ LockCallback(d) \/ Emit(d)
      PROVE  GpuInv'
  BY <1>3 DEF FailsSilently, Gate, Dispatch, LockCallback, Emit
<1>4. ASSUME NEW d \in Devices, MarkStopped(d) \/ CancelRuns(d) \/ Recheck(d) \/ RecordRunError(d)
      PROVE  GpuInv'
  BY <1>4 DEF MarkStopped, CancelRuns, Recheck, RecordRunError
<1>5. ASSUME NEW d \in Devices, BackendResumes(d) PROVE GpuInv'
  BY <1>5 DEF BackendResumes, Cancelled, NoEvent, ErrInv
<1>6. CASE ReturnMulti \/ UserCancels \/ UNCHANGED vars
  BY <1>6 DEF ReturnMulti, UserCancels, vars, gpuVars
<1> QED
  BY <1>2, <1>3, <1>4, <1>5, <1>6 DEF Next, Proceeds

LEMMA ErrInvStep == IInv /\ [Next]_vars => ErrInv'
<1> SUFFICES ASSUME IInv, [Next]_vars PROVE ErrInv'
  OBVIOUS
<1> USE DEF IInv, TypeOK, ErrInv, GpuInv, GpuTypeOK, aggVars, Goto
<1>1. ASSUME NEW d \in Devices, EmitsSetup(d) \/ EmitsProgress(d) \/ EmitsFound(d) \/ EmitsError(d)
      PROVE  /\ pc[d] = "backend"
             /\ \E e : event' = [event EXCEPT ![d] = e]
             /\ UNCHANGED <<runRet, stop, firstErr, runsCancelled, userCancelled>>
  BY <1>1 DEF EmitsSetup, EmitsProgress, EmitsFound, EmitsError, Calls
<1>2. ASSUME NEW d \in Devices, EmitsSetup(d) \/ EmitsProgress(d) \/ EmitsFound(d) \/ EmitsError(d)
      PROVE  ErrInv'
  BY <1>1, <1>2
<1>3. ASSUME NEW d \in Devices, FailsSilently(d) \/ Gate(d) \/ LockCallback(d) \/ Emit(d)
      PROVE  ErrInv'
  BY <1>3 DEF FailsSilently, Gate, LockCallback, Emit, Over
<1>4. ASSUME NEW d \in Devices, Dispatch(d) PROVE ErrInv'
  BY <1>4 DEF Dispatch, SetErr
<1>5. ASSUME NEW d \in Devices, MarkStopped(d) \/ CancelRuns(d) \/ Recheck(d)
      PROVE  ErrInv'
  BY <1>5 DEF MarkStopped, CancelRuns, Recheck
<1>6. ASSUME NEW d \in Devices, RecordRunError(d) PROVE ErrInv'
  BY <1>6 DEF RecordRunError, SetErr
<1>7. ASSUME NEW d \in Devices, BackendResumes(d) PROVE ErrInv'
  BY <1>7 DEF BackendResumes, Over
<1>8. CASE ReturnMulti \/ UserCancels \/ UNCHANGED vars
  BY <1>8 DEF ReturnMulti, UserCancels, vars, gpuVars
<1> QED
  BY <1>2, <1>3, <1>4, <1>5, <1>6, <1>7, <1>8 DEF Next, Proceeds

LEMMA LockInvStep == IInv /\ [Next]_vars => LockInv'
<1> SUFFICES ASSUME IInv, [Next]_vars PROVE LockInv'
  OBVIOUS
<1> USE DEF IInv, TypeOK, LockInv, GpuTypeOK, aggVars, Goto
<1>1. ASSUME NEW d \in Devices,
             EmitsSetup(d) \/ EmitsProgress(d) \/ EmitsFound(d) \/ EmitsError(d) \/ FailsSilently(d)
      PROVE  LockInv'
  BY <1>1 DEF EmitsSetup, EmitsProgress, EmitsFound, EmitsError, Calls, FailsSilently
<1>2. ASSUME NEW d \in Devices, Gate(d) \/ Dispatch(d) \/ MarkStopped(d) \/ CancelRuns(d)
      PROVE  LockInv'
  BY <1>2 DEF Gate, Dispatch, MarkStopped, CancelRuns
<1>3. ASSUME NEW d \in Devices, Recheck(d) \/ RecordRunError(d) \/ BackendResumes(d)
      PROVE  LockInv'
  BY <1>3 DEF Recheck, RecordRunError, BackendResumes
<1>4. ASSUME NEW d \in Devices, LockCallback(d) PROVE LockInv'
  BY <1>4 DEF LockCallback
<1>5. ASSUME NEW d \in Devices, Emit(d) PROVE LockInv'
  <2>1. \A c \in Devices : pc'[c] # "emit"
    BY <1>5 DEF Emit
  <2> QED
    BY <2>1
<1>6. CASE ReturnMulti \/ UserCancels \/ UNCHANGED vars
  BY <1>6 DEF ReturnMulti, UserCancels, vars, gpuVars
<1> QED
  BY <1>1, <1>2, <1>3, <1>4, <1>5, <1>6 DEF Next, Proceeds

\* The callback keeps the best candidate, and a match is one.
LEMMA BestInvStep == IInv /\ [Next]_vars => BestInv'
<1> SUFFICES ASSUME IInv, [Next]_vars PROVE BestInv'
  OBVIOUS
<1>1. CASE UNCHANGED sessionVars
  BY <1>1 DEF IInv, BestInv, sessionVars, attemptVars, emitVars
<1>2. ASSUME NEW d \in Devices, Emit(d), event[d].type = "found", NEW halt \in BOOLEAN,
             OnFound(event[d].score, halt)
      PROVE  BestInv'
  <2> DEFINE s == event[d].score
  <2>1. s \in 1 .. MaxScore
    BY <1>2, TargetAssumption DEF IInv, TypeOK, GpuTypeOK, None
  <2>2. best \in 0 .. MaxScore /\ seen \in 0 .. MaxScore /\ result \in 0 .. MaxScore
    BY DEF IInv, TypeOK, SessionTypeOK
  <2> HIDE DEF s
  <2>3. /\ best' = IF s > best \/ s >= TargetScore THEN s ELSE best
        /\ seen' = IF s > seen THEN s ELSE seen
        /\ \/ s < TargetScore /\ UNCHANGED <<result, runErr>>
           \/ s >= TargetScore /\ (runErr' = "error" \/ result' = s)
        /\ result' = None \/ (result' = s /\ s >= TargetScore) \/ result' = result
    <3>1. /\ best' = IF s > best \/ Matched(s) THEN s ELSE best
          /\ seen' = IF s > seen THEN s ELSE seen
          /\ \/ ~Matched(s) /\ UNCHANGED <<result, runErr>>
             \/ Matched(s) /\ (runErr' = "error" \/ result' = s) /\ (result' = None \/ result' = s)
      BY <1>2 DEF OnFound, OnImprovement, s
    <3>2. Matched(s) <=> s >= TargetScore
      BY DEF Matched
    <3>3. ~Matched(s) => s < TargetScore
      BY <2>1, <3>2, TargetAssumption
    <3> QED
      BY <3>1, <3>2, <3>3
  <2>4. CASE s < TargetScore
    BY <2>1, <2>2, <2>3, <2>4, TargetAssumption DEF IInv, BestInv, None
  <2>5. CASE s >= TargetScore
    <3>1. best' = s
      BY <2>3, <2>5
    <3>2. result' # None \/ runErr' # "nil"
      BY <2>1, <2>3, <2>5, TargetAssumption DEF None
    <3>3. result' # None => result' >= TargetScore
      BY <2>3, <2>5 DEF IInv, BestInv
    <3> QED
      BY <2>1, <2>5, <3>1, <3>2, <3>3, TargetAssumption DEF BestInv
  <2> QED
    BY <2>1, <2>4, <2>5, TargetAssumption
<1>3. ASSUME NEW d \in Devices, Emit(d), NEW halt \in BOOLEAN, OnError("error", halt)
      PROVE  BestInv'
  BY <1>3 DEF OnError, IInv, BestInv, emitVars
<1>4. ASSUME NEW d \in Devices, Emit(d) PROVE BestInv'
  BY <1>1, <1>2, <1>3, <1>4 DEF Emit
<1>5. CASE ReturnMulti
  <2>1. UNCHANGED attemptVars
    BY <1>5 DEF ReturnMulti, EndAttempt
  <2> QED
    BY <2>1 DEF attemptVars, IInv, BestInv
<1>6. ASSUME NEW d \in Devices, Proceeds(d) \/ EmitsFound(d) \/ EmitsError(d) \/ FailsSilently(d)
      PROVE  BestInv'
  <2>1. CASE Emit(d)
    BY <1>4, <2>1
  <2>2. CASE ~Emit(d)
    <3>1. UNCHANGED sessionVars
      BY <1>6, <2>2 DEF Proceeds, EmitsSetup, EmitsProgress, EmitsFound, EmitsError, Calls, FailsSilently,
         Gate, Dispatch, LockCallback, MarkStopped, CancelRuns, Recheck, BackendResumes, RecordRunError
    <3> QED
      BY <3>1, <1>1
  <2> QED
    BY <2>1, <2>2
<1>7. CASE UserCancels \/ UNCHANGED vars
  BY <1>7, <1>1 DEF UserCancels, vars
<1> QED
  BY <1>5, <1>6, <1>7 DEF Next

\* Nothing moves any more once the run has returned.
LEMMA StillAfterReturn ==
  ASSUME IInv, [Next]_vars, returned # "no"
  PROVE  UNCHANGED vars
<1>1. \A d \in Devices : pc[d] = "done"
  BY DEF IInv, ReturnInv
<1>2. ASSUME NEW d \in Devices PROVE ~(Proceeds(d) \/ EmitsFound(d) \/ EmitsError(d) \/ FailsSilently(d))
  BY <1>1 DEF Proceeds, EmitsSetup, EmitsProgress, EmitsFound, EmitsError, Calls, FailsSilently, Gate,
     Dispatch, LockCallback, Emit, MarkStopped, CancelRuns, Recheck, BackendResumes, RecordRunError
<1> QED
  BY <1>2 DEF Next, ReturnMulti, UserCancels

\* The value runMulti returns, from the errors it has recorded.
LEMMA ReturnValueIsRight ==
  ASSUME IInv, \A d \in Devices : pc[d] = "done"
  PROVE  /\ ReturnValue \in {"nil", "cancelled", "failed"}
         /\ ReturnValue # "nil" => userCancelled \/ \E d \in Devices : runRet[d] = "failed"
         /\ ReturnValue = "nil" => \A d \in Devices : runRet[d] # "failed"
<1>1. \A d \in Devices : event[d].type = "none"
  BY DEF IInv, GpuInv, Over
<1>2. firstErr \in {"nil", "cancelled", "failed"}
  BY DEF IInv, TypeOK, AggTypeOK
<1>3. firstErr = "failed" => \E d \in Devices : runRet[d] = "failed"
  BY <1>1 DEF IInv, ErrInv
<1>4. firstErr = "cancelled" => userCancelled
  BY DEF IInv, ErrInv
<1>5. \A d \in Devices : runRet[d] = "cancelled" => userCancelled \/ stop
  BY DEF IInv, GpuInv
<1> QED
  BY <1>2, <1>3, <1>4, <1>5 DEF ReturnValue

\* What the session makes of it, from the best candidate seen.
LEMMA OutcomeIsRight ==
  ASSUME IInv, NEW err \in {"nil", "error"}, EndAttempt(err)
  PROVE  BestIsReturned'
<1>1. seen' = seen
  BY DEF EndAttempt, attemptVars
<1>2. \/ outcome'.kind \in {"memory", "error"}
      \/ outcome' = [kind |-> "found", score |-> result] /\ result # None
      \/ outcome' = [kind |-> "partial", score |-> best] /\ runErr = "nil" /\ result = None
      \/ outcome'.kind = "none" /\ runErr = "nil" /\ result = None /\ (Faulty \/ best = None)
  BY DEF EndAttempt, IInv, TypeOK, SessionTypeOK, Errors
<1>3. result = None /\ runErr = "nil" => best < TargetScore /\ best = seen
  BY TargetAssumption DEF IInv, BestInv, TypeOK, SessionTypeOK
<1>4. result # None => Matched(result)
  BY DEF IInv, BestInv, Matched
<1>5. best < TargetScore /\ best = seen => ~Matched(seen)
  BY TargetAssumption DEF Matched, IInv, TypeOK, SessionTypeOK
<1> QED
  BY <1>1, <1>2, <1>3, <1>4, <1>5 DEF BestIsReturned

LEMMA ReturnInvStep == IInv /\ [Next]_vars => ReturnInv'
<1> SUFFICES ASSUME IInv, [Next]_vars PROVE ReturnInv'
  OBVIOUS
<1>1. CASE returned # "no"
  <2>1. UNCHANGED vars
    BY <1>1, StillAfterReturn
  <2> QED
    BY <2>1 DEF IInv, ReturnInv, OwnCancelIsNoError, FailureIsReturned, BestIsReturned, vars, gpuVars,
       sessionVars, attemptVars, emitVars
<1>2. CASE returned = "no" /\ ReturnMulti
  <2>1. /\ \A d \in Devices : pc[d] = "done"
        /\ returned' = ReturnValue /\ EndAttempt(IF returned' = "nil" THEN "nil" ELSE "error")
        /\ UNCHANGED <<pc, runRet, userCancelled>>
    BY <1>2 DEF ReturnMulti, gpuVars
  <2>2. BestIsReturned'
    BY <2>1, OutcomeIsRight
  <2>3. OwnCancelIsNoError' /\ FailureIsReturned' /\ returned' # "no"
    BY <2>1, ReturnValueIsRight DEF OwnCancelIsNoError, FailureIsReturned
  <2> QED
    BY <2>1, <2>2, <2>3 DEF ReturnInv
<1>3. CASE returned = "no" /\ ~ReturnMulti
  <2>1. returned' = "no" /\ outcome' = outcome
    <3>1. ASSUME NEW d \in Devices, Emit(d) PROVE returned' = returned /\ outcome' = outcome
      BY <3>1 DEF Emit, OnFound, OnError, sessionVars
    <3>2. ASSUME NEW d \in Devices, Proceeds(d) \/ EmitsFound(d) \/ EmitsError(d) \/ FailsSilently(d), ~Emit(d)
          PROVE  returned' = returned /\ outcome' = outcome
      BY <3>2 DEF Proceeds, EmitsSetup, EmitsProgress, EmitsFound, EmitsError, Calls, FailsSilently, Gate,
         Dispatch, LockCallback, MarkStopped, CancelRuns, Recheck, BackendResumes, RecordRunError, sessionVars
    <3>3. CASE UserCancels \/ UNCHANGED vars
      BY <1>3, <3>3 DEF UserCancels, vars, sessionVars
    <3>4. CASE \E d \in Devices : Proceeds(d) \/ EmitsFound(d) \/ EmitsError(d) \/ FailsSilently(d)
      BY <1>3, <3>1, <3>2, <3>4
    <3>5. (\E d \in Devices : Proceeds(d) \/ EmitsFound(d) \/ EmitsError(d) \/ FailsSilently(d))
          \/ UserCancels \/ UNCHANGED vars
      BY <1>3 DEF Next
    <3> QED
      BY <1>3, <3>3, <3>4, <3>5
  <2>2. outcome = Pending
    BY <1>3 DEF IInv, ReturnInv
  <2> QED
    BY <2>1, <2>2 DEF ReturnInv, OwnCancelIsNoError, FailureIsReturned, BestIsReturned, Pending
<1> QED
  BY <1>1, <1>2, <1>3

-----------------------------------------------------------------------------
(* The theorems.                                                           *)

\* The inductive invariant holds.
THEOREM Invariance == Spec => []IInv
<1>1. IInv /\ [Next]_vars => IInv'
  BY NextTypeOK, GpuInvStep, ErrInvStep, LockInvStep, BestInvStep, ReturnInvStep DEF IInv
<1> QED
  BY InitIInv, <1>1, PTL DEF Spec

\* callbackMu keeps the session's callback, which has no lock of its own, to
\* one goroutine at a time, whatever the number of GPUs.
THEOREM OneCallback == Spec => []CallbackSerialised
<1>1. IInv => CallbackSerialised
  <2> SUFFICES ASSUME IInv PROVE CallbackSerialised
    OBVIOUS
  <2> DEFINE S == {d \in Devices : pc[d] = "emit"}
  <2>1. CASE S = {}
    BY <2>1, FS_EmptySet DEF CallbackSerialised
  <2>2. CASE S # {}
    <3>1. PICK d \in S : S = {d}
      BY <2>2 DEF IInv, LockInv
    <3> QED
      BY <3>1, FS_Singleton DEF CallbackSerialised
  <2> QED
    BY <2>1, <2>2
<1> QED
  BY Invariance, <1>1, PTL

\* The context errors of GPUs that were stopped because another one matched
\* or failed never become the error of the run.
THEOREM OwnCancelNoError == Spec => []OwnCancelIsNoError
<1>1. IInv => OwnCancelIsNoError
  BY DEF IInv, ReturnInv
<1> QED
  BY Invariance, <1>1, PTL

\* No failure of a GPU is lost in the cancellations of the others.
THEOREM FailureReturned == Spec => []FailureIsReturned
<1>1. IInv => FailureIsReturned
  BY DEF IInv, ReturnInv
<1> QED
  BY Invariance, <1>1, PTL

\* The attempt returns the best candidate any GPU has handed to the session.
THEOREM BestReturned == Spec => []BestIsReturned
<1>1. IInv => BestIsReturned
  BY DEF IInv, ReturnInv
<1> QED
  BY Invariance, <1>1, PTL

\* After the return of runMulti no straggling callback touches the session.
THEOREM Quiet == Spec => QuietAfterReturn
<1>1. IInv /\ [Next]_vars => [returned # "no" => UNCHANGED sessionVars]_vars
  BY StillAfterReturn DEF vars
<1> QED
  BY Invariance, <1>1, PTL DEF Spec, QuietAfterReturn
=============================================================================
