------------------------- MODULE CudaBackendProofs -------------------------
(***************************************************************************)
(* Proofs about CudaBackend, for any number of lanes, scores and rounds    *)
(* and for both modes.  The inductive invariant IInv ties the kernel at    *)
(* the head of the stream to what each lane stands at, what it has looked  *)
(* at in this round, and what the slots hold.                              *)
(***************************************************************************)
EXTENDS CudaBackend, SequenceTheorems, FunctionTheorems, FiniteSetTheorems, TLAPS

USE SizeAssumption, MaxScoreAssumption, MaxRoundsAssumption, FlagsAssumption

LEMMA LaneFacts == 0 \in Lane /\ Lane \subseteq Nat
  BY DEF Lane

LEMMA ProductNat == \A n \in Nat : n * Size \in Nat
  OBVIOUS

LEMMA AddressType ==
  \A k \in Nat \cup {Lost}, n \in Nat :
    /\ Address(k, n) \in Address_
    /\ Address(k, n).key = k /\ Address(k, n).depth = n
  BY DEF Address, Address_

LEMMA EmptySlotType == EmptySlot \in Slot_ /\ EmptySlot.found = 0 /\ NoAddress \in Address_
  BY LaneFacts, AddressType DEF EmptySlot, Slot_, NoAddress, Lost

LEMMA AdvancedType ==
  TypeOK => \A l \in Lane : Advanced(l) \in Nat \cup {Lost}
  BY DEF TypeOK, Advanced

\* What a lane's look at one address may do to the slots.
LEMMA PublishType ==
  ASSUME TypeOK, NEW l \in Lane, NEW a \in Address_, NEW s \in ScoresOf(a), Publish(l, a, s)
  PROVE  /\ scored' \subseteq (Nat \cup {Lost}) \X (0 .. MaxScore)
         /\ slots' \in [Score -> Slot_]
         /\ claim' \in [Lane -> 0 .. MaxScore]
         /\ reg' \in [Lane -> Address_]
<1>1. s \in 0 .. MaxScore /\ a.key \in Nat \cup {Lost}
  BY DEF ScoresOf, Address_
<1>2. scored' \subseteq (Nat \cup {Lost}) \X (0 .. MaxScore)
  BY <1>1 DEF Publish, TypeOK
<1>3. slots' \in [Score -> Slot_]
  <2>1. CASE s > scoreMax
    <3>1. s \in Score
      BY <1>1, <2>1 DEF TypeOK, Score
    <3>2. slots[s] \in Slot_
      BY <3>1 DEF TypeOK
    <3>3. [slots[s] EXCEPT !.found = @ + 1] \in Slot_
      BY <3>2 DEF Slot_
    <3> QED
      BY <2>1, <3>1, <3>3 DEF Publish, TypeOK
  <2>2. CASE ~(s > scoreMax)
    BY <2>2 DEF Publish, TypeOK
  <2> QED
    BY <2>1, <2>2
<1>4. claim' \in [Lane -> 0 .. MaxScore]
  <2>1. claim \in [Lane -> 0 .. MaxScore]
    BY DEF TypeOK
  <2> QED
    BY <1>1, <2>1 DEF Publish
<1>5. reg' \in [Lane -> Address_]
  <2>1. reg \in [Lane -> Address_]
    BY DEF TypeOK
  <2> QED
    BY <2>1 DEF Publish
<1> QED
  BY <1>2, <1>3, <1>4, <1>5

LEMMA InitTypeOK == Init => TypeOK
<1> SUFFICES ASSUME Init PROVE TypeOK
  OBVIOUS
<1>1. slots \in [Score -> Slot_] /\ hostResults \in [Score -> Slot_]
  BY EmptySlotType DEF Init
<1>2. reg \in [Lane -> Address_] /\ hashes \in [Lane -> Address_]
  BY EmptySlotType DEF Init
<1>3. claim \in [Lane -> 0 .. MaxScore] /\ key \in [Lane -> Nat \cup {Lost}]
      /\ inv \in [Lane -> {"delta", "inverse", "garbage"}] /\ todo \subseteq Lane
  BY DEF Init
<1>4. reports \in Seq(Report_) /\ scored \subseteq (Nat \cup {Lost}) \X (0 .. MaxScore)
  BY DEF Init
<1>5. rounds \in Nat /\ attemptBase \in Nat /\ scoreMax \in 0 .. MaxScore /\ lastProgress \in Nat
  BY DEF Init
<1> QED
  BY <1>1, <1>2, <1>3, <1>4, <1>5 DEF Init, TypeOK

\* A failing exit keeps the types.
LEMMA FailType == \A b \in BOOLEAN : TypeOK /\ Fail(b) => TypeOK'
<1> SUFFICES ASSUME NEW b \in BOOLEAN, TypeOK, Fail(b) PROVE TypeOK'
  OBVIOUS
<1>1. /\ UNCHANGED <<event, stopped, rounds, attemptBase, scoreMax, lastProgress,
                     hostResults, reports, laneVars, pubVars>>
      /\ held' \subseteq held /\ gpu' = "idle" /\ errorText' = TRUE
      /\ pc' \in {"emit_error", "done"} /\ ret' \in {ret, -1}
  BY DEF Fail
<1> QED
  BY <1>1 DEF TypeOK, laneVars, pubVars

LEMMA NextTypeOK == TypeOK /\ [Next]_vars => TypeOK'
<1> SUFFICES ASSUME TypeOK, [Next]_vars PROVE TypeOK'
  OBVIOUS
<1>1. CASE CheckConfig
  <2>1. CASE Fail(FALSE) \/ Fail(TRUE)
    BY <2>1, FailType
  <2>2. CASE ~Fail(FALSE) /\ ~Fail(TRUE)
    <3>1. /\ pc' = "ready"
          /\ UNCHANGED <<held, ret, errorText, event, stopped, rounds, attemptBase, scoreMax,
                         lastProgress, hostResults, reports, gpu, laneVars, pubVars>>
      BY <1>1, <2>2 DEF CheckConfig
    <3> QED
      BY <3>1 DEF TypeOK, laneVars, pubVars
  <2> QED
    BY <2>1, <2>2
<1>2. CASE EmitReady
  <2>1. CASE Fail(FALSE)
    BY <2>1, FailType
  <2>2. CASE ~Fail(FALSE)
    BY <1>2, <2>2 DEF TypeOK, EmitReady, Answer, AfterPhase, laneVars, pubVars
  <2> QED
    BY <2>1, <2>2
<1>3. CASE EmitPhase
  BY <1>3 DEF TypeOK, EmitPhase, Answer, AfterPhase, AfterCall, laneVars, pubVars, NoReturn
<1>4. CASE CudaCall
  <2>1. AfterCall[pc].pc \in DOMAIN AfterPhase \cup DOMAIN AfterCall /\ AfterCall[pc].adds \subseteq RunResources
    BY <1>4 DEF CudaCall, AfterCall, AfterPhase, RunResources, DeviceBuffers
  <2>2. CASE Fail(TRUE)
    BY <2>2, FailType
  <2>3. CASE held' = held \cup AfterCall[pc].adds /\ pc' = AfterCall[pc].pc /\ ~Fail(TRUE)
    <3>1. UNCHANGED <<ret, errorText, event, stopped, rounds, attemptBase, scoreMax,
                      lastProgress, hostResults, reports, gpu, laneVars, pubVars>>
      BY <1>4, <2>3 DEF CudaCall
    <3> QED
      BY <2>1, <2>3, <3>1 DEF TypeOK, laneVars, pubVars
  <2> QED
    BY <1>4, <2>2, <2>3 DEF CudaCall
<1>5. CASE LaunchInit
  <2>1. CASE pc' # "launch"
    BY <1>5, <2>1, FailType DEF LaunchInit
  <2>2. CASE pc' = "launch"
    <3>1. slots' \in [Score -> Slot_] /\ hostResults' \in [Score -> Slot_]
      BY <1>5, <2>2, EmptySlotType DEF LaunchInit, Fail
    <3>2. key' \in [Lane -> Nat \cup {Lost}] /\ inv' \in [Lane -> {"delta", "inverse", "garbage"}]
      BY <1>5, <2>2, LaneFacts DEF LaunchInit, Fail
    <3>3. hashes' \in [Lane -> Address_]
      BY <1>5, <2>2, LaneFacts, AddressType DEF LaunchInit, Fail
    <3> QED
      BY <1>5, <2>2, <3>1, <3>2, <3>3 DEF LaunchInit, Fail, TypeOK
  <2> QED
    BY <2>1, <2>2
<1>6. CASE EmitError
  BY <1>6 DEF TypeOK, EmitError, laneVars, pubVars
<1>7. CASE LaunchRound
  <2>1. rounds * Size \in Nat /\ rounds + 1 \in Nat
    BY ProductNat DEF TypeOK
  <2>2. FirstKernel \in {"inverse", "transform", "score"}
    BY DEF FirstKernel
  <2> QED
    BY <1>7, <2>1, <2>2, FailType DEF TypeOK, LaunchRound, laneVars
<1>8. CASE Sync
  BY <1>8, FailType DEF TypeOK, Sync, laneVars, pubVars
<1>9. CASE ScanResults
  <2>1. \A s \in Score : FoundEvent(s) \in Report_ /\ s \in 0 .. MaxScore
    <3> SUFFICES ASSUME NEW s \in Score PROVE FoundEvent(s) \in Report_ /\ s \in 0 .. MaxScore
      OBVIOUS
    <3>1. hostResults[s] \in Slot_ /\ attemptBase \in Nat
      BY DEF TypeOK
    <3>2. hostResults[s].id \in Nat /\ hostResults[s].hash \in Address_
      BY <3>1, LaneFacts DEF Slot_
    <3>3. attemptBase + hostResults[s].id \in Nat
      BY <3>1, <3>2
    <3> QED
      BY <3>2, <3>3 DEF FoundEvent, Report_, Score
  <2>2. CASE Hits = {}
    BY <1>9, <2>2 DEF TypeOK, ScanResults, laneVars, pubVars
  <2>3. CASE Hits # {}
    <3>1. PICK s \in Score : scoreMax' = s /\ reports' = Append(reports, FoundEvent(s))
      BY <1>9, <2>3 DEF ScanResults, Hits
    <3>2. reports' \in Seq(Report_) /\ scoreMax' \in 0 .. MaxScore
      BY <3>1, <2>1 DEF TypeOK
    <3> QED
      BY <1>9, <2>3, <3>2 DEF TypeOK, ScanResults, Answer, laneVars, pubVars
  <2> QED
    BY <2>2, <2>3
<1>10. CASE ReportProgress
  BY <1>10 DEF TypeOK, ReportProgress, Answer, Released, laneVars, pubVars
<1>11. CASE InverseKernel
  BY <1>11 DEF TypeOK, InverseKernel, KernelAfter, hostVars, pubVars
<1>12. CASE StepKernel
  <2>1. key' \in [Lane -> Nat \cup {Lost}] /\ hashes' \in [Lane -> Address_]
    BY <1>12, AdvancedType, AddressType DEF StepKernel
  <2>2. inv' \in [Lane -> {"delta", "inverse", "garbage"}]
    BY <1>12 DEF StepKernel
  <2>3. gpu' = "transform" /\ UNCHANGED <<hostVars, pubVars>>
    BY <1>12 DEF StepKernel, KernelAfter
  <2> QED
    BY <2>1, <2>2, <2>3 DEF TypeOK, hostVars, pubVars
<1>13. CASE TransformKernel
  BY <1>13 DEF TypeOK, TransformKernel, KernelAfter, Address, Address_, hostVars, pubVars
<1>14. ASSUME NEW l \in Lane, ScoreLane(l) PROVE TypeOK'
  <2>1. hashes[l] \in Address_
    BY DEF TypeOK
  <2>2. PICK s \in ScoresOf(hashes[l]) : Publish(l, hashes[l], s)
    BY <1>14 DEF ScoreLane
  <2>3. /\ scored' \subseteq (Nat \cup {Lost}) \X (0 .. MaxScore) /\ slots' \in [Score -> Slot_]
        /\ claim' \in [Lane -> 0 .. MaxScore] /\ reg' \in [Lane -> Address_]
    BY <2>1, <2>2, PublishType
  <2>4. todo' \subseteq Lane /\ UNCHANGED <<hostVars, gpu, laneVars>>
    BY <1>14 DEF TypeOK, ScoreLane
  <2> QED
    BY <2>3, <2>4 DEF TypeOK, hostVars, laneVars
<1>15. ASSUME NEW l \in Lane, StepScoredLane(l) PROVE TypeOK'
  <2>1. Advanced(l) \in Nat \cup {Lost} /\ Address(Advanced(l), 0) \in Address_
    BY AdvancedType, AddressType
  <2>2. PICK s \in ScoresOf(Address(Advanced(l), 0)) : Publish(l, Address(Advanced(l), 0), s)
    BY <1>15 DEF StepScoredLane
  <2>3. /\ scored' \subseteq (Nat \cup {Lost}) \X (0 .. MaxScore) /\ slots' \in [Score -> Slot_]
        /\ claim' \in [Lane -> 0 .. MaxScore] /\ reg' \in [Lane -> Address_]
    BY <2>1, <2>2, PublishType
  <2>4. todo' \subseteq Lane /\ UNCHANGED <<hostVars, gpu, hashes>>
    BY <1>15 DEF TypeOK, StepScoredLane
  <2>5. key' \in [Lane -> Nat \cup {Lost}] /\ inv' \in [Lane -> {"delta", "inverse", "garbage"}]
    BY <1>15, <2>1 DEF TypeOK, StepScoredLane
  <2> QED
    BY <2>3, <2>4, <2>5 DEF TypeOK, hostVars
<1>16. ASSUME NEW l \in Lane, FillSlot(l) PROVE TypeOK'
  <2>1. claim[l] \in Score /\ reg[l] \in Address_
    BY <1>16 DEF TypeOK, FillSlot, Score
  <2>2. slots[claim[l]] \in Slot_
    BY <2>1 DEF TypeOK
  <2>3. [found |-> slots[claim[l]].found, id |-> l, hash |-> reg[l]] \in Slot_
    BY <2>1, <2>2 DEF Slot_
  <2>4. slots' \in [Score -> Slot_]
    BY <1>16, <2>1, <2>3 DEF TypeOK, FillSlot
  <2>5. claim' \in [Lane -> 0 .. MaxScore] /\ reg' \in [Lane -> Address_]
    BY <1>16, EmptySlotType DEF TypeOK, FillSlot
  <2> QED
    BY <1>16, <2>4, <2>5 DEF TypeOK, FillSlot, hostVars, laneVars
<1>17. CASE ScoringKernelEnds
  BY <1>17 DEF TypeOK, ScoringKernelEnds, KernelAfter, hostVars, laneVars, pubVars
<1>18. CASE CopyResults
  BY <1>18 DEF TypeOK, CopyResults, laneVars, pubVars
<1>19. CASE UNCHANGED vars
  BY <1>19 DEF TypeOK, vars, hostVars, laneVars, pubVars
<1> QED
  BY <1>1, <1>2, <1>3, <1>4, <1>5, <1>6, <1>7, <1>8, <1>9, <1>10, <1>11, <1>12, <1>13,
     <1>14, <1>15, <1>16, <1>17, <1>18, <1>19 DEF Next, HostStep, DeviceStep

\* The types of the call's state hold for any number of lanes and scores: a
\* lane is never stepped below the seed, a slot never names a missing lane.
THEOREM TypeCorrect == Spec => []TypeOK
  BY InitTypeOK, NextTypeOK, PTL DEF Spec

-----------------------------------------------------------------------------
(* The inductive invariant.  For every place the host and the stream can   *)
(* be at together it says which key each lane stands at, which address is  *)
(* in the hashes buffer, which slots are in use and which keys were tried. *)

\* The key lane l tries in the current round.
Current(l) == attemptBase + l

Looping   == pc \in {"launch", "sync", "scan", "progress"}
Leaving   == pc \in {"emit_error", "done"}
Preparing == ~Looping /\ ~Leaving
Scoring   == gpu \in {"score", "step_scored"}
\* The kernels of the round are done and the host has not scanned yet.
Drained   == gpu = "memcpy" \/ (pc = "sync" /\ gpu = "idle") \/ pc = "scan"
\* The kernels of the round have not looked at a key yet.
Unscored  == pc \in {"launch", "progress"} \/ gpu \in {"inverse", "step", "transform"}

\* The stream is busy only while the host waits for it, with kernels of the
\* mode; the stepping kernels never run in the first round.
StreamInv ==
  /\ gpu # "idle" => pc = "sync"
  /\ gpu \in {"step", "transform"} => Contract
  /\ gpu = "step_scored" => ~Contract
  /\ gpu \in {"inverse", "step", "step_scored"} => attemptBase >= Size
  /\ gpu \in {"inverse", "step", "transform"} => todo = Lane
  /\ Looping /\ gpu \in {"idle", "memcpy"} => todo = {}

\* attempt_base is the number of keys tried before the current round.
RoundInv ==
  /\ Preparing => rounds = 0 /\ scoreMax = 0 /\ scored = {} /\ reports = <<>> /\ todo = {}
  /\ pc \in {"sync", "scan", "progress"} => rounds > 0
  /\ rounds <= MaxRounds
  /\ rounds = 0 => attemptBase = 0 /\ scored = {}
  /\ rounds > 0 => attemptBase + Size = rounds * Size

Behind(l) == key[l] = Current(l) - Size
Ready(l)  == key[l] = Current(l) /\ inv[l] = "delta"

\* A lane stays at the key of the last round until it is stepped.
KeyInv ==
  Looping => \A l \in Lane :
    /\ gpu = "inverse" => Behind(l) /\ inv[l] = "delta"
    /\ gpu = "step" => Behind(l) /\ inv[l] = "inverse"
    /\ gpu = "step_scored" /\ l \in todo => Behind(l) /\ inv[l] = "inverse"
    /\ gpu = "step_scored" /\ l \notin todo => Ready(l)
    /\ gpu \in {"idle", "transform", "score", "memcpy"} => Ready(l)

\* The buffer holds what the next kernel that reads it expects.
HashInv ==
  /\ pc = "launch" /\ rounds = 0 => \A l \in Lane : hashes[l] = Address(Current(l), 0)
  /\ gpu = "transform" => \A l \in Lane : hashes[l] = Address(Current(l), 0)
  /\ gpu = "score" => \A l \in Lane : hashes[l] = Target(Current(l))

\* A lane that won a slot still holds the address it won it with.
ClaimInv ==
  /\ (Preparing \/ Looping) /\ ~Scoring => \A l \in Lane : claim[l] = 0
  /\ Scoring => \A l \in Lane : claim[l] # 0 =>
       /\ claim[l] > scoreMax
       /\ reg[l] = Target(Current(l))
       /\ <<Current(l), claim[l]>> \in scored
  /\ Scoring => \A l \in todo : claim[l] = 0

\* The slot speaks of a key of this round.
Filled(slot, s) ==
  /\ slot.hash = Target(attemptBase + slot.id)
  /\ <<attemptBase + slot.id, s>> \in scored

SlotInv ==
  \A s \in Score : s > scoreMax =>
    /\ Unscored => slots[s].found = 0
    /\ Scoring /\ slots[s].found > 0 => (\E l \in Lane : claim[l] = s) \/ Filled(slots[s], s)
    /\ Drained /\ slots[s].found > 0 => Filled(slots[s], s)

CopyInv == pc = "scan" \/ (pc = "sync" /\ gpu = "idle") => hostResults = slots

\* What is better than the last report is in a slot.
BestInv ==
  /\ Scoring \/ Drained => \A p \in scored : p[2] > scoreMax => slots[p[2]].found > 0
  /\ Unscored => \A p \in scored : p[2] <= scoreMax
  /\ Looping => IF reports = <<>> THEN scoreMax = 0 ELSE reports[Len(reports)].score = scoreMax

\* The keys tried are those of the rounds before and of the lanes that ran.
TriedInv ==
  Looping /\ rounds > 0 =>
    /\ \A p \in scored : /\ 0 <= p[1] /\ p[1] < attemptBase + Size
                         /\ p[1] >= attemptBase => p[1] - attemptBase \notin todo
    /\ \A k \in 0 .. attemptBase - 1 : \E p \in scored : p[1] = k
    /\ \A l \in Lane \ todo : \E p \in scored : p[1] = Current(l)

OneScoreInv == \A p, q \in scored : p[1] = q[1] => p = q

IInv ==
  /\ TypeOK /\ StreamInv /\ RoundInv /\ KeyInv /\ HashInv /\ ClaimInv /\ SlotInv /\ CopyInv
  /\ BestInv /\ TriedInv /\ OneScoreInv /\ OffsetMatchesAddress

\* The parts of TypeOK the arithmetic of a round needs.
LEMMA Numbers ==
  TypeOK => /\ rounds \in Nat /\ attemptBase \in Nat /\ scoreMax \in Nat
            /\ \A p \in scored : p[1] \in Int /\ p[2] \in Nat /\ p = <<p[1], p[2]>>
  BY DEF TypeOK, Lost

LEMMA InitInv == Init => IInv
<1> SUFFICES ASSUME Init PROVE IInv
  OBVIOUS
<1>1. TypeOK
  BY InitTypeOK
<1>2. ~Looping /\ ~Scoring /\ ~Drained /\ ~Unscored /\ scored = {} /\ reports = <<>>
  BY DEF Init, Looping, Scoring, Drained, Unscored
<1> QED
  BY <1>1, <1>2 DEF Init, IInv, StreamInv, RoundInv, KeyInv, HashInv, ClaimInv, SlotInv, CopyInv,
     BestInv, TriedInv, OneScoreInv, OffsetMatchesAddress, Looping

\* Once the call is on its way out only the history matters.
LEMMA LeavingInv ==
  ASSUME IInv, TypeOK', Leaving', gpu' = "idle", UNCHANGED <<rounds, attemptBase, scored>>,
         OffsetMatchesAddress'
  PROVE  IInv'
<1>1. ~Looping' /\ ~Preparing' /\ ~Scoring' /\ ~Drained' /\ ~Unscored'
  BY DEF Leaving, Looping, Preparing, Scoring, Drained, Unscored
<1> QED
  BY <1>1 DEF IInv, StreamInv, RoundInv, KeyInv, HashInv, ClaimInv, SlotInv, CopyInv,
     BestInv, TriedInv, OneScoreInv, Looping, Scoring, Drained, Unscored, Leaving

\* While the call prepares the device it only moves pc.
LEMMA PreparingInv ==
  ASSUME IInv, TypeOK', Preparing, Preparing',
         UNCHANGED <<rounds, attemptBase, scored, reports, scoreMax, gpu, todo, claim>>
  PROVE  IInv'
<1>1. ~Looping' /\ ~Scoring' /\ ~Drained' /\ ~Unscored' /\ ~Scoring
  BY DEF IInv, StreamInv, Leaving, Looping, Preparing, Scoring, Drained, Unscored
<1> QED
  BY <1>1 DEF IInv, StreamInv, RoundInv, KeyInv, HashInv, ClaimInv, SlotInv, CopyInv,
     BestInv, TriedInv, OneScoreInv, OffsetMatchesAddress, Preparing, Looping, Scoring, Drained, Unscored

LEMMA PreparationInv ==
  ASSUME IInv, TypeOK', CheckConfig \/ EmitReady \/ EmitPhase \/ CudaCall \/ EmitError
  PROVE  IInv'
<1>1. /\ UNCHANGED <<rounds, attemptBase, scored, reports, scoreMax, todo, claim>>
      /\ gpu' \in {gpu, "idle"}
  BY DEF CheckConfig, EmitReady, EmitPhase, CudaCall, EmitError, Fail, pubVars
<1>2. Preparing \/ Leaving
  BY DEF CheckConfig, EmitReady, EmitPhase, CudaCall, EmitError, AfterPhase, AfterCall,
     Preparing, Looping, Leaving
<1>3. gpu = "idle" /\ gpu' = "idle"
  BY <1>1, <1>2 DEF IInv, StreamInv, Preparing, Looping, Leaving
<1>4. OffsetMatchesAddress'
  BY <1>1 DEF IInv, OffsetMatchesAddress
<1>5. CASE Leaving'
  BY <1>1, <1>3, <1>4, <1>5, LeavingInv
<1>6. CASE ~Leaving'
  <2>1. Preparing /\ Preparing'
    BY <1>6 DEF CheckConfig, EmitReady, EmitPhase, CudaCall, EmitError, AfterPhase, AfterCall,
       Fail, Answer, Preparing, Looping, Leaving
  <2> QED
    BY <1>1, <1>3, <2>1, PreparingInv
<1> QED
  BY <1>5, <1>6

LEMMA LaunchInitInv ==
  ASSUME IInv, TypeOK', LaunchInit
  PROVE  IInv'
<1>1. Preparing /\ UNCHANGED <<rounds, attemptBase, scored, reports, scoreMax, todo, claim>>
  BY DEF LaunchInit, Fail, pubVars, Preparing, Looping, Leaving
<1>2. OffsetMatchesAddress'
  BY <1>1 DEF IInv, OffsetMatchesAddress
<1>3. CASE pc' # "launch"
  BY <1>1, <1>2, <1>3, LeavingInv DEF LaunchInit, Fail, Leaving
<1>4. CASE pc' = "launch"
  <2> USE <1>1, <1>4
  <2>1. gpu = "idle" /\ gpu' = "idle" /\ ~Scoring' /\ ~Drained' /\ Looping' /\ ~Preparing' /\ ~Scoring
    BY DEF LaunchInit, Fail, IInv, StreamInv, Preparing, Looping, Scoring, Drained
  <2>2. /\ \A l \in Lane : key'[l] = l /\ inv'[l] = "delta" /\ hashes'[l] = Address(l, 0)
        /\ \A s \in Score : slots'[s].found = 0
    BY EmptySlotType DEF LaunchInit, Fail
  <2>3. attemptBase = 0 /\ rounds = 0 /\ scored = {} /\ reports = <<>> /\ scoreMax = 0 /\ todo = {}
    BY DEF IInv, RoundInv
  <2>4. StreamInv' /\ RoundInv'
    BY <2>1, <2>3 DEF IInv, StreamInv, RoundInv
  <2>5. KeyInv' /\ HashInv'
    BY <2>1, <2>2, <2>3, LaneFacts DEF KeyInv, HashInv, Ready, Current
  <2>6. ClaimInv' /\ SlotInv' /\ CopyInv'
    BY <2>1, <2>2 DEF IInv, ClaimInv, SlotInv, CopyInv
  <2>7. BestInv' /\ TriedInv' /\ OneScoreInv'
    BY <2>1, <2>3 DEF BestInv, TriedInv, OneScoreInv
  <2> QED
    BY <1>2, <2>4, <2>5, <2>6, <2>7 DEF IInv
<1> QED
  BY <1>3, <1>4

LEMMA NextBase ==
  \A n \in Nat : n > 0 => (n + 1) * Size = n * Size + Size /\ n * Size >= Size
  OBVIOUS

LEMMA LaunchRoundInv ==
  ASSUME IInv, TypeOK', LaunchRound
  PROVE  IInv'
<1>1. pc = "launch" /\ Looping /\ gpu = "idle" /\ TypeOK /\ UNCHANGED <<reports, scored, key, inv, claim, slots, hashes, scoreMax>>
  BY DEF LaunchRound, Fail, IInv, StreamInv, Looping, laneVars, pubVars
<1>2. OffsetMatchesAddress'
  BY <1>1 DEF IInv, OffsetMatchesAddress
<1>3. CASE pc' # "sync"
  BY <1>1, <1>2, <1>3, LeavingInv DEF LaunchRound, Fail, Leaving
<1>4. CASE pc' = "sync"
  <2>1. /\ rounds' = rounds + 1 /\ attemptBase' = rounds * Size /\ gpu' = FirstKernel
        /\ todo' = Lane /\ rounds < MaxRounds
    BY <1>4 DEF LaunchRound, Fail
  <2>2. /\ rounds = 0 => attemptBase' = attemptBase /\ attemptBase = 0
        /\ rounds > 0 => attemptBase' = attemptBase + Size /\ attemptBase' >= Size
        /\ attemptBase' + Size = rounds' * Size
    <3>1. CASE rounds = 0
      BY <1>1, <2>1, <3>1 DEF IInv, RoundInv
    <3>2. CASE rounds > 0
      BY <1>1, <2>1, <3>2, NextBase DEF IInv, RoundInv, TypeOK
    <3> QED
      BY <3>1, <3>2 DEF IInv, TypeOK
  <2>3. /\ rounds = 0 => gpu' \in {"transform", "score"}
        /\ rounds > 0 => gpu' = "inverse"
        /\ gpu' = "transform" => Contract
        /\ gpu' = "score" => ~Contract /\ rounds = 0
        /\ gpu' \in {"inverse", "transform", "score"}
    BY <2>1 DEF FirstKernel, IInv, TypeOK
  <2>4. ~Drained' /\ Looping' /\ ~Preparing' /\ ~Scoring
    BY <1>1, <1>4, <2>3 DEF Looping, Scoring, Drained, Preparing
  <2>5. StreamInv' /\ RoundInv'
    BY <1>1, <1>4, <2>1, <2>2, <2>3, <2>4 DEF IInv, StreamInv, RoundInv, TypeOK
  <2>6. \A l \in Lane : key[l] = attemptBase + l /\ inv[l] = "delta"
    BY <1>1 DEF IInv, KeyInv, Ready, Current
  <2>7. KeyInv' /\ HashInv'
    <3>1. \A l \in Lane : /\ rounds = 0 => key'[l] = attemptBase' + l
                          /\ rounds > 0 => key'[l] = (attemptBase' + l) - Size
      BY <1>1, <2>2, <2>6, LaneFacts, Numbers
    <3>2. KeyInv'
      <4>1. CASE rounds = 0
        BY <1>1, <2>3, <2>6, <3>1, <4>1 DEF KeyInv, Ready, Current
      <4>2. CASE rounds > 0
        <5>1. \A l \in Lane : Behind(l)' /\ inv'[l] = "delta"
          BY <1>1, <2>6, <3>1, <4>2 DEF Behind, Current
        <5> QED
          BY <2>3, <4>2, <5>1 DEF KeyInv
      <4> QED
        BY <1>1, <4>1, <4>2, Numbers
    <3>3. rounds = 0 => \A l \in Lane : hashes'[l] = Address(attemptBase' + l, 0)
      BY <1>1, <2>2 DEF IInv, HashInv, Current
    <3>4. HashInv'
      BY <1>4, <2>3, <3>3 DEF HashInv, Current, Target, IInv, TypeOK
    <3> QED
      BY <3>2, <3>4
  <2>8. ClaimInv' /\ SlotInv' /\ CopyInv'
    BY <1>1, <1>4, <2>3, <2>4 DEF IInv, ClaimInv, SlotInv, CopyInv, Unscored, Scoring, TypeOK
  <2>9. BestInv'
    BY <1>1, <2>4, <1>4 DEF IInv, BestInv, Unscored, Scoring, TypeOK
  <2>10. TriedInv' /\ OneScoreInv'
    <3>1. OneScoreInv'
      BY <1>1 DEF IInv, OneScoreInv
    <3>2. CASE rounds = 0
      BY <1>1, <2>1, <2>2, <3>1, <3>2, Numbers DEF IInv, TriedInv, RoundInv
    <3>3. CASE rounds > 0
      <4>1. todo = {}
        BY <1>1 DEF IInv, StreamInv
      <4>2. ASSUME NEW k \in 0 .. attemptBase' - 1 PROVE \E p \in scored : p[1] = k
        <5>1. CASE k < attemptBase
          BY <1>1, <3>3, <5>1 DEF IInv, TriedInv, TypeOK
        <5>2. CASE ~(k < attemptBase)
          <6>1. k - attemptBase \in Lane /\ attemptBase + (k - attemptBase) = k
            BY <1>1, <2>2, <3>3, <5>2 DEF Lane, TypeOK
          <6> QED
            BY <1>1, <3>3, <4>1, <6>1 DEF IInv, TriedInv, Current
        <5> QED
          BY <5>1, <5>2
      <4>3. \A p \in scored : 0 <= p[1] /\ p[1] < attemptBase'
        BY <1>1, <2>2, <3>3 DEF IInv, TriedInv
      <4>4. \A p \in scored : p[1] \in Int
        BY <1>1 DEF TypeOK, Lost
      <4> QED
        BY <1>1, <2>1, <2>4, <3>1, <4>2, <4>3, <4>4 DEF TriedInv, TypeOK
    <3> QED
      BY <3>1, <3>2, <3>3 DEF IInv, TypeOK
  <2> QED
    BY <1>2, <2>5, <2>7, <2>8, <2>9, <2>10 DEF IInv
<1> QED
  BY <1>3, <1>4

LEMMA SyncInv ==
  ASSUME IInv, TypeOK', Sync
  PROVE  IInv'
<1>1. /\ pc = "sync" /\ Looping
      /\ UNCHANGED <<rounds, attemptBase, scoreMax, hostResults, reports, key, inv, hashes,
                     todo, claim, reg, slots, scored>>
  BY DEF Sync, Fail, Looping, laneVars, pubVars
<1>2. OffsetMatchesAddress'
  BY <1>1 DEF IInv, OffsetMatchesAddress
<1>3. CASE pc' # "scan"
  BY <1>1, <1>2, <1>3, LeavingInv DEF Sync, Fail, Leaving
<1>4. CASE pc' = "scan"
  <2>1. gpu = "idle" /\ gpu' = "idle"
    BY <1>4 DEF Sync, Fail
  <2>2. /\ Looping' /\ ~Preparing' /\ ~Scoring /\ ~Scoring' /\ Drained /\ Drained' /\ ~Unscored'
    BY <1>1, <1>4, <2>1 DEF Looping, Preparing, Scoring, Drained, Unscored
  <2>3. StreamInv' /\ RoundInv'
    BY <1>1, <1>4, <2>1, <2>2 DEF IInv, StreamInv, RoundInv
  <2>4. KeyInv' /\ HashInv' /\ ClaimInv'
    BY <1>1, <1>4, <2>1, <2>2 DEF IInv, KeyInv, HashInv, ClaimInv, Ready, Behind, Current
  <2>5. SlotInv' /\ CopyInv'
    BY <1>1, <1>4, <2>1, <2>2 DEF IInv, SlotInv, CopyInv, Filled
  <2>6. BestInv' /\ TriedInv' /\ OneScoreInv'
    BY <1>1, <1>4, <2>1, <2>2 DEF IInv, BestInv, TriedInv, OneScoreInv, Current
  <2> QED
    BY <1>2, <2>3, <2>4, <2>5, <2>6 DEF IInv
<1> QED
  BY <1>3, <1>4

LEMMA ScanInv ==
  ASSUME IInv, TypeOK', ScanResults
  PROVE  IInv'
<1>1. /\ pc = "scan" /\ gpu = "idle" /\ gpu' = "idle" /\ TypeOK
      /\ UNCHANGED <<rounds, attemptBase, hostResults, key, inv, hashes, todo, claim, reg, slots, scored>>
  BY DEF ScanResults, IInv, StreamInv, laneVars, pubVars
<1>2. Looping /\ Drained /\ ~Scoring /\ hostResults = slots
  BY <1>1 DEF Looping, Drained, Scoring, IInv, CopyInv
<1>3. \A s \in Score : slots[s].found \in Nat
  BY <1>1 DEF TypeOK, Slot_
<1>4. scoreMax \in 0 .. MaxScore /\ \A p \in scored : p[2] \in 0 .. MaxScore
  BY <1>1 DEF TypeOK
<1>5. /\ \A s \in Score : s > scoreMax' => slots[s].found = 0
      /\ \A p \in scored : p[2] <= scoreMax'
      /\ IF reports' = <<>> THEN scoreMax' = 0 ELSE reports'[Len(reports')].score = scoreMax'
      /\ OffsetMatchesAddress'
  <2>1. CASE Hits = {}
    <3>1. UNCHANGED <<scoreMax, reports>>
      BY <2>1 DEF ScanResults
    <3>2. \A s \in Score : s > scoreMax => slots[s].found = 0
      BY <1>2, <1>3, <2>1 DEF Hits
    <3>3. \A p \in scored : p[2] <= scoreMax
      BY <1>2, <1>4, <3>2 DEF IInv, BestInv, Score
    <3> QED
      BY <1>1, <1>2, <3>1, <3>2, <3>3 DEF IInv, BestInv, OffsetMatchesAddress
  <2>2. CASE Hits # {}
    <3>1. PICK s \in Hits : /\ \A t \in Hits : t <= s
                            /\ scoreMax' = s /\ reports' = Append(reports, FoundEvent(s))
      BY <2>2 DEF ScanResults
    <3>2. s \in Score /\ s > scoreMax /\ slots[s].found > 0
      BY <1>2 DEF Hits
    <3>3. \A t \in Score : t > s => slots[t].found = 0
      BY <1>2, <1>3, <1>4, <3>1, <3>2 DEF Hits, Score
    <3>4. \A p \in scored : p[2] <= s
      BY <1>2, <1>4, <3>2, <3>3 DEF IInv, BestInv, Score
    <3>5. Filled(hostResults[s], s)
      BY <1>2, <3>2 DEF IInv, SlotInv
    <3>6. Len(reports') = Len(reports) + 1 /\ Len(reports) \in Nat
          /\ reports'[Len(reports')] = FoundEvent(s)
          /\ \A i \in 1 .. Len(reports) : reports'[i] = reports[i]
      BY <1>1, <3>1 DEF TypeOK
    <3>7. OffsetMatchesAddress'
      <4> SUFFICES ASSUME NEW i \in 1 .. Len(reports')
                   PROVE  /\ reports'[i].address = Target(reports'[i].attempts)
                          /\ <<reports'[i].attempts, reports'[i].score>> \in scored
        BY <1>1 DEF OffsetMatchesAddress, Target
      <4>1. CASE i = Len(reports')
        BY <3>5, <3>6, <4>1 DEF FoundEvent, Filled
      <4>2. CASE i # Len(reports')
        BY <3>6, <4>2 DEF IInv, OffsetMatchesAddress
      <4> QED
        BY <4>1, <4>2
    <3>8. reports' # <<>>
      BY <3>6
    <3> QED
      BY <3>1, <3>3, <3>4, <3>6, <3>7, <3>8 DEF FoundEvent
  <2> QED
    BY <2>1, <2>2
<1>6. CASE pc' # "progress"
  BY <1>1, <1>5, <1>6, LeavingInv DEF ScanResults, Answer, Leaving
<1>7. CASE pc' = "progress"
  <2>1. Looping' /\ ~Preparing' /\ ~Scoring' /\ ~Drained'
    BY <1>1, <1>7 DEF Looping, Preparing, Scoring, Drained
  <2>2. StreamInv' /\ RoundInv' /\ KeyInv' /\ HashInv' /\ ClaimInv'
    BY <1>1, <1>2, <1>7, <2>1 DEF IInv, StreamInv, RoundInv, KeyInv, HashInv, ClaimInv, Ready, Behind, Current
  <2>3. SlotInv' /\ CopyInv'
    BY <1>1, <1>5, <1>7, <2>1 DEF SlotInv, CopyInv
  <2>4. BestInv' /\ TriedInv' /\ OneScoreInv'
    BY <1>1, <1>2, <1>5, <2>1 DEF IInv, BestInv, TriedInv, OneScoreInv, Current
  <2> QED
    BY <1>5, <2>2, <2>3, <2>4 DEF IInv
<1> QED
  BY <1>6, <1>7

LEMMA ProgressInv ==
  ASSUME IInv, TypeOK', ReportProgress
  PROVE  IInv'
<1>1. /\ pc = "progress" /\ gpu = "idle" /\ gpu' = "idle" /\ pc' \in {"launch", "done"}
      /\ UNCHANGED <<rounds, attemptBase, scoreMax, hostResults, reports, key, inv, hashes, todo,
                     claim, reg, slots, scored>>
  BY DEF ReportProgress, Answer, IInv, StreamInv, laneVars, pubVars
<1>2. OffsetMatchesAddress'
  BY <1>1 DEF IInv, OffsetMatchesAddress
<1>3. CASE pc' = "done"
  BY <1>1, <1>2, <1>3, LeavingInv DEF Leaving
<1>4. CASE pc' = "launch"
  <2>1. /\ Looping /\ Looping' /\ ~Preparing' /\ ~Scoring /\ ~Scoring' /\ ~Drained' /\ Unscored
        /\ rounds # 0
    BY <1>1, <1>4 DEF Looping, Preparing, Scoring, Drained, Unscored, IInv, RoundInv
  <2>2. StreamInv' /\ RoundInv' /\ KeyInv' /\ HashInv' /\ ClaimInv'
    BY <1>1, <1>4, <2>1 DEF IInv, StreamInv, RoundInv, KeyInv, HashInv, ClaimInv, Ready, Behind, Current
  <2>3. SlotInv' /\ CopyInv' /\ BestInv' /\ TriedInv' /\ OneScoreInv'
    BY <1>1, <1>4, <2>1 DEF IInv, SlotInv, CopyInv, BestInv, TriedInv, OneScoreInv, Current
  <2> QED
    BY <1>2, <2>2, <2>3 DEF IInv
<1> QED
  BY <1>1, <1>3, <1>4

LEMMA TargetFacts ==
  \A k \in Nat : Target(k) \in Address_ /\ Target(k).key = k
  BY AddressType DEF Target

\* A lane that looks at its key of the round.
LEMMA PublishInv ==
  ASSUME IInv, TypeOK', Scoring, NEW l \in todo, NEW s \in ScoresOf(Target(Current(l))),
         todo' = todo \ {l}, Publish(l, Target(Current(l)), s),
         UNCHANGED <<pc, gpu, rounds, attemptBase, scoreMax, reports, hostResults>>
  PROVE  /\ StreamInv' /\ RoundInv' /\ ClaimInv' /\ SlotInv' /\ CopyInv'
         /\ BestInv' /\ TriedInv' /\ OneScoreInv' /\ OffsetMatchesAddress'
<1>1. /\ pc = "sync" /\ Looping /\ Looping' /\ ~Preparing' /\ Scoring' /\ ~Drained /\ ~Drained'
      /\ ~Unscored /\ ~Unscored' /\ gpu # "idle" /\ gpu \notin {"inverse", "step", "transform", "memcpy"}
  BY DEF IInv, StreamInv, Scoring, Looping, Preparing, Drained, Unscored
<1>2. TypeOK /\ l \in Lane /\ Lane \subseteq Nat /\ attemptBase \in Nat /\ Current(l) \in Nat
      /\ scoreMax \in Nat /\ s \in 0 .. MaxScore /\ todo \subseteq Lane
  <2>1. TypeOK /\ todo \subseteq Lane
    BY DEF IInv, TypeOK
  <2>2. s \in 0 .. MaxScore
    BY DEF ScoresOf
  <2> QED
    BY <2>1, <2>2, LaneFacts, Numbers DEF Current
<1>3. Target(Current(l)).key = Current(l)
  BY <1>2, TargetFacts
<1>4. scored' = scored \cup {<<Current(l), s>>}
  BY <1>3 DEF Publish
<1>5. StreamInv' /\ RoundInv' /\ CopyInv'
  <2>1. rounds # 0
    BY <1>1 DEF IInv, RoundInv
  <2> QED
    BY <1>1, <2>1 DEF IInv, StreamInv, RoundInv, CopyInv
<1>6. OffsetMatchesAddress'
  BY <1>4 DEF IInv, OffsetMatchesAddress, Target
<1>7. claim[l] = 0
  BY <1>2 DEF IInv, ClaimInv
<1>8. OneScoreInv'
  <2>1. \A p \in scored : p[1] = Current(l) => p = <<Current(l), s>>
    BY <1>2, <1>3, Numbers DEF ScoresOf
  <2> QED
    BY <1>4, <2>1 DEF IInv, OneScoreInv
<1>9. TriedInv'
  <2>1. rounds > 0 /\ rounds' > 0
    BY <1>1 DEF IInv, RoundInv
  <2>2. \A p \in scored' : /\ 0 <= p[1] /\ p[1] < attemptBase + Size
                           /\ p[1] >= attemptBase => p[1] - attemptBase \notin todo'
    <3>1. Current(l) < attemptBase + Size /\ Current(l) - attemptBase = l
      BY <1>2 DEF Current, Lane
    <3> QED
      BY <1>1, <1>2, <1>4, <2>1, <3>1 DEF IInv, TriedInv
  <2>3. \A k \in 0 .. attemptBase - 1 : \E p \in scored' : p[1] = k
    BY <1>1, <1>4, <2>1 DEF IInv, TriedInv
  <2>4. \A m \in Lane \ todo' : \E p \in scored' : p[1] = Current(m)
    <3> SUFFICES ASSUME NEW m \in Lane \ todo' PROVE \E p \in scored' : p[1] = Current(m)
      OBVIOUS
    <3>1. CASE m = l
      <4>1. <<Current(l), s>> \in scored' /\ <<Current(l), s>>[1] = Current(l)
        BY <1>4
      <4> QED
        BY <3>1, <4>1
    <3>2. CASE m # l
      BY <1>1, <1>4, <2>1, <3>2 DEF IInv, TriedInv
    <3> QED
      BY <3>1, <3>2
  <2> QED
    BY <2>2, <2>3, <2>4 DEF TriedInv, Current
<1>10. CASE ~(s > scoreMax)
  <2>1. UNCHANGED <<slots, claim, reg>>
    BY <1>10 DEF Publish
  <2>2. ClaimInv'
    BY <1>1, <1>4, <2>1 DEF IInv, ClaimInv, Current, Target
  <2>3. SlotInv'
    BY <1>1, <1>4, <2>1 DEF IInv, SlotInv, Filled, Target
  <2>4. BestInv'
    BY <1>1, <1>2, <1>4, <1>10, <2>1 DEF IInv, BestInv
  <2> QED
    BY <1>5, <1>6, <1>8, <1>9, <2>2, <2>3, <2>4
<1>11. CASE s > scoreMax
  <2>1. s \in Score
    BY <1>2, <1>11 DEF Score
  <2>2. /\ slots'[s].found = slots[s].found + 1 /\ slots'[s].id = slots[s].id /\ slots'[s].hash = slots[s].hash
        /\ \A t \in Score : t # s => slots'[t] = slots[t]
        /\ slots[s].found \in Nat
    BY <1>2, <1>11, <2>1 DEF Publish, TypeOK, Slot_
  <2>3. /\ slots[s].found = 0 => /\ claim' = [claim EXCEPT ![l] = s]
                                 /\ reg' = [reg EXCEPT ![l] = Target(Current(l))]
        /\ slots[s].found # 0 => UNCHANGED <<claim, reg>>
    BY <1>11 DEF Publish
  <2>4. /\ \A m \in Lane : m # l => claim'[m] = claim[m] /\ reg'[m] = reg[m]
        /\ slots[s].found = 0 => claim'[l] = s /\ reg'[l] = Target(Current(l))
        /\ slots[s].found # 0 => claim'[l] = claim[l] /\ reg'[l] = reg[l]
    BY <1>2, <2>3 DEF TypeOK
  <2>5. ClaimInv'
    <3>1. \A m \in Lane : claim'[m] # 0 => /\ claim'[m] > scoreMax
                                           /\ reg'[m] = Target(Current(m))
                                           /\ <<Current(m), claim'[m]>> \in scored'
      BY <1>1, <1>4, <1>7, <1>11, <2>4 DEF IInv, ClaimInv
    <3>2. \A m \in todo' : claim'[m] = 0
      BY <1>2, <2>4 DEF IInv, ClaimInv
    <3> QED
      BY <1>1, <3>1, <3>2 DEF ClaimInv, Current, Target
  <2>6. SlotInv'
    <3> SUFFICES ASSUME NEW t \in Score, t > scoreMax, slots'[t].found > 0
                 PROVE  (\E m \in Lane : claim'[m] = t) \/ Filled(slots[t], t)'
      BY <1>1 DEF SlotInv
    <3>1. CASE t # s \/ slots[s].found # 0
      <4>1. slots[t].found > 0
        BY <2>2, <3>1
      <4>2. CASE \E m \in Lane : claim[m] = t
        <5>1. PICK m \in Lane : claim[m] = t
          BY <4>2
        <5>2. m # l
          BY <1>7, <5>1 DEF Score
        <5> QED
          BY <2>4, <5>1, <5>2
      <4>3. CASE Filled(slots[t], t)
        BY <1>4, <2>2, <4>3 DEF Filled, Target
      <4> QED
        BY <4>1, <4>2, <4>3 DEF IInv, SlotInv
    <3>2. CASE t = s /\ slots[s].found = 0
      BY <1>2, <2>4, <3>2
    <3> QED
      BY <3>1, <3>2
  <2>7. BestInv'
    <3>1. ASSUME NEW p \in scored', p[2] > scoreMax PROVE slots'[p[2]].found > 0
      <4>1. CASE p = <<Current(l), s>>
        BY <2>2, <4>1
      <4>2. CASE p \in scored
        <5>1. slots[p[2]].found > 0 /\ p[2] \in Score
          BY <1>2, <3>1, <4>2 DEF IInv, BestInv, TypeOK, Score
        <5> QED
          BY <2>2, <5>1
      <4> QED
        BY <1>4, <4>1, <4>2
    <3> QED
      BY <1>1, <3>1 DEF IInv, BestInv
  <2> QED
    BY <1>5, <1>6, <1>8, <1>9, <2>5, <2>6, <2>7
<1> QED
  BY <1>10, <1>11

LEMMA ScoreLaneInv ==
  ASSUME IInv, TypeOK', NEW l \in Lane, ScoreLane(l)
  PROVE  IInv'
<1>1. gpu = "score" /\ gpu' = "score" /\ Scoring /\ l \in todo /\ todo' = todo \ {l}
      /\ UNCHANGED <<pc, rounds, attemptBase, scoreMax, reports, hostResults, key, inv, hashes>>
  BY DEF ScoreLane, Scoring, hostVars, laneVars
<1>2. hashes[l] = Target(Current(l))
  BY <1>1 DEF IInv, HashInv
<1>3. PICK s \in ScoresOf(Target(Current(l))) : Publish(l, Target(Current(l)), s)
  BY <1>2 DEF ScoreLane
<1>4. /\ StreamInv' /\ RoundInv' /\ ClaimInv' /\ SlotInv' /\ CopyInv'
      /\ BestInv' /\ TriedInv' /\ OneScoreInv' /\ OffsetMatchesAddress'
  BY <1>1, <1>3, PublishInv
<1>5. KeyInv' /\ HashInv'
  BY <1>1 DEF IInv, KeyInv, HashInv, Ready, Current, Target, Looping
<1> QED
  BY <1>4, <1>5 DEF IInv

LEMMA StepScoredLaneInv ==
  ASSUME IInv, TypeOK', NEW l \in Lane, StepScoredLane(l)
  PROVE  IInv'
<1>1. gpu = "step_scored" /\ gpu' = "step_scored" /\ Scoring /\ l \in todo /\ todo' = todo \ {l}
      /\ ~Contract /\ Looping /\ Looping' /\ pc = "sync"
      /\ UNCHANGED <<pc, rounds, attemptBase, scoreMax, reports, hostResults, hashes>>
  BY DEF StepScoredLane, Scoring, hostVars, IInv, StreamInv, Looping
<1>2. Behind(l) /\ inv[l] = "inverse" /\ attemptBase >= Size
  BY <1>1 DEF IInv, KeyInv, StreamInv
<1>3. Advanced(l) = Current(l)
  BY <1>2, LaneFacts, Numbers DEF IInv, Advanced, Behind, Current, Lost
<1>4. Address(Advanced(l), 0) = Target(Current(l))
  BY <1>1, <1>3 DEF Target
<1>5. PICK s \in ScoresOf(Target(Current(l))) : Publish(l, Target(Current(l)), s)
  BY <1>4 DEF StepScoredLane
<1>6. /\ StreamInv' /\ RoundInv' /\ ClaimInv' /\ SlotInv' /\ CopyInv'
      /\ BestInv' /\ TriedInv' /\ OneScoreInv' /\ OffsetMatchesAddress'
  BY <1>1, <1>5, PublishInv
<1>7. KeyInv'
  <2>1. key'[l] = Current(l) /\ inv'[l] = "delta"
        /\ \A m \in Lane : m # l => key'[m] = key[m] /\ inv'[m] = inv[m]
    BY <1>3 DEF StepScoredLane, IInv, TypeOK
  <2> QED
    BY <1>1, <2>1 DEF IInv, KeyInv, Ready, Behind, Current
<1>8. HashInv'
  BY <1>1 DEF HashInv
<1> QED
  BY <1>6, <1>7, <1>8 DEF IInv

LEMMA FillSlotInv ==
  ASSUME IInv, TypeOK', NEW l \in Lane, FillSlot(l)
  PROVE  IInv'
<1>1. /\ Scoring /\ Scoring' /\ pc = "sync" /\ Looping /\ Looping' /\ ~Preparing' /\ ~Drained' /\ ~Unscored'
      /\ gpu \in {"score", "step_scored"} /\ TypeOK /\ claim[l] # 0
      /\ UNCHANGED <<pc, gpu, rounds, attemptBase, scoreMax, reports, hostResults, key, inv, hashes,
                     todo, scored>>
  BY DEF FillSlot, Scoring, hostVars, laneVars, IInv, StreamInv, Looping, Preparing, Drained, Unscored
<1>2. /\ claim[l] > scoreMax /\ reg[l] = Target(Current(l)) /\ <<Current(l), claim[l]>> \in scored
      /\ claim[l] \in Score /\ l \notin todo
  BY <1>1 DEF IInv, ClaimInv, TypeOK, Score
<1>3. /\ claim'[l] = 0
      /\ \A m \in Lane : m # l => claim'[m] = claim[m] /\ reg'[m] = reg[m]
  BY <1>1 DEF FillSlot, TypeOK
<1>4. /\ slots'[claim[l]] = [found |-> slots[claim[l]].found, id |-> l, hash |-> reg[l]]
      /\ \A t \in Score : t # claim[l] => slots'[t] = slots[t]
  BY <1>1, <1>2 DEF FillSlot, TypeOK
<1>5. /\ slots'[claim[l]].found = slots[claim[l]].found
      /\ slots'[claim[l]].id = l /\ slots'[claim[l]].hash = reg[l]
  BY <1>4
<1>6. StreamInv' /\ RoundInv' /\ KeyInv' /\ HashInv' /\ CopyInv' /\ OffsetMatchesAddress'
  <2>1. rounds # 0
    BY <1>1 DEF IInv, RoundInv
  <2> QED
    BY <1>1, <2>1 DEF IInv, StreamInv, RoundInv, KeyInv, HashInv, CopyInv, OffsetMatchesAddress,
       Ready, Behind, Current, Target, Address
<1>7. ClaimInv'
  <2>1. \A m \in Lane : claim'[m] # 0 => /\ claim'[m] > scoreMax
                                         /\ reg'[m] = Target(Current(m))
                                         /\ <<Current(m), claim'[m]>> \in scored
    BY <1>1, <1>3 DEF IInv, ClaimInv
  <2>2. \A m \in todo : claim'[m] = 0
    BY <1>1, <1>3 DEF IInv, ClaimInv, TypeOK
  <2> QED
    BY <1>1, <2>1, <2>2 DEF ClaimInv, Current, Target
<1>8. SlotInv'
  <2> SUFFICES ASSUME NEW t \in Score, t > scoreMax, slots'[t].found > 0
               PROVE  (\E m \in Lane : claim'[m] = t) \/ Filled(slots[t], t)'
    BY <1>1 DEF SlotInv
  <2>1. CASE t = claim[l]
    BY <1>1, <1>2, <1>5, <2>1 DEF Filled, Current, Target
  <2>2. CASE t # claim[l]
    <3>1. slots[t].found > 0 /\ slots'[t] = slots[t]
      BY <1>4, <2>2
    <3>2. CASE \E m \in Lane : claim[m] = t
      BY <1>3, <2>2, <3>2
    <3>3. CASE Filled(slots[t], t)
      BY <1>1, <3>1, <3>3 DEF Filled, Target
    <3> QED
      BY <1>1, <3>1, <3>2, <3>3 DEF IInv, SlotInv
  <2> QED
    BY <2>1, <2>2
<1>9. BestInv' /\ TriedInv' /\ OneScoreInv'
  <2>1. \A t \in Score : slots'[t].found = slots[t].found
    BY <1>2, <1>4, <1>5
  <2>2. \A p \in scored : p[2] > scoreMax => p[2] \in Score
    BY <1>1 DEF TypeOK, Score
  <2> QED
    BY <1>1, <2>1, <2>2 DEF IInv, BestInv, TriedInv, OneScoreInv, Current
<1> QED
  BY <1>1, <1>6, <1>7, <1>8, <1>9 DEF IInv

LEMMA InverseKernelInv ==
  ASSUME IInv, TypeOK', InverseKernel
  PROVE  IInv'
<1>1. /\ gpu = "inverse" /\ gpu' = (IF Contract THEN "step" ELSE "step_scored")
      /\ pc = "sync" /\ Looping /\ Looping' /\ ~Preparing' /\ ~Scoring /\ ~Drained' /\ Unscored /\ TypeOK
      /\ UNCHANGED <<pc, rounds, attemptBase, scoreMax, reports, hostResults, key, hashes,
                     todo, claim, reg, slots, scored>>
  BY DEF InverseKernel, KernelAfter, Scoring, hostVars, pubVars, IInv, StreamInv, Looping, Preparing,
     Drained, Unscored
<1>2. todo = Lane /\ attemptBase >= Size /\ rounds # 0 /\ gpu' \in {"step", "step_scored"}
      /\ (gpu' = "step" => Contract) /\ (gpu' = "step_scored" => ~Contract)
  BY <1>1 DEF IInv, StreamInv, RoundInv
<1>3. \A l \in Lane : Behind(l) /\ inv'[l] = "inverse" /\ claim[l] = 0
  BY <1>1 DEF InverseKernel, IInv, KeyInv, ClaimInv
<1>4. StreamInv' /\ RoundInv' /\ HashInv' /\ CopyInv' /\ OffsetMatchesAddress'
  BY <1>1, <1>2 DEF IInv, StreamInv, RoundInv, HashInv, CopyInv, OffsetMatchesAddress, Target
<1>5. KeyInv' /\ ClaimInv'
  BY <1>1, <1>2, <1>3 DEF KeyInv, ClaimInv, Behind, Current, Scoring
<1>6. \A s \in Score : s > scoreMax => slots[s].found = 0
  BY <1>1 DEF IInv, SlotInv
<1>7. SlotInv'
  BY <1>1, <1>6 DEF SlotInv
<1>8. BestInv'
  <2>1. \A p \in scored : p[2] <= scoreMax
    BY <1>1 DEF IInv, BestInv
  <2> QED
    BY <1>1, <2>1, Numbers DEF IInv, BestInv
<1>9. TriedInv' /\ OneScoreInv'
  BY <1>1 DEF IInv, TriedInv, OneScoreInv, Current
<1> QED
  BY <1>4, <1>5, <1>7, <1>8, <1>9 DEF IInv

LEMMA StepKernelInv ==
  ASSUME IInv, TypeOK', StepKernel
  PROVE  IInv'
<1>1. /\ gpu = "step" /\ gpu' = "transform" /\ Contract
      /\ pc = "sync" /\ Looping /\ Looping' /\ ~Preparing' /\ ~Scoring /\ ~Scoring'
      /\ ~Drained' /\ Unscored /\ Unscored' /\ TypeOK
      /\ UNCHANGED <<pc, rounds, attemptBase, scoreMax, reports, hostResults,
                     todo, claim, reg, slots, scored>>
  BY DEF StepKernel, KernelAfter, Scoring, hostVars, pubVars, IInv, StreamInv, Looping, Preparing,
     Drained, Unscored
<1>2. todo = Lane /\ attemptBase >= Size /\ rounds # 0
  BY <1>1 DEF IInv, StreamInv, RoundInv
<1>3. \A l \in Lane : Advanced(l) = Current(l)
  BY <1>1, <1>2, LaneFacts, Numbers DEF IInv, KeyInv, Advanced, Behind, Current, Lost
<1>4. \A l \in Lane : key'[l] = Current(l) /\ inv'[l] = "delta" /\ hashes'[l] = Address(Current(l), 0)
  BY <1>3 DEF StepKernel
<1>5. StreamInv' /\ RoundInv' /\ CopyInv' /\ OffsetMatchesAddress'
  BY <1>1, <1>2 DEF IInv, StreamInv, RoundInv, CopyInv, OffsetMatchesAddress, Target
<1>6. KeyInv' /\ HashInv'
  BY <1>1, <1>2, <1>4 DEF KeyInv, HashInv, Ready, Current
<1>7. ClaimInv' /\ SlotInv' /\ BestInv' /\ TriedInv' /\ OneScoreInv'
  BY <1>1 DEF IInv, ClaimInv, SlotInv, BestInv, TriedInv, OneScoreInv, Current
<1> QED
  BY <1>5, <1>6, <1>7 DEF IInv

LEMMA TransformKernelInv ==
  ASSUME IInv, TypeOK', TransformKernel
  PROVE  IInv'
<1>1. /\ gpu = "transform" /\ gpu' = "score" /\ Contract
      /\ pc = "sync" /\ Looping /\ Looping' /\ ~Preparing' /\ ~Scoring /\ Scoring'
      /\ ~Drained' /\ Unscored /\ ~Unscored' /\ TypeOK
      /\ UNCHANGED <<pc, rounds, attemptBase, scoreMax, reports, hostResults, key, inv,
                     todo, claim, reg, slots, scored>>
  BY DEF TransformKernel, KernelAfter, Scoring, hostVars, pubVars, IInv, StreamInv, Looping, Preparing,
     Drained, Unscored
<1>2. rounds # 0 /\ \A l \in Lane : claim[l] = 0
  BY <1>1 DEF IInv, RoundInv, ClaimInv
<1>3. \A l \in Lane : hashes'[l] = Target(Current(l))
  <2> SUFFICES ASSUME NEW l \in Lane PROVE hashes'[l] = Target(Current(l))
    OBVIOUS
  <2>1. hashes[l] = Address(Current(l), 0) /\ Current(l) \in Nat
    BY <1>1, LaneFacts, Numbers DEF IInv, HashInv, Current
  <2>2. hashes[l].key = Current(l) /\ hashes[l].depth = 0
    BY <2>1, AddressType
  <2> QED
    BY <1>1, <2>2 DEF TransformKernel, Target
<1>4. StreamInv' /\ RoundInv' /\ CopyInv' /\ OffsetMatchesAddress'
  BY <1>1, <1>2 DEF IInv, StreamInv, RoundInv, CopyInv, OffsetMatchesAddress, Target
<1>5. KeyInv' /\ HashInv'
  BY <1>1, <1>2, <1>3 DEF IInv, KeyInv, HashInv, Ready, Current, Target
<1>6. ClaimInv'
  BY <1>1, <1>2 DEF IInv, ClaimInv, StreamInv, TypeOK
<1>7. SlotInv' /\ TriedInv' /\ OneScoreInv'
  BY <1>1 DEF IInv, SlotInv, TriedInv, OneScoreInv, Current
<1>8. BestInv'
  <2>1. \A p \in scored : p[2] <= scoreMax
    BY <1>1 DEF IInv, BestInv
  <2> QED
    BY <1>1, <2>1, Numbers DEF IInv, BestInv
<1> QED
  BY <1>4, <1>5, <1>6, <1>7, <1>8 DEF IInv

LEMMA ScoringKernelEndsInv ==
  ASSUME IInv, TypeOK', ScoringKernelEnds
  PROVE  IInv'
<1>1. /\ gpu \in {"score", "step_scored"} /\ gpu' = "memcpy" /\ todo = {} /\ \A l \in Lane : claim[l] = 0
      /\ pc = "sync" /\ Looping /\ Looping' /\ ~Preparing' /\ Scoring /\ ~Scoring'
      /\ Drained' /\ ~Unscored' /\ TypeOK
      /\ UNCHANGED <<pc, rounds, attemptBase, scoreMax, reports, hostResults, key, inv, hashes,
                     todo, claim, reg, slots, scored>>
  BY DEF ScoringKernelEnds, KernelAfter, Scoring, hostVars, laneVars, pubVars, IInv, StreamInv, Looping,
     Preparing, Drained, Unscored
<1>2. rounds # 0
  BY <1>1 DEF IInv, RoundInv
<1>3. StreamInv' /\ RoundInv' /\ CopyInv' /\ OffsetMatchesAddress' /\ ClaimInv'
  BY <1>1, <1>2 DEF IInv, StreamInv, RoundInv, CopyInv, OffsetMatchesAddress, Target, ClaimInv
<1>4. KeyInv' /\ HashInv'
  BY <1>1, <1>2 DEF IInv, KeyInv, HashInv, Ready, Current
<1>5. SlotInv'
  BY <1>1 DEF IInv, SlotInv, Filled, Target, Score
<1>6. BestInv' /\ TriedInv' /\ OneScoreInv'
  BY <1>1 DEF IInv, BestInv, TriedInv, OneScoreInv, Current
<1> QED
  BY <1>3, <1>4, <1>5, <1>6 DEF IInv

LEMMA CopyResultsInv ==
  ASSUME IInv, TypeOK', CopyResults
  PROVE  IInv'
<1>1. /\ gpu = "memcpy" /\ gpu' = "idle" /\ hostResults' = slots
      /\ pc = "sync" /\ Looping /\ Looping' /\ ~Preparing' /\ ~Scoring /\ ~Scoring'
      /\ Drained /\ Drained' /\ ~Unscored' /\ TypeOK
      /\ UNCHANGED <<pc, rounds, attemptBase, scoreMax, reports, key, inv, hashes,
                     todo, claim, reg, slots, scored>>
  BY DEF CopyResults, Scoring, laneVars, pubVars, IInv, StreamInv, Looping, Preparing, Drained, Unscored
<1>2. rounds # 0
  BY <1>1 DEF IInv, RoundInv
<1>3. StreamInv' /\ RoundInv' /\ CopyInv' /\ OffsetMatchesAddress' /\ ClaimInv'
  BY <1>1, <1>2 DEF IInv, StreamInv, RoundInv, CopyInv, OffsetMatchesAddress, Target, ClaimInv
<1>4. KeyInv' /\ HashInv'
  BY <1>1, <1>2 DEF IInv, KeyInv, HashInv, Ready, Current
<1>5. SlotInv' /\ BestInv' /\ TriedInv' /\ OneScoreInv'
  BY <1>1 DEF IInv, SlotInv, Filled, Target, BestInv, TriedInv, OneScoreInv, Current
<1> QED
  BY <1>3, <1>4, <1>5 DEF IInv

LEMMA NextInv == IInv /\ [Next]_vars => IInv'
<1> SUFFICES ASSUME IInv, [Next]_vars PROVE IInv'
  OBVIOUS
<1>1. TypeOK'
  BY NextTypeOK DEF IInv
<1>2. CASE UNCHANGED vars
  BY <1>2 DEF vars, hostVars, laneVars, pubVars, IInv, TypeOK, StreamInv, RoundInv, KeyInv, HashInv,
     ClaimInv, SlotInv, CopyInv, BestInv, TriedInv, OneScoreInv, OffsetMatchesAddress, Filled, Target,
     Ready, Behind, Current, Looping, Leaving, Preparing, Scoring, Drained, Unscored
<1>3. CASE HostStep
  BY <1>1, <1>3, PreparationInv, LaunchInitInv, LaunchRoundInv, SyncInv, ScanInv, ProgressInv DEF HostStep
<1>4. CASE DeviceStep
  BY <1>1, <1>4, InverseKernelInv, StepKernelInv, TransformKernelInv, ScoreLaneInv, StepScoredLaneInv,
     FillSlotInv, ScoringKernelEndsInv, CopyResultsInv DEF DeviceStep
<1> QED
  BY <1>2, <1>3, <1>4 DEF Next

LEMMA Invariance == Spec => []IInv
  BY InitInv, NextInv, PTL DEF Spec

\* However the lanes of the kernels interleave, a FOUND event carries the
\* address of exactly the key its attempt number names, for every size of a
\* round, number of scores and mode.
THEOREM OffsetsAreRight == Spec => []OffsetMatchesAddress
  BY Invariance, PTL DEF IInv

\* A slot above the best score is empty whenever a round is launched, although
\* the slots are cleared only once per call.
THEOREM SlotsStayUsable == Spec => []SlotsAboveBestEmpty
<1>1. IInv => SlotsAboveBestEmpty
  BY DEF IInv, SlotInv, Unscored, SlotsAboveBestEmpty
<1> QED
  BY <1>1, Invariance, PTL

\* An improving key is reported in the round that found it.
THEOREM BestReported == Spec => []BestIsReported
<1>1. IInv => BestIsReported
  <2> SUFFICES ASSUME IInv, pc = "launch" PROVE BestIsReported
    BY DEF BestIsReported
  <2>1. Looping /\ Unscored /\ reports \in Seq(Report_)
    BY DEF Looping, Unscored, IInv, TypeOK
  <2> QED
    BY <2>1 DEF IInv, BestInv, BestIsReported
<1> QED
  BY <1>1, Invariance, PTL

-----------------------------------------------------------------------------
(* The call implements KeySearch.                                          *)

ReturnInv == ret # NoReturn <=> pc = "done"

LEMMA ReturnInvHolds == Spec => []ReturnInv
<1>1. Init => ReturnInv
  BY DEF Init, ReturnInv
<1>2. ReturnInv /\ [Next]_vars => ReturnInv'
  <2> SUFFICES ASSUME ReturnInv, [Next]_vars PROVE ReturnInv'
    OBVIOUS
  <2> USE DEF ReturnInv, NoReturn
  <2>1. CASE CheckConfig \/ EmitReady \/ EmitPhase \/ CudaCall \/ LaunchInit \/ EmitError
    BY <2>1 DEF CheckConfig, EmitReady, EmitPhase, CudaCall, LaunchInit, EmitError, Fail, Answer,
       AfterPhase, AfterCall
  <2>2. CASE LaunchRound \/ Sync \/ ScanResults \/ ReportProgress
    BY <2>2 DEF LaunchRound, Sync, ScanResults, ReportProgress, Fail, Answer
  <2>3. CASE DeviceStep
    BY <2>3 DEF DeviceStep, InverseKernel, StepKernel, TransformKernel, ScoreLane, StepScoredLane,
       FillSlot, ScoringKernelEnds, CopyResults, hostVars
  <2>4. CASE UNCHANGED vars
    BY <2>4 DEF vars, hostVars
  <2> QED
    BY <2>1, <2>2, <2>3, <2>4 DEF Next, HostStep
<1> QED
  BY <1>1, <1>2, PTL DEF Spec

LEMMA ProductMonotone == \A m, n \in Nat : m <= n => m * Size <= n * Size
  OBVIOUS

\* A step that neither scores nor reports stutters or returns.
LEMMA QuietStep ==
  ASSUME UNCHANGED <<scored, reports>>, ret' = ret \/ ret = NoReturn
  PROVE  [Abstract!Next]_(Abstract!vars)
<1>1. CASE ret' = ret
  BY <1>1 DEF Abstract!vars
<1>2. CASE ret' # ret /\ ret = NoReturn
  BY <1>2 DEF Abstract!Next, Abstract!Finish
<1> QED
  BY <1>1, <1>2

\* A lane that scores its key tries it.
LEMMA TryStep ==
  ASSUME IInv, ReturnInv, Scoring, NEW l \in todo, NEW s \in ScoresOf(Target(Current(l))),
         Publish(l, Target(Current(l)), s), UNCHANGED <<reports, ret>>
  PROVE  Abstract!Next
<1>1. pc = "sync" /\ Looping /\ rounds > 0 /\ rounds <= MaxRounds /\ attemptBase + Size = rounds * Size
      /\ TypeOK /\ l \in Lane /\ Lane \subseteq Nat
  BY LaneFacts DEF IInv, StreamInv, RoundInv, Scoring, Looping, TypeOK
<1>2. Current(l) \in Nat /\ Current(l) < attemptBase + Size
  BY <1>1, Numbers DEF Current, Lane
<1>3. MaxRounds * Size \in Nat /\ Current(l) < MaxRounds * Size
  BY <1>1, <1>2, Numbers, ProductMonotone, ProductNat
<1>4. \A p \in scored : p[1] # Current(l)
  <2> SUFFICES ASSUME NEW p \in scored, p[1] = Current(l) PROVE FALSE
    OBVIOUS
  <2>1. p[1] - attemptBase = l /\ p[1] >= attemptBase
    BY <1>1, Numbers DEF Current
  <2> QED
    BY <1>1, <2>1 DEF IInv, TriedInv
<1>5. s \in 0 .. MaxScore /\ scored' = scored \cup {<<Current(l), s>>}
  BY <1>2, TargetFacts DEF Publish, ScoresOf
<1>6. ret = NoReturn
  BY <1>1 DEF ReturnInv
<1>7. Abstract!Try(Current(l), s)
  BY <1>4, <1>5, <1>6 DEF Abstract!Try
<1> QED
  BY <1>2, <1>3, <1>5, <1>7 DEF Abstract!Next

\* What KeySearch sees of a sequence of reports.
Pairs(q) == [i \in 1 .. Len(q) |-> <<q[i].attempts, q[i].score>>]

LEMMA PairsType ==
  ASSUME NEW q \in Seq(Report_)
  PROVE  Pairs(q) \in Seq(Nat \X Score) /\ Len(Pairs(q)) = Len(q)
<1>1. \A i \in 1 .. Len(q) : q[i] \in Report_
  BY ElementOfSeq
<1>2. Len(q) \in Nat
  BY LenProperties
<1>3. Pairs(q) \in [1 .. Len(q) -> Nat \X Score]
  BY <1>1 DEF Pairs, Report_
<1>4. Pairs(q) \in Seq(Nat \X Score)
  BY <1>2, <1>3, SeqDef
<1> QED
  BY <1>2, <1>3, <1>4, LenProperties

LEMMA PairsAppend ==
  ASSUME NEW q \in Seq(Report_), NEW r \in Report_
  PROVE  Pairs(Append(q, r)) = Append(Pairs(q), <<r.attempts, r.score>>)
<1> DEFINE p == <<r.attempts, r.score>>
<1>1. /\ Append(q, r) \in Seq(Report_) /\ Len(Append(q, r)) = Len(q) + 1 /\ Len(q) \in Nat
      /\ \A i \in 1 .. Len(q) : Append(q, r)[i] = q[i]
      /\ Append(q, r)[Len(q) + 1] = r
  BY AppendProperties, LenProperties
<1>2. p \in Nat \X Score
  BY DEF Report_
<1>3. Pairs(q) \in Seq(Nat \X Score) /\ Len(Pairs(q)) = Len(q)
  BY PairsType
<1>4. /\ Append(Pairs(q), p) \in Seq(Nat \X Score) /\ Len(Append(Pairs(q), p)) = Len(q) + 1
      /\ \A i \in 1 .. Len(q) : Append(Pairs(q), p)[i] = Pairs(q)[i]
      /\ Append(Pairs(q), p)[Len(q) + 1] = p
  <2> HIDE DEF p
  <2> QED
    BY <1>2, <1>3, AppendProperties
<1>5. Pairs(Append(q, r)) \in Seq(Nat \X Score) /\ Len(Pairs(Append(q, r))) = Len(q) + 1
  BY <1>1, PairsType
<1>6. \A i \in 1 .. Len(q) + 1 : Pairs(Append(q, r))[i] = Append(Pairs(q), p)[i]
  BY <1>1, <1>4 DEF Pairs
<1> QED
  BY <1>4, <1>5, <1>6, SeqEqual

\* A scan that finds a slot to report reports it, and may return.
LEMMA ReportStep ==
  ASSUME IInv, ReturnInv, ScanResults, Hits # {}
  PROVE  Abstract!Next
<1>1. pc = "scan" /\ Looping /\ Drained /\ TypeOK /\ hostResults = slots /\ ret = NoReturn /\ scored' = scored
  BY DEF ScanResults, IInv, CopyInv, Looping, Drained, ReturnInv, pubVars
<1>2. PICK s \in Hits : /\ \A t \in Hits : t <= s
                        /\ reports' = Append(reports, FoundEvent(s))
  BY DEF ScanResults
<1>3. s \in Score /\ s > scoreMax /\ slots[s].found > 0 /\ s \in Nat /\ s > 0
  BY <1>1, Numbers DEF Hits, Score
<1>4. PICK p \in scored : p = <<attemptBase + hostResults[s].id, s>>
  BY <1>1, <1>3 DEF IInv, SlotInv, Filled
<1>5. \A q \in scored : q[2] <= s
  <2> SUFFICES ASSUME NEW q \in scored, ~(q[2] <= s) PROVE FALSE
    OBVIOUS
  <2>1. q[2] \in Score /\ q[2] > scoreMax
    BY <1>1, <1>3 DEF TypeOK, Score
  <2>2. q[2] \in Hits
    BY <1>1, <2>1 DEF IInv, BestInv, Hits
  <2> QED
    BY <1>2, <2>2
<1>6. FoundEvent(s) \in Report_ /\ p = <<FoundEvent(s).attempts, FoundEvent(s).score>>
  <2>1. hostResults[s] \in Slot_ /\ attemptBase \in Nat
    BY <1>1, <1>3 DEF TypeOK
  <2>2. hostResults[s].id \in Nat /\ hostResults[s].hash \in Address_
    BY <2>1, LaneFacts DEF Slot_
  <2>3. attemptBase + hostResults[s].id \in Nat
    BY <2>1, <2>2
  <2> QED
    BY <1>3, <1>4, <2>2, <2>3 DEF FoundEvent, Report_
<1>7. reports \in Seq(Report_)
  BY <1>1 DEF TypeOK
<1>8. Pairs(reports') = Append(Pairs(reports), p)
  BY <1>2, <1>6, <1>7, PairsAppend
<1>9. Len(Pairs(reports)) > 0 => Pairs(reports)[Len(Pairs(reports))][2] < s
  <2>1. reports # <<>> => reports[Len(reports)].score < s
    BY <1>1, <1>3 DEF IInv, BestInv
  <2> QED
    BY <1>7, <2>1, PairsType, EmptySeq DEF Pairs
<1>10. Abstract!Report(p)
  <2>1. p[2] = s
    BY <1>4
  <2>2. (ret # NoReturn) = FALSE /\ (ret # NoReturn)' \in BOOLEAN
    BY <1>1
  <2> QED
    BY <1>1, <1>3, <1>4, <1>5, <1>8, <1>9, <2>1, <2>2 DEF Abstract!Report, Pairs
<1> QED
  BY <1>10 DEF Abstract!Next

LEMMA StepRefines ==
  IInv /\ ReturnInv /\ [Next]_vars => [Abstract!Next]_(Abstract!vars)
<1> SUFFICES ASSUME IInv, ReturnInv, [Next]_vars PROVE [Abstract!Next]_(Abstract!vars)
  OBVIOUS
<1>1. CASE CheckConfig \/ EmitReady \/ EmitPhase \/ CudaCall \/ LaunchInit \/ EmitError
  <2>1. UNCHANGED <<scored, reports>>
    BY <1>1 DEF CheckConfig, EmitReady, EmitPhase, CudaCall, LaunchInit, EmitError, Fail, pubVars
  <2>2. ret = NoReturn
    BY <1>1 DEF CheckConfig, EmitReady, EmitPhase, CudaCall, LaunchInit, EmitError, ReturnInv,
       AfterPhase, AfterCall
  <2> QED
    BY <2>1, <2>2, QuietStep
<1>2. CASE LaunchRound \/ Sync \/ ReportProgress
  <2>1. UNCHANGED <<scored, reports>> /\ ret = NoReturn
    BY <1>2 DEF LaunchRound, Sync, ReportProgress, Fail, pubVars, ReturnInv
  <2> QED
    BY <2>1, QuietStep
<1>3. CASE ScanResults
  <2>1. CASE Hits = {}
    <3>1. UNCHANGED <<scored, reports, ret>>
      BY <1>3, <2>1 DEF ScanResults, pubVars
    <3> QED
      BY <3>1, QuietStep
  <2>2. CASE Hits # {}
    BY <1>3, <2>2, ReportStep
  <2> QED
    BY <2>1, <2>2
<1>4. CASE InverseKernel \/ StepKernel \/ TransformKernel \/ ScoringKernelEnds \/ CopyResults
  <2>1. UNCHANGED <<scored, reports, ret>>
    BY <1>4 DEF InverseKernel, StepKernel, TransformKernel, ScoringKernelEnds, CopyResults, hostVars, pubVars
  <2> QED
    BY <2>1, QuietStep
<1>5. ASSUME NEW l \in Lane, ScoreLane(l) PROVE [Abstract!Next]_(Abstract!vars)
  <2>1. Scoring /\ l \in todo /\ UNCHANGED <<reports, ret>> /\ hashes[l] = Target(Current(l))
    BY <1>5 DEF ScoreLane, Scoring, hostVars, IInv, HashInv
  <2>2. PICK s \in ScoresOf(Target(Current(l))) : Publish(l, Target(Current(l)), s)
    BY <1>5, <2>1 DEF ScoreLane
  <2> QED
    BY <2>1, <2>2, TryStep
<1>6. ASSUME NEW l \in Lane, StepScoredLane(l) PROVE [Abstract!Next]_(Abstract!vars)
  <2>1. /\ gpu = "step_scored" /\ Scoring /\ l \in todo /\ ~Contract /\ Looping
        /\ UNCHANGED <<reports, ret>>
    BY <1>6 DEF StepScoredLane, Scoring, hostVars, IInv, StreamInv, Looping
  <2>2. Behind(l) /\ inv[l] = "inverse" /\ attemptBase >= Size
    BY <2>1 DEF IInv, KeyInv, StreamInv
  <2>3. Address(Advanced(l), 0) = Target(Current(l))
    <3>1. Advanced(l) = Current(l)
      BY <2>2, LaneFacts, Numbers DEF IInv, Advanced, Behind, Current, Lost
    <3> QED
      BY <2>1, <3>1 DEF Target
  <2>4. PICK s \in ScoresOf(Target(Current(l))) : Publish(l, Target(Current(l)), s)
    BY <1>6, <2>3 DEF StepScoredLane
  <2> QED
    BY <2>1, <2>4, TryStep
<1>7. ASSUME NEW l \in Lane, FillSlot(l) PROVE [Abstract!Next]_(Abstract!vars)
  <2>1. UNCHANGED <<scored, reports, ret>>
    BY <1>7 DEF FillSlot, hostVars
  <2> QED
    BY <2>1, QuietStep
<1>8. CASE UNCHANGED vars
  <2>1. UNCHANGED <<scored, reports, ret>>
    BY <1>8 DEF vars, hostVars, pubVars
  <2> QED
    BY <2>1, QuietStep
<1> QED
  BY <1>1, <1>2, <1>3, <1>4, <1>5, <1>6, <1>7, <1>8 DEF Next, HostStep, DeviceStep

\* The rounds, lanes, kernels and buffers implement a search that tries keys
\* one by one and reports every new best: no key is tried twice and every
\* report is the best key tried so far.
THEOREM ImplementsKeySearch == Spec => AbstractSpec
<1>1. Init => Abstract!Init
  BY DEF Init, Abstract!Init
<1> QED
  BY <1>1, StepRefines, Invariance, ReturnInvHolds, PTL DEF Spec, AbstractSpec, Abstract!Spec

-----------------------------------------------------------------------------
(* Every way out of the call.                                              *)

\* What is held is what an exit from here would free, and what has been said
\* to the caller so far decides the return value.
ExitInv ==
  /\ IF Leaving THEN held = {} ELSE held \subseteq Released(pc)
  /\ pc # "done" => ~stopped /\ ret = NoReturn
  /\ pc \notin {"done", "emit_error"} => ~errorText
  /\ pc = "emit_error" => errorText
  /\ pc = "done" => \/ ret = 0 /\ stopped /\ ~errorText
                    \/ ret = -1 /\ ~stopped /\ errorText

LEMMA ExitStep == TypeOK /\ ExitInv /\ [Next]_vars => ExitInv'
<1> SUFFICES ASSUME TypeOK, ExitInv, [Next]_vars PROVE ExitInv'
  OBVIOUS
<1> USE DEF ExitInv, NoReturn, Leaving, BeforeAlloc, InAllocMemory, BeforeStream
<1>1. CASE CheckConfig \/ EmitReady \/ EmitPhase
  BY <1>1 DEF CheckConfig, EmitReady, EmitPhase, Fail, Answer, AfterPhase, Released,
     RunResources
<1>2. CASE CudaCall
  <2>1. CASE Fail(TRUE)
    BY <1>2, <2>1 DEF CudaCall, Fail, AfterCall, Released, RunResources
  <2>2. CASE held' = held \cup AfterCall[pc].adds /\ pc' = AfterCall[pc].pc /\ ~Fail(TRUE)
    <3>1. UNCHANGED <<ret, errorText, stopped>> /\ pc \in DOMAIN AfterCall
      BY <1>2, <2>2 DEF CudaCall
    <3>2. /\ AfterCall[pc].pc \in DOMAIN AfterPhase \cup DOMAIN AfterCall
          /\ Released(pc) \cup AfterCall[pc].adds \subseteq Released(AfterCall[pc].pc)
      BY <3>1 DEF AfterCall, AfterPhase, Released, RunResources, DeviceBuffers
    <3> QED
      BY <2>2, <3>1, <3>2 DEF AfterCall, AfterPhase
  <2> QED
    BY <1>2, <2>1, <2>2 DEF CudaCall
<1>3. CASE LaunchInit \/ EmitError \/ LaunchRound \/ Sync
  BY <1>3 DEF LaunchInit, EmitError, LaunchRound, Sync, Fail, Released
<1>4. CASE ScanResults \/ ReportProgress
  BY <1>4 DEF ScanResults, ReportProgress, Answer, Released
<1>5. CASE DeviceStep \/ UNCHANGED vars
  <2>1. UNCHANGED <<pc, held, ret, errorText, stopped>>
    BY <1>5 DEF DeviceStep, InverseKernel, StepKernel, TransformKernel, ScoreLane, StepScoredLane,
       FillSlot, ScoringKernelEnds, CopyResults, vars, hostVars
  <2> QED
    BY <2>1 DEF Released
<1> QED
  BY <1>1, <1>2, <1>3, <1>4, <1>5 DEF Next, HostStep

LEMMA ExitInvariance == Spec => []ExitInv
<1>1. Init => ExitInv
  BY DEF Init, ExitInv, Leaving, Released, BeforeAlloc, NoReturn
<1> QED
  BY <1>1, ExitStep, TypeCorrect, PTL DEF Spec

\* No exit leaks a device buffer, the stream or the pinned results.
THEOREM ExitsRelease == Spec => []NothingHeldAfterReturn
<1>1. ExitInv => NothingHeldAfterReturn
  BY DEF ExitInv, Leaving, NothingHeldAfterReturn
<1> QED
  BY <1>1, ExitInvariance, PTL

\* The return value tells a stop from a failure.
THEOREM ReturnsTell == Spec => []ReturnValueTellsWhy
<1>1. TypeOK /\ ExitInv => ReturnValueTellsWhy
  BY DEF TypeOK, ExitInv, ReturnValueTellsWhy
<1> QED
  BY <1>1, TypeCorrect, ExitInvariance, PTL

-----------------------------------------------------------------------------
(* Counting keys.                                                          *)

LEMMA KeyCount ==
  ASSUME IInv, Looping, todo = {}
  PROVE  /\ {p[1] : p \in scored} = 0 .. rounds * Size - 1
         /\ Cardinality(scored) = rounds * Size
<1>1. rounds \in Nat /\ attemptBase \in Nat /\ Lane \subseteq Nat /\ \A p \in scored : p[1] \in Int
  BY LaneFacts, Numbers DEF IInv
<1>2. rounds * Size \in Nat
  BY <1>1, ProductNat
<1>3. CASE rounds = 0
  <2>1. rounds * Size = 0 /\ 0 .. 0 - 1 = {} /\ scored = {}
    BY <1>3 DEF IInv, RoundInv
  <2>2. {p[1] : p \in scored} = {}
    BY <2>1
  <2> QED
    BY <2>1, <2>2, FS_EmptySet
<1>4. CASE rounds # 0
  <2> DEFINE n == rounds * Size
  <2>1. n = attemptBase + Size
    BY <1>1, <1>4 DEF IInv, RoundInv
  <2>2. \A p \in scored : p[1] \in 0 .. n - 1
    BY <1>1, <1>4, <2>1 DEF IInv, TriedInv
  <2>3. \A k \in 0 .. n - 1 : \E p \in scored : p[1] = k
    <3> SUFFICES ASSUME NEW k \in 0 .. n - 1 PROVE \E p \in scored : p[1] = k
      OBVIOUS
    <3>1. CASE k < attemptBase
      BY <1>1, <1>4, <3>1 DEF IInv, TriedInv
    <3>2. CASE ~(k < attemptBase)
      <4>1. k - attemptBase \in Lane /\ attemptBase + (k - attemptBase) = k
        BY <1>1, <2>1, <3>2 DEF Lane
      <4> QED
        BY <1>1, <1>4, <4>1 DEF IInv, TriedInv, Current
    <3> QED
      BY <3>1, <3>2
  <2>4. \A p, q \in scored : p[1] = q[1] => p = q
    BY DEF IInv, OneScoreInv
  <2>5. n \in Nat
    BY <1>2
  <2> HIDE DEF n
  <2>6. {p[1] : p \in scored} = 0 .. n - 1
    BY <2>2, <2>3
  <2> DEFINE f == [k \in 0 .. n - 1 |-> CHOOSE p \in scored : p[1] = k]
  <2>7. f \in [0 .. n - 1 -> scored] /\ \A k \in 0 .. n - 1 : f[k][1] = k
    BY <2>3
  <2> HIDE DEF f
  <2>8. \A a, b \in 0 .. n - 1 : f[a] = f[b] => a = b
    BY <2>7
  <2>9. \A p \in scored : \E k \in 0 .. n - 1 : f[k] = p
    BY <2>2, <2>4, <2>7
  <2>10. ExistsBijection(0 .. n - 1, scored)
    BY <2>7, <2>8, <2>9, Fun_IsBij DEF ExistsBijection
  <2>11. IsFiniteSet(0 .. n - 1) /\ Cardinality(0 .. n - 1) = n
    BY <2>5, FS_Interval
  <2>12. Cardinality(scored) = n
    BY <2>10, <2>11, FS_Bijection
  <2> QED
    BY <2>6, <2>12 DEF n
<1> QED
  BY <1>3, <1>4

\* After n rounds exactly the first n * Size keys have been tried.
THEOREM KeysInOrder == Spec => []KeysTriedInOrder
<1>1. IInv => KeysTriedInOrder
  <2> SUFFICES ASSUME IInv, pc = "launch" PROVE KeysTriedInOrder
    BY DEF KeysTriedInOrder
  <2>1. Looping /\ todo = {}
    BY DEF Looping, IInv, StreamInv
  <2> QED
    BY <2>1, KeyCount DEF KeysTriedInOrder
<1> QED
  BY <1>1, Invariance, PTL

\* The attempts announced so far are those of rounds that are over.
AnnouncedInv ==
  /\ lastProgress \in Nat
  /\ Preparing => lastProgress = 0
  /\ pc = "launch" => lastProgress <= rounds * Size
  /\ pc \in {"sync", "scan", "progress"} => lastProgress <= attemptBase

LEMMA AnnouncedStep == IInv /\ AnnouncedInv /\ [Next]_vars => AnnouncedInv'
<1> SUFFICES ASSUME IInv, AnnouncedInv, [Next]_vars PROVE AnnouncedInv'
  OBVIOUS
<1>1. rounds \in Nat /\ attemptBase \in Nat /\ rounds * Size \in Nat
  BY Numbers, ProductNat DEF IInv
<1> USE DEF AnnouncedInv, Preparing, Looping, Leaving
<1>2. CASE CheckConfig \/ EmitReady \/ EmitPhase \/ CudaCall \/ EmitError
  BY <1>2 DEF CheckConfig, EmitReady, EmitPhase, CudaCall, EmitError, Fail, Answer, AfterPhase, AfterCall
<1>3. CASE LaunchInit
  <2>1. Preparing
    BY <1>3 DEF LaunchInit
  <2>2. lastProgress' = 0 /\ rounds' * Size \in Nat
    BY <1>1, <1>3, <2>1 DEF LaunchInit, Fail
  <2> QED
    BY <1>3, <2>2 DEF LaunchInit, Fail
<1>4. CASE LaunchRound
  BY <1>1, <1>4 DEF LaunchRound, Fail
<1>5. CASE Sync \/ ScanResults
  BY <1>5 DEF Sync, ScanResults, Fail, Answer
<1>6. CASE ReportProgress
  <2>1. pc = "progress" /\ attemptBase <= rounds * Size
    BY <1>1, <1>6 DEF ReportProgress, IInv, RoundInv
  <2>2. pc' \in {"launch", "done"} /\ rounds' = rounds /\ lastProgress' \in {lastProgress, rounds * Size}
    BY <1>6, <2>1 DEF ReportProgress, Answer
  <2> QED
    BY <1>1, <2>1, <2>2
<1>7. CASE DeviceStep \/ UNCHANGED vars
  <2>1. UNCHANGED <<pc, rounds, attemptBase, lastProgress>>
    BY <1>7 DEF DeviceStep, InverseKernel, StepKernel, TransformKernel, ScoreLane, StepScoredLane,
       FillSlot, ScoringKernelEnds, CopyResults, vars, hostVars
  <2> QED
    BY <2>1
<1> QED
  BY <1>2, <1>3, <1>4, <1>5, <1>6, <1>7 DEF Next, HostStep

LEMMA CountsStep ==
  ASSUME IInv, AnnouncedInv, [Next]_vars
  PROVE  /\ lastProgress' # lastProgress => lastProgress' = Cardinality(scored)
         /\ reports' # reports => reports'[Len(reports')].attempts >= lastProgress
<1>1. CASE ReportProgress
  <2>1. Looping /\ todo = {} /\ reports' = reports
    BY <1>1 DEF ReportProgress, Looping, IInv, StreamInv
  <2> QED
    BY <1>1, <2>1, KeyCount DEF ReportProgress
<1>2. CASE ScanResults
  <2>1. lastProgress' = lastProgress /\ pc = "scan" /\ lastProgress <= attemptBase /\ lastProgress \in Nat
    BY <1>2 DEF ScanResults, AnnouncedInv
  <2>2. CASE Hits = {}
    BY <1>2, <2>1, <2>2 DEF ScanResults
  <2>3. CASE Hits # {}
    <3>1. PICK s \in Hits : reports' = Append(reports, FoundEvent(s))
      BY <1>2, <2>3 DEF ScanResults
    <3>2. reports'[Len(reports')] = FoundEvent(s)
      BY <3>1 DEF IInv, TypeOK
    <3>3. hostResults[s] \in Slot_ /\ attemptBase \in Nat
      BY DEF IInv, TypeOK, Hits
    <3>4. hostResults[s].id \in Nat
      BY <3>3, LaneFacts DEF Slot_
    <3> QED
      BY <2>1, <3>2, <3>3, <3>4 DEF FoundEvent
  <2> QED
    BY <2>2, <2>3
<1>3. CASE ~ReportProgress /\ ~ScanResults
  <2>1. CASE CheckConfig \/ EmitReady \/ EmitPhase \/ CudaCall \/ LaunchInit
    BY <2>1 DEF CheckConfig, EmitReady, EmitPhase, CudaCall, LaunchInit, Fail
  <2>2. CASE EmitError \/ LaunchRound \/ Sync
    BY <2>2 DEF EmitError, LaunchRound, Sync, Fail
  <2>3. CASE DeviceStep \/ UNCHANGED vars
    BY <2>3 DEF DeviceStep, InverseKernel, StepKernel, TransformKernel, ScoreLane, StepScoredLane,
       FillSlot, ScoringKernelEnds, CopyResults, vars, hostVars
  <2> QED
    BY <1>3, <2>1, <2>2, <2>3 DEF Next, HostStep
<1> QED
  BY <1>1, <1>2, <1>3

\* A progress event announces exactly the keys tried, and no later candidate
\* carries a smaller attempt number.
THEOREM CountsAreRight == Spec => AttemptsCountKeys
<1>1. Init => AnnouncedInv
  BY DEF Init, AnnouncedInv
<1>2. IInv /\ AnnouncedInv /\ [Next]_vars =>
        [/\ lastProgress' # lastProgress => lastProgress' = Cardinality(scored)
         /\ reports' # reports => reports'[Len(reports')].attempts >= lastProgress]_vars
  BY CountsStep
<1> QED
  BY <1>1, <1>2, AnnouncedStep, Invariance, PTL DEF Spec, AttemptsCountKeys

=============================================================================
