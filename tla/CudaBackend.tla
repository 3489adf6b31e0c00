---------------------------- MODULE CudaBackend ----------------------------
(***************************************************************************)
(* One call of provanity_cuda_run on one GPU (cuda/native/backend.cu) with *)
(* the kernels it launches (cuda/native/kernels.cuh).                      *)
(*                                                                         *)
(* The host thread prepares the device, then loops: launch a round, wait,  *)
(* copy the result slots back, report the best new score, maybe report     *)
(* progress.  Lane l of the device starts at key seed + l and every later  *)
(* round moves each lane by Size keys.  The lanes of a round publish       *)
(* concurrently into one slot per score; the slots are cleared once per    *)
(* call, never between rounds.                                             *)
(*                                                                         *)
(* A key is named by its attempt number (its distance from the seed); an   *)
(* address is named by its key and by how often the contract rehash was    *)
(* applied to it.  What score an address gets is left open.                *)
(***************************************************************************)
EXTENDS Integers, Sequences, FiniteSets

CONSTANTS
  Size,       (* lanes of a round: PV_BATCH_LANES * batch_multiple          *)
  MaxScore,   (* kMaxScore: one result slot per score 1..MaxScore           *)
  MaxRounds,  (* bound of the model: rounds one call may launch             *)
  Contract,   (* config->contract: score the contract address of the key    *)
  ProgressOn  (* config->progress_interval_ms > 0                           *)

ASSUME SizeAssumption     == Size \in Nat \ {0}
ASSUME MaxScoreAssumption == MaxScore \in Nat \ {0}
ASSUME MaxRoundsAssumption == MaxRounds \in Nat
ASSUME FlagsAssumption    == Contract \in BOOLEAN /\ ProgressOn \in BOOLEAN

VARIABLES
  pc,          (* where the host thread is inside provanity_cuda_run        *)
  held,        (* device and pinned memory, and the stream, not yet freed   *)
  ret,         (* return value, NoReturn while running                      *)
  errorText,   (* whether copy_error has filled the caller's buffer         *)
  event,       (* type of the last event handed to the callback             *)
  stopped,     (* whether a callback that is heeded has answered non-zero   *)
  rounds,      (* rounds launched                                           *)
  attemptBase, (* attempt_base of the current round                         *)
  scoreMax,    (* score_max: best score reported so far                     *)
  lastProgress,(* last_progress_attempts                                    *)
  hostResults, (* host_results: the slots as copied back after a round      *)
  gpu,         (* kernel at the head of the stream, "idle" when it is empty *)
  todo,        (* lanes the scoring kernel at the head has yet to run       *)
  claim,       (* slot a lane has won and not yet filled, 0 for none        *)
  reg,         (* the hash that lane holds in registers meanwhile           *)
  key,         (* the key a lane stands at (state_x, state_lambda)          *)
  inv,         (* what state_inv holds for the lane                         *)
  hashes,      (* the hashes buffer                                         *)
  slots,       (* results: one slot per score                               *)
  reports,     (* history: FOUND events handed to the callback              *)
  scored       (* history: <<attempt, score>> of every address scored       *)

hostVars == <<pc, held, ret, errorText, event, stopped, rounds, attemptBase,
              scoreMax, lastProgress, hostResults, reports>>
laneVars == <<key, inv, hashes>>
pubVars  == <<todo, claim, reg, slots, scored>>
vars == <<hostVars, gpu, laneVars, pubVars>>

-----------------------------------------------------------------------------
Lane  == 0 .. Size - 1
Score == 1 .. MaxScore

NoReturn == 1

DeviceBuffers == {"precomp", "hashes", "results", "state_x", "state_lambda", "state_inv"}
RunResources  == DeviceBuffers \cup {"stream", "host_results"}

\* An address: the key it belongs to and the number of contract rehashes.
Address(k, n) == [key |-> k, depth |-> n]

\* A lane stepped with anything but a fresh reciprocal stands at no known key.
Lost == -1
NoAddress == Address(Lost, 0)

\* The address the search is about.
Target(k) == Address(k, IF Contract THEN 1 ELSE 0)

EmptySlot == [found |-> 0, id |-> 0, hash |-> NoAddress]

\* cudaMalloc, cudaStreamCreate... : what each call adds, and where it leads.
\* alloc_memory asks for its six buffers one by one, and any of the six calls
\* may be the one that fails.
AfterCall ==
  [set_device          |-> [pc |-> "alloc",               adds |-> {}],
   malloc_precomp      |-> [pc |-> "malloc_hashes",       adds |-> {"precomp"}],
   malloc_hashes       |-> [pc |-> "malloc_results",      adds |-> {"hashes"}],
   malloc_results      |-> [pc |-> "malloc_state_x",      adds |-> {"results"}],
   malloc_state_x      |-> [pc |-> "malloc_state_lambda", adds |-> {"state_x"}],
   malloc_state_lambda |-> [pc |-> "malloc_state_inv",    adds |-> {"state_lambda"}],
   malloc_state_inv    |-> [pc |-> "precomp",             adds |-> {"state_inv"}],
   copy_inputs         |-> [pc |-> "seed",                adds |-> {}],
   seed                |-> [pc |-> "stream",              adds |-> {}],
   stream              |-> [pc |-> "malloc_host",         adds |-> {"stream"}],
   malloc_host         |-> [pc |-> "init_lanes",          adds |-> {"host_results"}]]

\* emit_phase: where the host goes when the callback lets it continue.
AfterPhase ==
  [ctx        |-> "set_device",
   alloc      |-> "malloc_precomp",
   precomp    |-> "copy_inputs",
   init_lanes |-> "launch_init"]

BeforeAlloc   == {"check", "ready", "ctx", "set_device", "alloc"}
InAllocMemory == {"malloc_precomp", "malloc_hashes", "malloc_results",
                  "malloc_state_x", "malloc_state_lambda", "malloc_state_inv"}
BeforeStream  == {"precomp", "copy_inputs", "seed", "stream"}

\* Mutant: a failing alloc_memory is taken to have allocated nothing.
Released_NoPartial(p) ==
  IF p \in BeforeAlloc \cup InAllocMemory THEN {}
  ELSE IF p \in BeforeStream THEN DeviceBuffers
  ELSE RunResources

\* What the error and cancel exits at control point p free: nothing before
\* alloc_memory; free_memory, which passes over what was not allocated, inside
\* it and until the stream exists; then free_run_resources.
Released(p) ==
  IF p \in BeforeAlloc THEN {}
  ELSE IF p \in InAllocMemory \cup BeforeStream THEN DeviceBuffers
  ELSE RunResources

-----------------------------------------------------------------------------
Init ==
  /\ pc = "check" /\ held = {} /\ ret = NoReturn /\ errorText = FALSE
  /\ event = "none" /\ stopped = FALSE
  /\ rounds = 0 /\ attemptBase = 0 /\ scoreMax = 0 /\ lastProgress = 0
  /\ hostResults = [s \in Score |-> EmptySlot]
  /\ gpu = "idle" /\ todo = {}
  /\ claim = [l \in Lane |-> 0] /\ reg = [l \in Lane |-> NoAddress]
  /\ key = [l \in Lane |-> Lost] /\ inv = [l \in Lane |-> "garbage"]
  /\ hashes = [l \in Lane |-> NoAddress]
  /\ slots = [s \in Score |-> EmptySlot]
  /\ reports = <<>> /\ scored = {}

\* A failing exit: free, copy_error, then emit_error when `announced`.
Fail(announced) ==
  /\ held' = held \ Released(pc)
  /\ errorText' = TRUE
  /\ IF announced THEN pc' = "emit_error" /\ ret' = ret
                  ELSE pc' = "done" /\ ret' = -1
  /\ gpu' = "idle"
  /\ UNCHANGED <<event, stopped, rounds, attemptBase, scoreMax, lastProgress,
                 hostResults, reports, laneVars, pubVars>>

\* The host goes on to `next`, or cleans up and returns 0 when told to stop.
Answer(stop, next) ==
  /\ stopped' = stop
  /\ IF stop THEN pc' = "done" /\ ret' = 0 /\ held' = held \ Released(pc)
             ELSE pc' = next /\ UNCHANGED <<ret, held>>

\* Null config and an undecodable key return silently; the other refusals
\* also emit an error event.
CheckConfig ==
  /\ pc = "check"
  /\ \/ /\ pc' = "ready"
        /\ UNCHANGED <<held, ret, errorText, event, stopped, rounds, attemptBase,
                       scoreMax, lastProgress, hostResults, reports, gpu, laneVars, pubVars>>
     \/ Fail(FALSE)
     \/ Fail(TRUE)

EmitReady ==
  /\ pc = "ready"
  /\ \/ Fail(FALSE)
     \/ \E stop \in BOOLEAN :
          /\ event' = "ready"
          /\ Answer(stop, "ctx")
          /\ UNCHANGED <<errorText, rounds, attemptBase, scoreMax, lastProgress,
                         hostResults, reports, gpu, laneVars, pubVars>>

EmitPhase ==
  /\ pc \in DOMAIN AfterPhase
  /\ \E stop \in BOOLEAN :
       /\ event' = "phase"
       /\ Answer(stop, AfterPhase[pc])
       /\ UNCHANGED <<errorText, rounds, attemptBase, scoreMax, lastProgress,
                      hostResults, reports, gpu, laneVars, pubVars>>

CudaCall ==
  /\ pc \in DOMAIN AfterCall
  /\ \/ /\ held' = held \cup AfterCall[pc].adds
        /\ pc' = AfterCall[pc].pc
        /\ UNCHANGED <<ret, errorText, event, stopped, rounds, attemptBase, scoreMax,
                       lastProgress, hostResults, reports, gpu, laneVars, pubVars>>
     \/ Fail(TRUE)

\* pv_clear_results, then the three-kernel init pipeline: lane l stands at
\* seed + l, its hash is in the buffer, its reciprocal input is staged.
LaunchInit ==
  /\ pc = "launch_init"
  /\ \/ /\ slots' = [s \in Score |-> EmptySlot]
        /\ hostResults' = [s \in Score |-> EmptySlot]
        /\ key' = [l \in Lane |-> l]
        /\ inv' = [l \in Lane |-> "delta"]
        /\ hashes' = [l \in Lane |-> Address(l, 0)]
        /\ pc' = "launch"
        /\ UNCHANGED <<held, ret, errorText, event, stopped, rounds, attemptBase, scoreMax,
                       lastProgress, reports, gpu, todo, claim, reg, scored>>
     \/ Fail(TRUE)

EmitError ==
  /\ pc = "emit_error"
  /\ event' = "error"
  /\ pc' = "done" /\ ret' = -1
  /\ UNCHANGED <<held, errorText, stopped, rounds, attemptBase, scoreMax, lastProgress,
                 hostResults, reports, gpu, laneVars, pubVars>>

-----------------------------------------------------------------------------
(* The round loop of the host.                                             *)

\* The kernels launch_round queues, in stream order, before the memcpy.
FirstKernel == IF rounds > 0 THEN "inverse"
               ELSE IF Contract THEN "transform" ELSE "score"

\* Mutant: contract rounds after the first score the plain hash.
KernelAfter_NoTransform(k) ==
  IF k = "inverse" THEN (IF Contract THEN "step" ELSE "step_scored")
  ELSE IF k \in {"step", "transform"} THEN "score"
  ELSE "memcpy"

KernelAfter(k) ==
  IF k = "inverse" THEN (IF Contract THEN "step" ELSE "step_scored")
  ELSE IF k = "step" THEN "transform"
  ELSE IF k = "transform" THEN "score"
  ELSE "memcpy"

LaunchRound ==
  /\ pc = "launch"
  /\ rounds < MaxRounds
  /\ \/ /\ attemptBase' = rounds * Size
        /\ gpu' = FirstKernel
        /\ rounds' = rounds + 1
        /\ todo' = Lane
        /\ pc' = "sync"
        /\ UNCHANGED <<held, ret, errorText, event, stopped, scoreMax, lastProgress,
                       hostResults, reports, laneVars, claim, reg, slots, scored>>
     \/ Fail(TRUE)

\* cudaStreamSynchronize returns when the stream has drained, or with the
\* error of any kernel or copy in it.
Sync ==
  /\ pc = "sync"
  /\ \/ /\ gpu = "idle"
        /\ pc' = "scan"
        /\ UNCHANGED <<held, ret, errorText, event, stopped, rounds, attemptBase, scoreMax,
                       lastProgress, hostResults, reports, gpu, laneVars, pubVars>>
     \/ Fail(TRUE)

\* Mutant: the scan starts one below kMaxScore.
Hits_OffByOne == {s \in Score : s > scoreMax /\ s < MaxScore /\ hostResults[s].found > 0}

\* Slots the scan from kMaxScore down to score_max + 1 would stop at.
Hits == {s \in Score : s > scoreMax /\ hostResults[s].found > 0}

\* Mutant: the base of the round after, the slip backend.cu:826 warns of.
FoundEvent_NextBase(s) == [score    |-> s,
                           attempts |-> rounds * Size + hostResults[s].id,
                           address  |-> hostResults[s].hash]

FoundEvent(s) == [score    |-> s,
                  attempts |-> attemptBase + hostResults[s].id,
                  address  |-> hostResults[s].hash]

ScanResults ==
  /\ pc = "scan"
  /\ \/ /\ Hits = {}
        /\ pc' = "progress"
        /\ UNCHANGED <<held, ret, stopped, event, scoreMax, reports>>
     \/ \E s \in Hits, stop \in BOOLEAN :
          /\ \A t \in Hits : t <= s
          /\ scoreMax' = s
          /\ reports' = Append(reports, FoundEvent(s))
          /\ event' = "found"
          /\ Answer(stop, "progress")
  /\ UNCHANGED <<errorText, rounds, attemptBase, lastProgress, hostResults,
                 gpu, laneVars, pubVars>>

\* Mutant: the attempts before ++rounds.
ReportProgress_Early ==
  /\ pc = "progress"
  /\ \/ /\ pc' = "launch"
        /\ UNCHANGED <<held, ret, stopped, event, lastProgress>>
     \/ /\ ProgressOn
        /\ lastProgress' = attemptBase
        /\ event' = "progress"
        /\ \E stop \in BOOLEAN : Answer(stop, "launch")
  /\ UNCHANGED <<errorText, rounds, attemptBase, scoreMax, hostResults, reports,
                 gpu, laneVars, pubVars>>

\* Whether the interval has elapsed is up to the clock.
ReportProgress ==
  /\ pc = "progress"
  /\ \/ /\ pc' = "launch"
        /\ UNCHANGED <<held, ret, stopped, event, lastProgress>>
     \/ /\ ProgressOn
        /\ lastProgress' = rounds * Size
        /\ event' = "progress"
        /\ \E stop \in BOOLEAN : Answer(stop, "launch")
  /\ UNCHANGED <<errorText, rounds, attemptBase, scoreMax, hostResults, reports,
                 gpu, laneVars, pubVars>>

-----------------------------------------------------------------------------
(* The device.  In the kernels below the scoring ones, lanes touch only    *)
(* their own cells, so such a kernel is one step; the lanes of a scoring   *)
(* kernel meet at the slots and are interleaved.                           *)

\* pv_iterate_inverse: delta -> 2*sy/delta in every cell of state_inv.
InverseKernel ==
  /\ gpu = "inverse"
  /\ inv' = [l \in Lane |-> IF inv[l] = "delta" THEN "inverse" ELSE "garbage"]
  /\ gpu' = KernelAfter(gpu)
  /\ UNCHANGED <<hostVars, key, hashes, pubVars>>

\* The key a lane reaches by adding the shared point size*G once.
Advanced(l) == IF inv[l] = "inverse" /\ key[l] # Lost THEN key[l] + Size ELSE Lost

\* pv_iterate_step: advance, hash, stage the next reciprocal input.
StepKernel ==
  /\ gpu = "step"
  /\ key' = [l \in Lane |-> Advanced(l)]
  /\ hashes' = [l \in Lane |-> Address(Advanced(l), 0)]
  /\ inv' = [l \in Lane |-> "delta"]
  /\ gpu' = KernelAfter(gpu)
  /\ UNCHANGED <<hostVars, pubVars>>

\* pv_transform_contract rehashes the buffer in place.
TransformKernel ==
  /\ gpu = "transform"
  /\ hashes' = [l \in Lane |-> Address(hashes[l].key, hashes[l].depth + 1)]
  /\ gpu' = KernelAfter(gpu)
  /\ UNCHANGED <<hostVars, key, inv, pubVars>>

\* pv_publish_candidate up to its atomicAdd: a lane whose score beats the
\* launch's score_max counts itself in; only the first to do so may fill.
Publish(l, address, s) ==
  /\ scored' = scored \cup {<<address.key, s>>}
  /\ slots' = IF s > scoreMax THEN [slots EXCEPT ![s].found = @ + 1] ELSE slots
  /\ IF s > scoreMax /\ slots[s].found = 0
     THEN claim' = [claim EXCEPT ![l] = s] /\ reg' = [reg EXCEPT ![l] = address]
     ELSE UNCHANGED <<claim, reg>>

\* The score of an address does not change between two looks at it.
ScoresOf(address) ==
  {s \in 0 .. MaxScore : \A p \in scored : p[1] = address.key => p[2] = s}

\* pv_score_leading, pv_score_pattern, pv_score_tron_*: one lane.
ScoreLane(l) ==
  /\ gpu = "score" /\ l \in todo
  /\ todo' = todo \ {l}
  /\ \E s \in ScoresOf(hashes[l]) : Publish(l, hashes[l], s)
  /\ UNCHANGED <<hostVars, gpu, laneVars>>

\* pv_iterate_step_scored: one lane; the hash never leaves registers.
StepScoredLane(l) ==
  /\ gpu = "step_scored" /\ l \in todo
  /\ todo' = todo \ {l}
  /\ key' = [key EXCEPT ![l] = Advanced(l)]
  /\ inv' = [inv EXCEPT ![l] = "delta"]
  /\ \E s \in ScoresOf(Address(Advanced(l), 0)) : Publish(l, Address(Advanced(l), 0), s)
  /\ UNCHANGED <<hostVars, gpu, hashes>>

\* Mutant: the winner stores its hash and not its lane.
FillSlot_NoId(l) ==
  /\ gpu \in {"score", "step_scored"} /\ claim[l] # 0
  /\ slots' = [slots EXCEPT ![claim[l]].hash = reg[l]]
  /\ claim' = [claim EXCEPT ![l] = 0] /\ reg' = [reg EXCEPT ![l] = NoAddress]
  /\ UNCHANGED <<hostVars, gpu, laneVars, todo, scored>>

\* The rest of pv_publish_candidate: the winner fills the slot.
FillSlot(l) ==
  /\ gpu \in {"score", "step_scored"} /\ claim[l] # 0
  /\ slots' = [slots EXCEPT ![claim[l]] = [found |-> @.found, id |-> l, hash |-> reg[l]]]
  /\ claim' = [claim EXCEPT ![l] = 0] /\ reg' = [reg EXCEPT ![l] = NoAddress]
  /\ UNCHANGED <<hostVars, gpu, laneVars, todo, scored>>

\* A scoring kernel ends when all its lanes have.
ScoringKernelEnds ==
  /\ gpu \in {"score", "step_scored"}
  /\ todo = {} /\ \A l \in Lane : claim[l] = 0
  /\ gpu' = KernelAfter(gpu)
  /\ UNCHANGED <<hostVars, laneVars, pubVars>>

\* cudaMemcpyAsync(host_results, results), queued behind the kernels.
CopyResults ==
  /\ gpu = "memcpy"
  /\ hostResults' = slots
  /\ gpu' = "idle"
  /\ UNCHANGED <<pc, held, ret, errorText, event, stopped, rounds, attemptBase,
                 scoreMax, lastProgress, reports, laneVars, pubVars>>

HostStep ==
  \/ CheckConfig \/ EmitReady \/ EmitPhase \/ CudaCall \/ LaunchInit \/ EmitError
  \/ LaunchRound \/ Sync \/ ScanResults \/ ReportProgress

DeviceStep ==
  \/ InverseKernel \/ StepKernel \/ TransformKernel
  \/ \E l \in Lane : ScoreLane(l) \/ StepScoredLane(l) \/ FillSlot(l)
  \/ ScoringKernelEnds \/ CopyResults

Next == HostStep \/ DeviceStep

Spec == Init /\ [][Next]_vars

-----------------------------------------------------------------------------
(* Properties.                                                             *)

Address_ == [key : Nat \cup {Lost}, depth : Nat]
Slot_    == [found : Nat, id : Lane, hash : Address_]
Report_  == [score : Score, attempts : Nat, address : Address_]

\* The types of the variables.
TypeOK ==
  /\ pc \in {"check", "ready", "emit_error", "launch_init", "launch", "sync", "scan",
             "progress", "done"} \cup DOMAIN AfterPhase \cup DOMAIN AfterCall
  /\ held \subseteq RunResources
  /\ ret \in {NoReturn, 0, -1} /\ errorText \in BOOLEAN /\ stopped \in BOOLEAN
  /\ event \in {"none", "ready", "phase", "found", "progress", "error"}
  /\ rounds \in Nat /\ attemptBase \in Nat /\ scoreMax \in 0 .. MaxScore
  /\ lastProgress \in Nat
  /\ hostResults \in [Score -> Slot_] /\ slots \in [Score -> Slot_]
  /\ gpu \in {"idle", "inverse", "step", "transform", "score", "step_scored", "memcpy"}
  /\ todo \subseteq Lane
  /\ claim \in [Lane -> 0 .. MaxScore] /\ reg \in [Lane -> Address_]
  /\ key \in [Lane -> Nat \cup {Lost}]
  /\ inv \in [Lane -> {"delta", "inverse", "garbage"}]
  /\ hashes \in [Lane -> Address_]
  /\ reports \in Seq(Report_)
  /\ scored \subseteq (Nat \cup {Lost}) \X (0 .. MaxScore)

\* The offset and the address of every FOUND event belong together: the
\* address is that of key seed + attempts (rehashed exactly as often as the
\* mode asks) and that key has the reported score.  This is what makes the
\* split-key finalisation on the host reproduce the address.
OffsetMatchesAddress ==
  \A i \in 1 .. Len(reports) :
    /\ reports[i].address = Target(reports[i].attempts)
    /\ <<reports[i].attempts, reports[i].score>> \in scored

\* When a round starts, no key tried so far beats the last report: an
\* improving key is reported in the very round that found it.
BestIsReported ==
  pc = "launch" =>
    /\ \A p \in scored : p[2] <= scoreMax
    /\ scoreMax > 0 => Len(reports) > 0 /\ reports[Len(reports)].score = scoreMax

\* The slots are never cleared between rounds; it is enough that those the
\* next scan can look at are empty.
SlotsAboveBestEmpty ==
  pc = "launch" => \A s \in Score : s > scoreMax => slots[s].found = 0

\* After n rounds the keys seed .. seed + n*Size - 1 have been tried and no
\* others: no lane repeats another's key or skips one.
KeysTriedInOrder ==
  pc = "launch" =>
    /\ {p[1] : p \in scored} = 0 .. rounds * Size - 1
    /\ Cardinality(scored) = rounds * Size

\* A progress event counts the keys that were tried, and the attempt number
\* of a later FOUND event never falls behind it: the count a reader of the
\* events sees only grows.
AttemptsCountKeys ==
  [][/\ lastProgress' # lastProgress => lastProgress' = Cardinality(scored)
     /\ reports' # reports => reports'[Len(reports')].attempts >= lastProgress]_vars

\* Every way out of the call frees what the call had acquired.
NothingHeldAfterReturn == pc = "done" => held = {}

\* The call returns 0 exactly when a callback asked it to stop, and -1
\* exactly when it leaves an error text for the caller.
ReturnValueTellsWhy ==
  pc = "done" => /\ ret = 0 <=> stopped
                 /\ ret = -1 <=> errorText

\* The call implements KeySearch.
Abstract == INSTANCE KeySearch
  WITH Key     <- 0 .. MaxRounds * Size - 1,
       Score   <- 0 .. MaxScore,
       tried   <- scored,
       reports <- [i \in 1 .. Len(reports) |-> <<reports[i].attempts, reports[i].score>>],
       over    <- ret # NoReturn

AbstractSpec == Abstract!Spec
=============================================================================
