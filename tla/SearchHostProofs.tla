-------------------------- MODULE SearchHostProofs --------------------------
(***************************************************************************)
(* Proofs about the hosts of a search (RunEvents): Worker, Dashboard and   *)
(* Interactive around it, for any number of attempts, any scores and       *)
(* intervals, any capacity of the channel, any lists of devices and any    *)
(* number of ways back.  The worker: the keys are those asked for, the     *)
(* exit status is explained by what was written, a stopped search with a   *)
(* candidate ends with a result, and progress is in time.  The dashboard:  *)
(* the outcome of a search that completed is the one that is returned and  *)
(* shown.  The command around it: the arguments are the answers, the       *)
(* search runs on the devices that were chosen, and what is printed is the *)
(* outcome.                                                                *)
(***************************************************************************)
EXTENDS Worker, Interactive, DataInduction, SequenceTheorems

-----------------------------------------------------------------------------
(* The search: a candidate that is told has a score, and a return has a    *)
(* result or an error.                                                     *)

Places == {"announce", "setup", "search", "found", "matched", "ended", "returned"}

\* A candidate that is being told or kept has a score; what is returned is a
\* result or an error, not both.
RunInv ==
  /\ at \in Places /\ best \in Nat /\ kept \in Nat
  /\ (at \in {"found", "matched"} \/ settled = "match") => best > 0
  /\ at = "returned" =>
       /\ outcome.result \in Nat
       /\ \/ outcome.result > 0 /\ outcome.err = "none"
          \/ outcome.result = 0 /\ outcome.err \in {"failed", "canceled"}

LEMMA InitRun == RunInit => RunInv
  BY DEF RunInit, RunInv, Places

\* A return with a score is no error, one without is.
LEMMA ReturnsEither ==
  ASSUME NEW score \in Nat, NEW err \in {"failed", "canceled", "none"}, Returns(score, err),
         err = "none" => score > 0
  PROVE  /\ at' = "returned"
         /\ \/ score > 0 /\ outcome'.result = score /\ outcome'.err = "none"
            \/ score = 0 /\ outcome'.result = 0 /\ outcome'.err \in {"failed", "canceled"}
<1>1. CASE score > 0
  BY <1>1 DEF Returns, Outcome
<1>2. CASE ~(score > 0)
  BY <1>2 DEF Returns, Outcome
<1> QED
  BY <1>1, <1>2

\* Every step of the search keeps that.
LEMMA RunStep == RunInv /\ RunNext => RunInv'
<1> SUFFICES ASSUME RunInv, RunNext PROVE RunInv'
  OBVIOUS
<1>1. best \in Nat /\ kept \in Nat /\ TargetScore \in Nat \ {0} /\ MaxScore \in Nat
  BY SearchAssumption DEF RunInv
<1>2. CASE Announces \/ SetsUp \/ Progresses \/ Breaks \/ Skips
  BY <1>2 DEF RunInv, Places, Announces, SetsUp, Progresses, Breaks, Skips
<1>3. CASE Finds
  <2>1. /\ at = "search" /\ UNCHANGED <<kept, settled>>
        /\ \/ \E score \in 1 .. MaxScore : best' = score /\ at' = "found"
           \/ UNCHANGED <<best, at>>
    BY <1>3 DEF Finds
  <2>2. CASE \E score \in 1 .. MaxScore : best' = score /\ at' = "found"
    <3>1. best' \in Nat /\ best' > 0
      BY <2>2, <1>1
    <3> QED
      BY <2>1, <2>2, <3>1 DEF RunInv, Places
  <2>3. CASE UNCHANGED <<best, at>>
    BY <2>1, <2>3 DEF RunInv, Places
  <2> QED
    BY <2>1, <2>2, <2>3
<1>4. CASE Proposes
  BY <1>4 DEF Proposes, RunInv, Places
<1>5. CASE Finalises
  BY <1>5 DEF Finalises, RunInv, Places
<1>7. CASE Matches
  <2>1. best > 0 /\ Returns(best, "none") /\ UNCHANGED <<best, kept, settled>>
    BY <1>7 DEF Matches, RunInv
  <2> QED
    BY <2>1, <1>1, ReturnsEither DEF RunInv, Places
<1>8. CASE Ends
  <2>1. kept' \in Nat
    BY <1>1, <1>8 DEF Ends, Better
  <2> QED
    BY <2>1, <1>8 DEF Ends, RunInv, Places
<1>9. CASE Fails
  <2>1. Returns(kept, "failed") /\ UNCHANGED <<best, kept, settled>>
    BY <1>9 DEF Fails
  <2> QED
    BY <2>1, <1>1, ReturnsEither DEF RunInv, Places
<1>10. CASE Continues
  <2>1. CASE \E err \in {"failed", "canceled"} : Returns(kept, err) /\ UNCHANGED <<best, kept, settled>>
    BY <2>1, <1>1, ReturnsEither DEF RunInv, Places
  <2>2. CASE at' = "announce" /\ UNCHANGED <<best, kept, settled>>
    BY <2>2 DEF RunInv, Places
  <2> QED
    BY <2>1, <2>2, <1>10 DEF Continues
<1> QED
  BY <1>2, <1>3, <1>4, <1>5, <1>7, <1>8, <1>9, <1>10 DEF RunNext

-----------------------------------------------------------------------------
(* The worker: its exit status.                                            *)

\* The steps of the worker that leave the search alone.
LEMMA OtherStepKeepsRun == RunInv /\ UNCHANGED <<at, best, kept, settled, outcome>> => RunInv'
  BY DEF RunInv

LEMMA NextKeepsRun == RunInv /\ [WorkerNext]_workerVars => RunInv'
<1> SUFFICES ASSUME RunInv, [WorkerNext]_workerVars PROVE RunInv'
  OBVIOUS
<1>1. CASE WorkerSearches
  BY <1>1, RunStep DEF WorkerSearches
<1>2. CASE Resolves \/ Refuses \/ Runs \/ Stops \/ Exits \/ UNCHANGED workerVars
  BY <1>2, OtherStepKeepsRun DEF Resolves, Refuses, Runs, Stops, Exits, workerVars, runVars
<1>3. CASE EmitsProgress \/ EmitsOther
  BY <1>3, OtherStepKeepsRun DEF EmitsProgress, EmitsOther, EmitLine
<1> QED
  BY <1>1, <1>2, <1>3 DEF WorkerNext

LEMMA ExitsExplains ==
  ASSUME RunInv, Exits
  PROVE  /\ exit' = 0 => "result" \in said'
         /\ exit' = 1 => "error" \in said'
         /\ outcome.result > 0 => exit' = 0 /\ "result" \in said'
<1> DEFINE failed == outcome.err # "none" /\ ~(outcome.result > 0 /\ outcome.err = "canceled")
<1>1. /\ exit' = (IF failed THEN 1 ELSE 0)
      /\ (outcome.result > 0 => "result" \in said') /\ (failed => "error" \in said')
  BY DEF Exits
<1>2. \/ outcome.result > 0 /\ outcome.err = "none"
      \/ outcome.result = 0 /\ outcome.err \in {"failed", "canceled"}
  BY DEF Exits, RunInv
<1>3. failed <=> ~(outcome.result > 0)
  BY <1>2
<1> HIDE DEF failed
<1> QED
  BY <1>1, <1>3

LEMMA NextExplains == RunInv /\ ExitIsExplained /\ [WorkerNext]_workerVars => ExitIsExplained'
<1> SUFFICES ASSUME RunInv, ExitIsExplained, [WorkerNext]_workerVars PROVE ExitIsExplained'
  OBVIOUS
<1>1. CASE Exits
  BY <1>1, ExitsExplains DEF ExitIsExplained
<1>2. CASE Refuses
  BY <1>2 DEF Refuses, Says, ExitIsExplained
<1>3. CASE Resolves \/ Runs \/ Stops \/ WorkerSearches \/ UNCHANGED workerVars
  BY <1>3 DEF Resolves, Runs, Stops, WorkerSearches, workerVars, emitterVars, ExitIsExplained
<1>4. CASE EmitsProgress \/ EmitsOther
  <2>1. exit' = exit /\ said \subseteq said'
    BY <1>4 DEF EmitsProgress, EmitsOther, EmitLine
  <2> QED
    BY <2>1 DEF ExitIsExplained
<1> QED
  BY <1>1, <1>2, <1>3, <1>4 DEF WorkerNext

\* The exit status 0 comes after a result, 1 after an error, whatever the
\* flags, the search and its stops did.
THEOREM StatusExplained == WorkerSpec => []ExitIsExplained
<1>1. WorkerInit => RunInv /\ ExitIsExplained
  BY InitRun DEF WorkerInit, ExitIsExplained
<1>2. RunInv /\ ExitIsExplained /\ [WorkerNext]_workerVars => (RunInv /\ ExitIsExplained)'
  BY NextKeepsRun, NextExplains
<1> QED
  BY <1>1, <1>2, PTL DEF WorkerSpec

-----------------------------------------------------------------------------
(* The worker: a stop that keeps the best.                                 *)

Told == "candidate" \in said \/ sending.kind = "candidate"

\* The search still has what a candidate was told of.
Held ==
  IF at = "returned" THEN outcome.result > 0
  ELSE kept > 0 \/ (best > 0 /\ at \in {"search", "found", "matched"})

\* Only a failure loses a candidate that was told, and what comes to an error
\* is one; before the search nothing is said.
HeldInv ==
  /\ Told /\ ~faulted => Held
  /\ settled \in {"error", "memory"} => faulted
  /\ status \in {"flags", "resolved"} => said = {}
  /\ (status = "exited" /\ ~faulted /\ "candidate" \in said) => exit = 0 /\ "result" \in said

\* A step of the search that is no fault keeps a candidate.
LEMMA RunStepHolds ==
  ASSUME RunInv, RunNext, RunInv', Held,
         settled \notin {"error", "memory"}, settled' \notin {"error", "memory"},
         ~(at = "search" /\ at' = "ended" /\ best > 0 /\ Ready')
  PROVE  Held'
<1>1. best \in Nat /\ kept \in Nat /\ at \in Places
  BY DEF RunInv
<1>2. CASE Announces \/ SetsUp \/ Progresses \/ Breaks \/ Skips
  BY <1>2 DEF Held, Announces, SetsUp, Progresses, Breaks, Skips
<1>3. CASE Finds
  <2>1. /\ at = "search" /\ UNCHANGED <<kept, settled>>
        /\ \/ at' = "found" \/ UNCHANGED <<best, at>>
    BY <1>3 DEF Finds
  <2> QED
    BY <2>1 DEF Held, RunInv
<1>4. CASE Proposes
  BY <1>4 DEF Proposes, Held
<1>5. CASE Finalises
  BY <1>5 DEF Finalises, Held, RunInv
<1>6. CASE Matches
  <2>1. best > 0 /\ Returns(best, "none")
    BY <1>6 DEF Matches, RunInv
  <2> QED
    BY <2>1, <1>1, ReturnsEither DEF Held
<1>7. CASE Ends
  <2>1. at = "search" /\ at' = "ended" /\ Ready
    BY <1>7 DEF Ends
  <2>2. kept' > 0
    <3>1. CASE best > 0 /\ kept' = Better(best, kept)
      BY <3>1, <1>1 DEF Better
    <3>2. CASE UNCHANGED <<sending, kept>>
      <4>1. ~(best > 0)
        BY <3>2, <2>1 DEF Ready
      <4> QED
        BY <4>1, <3>2, <2>1 DEF Held
    <3> QED
      BY <3>1, <3>2, <1>7 DEF Ends
  <2> QED
    BY <2>1, <2>2 DEF Held
<1>8. CASE Fails
  BY <1>8 DEF Fails
<1>9. CASE Continues
  <2>1. at = "ended" /\ kept > 0 /\ kept' = kept
    BY <1>9 DEF Continues, Held
  <2>2. CASE \E err \in {"failed", "canceled"} : Returns(kept, err)
    BY <2>1, <2>2, <1>1, ReturnsEither DEF Held
  <2>3. CASE at' = "announce"
    BY <2>1, <2>3 DEF Held
  <2> QED
    BY <2>2, <2>3, <1>9 DEF Continues
<1> QED
  BY <1>2, <1>3, <1>4, <1>5, <1>6, <1>7, <1>8, <1>9 DEF RunNext

\* A candidate is only told when there is one.
LEMMA RunStepTells ==
  ASSUME RunInv, RunNext, sending.kind # "candidate", sending'.kind = "candidate"
  PROVE  Held'
<1>1. CASE Proposes
  <2>1. best > 0 /\ best' = best /\ at' \in {"matched", "search"}
    BY <1>1 DEF Proposes, RunInv
  <2> QED
    BY <2>1 DEF Held
<1>2. CASE ~Proposes
  <2>1. sending' = sending \/ \E kind \in Kinds \ {"candidate"} : \E s : sending' = Event(kind, s)
    BY <1>2 DEF RunNext, Announces, SetsUp, Progresses, Finds, Finalises, Matches,
                Ends, Breaks, Fails, Skips, Continues, Emits, Heard, Kinds
  <2> QED
    BY <2>1 DEF Event
<1> QED
  BY <1>1, <1>2

LEMMA NextHolds == RunInv /\ HeldInv /\ [WorkerNext]_workerVars => HeldInv'
<1> SUFFICES ASSUME RunInv, HeldInv, [WorkerNext]_workerVars PROVE HeldInv'
  OBVIOUS
<1>1. CASE WorkerSearches
  <2>1. /\ RunNext /\ status = "running" /\ status' = "running" /\ said' = said
        /\ settled' \in {"error", "memory"} => faulted'
        /\ ~faulted' => /\ ~faulted /\ settled' \notin {"error", "memory"}
                        /\ ~(at = "search" /\ at' = "ended" /\ best > 0 /\ Ready')
    BY <1>1 DEF WorkerSearches, emitterVars
  <2>2. RunInv'
    BY <2>1, RunStep
  <2>3. ASSUME Told', ~faulted' PROVE Held'
    <3>1. CASE Told
      <4>1. Held /\ settled \notin {"error", "memory"}
        BY <3>1, <2>1, <2>3 DEF HeldInv
      <4>2. /\ settled' \notin {"error", "memory"}
            /\ ~(at = "search" /\ at' = "ended" /\ best > 0 /\ Ready')
        BY <2>1, <2>3
      <4> QED
        BY <4>1, <4>2, <2>1, <2>2, RunStepHolds
    <3>2. CASE ~Told
      <4>1. sending.kind # "candidate" /\ sending'.kind = "candidate"
        BY <3>2, <2>1, <2>3 DEF Told
      <4> QED
        BY <4>1, <2>1, RunStepTells
    <3> QED
      BY <3>1, <3>2
  <2> QED
    BY <2>1, <2>3 DEF HeldInv
<1>2. CASE EmitsProgress \/ EmitsOther
  <2>1. /\ status = "running" /\ UNCHANGED <<status, exit, faulted, at, best, kept, settled, outcome>>
        /\ sending' = NoEvent
    BY <1>2 DEF EmitsProgress, EmitsOther, EmitLine
  <2>2. Told' => Told
    <3>1. sending'.kind # "candidate"
      BY <2>1 DEF NoEvent, Event
    <3>2. said' \subseteq said \cup {"progress", sending.kind}
      BY <1>2 DEF EmitsProgress, EmitsOther
    <3> QED
      BY <3>1, <3>2 DEF Told
  <2> QED
    BY <2>1, <2>2 DEF HeldInv, Held
<1>3. CASE Exits
  <2>1. UNCHANGED <<at, best, kept, settled, outcome, sending, faulted>> /\ at = "returned" /\ status' = "exited"
        /\ said' \subseteq said \cup {"result", "error"}
    BY <1>3 DEF Exits, runVars
  <2>2. Told' => Told
    BY <2>1 DEF Told
  <2>3. ASSUME ~faulted', "candidate" \in said'
        PROVE  exit' = 0 /\ "result" \in said'
    <3>1. Told /\ ~faulted
      BY <2>1, <2>3 DEF Told
    <3>2. outcome.result > 0
      BY <3>1, <2>1 DEF HeldInv, Held
    <3> QED
      BY <3>2, <1>3, ExitsExplains
  <2> QED
    BY <2>1, <2>2, <2>3 DEF HeldInv, Held
<1>4. CASE Refuses
  <2>1. UNCHANGED <<at, best, kept, settled, outcome, sending, faulted>> /\ said = {} /\ said' = {"error"}
        /\ status' = "exited"
    BY <1>4 DEF Refuses, Says, runVars, HeldInv
  <2> QED
    BY <2>1 DEF HeldInv, Held, Told
<1>5. CASE Resolves \/ Runs \/ Stops \/ UNCHANGED workerVars
  <2>1. /\ UNCHANGED <<at, best, kept, settled, outcome, sending, faulted, said, exit>>
        /\ status' = "exited" => status = "exited"
        /\ status' \in {"flags", "resolved"} => status \in {"flags", "resolved"}
    BY <1>5 DEF Resolves, Runs, Stops, workerVars, runVars, emitterVars
  <2> QED
    BY <2>1 DEF HeldInv, Held, Told
<1> QED
  BY <1>1, <1>2, <1>3, <1>4, <1>5 DEF WorkerNext

\* A worker that is stopped once it has told a candidate ends with a result
\* and the exit status 0, in whatever attempt the candidate and the stop were.
THEOREM StopKeepsCandidate == WorkerSpec => []StopYieldsResult
<1>1. WorkerInit => RunInv /\ HeldInv
  BY InitRun DEF WorkerInit, RunInit, HeldInv, Told, Held, NoEvent, Event
<1>2. RunInv /\ HeldInv /\ [WorkerNext]_workerVars => (RunInv /\ HeldInv)'
  BY NextKeepsRun, NextHolds
<1>3. HeldInv => StopYieldsResult
  BY DEF HeldInv, StopYieldsResult
<1> QED
  BY <1>1, <1>2, <1>3, PTL DEF WorkerSpec

-----------------------------------------------------------------------------
(* The worker: the keys.                                                   *)

\* What flags that agree with one another are like.
LEMMA NotContradictory ==
  ASSUME NEW f, ~Contradictory(f)
  PROVE  /\ (f.initPubStdin => f.initPub = "") /\ (f.wsKeyStdin => f.wsKey = "")
         /\ ~(f.wsServerPort < 0)
         /\ f.wsKey # "" \/ f.wsKeyStdin => f.wsServerPort # 0
         /\ f.wsServerPort > 0 => f.wsKey # "" \/ f.wsKeyStdin
<1>1. (f.initPubStdin => f.initPub = "") /\ (f.wsKeyStdin => f.wsKey = "")
  BY DEF Contradictory
<1>2. ~(f.wsServerPort < 0)
  BY DEF Contradictory
<1>3. f.wsKey # "" \/ f.wsKeyStdin => f.wsServerPort # 0
  BY DEF Contradictory
<1>4. f.wsServerPort > 0 => f.wsKey # "" \/ f.wsKeyStdin
  BY DEF Contradictory
<1> QED
  BY <1>1, <1>2, <1>3, <1>4, Zenon

\* What resolveConfig accepts.
LEMMA ResolvedAsAsked ==
  ASSUME NEW f \in Flags, NEW l, UsesStdin(f) => l \in Handshakes,
         NEW c, c = ResolveConfig(f, l), c # Refusal
  PROVE  /\ c.remote <=> (f.initPub # "" \/ f.initPubStdin)
         /\ c.remote => c.initPub = "good"
         /\ c.ws <=> f.wsServerPort > 0
         /\ c.ws <=> c.wsKey = "good"
         /\ f.initPubStdin => l.init_pub = "good"
         /\ f.wsKeyStdin => l.ws_key = "good"
<1> DEFINE onInit == IF UsesStdin(f) /\ l # Unreadable THEN l.init_pub ELSE ""
           onWs == IF UsesStdin(f) /\ l # Unreadable THEN l.ws_key ELSE ""
           initPub == KeyOf(f.initPub, f.initPubStdin, onInit)
           wsKey == KeyOf(f.wsKey, f.wsKeyStdin, onWs)
           refused == Contradictory(f) \/ (UsesStdin(f) /\ l = Unreadable)
                      \/ "bad" \in {initPub, wsKey} \/ f.badSearch
           accepted == [remote |-> initPub # "", initPub |-> initPub, ws |-> f.wsServerPort > 0,
                        wsKey |-> wsKey, interval |-> f.interval,
                        progressMS |-> MinPositive(f.interval["stdout"], f.interval["ws"])]
<1>1. ResolveConfig(f, l) = IF refused THEN Refusal ELSE accepted
  BY DEF ResolveConfig
<1>2. ~refused /\ ResolveConfig(f, l) = accepted
  BY <1>1
<1>3. /\ f.initPub \in KeyKinds /\ f.wsKey \in KeyKinds /\ f.wsServerPort \in Int
      /\ onInit \in KeyKinds /\ onWs \in KeyKinds
  BY KeysAssumption DEF KeyKinds
<1>4. /\ initPub # "bad" /\ wsKey # "bad" /\ ~Contradictory(f)
      /\ ~(UsesStdin(f) /\ l = Unreadable)
  BY <1>2, Zenon
<1>5. /\ initPub = KeyOf(f.initPub, f.initPubStdin, onInit)
      /\ wsKey = KeyOf(f.wsKey, f.wsKeyStdin, onWs)
      /\ UsesStdin(f) => onInit = l.init_pub /\ onWs = l.ws_key
  BY <1>4, Zenon
<1> HIDE DEF initPub, wsKey, onInit, onWs, refused
<1>6. /\ initPub \in {"", "good"}
      /\ initPub = "good" <=> (f.initPub # "" \/ f.initPubStdin)
      /\ (f.initPub = "" /\ f.initPubStdin) => onInit = "good"
  <2> DEFINE stdin == f.initPubStdin   \* a key is good, and there when asked for
  <2>1. initPub = KeyOf(f.initPub, stdin, onInit) /\ initPub # "bad"
    BY <1>4, <1>5
  <2> HIDE DEF stdin
  <2>2. /\ initPub \in {"", "good"}
        /\ initPub = "good" <=> (f.initPub # "" \/ stdin)
        /\ (f.initPub = "" /\ stdin) => onInit = "good"
    BY <2>1, <1>3 DEF KeyOf, KeyKinds
  <2> QED
    BY <2>2 DEF stdin
<1>7. /\ wsKey \in {"", "good"}
      /\ wsKey = "good" <=> (f.wsKey # "" \/ f.wsKeyStdin)
      /\ (f.wsKey = "" /\ f.wsKeyStdin) => onWs = "good"
  <2> DEFINE stdin == f.wsKeyStdin
  <2>1. wsKey = KeyOf(f.wsKey, stdin, onWs) /\ wsKey # "bad"
    BY <1>4, <1>5
  <2> HIDE DEF stdin
  <2>2. /\ wsKey \in {"", "good"}
        /\ wsKey = "good" <=> (f.wsKey # "" \/ stdin)
        /\ (f.wsKey = "" /\ stdin) => onWs = "good"
    BY <2>1, <1>3 DEF KeyOf, KeyKinds
  <2> QED
    BY <2>2 DEF stdin
<1>8. /\ f.initPubStdin => l.init_pub = "good"
      /\ f.wsKeyStdin => l.ws_key = "good"
  <2>1. UsesStdin(f) <=> f.initPubStdin \/ f.wsKeyStdin
    BY DEF UsesStdin
  <2>2. (f.initPubStdin => f.initPub = "") /\ (f.wsKeyStdin => f.wsKey = "")
    BY <1>4, NotContradictory
  <2> QED
    BY <2>1, <2>2, <1>5, <1>6, <1>7, Zenon
<1>9. f.wsServerPort > 0 <=> (f.wsKey # "" \/ f.wsKeyStdin)
  <2>1. /\ ~(f.wsServerPort < 0)
        /\ f.wsKey # "" \/ f.wsKeyStdin => f.wsServerPort # 0
        /\ f.wsServerPort > 0 => f.wsKey # "" \/ f.wsKeyStdin
    BY <1>4, NotContradictory, Zenon
  <2>2. f.wsServerPort > 0 <=> f.wsServerPort # 0
    <3>1. f.wsServerPort \in Int
      BY <1>3
    <3>2. ~(f.wsServerPort < 0)
      BY <2>1
    <3> QED
      BY <3>1, <3>2
  <2> QED
    BY <2>1, <2>2, Zenon
<1>10. /\ accepted.remote = (initPub # "") /\ accepted.initPub = initPub
       /\ accepted.ws = (f.wsServerPort > 0) /\ accepted.wsKey = wsKey
  OBVIOUS
<1> HIDE DEF accepted
<1> QED
  BY <1>2, <1>6, <1>7, <1>8, <1>9, <1>10, Zenon

\* What is resolved is what resolveConfig makes of the flags and the line.
ConfigInv ==
  status = "resolved" =>
    /\ flags \in Flags /\ config = ResolveConfig(flags, line)
    /\ UsesStdin(flags) => line \in Handshakes

\* The keys of a search and of its server are those asked for, for any flags
\* and any line on stdin.
THEOREM KeysAreThoseAsked == WorkerSpec => []KeysAsAsked
<1>1. WorkerInit => ConfigInv
  BY DEF WorkerInit, ConfigInv
<1>2. ConfigInv /\ [WorkerNext]_workerVars => ConfigInv'
  <2> SUFFICES ASSUME ConfigInv, [WorkerNext]_workerVars PROVE ConfigInv'
    OBVIOUS
  <2>1. CASE Resolves
    BY <2>1 DEF Resolves, ConfigInv
  <2>2. status' # "resolved" => ConfigInv'
    BY DEF ConfigInv
  <2>3. CASE Refuses \/ Runs \/ Stops \/ WorkerSearches \/ EmitsProgress \/ EmitsOther \/ Exits
    <3>1. status' # "resolved"
      BY <2>3 DEF Refuses, Runs, Stops, WorkerSearches, EmitsProgress, EmitsOther, EmitLine, Exits
    <3> QED
      BY <3>1, <2>2
  <2>4. CASE UNCHANGED workerVars
    BY <2>4 DEF workerVars, ConfigInv
  <2> QED
    BY <2>1, <2>3, <2>4 DEF WorkerNext
<1>3. ConfigInv => KeysAsAsked
  <2> SUFFICES ASSUME ConfigInv, status = "resolved", config # Refusal PROVE KeysAsAsked
    BY DEF KeysAsAsked
  <2> QED
    BY ResolvedAsAsked DEF ConfigInv, KeysAsAsked
<1> QED
  BY <1>1, <1>2, <1>3, PTL DEF WorkerSpec

-----------------------------------------------------------------------------
(* The emitter: progress in time.                                          *)

\* The search reports as often as the shorter of the two intervals asks for.
Asked(c) ==
  /\ c.interval \in [Streams -> Nat]
  /\ c.progressMS = MinPositive(c.interval["stdout"], c.interval["ws"])

LEMMA ResolvedAsks ==
  ASSUME NEW f \in Flags, NEW l
  PROVE  Asked(ResolveConfig(f, l))
<1>1. f.interval \in [Streams -> Nat]
  BY IntervalsAssumption DEF Streams
<1>2. Asked(Refusal)
  BY DEF Asked, Refusal, NoConfig, Streams, MinPositive
<1>3. ASSUME NEW remote, NEW initPub, NEW ws, NEW wsKey
      PROVE  Asked([remote |-> remote, initPub |-> initPub, ws |-> ws, wsKey |-> wsKey, interval |-> f.interval,
                    progressMS |-> MinPositive(f.interval["stdout"], f.interval["ws"])])
  BY <1>1 DEF Asked
<1> QED
  BY <1>2, <1>3 DEF ResolveConfig

\* The search reports at least as often as either stream asks for.
LEMMA ShortestAsked ==
  ASSUME Asked(config), NEW t \in Streams, config.interval[t] > 0
  PROVE  config.progressMS > 0 /\ config.progressMS <= config.interval[t] /\ config.progressMS \in Nat
  BY DEF Asked, Streams, MinPositive

\* Each stream is less than its interval behind the search.
TimelyInv ==
  /\ Asked(config)
  /\ elapsed \in Nat /\ last \in [Streams -> Nat] /\ (status = "flags" => elapsed = 0)
  /\ \A s \in Streams : config.interval[s] > 0 => elapsed - last[s] < config.interval[s]

LEMMA InitTimely == WorkerInit => TimelyInv
<1> SUFFICES ASSUME WorkerInit PROVE TimelyInv
  OBVIOUS
<1>1. Asked(NoConfig) /\ \A s \in Streams : NoConfig.interval[s] = 0
  BY DEF Asked, NoConfig, Streams, MinPositive
<1>2. config = NoConfig /\ elapsed = 0 /\ last \in [Streams -> Nat]
  BY DEF WorkerInit
<1> QED
  BY <1>1, <1>2 DEF TimelyInv

\* What is emitted at a time: nothing is left behind, and a stream that is
\* told anything was not behind by more than its interval before the report.
LEMMA EmitsInTime ==
  ASSUME TimelyInv, EmitsProgress
  PROVE  /\ TimelyInv'
         /\ \A s, t \in Streams :
              (config.interval[s] > 0 /\ config.interval[t] > 0 /\ last'[s] # last[s]) =>
                last'[s] - last[s] < config.interval[s] + config.interval[t] + Batch
<1>1. /\ config' = config /\ status' = status /\ status = "running" /\ Asked(config)
      /\ elapsed \in Nat /\ last \in [Streams -> Nat] /\ config.interval \in [Streams -> Nat]
  BY DEF TimelyInv, EmitsProgress, EmitLine, Asked
<1>2. PICK now \in 0 .. MaxElapsed :
        /\ config.progressMS > 0 => now <= elapsed + config.progressMS + Batch
        /\ elapsed' = now
        /\ last' = [s \in Streams |-> IF Due(s, now) THEN now ELSE last[s]]
  BY DEF EmitsProgress
<1>3. now \in Nat /\ Batch \in Nat
  BY BoundsAssumption
<1>4. ASSUME NEW s \in Streams, config.interval[s] > 0
      PROVE  now - last'[s] < config.interval[s]
  <2>1. CASE Due(s, now)
    BY <2>1, <1>1, <1>2, <1>3, <1>4
  <2>2. CASE ~Due(s, now)
    <3>1. ~(now - last[s] >= config.interval[s]) /\ last'[s] = last[s]
      BY <2>2, <1>2, <1>4 DEF Due
    <3> QED
      BY <3>1, <1>1, <1>3
  <2> QED
    BY <2>1, <2>2
<1>5. ASSUME NEW s \in Streams, NEW t \in Streams, config.interval[s] > 0, config.interval[t] > 0,
             last'[s] # last[s]
      PROVE  last'[s] - last[s] < config.interval[s] + config.interval[t] + Batch
  <2>1. last'[s] = now
    BY <1>2, <1>5
  <2>2. now <= elapsed + config.interval[t] + Batch
    BY <1>1, <1>2, <1>3, <1>5, ShortestAsked
  <2>3. elapsed - last[s] < config.interval[s]
    BY <1>5 DEF TimelyInv
  <2> QED
    BY <2>1, <2>2, <2>3, <1>1, <1>3
<1>6. last' \in [Streams -> Nat]
  BY <1>1, <1>2, <1>3
<1> QED
  BY <1>1, <1>2, <1>3, <1>4, <1>5, <1>6 DEF TimelyInv

\* Every other step leaves the emitter's times alone.
LEMMA OthersKeepTimes ==
  ASSUME TimelyInv, [WorkerNext]_workerVars, ~EmitsProgress
  PROVE  TimelyInv' /\ elapsed' = elapsed
<1>1. CASE Resolves
  <2>1. flags' \in Flags /\ config' = ResolveConfig(flags', line') /\ last' = last /\ elapsed' = elapsed
    BY <1>1 DEF Resolves, emitterVars
  <2>2. Asked(config)'
    BY <2>1, ResolvedAsks
  <2>3. elapsed = 0 /\ status' = "resolved" /\ last \in [Streams -> Nat]
    BY <1>1 DEF Resolves, TimelyInv
  <2>4. ASSUME NEW s \in Streams, config'.interval[s] > 0
        PROVE  elapsed' - last'[s] < config'.interval[s]
    BY <2>1, <2>2, <2>3, <2>4 DEF Asked
  <2> QED
    BY <2>1, <2>2, <2>3, <2>4 DEF TimelyInv
<1>2. CASE Runs
  <2>1. /\ config' = [config EXCEPT !.initPub = "", !.wsKey = ""] /\ status' = "running"
        /\ last' = last /\ elapsed' = elapsed
    BY <1>2 DEF Runs, emitterVars
  <2>2. config'.interval = config.interval /\ config'.progressMS = config.progressMS
    BY <2>1
  <2> QED
    BY <2>1, <2>2 DEF TimelyInv, Asked
<1>3. CASE Refuses \/ Stops \/ WorkerSearches \/ EmitsOther \/ Exits \/ UNCHANGED workerVars
  <2>1. /\ config' = config /\ last' = last /\ elapsed' = elapsed
        /\ status' = "flags" => status = "flags"
    BY <1>3 DEF Refuses, Stops, WorkerSearches, EmitsOther, EmitLine, Exits, workerVars, emitterVars
  <2> QED
    BY <2>1 DEF TimelyInv
<1> QED
  BY <1>1, <1>2, <1>3 DEF WorkerNext

\* What is due on a stream waits for one report of the search and one batch at
\* most, for any two intervals, any batch and any progress events.
THEOREM InTime == WorkerSpec => ProgressInTime
<1> DEFINE Timely ==
             \A s \in Streams :
               (config.interval[s] > 0 /\ elapsed' > elapsed) =>
                 /\ elapsed' - last'[s] < config.interval[s]
                 /\ \A t \in Streams :
                      (config.interval[t] > 0 /\ last'[s] # last[s]) =>
                        last'[s] - last[s] < config.interval[s] + config.interval[t] + Batch
<1>1. TimelyInv /\ [WorkerNext]_workerVars => TimelyInv'
  BY EmitsInTime, OthersKeepTimes
<1>2. TimelyInv /\ [WorkerNext]_workerVars => Timely
  <2>1. CASE TimelyInv /\ EmitsProgress
    <3>1. config' = config /\ TimelyInv'
      BY <2>1, EmitsInTime DEF EmitsProgress, EmitLine
    <3> QED
      BY <2>1, <3>1, EmitsInTime DEF TimelyInv
  <2>2. ASSUME TimelyInv, [WorkerNext]_workerVars, ~EmitsProgress
        PROVE  Timely
    <3>1. elapsed' = elapsed /\ elapsed \in Nat
      BY <2>2, OthersKeepTimes DEF TimelyInv
    <3> QED
      BY <3>1
  <2> QED
    BY <2>1, <2>2
<1>3. TimelyInv /\ [WorkerNext]_workerVars => [Timely]_workerVars
  BY <1>2
<1> QED
  BY <1>1, <1>3, InitTimely, PTL DEF WorkerSpec, ProgressInTime

-----------------------------------------------------------------------------
(* The dashboard: its model.                                               *)

IsModel(m) ==
  m = [status |-> m.status, tuning |-> m.tuning, started |-> m.started,
       stopping |-> m.stopping, completed |-> m.completed, candidates |-> m.candidates,
       result |-> m.result, err |-> m.err]

\* An event is applied without the model being completed by it.
LEMMA AppliedIncomplete ==
  ASSUME NEW m, IsModel(m), NEW e
  PROVE  IsModel(Applied(m, e)) /\ Applied(m, e).completed = m.completed
<1>1. ASSUME NEW n, IsModel(n), NEW s
      PROVE  IsModel([n EXCEPT !.status = s]) /\ [n EXCEPT !.status = s].completed = n.completed
  BY <1>1 DEF IsModel
<1>2. ASSUME NEW s
      PROVE  IsModel([m EXCEPT !.tuning = s]) /\ [m EXCEPT !.tuning = s].completed = m.completed
  BY DEF IsModel
<1>3. ASSUME NEW s
      PROVE  IsModel(WithTuning(m, s)) /\ WithTuning(m, s).completed = m.completed
  <2> DEFINE tuned == [m EXCEPT !.tuning = s]
  <2>1. WithTuning(m, s) = [tuned EXCEPT !.status = TuningStatus(tuned)]
    BY DEF WithTuning
  <2>2. IsModel(tuned) /\ tuned.completed = m.completed
    BY <1>2
  <2> HIDE DEF tuned
  <2> QED
    BY <2>1, <2>2, <1>1
<1>4. ASSUME NEW s
      PROVE  IsModel(WithCandidate(m, s)) /\ WithCandidate(m, s).completed = m.completed
  <2> DEFINE c == SubSeq(<<s>> \o m.candidates, 1, IF Len(m.candidates) < Kept
                                                  THEN Len(m.candidates) + 1 ELSE Kept)
  <2>1. WithCandidate(m, s) =
          [m EXCEPT !.started = TRUE, !.status = "verifying", !.candidates = c]
    BY DEF WithCandidate
  <2> HIDE DEF c
  <2> QED
    BY <2>1 DEF IsModel
<1>5. IsModel(WithProgress(m)) /\ WithProgress(m).completed = m.completed
  <2> DEFINE s == IF m.status \in SetupStatus THEN SearchStatus(m) ELSE m.status
  <2>1. WithProgress(m) = [m EXCEPT !.started = TRUE, !.status = s]
    BY DEF WithProgress
  <2> HIDE DEF s
  <2> QED
    BY <2>1 DEF IsModel
<1>6. ASSUME NEW s, NEW r, r = [m EXCEPT !.started = TRUE, !.result = s, !.status = "verified"]
      PROVE  IsModel(r) /\ r.completed = m.completed
  BY <1>6 DEF IsModel
<1>7. ASSUME NEW r, r = [m EXCEPT !.started = TRUE, !.status = "found"]
      PROVE  IsModel(r) /\ r.completed = m.completed
  BY <1>7 DEF IsModel
<1>8. \/ Applied(m, e) = WithTuning(m, e.kind)
      \/ Applied(m, e) = WithCandidate(m, e.score)
      \/ Applied(m, e) = [m EXCEPT !.started = TRUE, !.result = e.score, !.status = "verified"]
      \/ Applied(m, e) = WithProgress(m)
      \/ Applied(m, e) = [m EXCEPT !.started = TRUE, !.status = "found"]
      \/ Applied(m, e) = [m EXCEPT !.status = e.kind]
  BY Zenon DEF Applied
<1> QED
  BY <1>1, <1>3, <1>4, <1>5, <1>6, <1>7, <1>8

-----------------------------------------------------------------------------
(* The dashboard: the outcome on its way.                                  *)

\* done holds the outcome after the search has returned, until a command has
\* it or the final wait.
DoneInv ==
  /\ finished => closed
  /\ closed => at = "returned"
  /\ done # <<>> => finished /\ doneCmd = "idle"
  /\ doneCmd # "idle" => finished

\* The completed model has the outcome, and so has what is returned.
CompletedInv ==
  /\ IsModel(model)
  /\ main = "program" => model.completed = FALSE
  /\ model.completed = TRUE =>
       /\ at = "returned" /\ done = <<>> /\ finished
       /\ model.result = outcome.result /\ model.err = outcome.err
       /\ main \in {"ended", "waiting", "returned"}
       /\ main = "waiting" => model.result = 0
       /\ main = "returned" => ret = outcome
  /\ model.completed \in BOOLEAN

OutcomeInv == outcome = Outcome(outcome.result, outcome.err)

IInv == RunInv /\ OutcomeInv /\ DoneInv /\ CompletedInv

LEMMA InitInv == Init => IInv
<1> SUFFICES ASSUME Init PROVE IInv
  OBVIOUS
<1>1. RunInv
  BY InitRun DEF Init
<1>2. OutcomeInv
  BY DEF Init, RunInit, NoOutcome, Outcome, OutcomeInv
<1>3. DoneInv
  BY DEF Init, DoneInv
<1>4. CompletedInv
  BY DEF Init, CompletedInv, Fresh, IsModel
<1> QED
  BY <1>1, <1>2, <1>3, <1>4 DEF IInv

\* A search that has returned does nothing more.
LEMMA ReturnedIsLast == RunNext => at # "returned"
  BY DEF RunNext, Announces, SetsUp, Progresses, Finds, Proposes, Finalises, Matches,
         Ends, Breaks, Fails, Skips, Continues

LEMMA RunStepOutcome == OutcomeInv /\ RunNext => OutcomeInv'
<1> SUFFICES ASSUME OutcomeInv, RunNext PROVE OutcomeInv'
  OBVIOUS
<1>1. outcome' = outcome \/ \E score, err : outcome' = Outcome(score, err)
  BY DEF RunNext, Announces, SetsUp, Progresses, Finds, Proposes, Finalises, Matches,
         Ends, Breaks, Fails, Skips, Continues, Returns
<1> QED
  BY <1>1 DEF OutcomeInv, Outcome

\* A step that leaves the program, and the outcome on its way, alone.
LEMMA AsideKeeps ==
  ASSUME IInv, UNCHANGED <<at, best, kept, settled, outcome, closed, done, finished, doneCmd, model, main, ret>>
  PROVE  IInv'
  BY DEF IInv, RunInv, OutcomeInv, DoneInv, CompletedInv

\* A step of the event loop that does not complete the model.
LEMMA EditKeeps ==
  ASSUME IInv, UNCHANGED <<at, best, kept, settled, outcome, closed, done, finished, doneCmd, ret>>,
         main = "program", main' \in {"program", "ended", "failed"},
         IsModel(model'), model'.completed = model.completed
  PROVE  IInv'
<1>1. RunInv' /\ OutcomeInv' /\ DoneInv'
  BY DEF IInv, RunInv, OutcomeInv, DoneInv
<1>2. model'.completed = FALSE
  BY DEF IInv, CompletedInv
<1> QED
  BY <1>1, <1>2 DEF IInv, CompletedInv

LEMMA SearchKeeps ==
  ASSUME IInv, Search
  PROVE  IInv'
<1>1. CASE SearchStep
  <2>1. RunNext /\ UNCHANGED <<closed, done, finished, doneCmd, model, main, ret>>
    BY <1>1 DEF SearchStep, chanVars, mainVars
  <2>2. RunInv' /\ OutcomeInv'
    BY <2>1, RunStep, RunStepOutcome DEF IInv
  <2>3. at # "returned" /\ ~closed
    BY <2>1, ReturnedIsLast DEF IInv, DoneInv
  <2>4. model.completed = FALSE
    BY <2>3 DEF IInv, CompletedInv
  <2> QED
    BY <2>1, <2>2, <2>3, <2>4 DEF IInv, DoneInv, CompletedInv
<1>2. CASE CloseEvents
  <2>1. /\ UNCHANGED <<at, best, kept, settled, outcome, done, finished, doneCmd, model, main, ret>>
        /\ at = "returned" /\ closed' = TRUE
    BY <1>2 DEF CloseEvents, runVars, mainVars
  <2> QED
    BY <2>1 DEF IInv, RunInv, OutcomeInv, DoneInv, CompletedInv
<1>3. CASE SendDone
  <2>1. /\ UNCHANGED <<at, best, kept, settled, outcome, closed, doneCmd, model, main, ret>>
        /\ closed /\ ~finished /\ done' = <<outcome>> /\ finished' = TRUE
    BY <1>3 DEF SendDone, runVars, mainVars
  <2>2. model.completed = FALSE /\ doneCmd = "idle"
    BY <2>1 DEF IInv, DoneInv, CompletedInv
  <2> QED
    BY <2>1, <2>2 DEF IInv, RunInv, OutcomeInv, DoneInv, CompletedInv
<1>4. CASE Emit
  BY <1>4, AsideKeeps DEF Emit, EmitStep, mainVars
<1> QED
  BY <1>1, <1>2, <1>3, <1>4 DEF Search

LEMMA CommandsKeep ==
  ASSUME IInv, Commands
  PROVE  IInv'
<1>1. CASE WaitEvent
  BY <1>1, AsideKeeps DEF WaitEvent, runVars, mainVars
<1>2. CASE WaitDone
  <2>1. /\ UNCHANGED <<at, best, kept, settled, outcome, closed, finished, model, main, ret>>
        /\ done # <<>> /\ doneCmd' = "holds" /\ done' = <<>>
    BY <1>2 DEF WaitDone, runVars, mainVars
  <2> QED
    BY <2>1 DEF IInv, RunInv, OutcomeInv, DoneInv, CompletedInv
<1> QED
  BY <1>1, <1>2 DEF Commands

LEMMA LoopKeeps ==
  ASSUME IInv, Loop
  PROVE  IInv'
<1>1. CASE TakesEvent
  <2>1. /\ UNCHANGED <<at, best, kept, settled, outcome, closed, done, finished, doneCmd, main, ret>>
        /\ main = "program" /\ model' = Applied(model, eventCmd)
    BY <1>1 DEF TakesEvent, LoopStep, runVars
  <2>2. IsModel(model') /\ model'.completed = model.completed
    BY <2>1, AppliedIncomplete DEF IInv, CompletedInv
  <2> QED
    BY <2>1, <2>2, EditKeeps
<1>2. CASE TakesDone
  <2>1. /\ UNCHANGED <<at, best, kept, settled, outcome, closed, done, finished, ret>>
        /\ doneCmd = "holds" /\ doneCmd' = "over" /\ main' = "ended"
        /\ model' = [model EXCEPT !.completed = TRUE, !.result = outcome.result, !.err = outcome.err]
    BY <1>2 DEF TakesDone, LoopStep, runVars
  <2>2. IsModel(model) /\ finished /\ closed /\ at = "returned" /\ done = <<>>
    BY <2>1 DEF IInv, DoneInv, CompletedInv
  <2>3. /\ IsModel(model') /\ model'.completed = TRUE
        /\ model'.result = outcome.result /\ model'.err = outcome.err
    BY <2>1, <2>2 DEF IsModel
  <2>4. RunInv' /\ OutcomeInv' /\ DoneInv'
    BY <2>1, <2>2 DEF IInv, RunInv, OutcomeInv, DoneInv
  <2> QED
    BY <2>1, <2>2, <2>3, <2>4 DEF IInv, CompletedInv
<1> QED
  BY <1>1, <1>2 DEF Loop

LEMMA UserKeeps ==
  ASSUME IInv, User
  PROVE  IInv'
<1>1. /\ UNCHANGED <<at, best, kept, settled, outcome, closed, done, finished, doneCmd, ret>>
      /\ main = "program" /\ main' \in {"program", "ended", "failed"}
  BY DEF User, PressQ, PressP, PressC, ProgramEnds, Stop, LoopStep, runVars
<1>2. \/ model' = model
      \/ \E s : model' = [model EXCEPT !.stopping = TRUE, !.status = s]
      \/ \E s : model' = [model EXCEPT !.status = s]
  BY DEF User, PressQ, PressP, PressC, ProgramEnds, Stop
<1>3. IsModel(model') /\ model'.completed = model.completed
  <2>1. IsModel(model)
    BY DEF IInv, CompletedInv
  <2> QED
    BY <2>1, <1>2 DEF IsModel
<1> QED
  BY <1>1, <1>3, EditKeeps

\* RunDashboard returns the outcome of a completed search, be it in the model
\* or waited for.
LEMMA MainKeeps ==
  ASSUME IInv, Main
  PROVE  IInv'
<1>1. UNCHANGED <<at, best, kept, settled, outcome, closed, finished, doneCmd, model>>
  BY DEF Main, AfterError, AfterProgram, FinalWait, MainStep, runVars
<1>2. done' \in {done, <<>>}
  BY DEF Main, AfterError, AfterProgram, FinalWait
<1>3. RunInv' /\ OutcomeInv' /\ DoneInv'
  BY <1>1, <1>2 DEF IInv, RunInv, OutcomeInv, DoneInv
<1>4. main # "program" /\ main' # "program"
  BY DEF Main, AfterError, AfterProgram, FinalWait, Return
<1>5. ASSUME model.completed = TRUE
      PROVE  /\ main' \in {"waiting", "returned"}
             /\ main' = "waiting" => model.result = 0
             /\ main' = "returned" => ret' = outcome
  <2>1. /\ at = "returned" /\ model.result = outcome.result /\ model.err = outcome.err
        /\ main \in {"ended", "waiting", "returned"} /\ done = <<>>
        /\ main = "waiting" => model.result = 0
    BY <1>5 DEF IInv, CompletedInv
  <2>2. /\ outcome = Outcome(outcome.result, outcome.err)
        /\ \/ outcome.result > 0 /\ outcome.err = "none"
           \/ outcome.result = 0
    BY <2>1 DEF IInv, OutcomeInv, RunInv
  <2>3. CASE AfterProgram
    BY <2>1, <2>2, <2>3 DEF AfterProgram, Return
  <2>4. CASE FinalWait
    BY <2>1, <2>2, <2>4 DEF FinalWait, Return
  <2>5. ~AfterError
    BY <2>1 DEF AfterError
  <2> QED
    BY <2>3, <2>4, <2>5 DEF Main
<1>6. done = <<>> => done' = <<>>
  BY <1>2
<1> QED
  BY <1>1, <1>3, <1>4, <1>5, <1>6 DEF IInv, CompletedInv

LEMMA NextInv == IInv /\ [Next]_vars => IInv'
<1> SUFFICES ASSUME IInv, [Next]_vars PROVE IInv'
  OBVIOUS
<1>1. CASE UNCHANGED vars
  BY <1>1, AsideKeeps DEF vars, runVars, chanVars, mainVars
<1> QED
  BY <1>1, SearchKeeps, CommandsKeep, LoopKeeps, UserKeeps, MainKeeps DEF Next

\* IInv is inductive.
THEOREM Inductive == Spec => []IInv
  BY InitInv, NextInv, PTL DEF Spec

\* The invariant says what is told.
LEMMA IInvTold == IInv => OutcomeIsTold
<1> SUFFICES ASSUME IInv, model.completed PROVE
      /\ Badge = IF outcome.result = 0 THEN "error"
                 ELSE IF IsMatch(outcome.result) THEN "matched" ELSE "stopped"
      /\ main = "returned" => ret = outcome
  BY Zenon DEF OutcomeIsTold
<1>1. model.completed = TRUE
  BY DEF IInv, CompletedInv
<1>2. /\ at = "returned" /\ model.result = outcome.result /\ model.err = outcome.err
      /\ main = "returned" => ret = outcome
  BY <1>1 DEF IInv, CompletedInv
<1>3. /\ outcome.result \in Nat
      /\ \/ outcome.result > 0 /\ outcome.err = "none"
         \/ outcome.result = 0 /\ outcome.err # "none"
  BY <1>2 DEF IInv, RunInv
<1>4. CASE outcome.result = 0
  <2>1. Badge = "error"
    BY <1>1, <1>2, <1>3, <1>4 DEF Badge
  <2> QED
    BY <2>1, <1>2, <1>4
<1>5. CASE outcome.result # 0
  <2>1. outcome.err = "none"
    BY <1>3, <1>5
  <2>2. Badge = IF IsPartial(outcome.result) THEN "stopped"
                ELSE IF IsMatch(outcome.result) THEN "matched" ELSE Badge
    BY <1>1, <1>2, <1>5, <2>1 DEF Badge
  <2>3. IsPartial(outcome.result) <=> ~IsMatch(outcome.result)
    BY <1>3, <1>5, SearchAssumption DEF IsPartial, IsMatch
  <2> QED
    BY <2>2, <2>3, <1>2, <1>5
<1> QED
  BY <1>4, <1>5

\* When the model is completed, its badge and what RunDashboard returns are the
\* outcome of the search, whatever events were shown, dropped or still on
\* their way, for any capacity of the channel.
THEOREM OutcomeTold == Spec => []OutcomeIsTold
  BY IInvTold, Inductive, PTL

-----------------------------------------------------------------------------
(* The questions of the wizard.                                            *)

\* The answers a question can have.
AnswersTo(k) ==
  CASE k = "pattern_format" -> {"leading", "pattern"}
    [] k = "tron_mode"      -> {"prefix", "suffix"}
    [] k = "devices"        -> {"all", "select", "custom"}
    [] OTHER                -> {"default", "typed"}

ChoiceKeys == {"pattern_format", "tron_mode", "devices"}
Asking == {"generate", "generate_tron"}
Questions(m) == Len(Fields(m))

\* Where the elements of two sequences are in the one they make.
Joined(s, t) ==
  /\ Len(s \o t) = Len(s) + Len(t)
  /\ \A i \in 1 .. Len(s) : (s \o t)[i] = s[i]
  /\ \A i \in 1 .. Len(t) : (s \o t)[Len(s) + i] = t[i]

LEMMA ConcatAt ==
  ASSUME NEW T, NEW s \in Seq(T), NEW t \in Seq(T)
  PROVE  Joined(s, t)
<1>1. Len(s \o t) = Len(s) + Len(t)
  BY ConcatProperties
<1>2. \A i \in 1 .. Len(s) + Len(t) : (s \o t)[i] = IF i <= Len(s) THEN s[i] ELSE t[i - Len(s)]
  BY ConcatProperties
<1> QED
  BY <1>1, <1>2 DEF Joined

\* Four questions, or three, and two more.
LEMMA ConcatFields ==
  ASSUME NEW a, NEW b, NEW c, NEW d, NEW e, NEW f
  PROVE  /\ LET s == <<a, b, c, d>> \o <<e, f>> IN
              Len(s) = 6 /\ s[1] = a /\ s[2] = b /\ s[3] = c /\ s[4] = d /\ s[5] = e /\ s[6] = f
         /\ LET s == <<a, b, c>> \o <<e, f>> IN
              Len(s) = 5 /\ s[1] = a /\ s[2] = b /\ s[3] = c /\ s[4] = e /\ s[5] = f
<1> DEFINE T == {a, b, c, d, e, f}
           g == <<a, b, c, d>>
           h == <<a, b, c>>
           t == <<e, f>>
<1>1. /\ g \in Seq(T) /\ h \in Seq(T) /\ t \in Seq(T)
      /\ Len(g) = 4 /\ Len(h) = 3 /\ Len(t) = 2
      /\ g[1] = a /\ g[2] = b /\ g[3] = c /\ g[4] = d
      /\ h[1] = a /\ h[2] = b /\ h[3] = c /\ t[1] = e /\ t[2] = f
  OBVIOUS
<1> HIDE DEF T, g, h, t
<1>2. /\ Len(g \o t) = 4 + 2
      /\ \A i \in 1 .. 4 : (g \o t)[i] = g[i]
      /\ (g \o t)[4 + 1] = t[1] /\ (g \o t)[4 + 2] = t[2]
  <2>1. Joined(g, t)
    BY <1>1, ConcatAt
  <2> QED
    BY <1>1, <2>1 DEF Joined
<1>3. /\ Len(h \o t) = 3 + 2
      /\ \A i \in 1 .. 3 : (h \o t)[i] = h[i]
      /\ (h \o t)[3 + 1] = t[1] /\ (h \o t)[3 + 2] = t[2]
  <2>1. Joined(h, t)
    BY <1>1, ConcatAt
  <2> QED
    BY <1>1, <2>1 DEF Joined
<1>4. /\ LET s == g \o t IN
           Len(s) = 6 /\ s[1] = a /\ s[2] = b /\ s[3] = c /\ s[4] = d /\ s[5] = e /\ s[6] = f
      /\ LET s == h \o t IN
           Len(s) = 5 /\ s[1] = a /\ s[2] = b /\ s[3] = c /\ s[4] = e /\ s[5] = f
  BY <1>1, <1>2, <1>3
<1> QED
  BY <1>4 DEF g, h, t

\* The questions, one by one.
LEMMA FieldsAre ==
  /\ Questions("generate") = 6
  /\ Fields("generate")[1] = Choice("pattern_format", <<"leading", "pattern">>, "leading")
  /\ Fields("generate")[2] = Text("pattern_leading_hex", "default", TRUE)
  /\ Fields("generate")[3] = Text("pattern_leading_count", "default", TRUE)
  /\ Fields("generate")[4] = Text("pattern_value", "default", TRUE)
  /\ Fields("generate")[5] = Choice("devices", <<"all", "select", "custom">>, "all")
  /\ Fields("generate")[6] = Text("device_ids", "default", FALSE)
  /\ Questions("generate_tron") = 5
  /\ Fields("generate_tron")[1] = Choice("tron_mode", <<"prefix", "suffix">>, "prefix")
  /\ Fields("generate_tron")[2] = Text("tron_prefix_value", "default", TRUE)
  /\ Fields("generate_tron")[3] = Text("tron_suffix_value", "default", TRUE)
  /\ Fields("generate_tron")[4] = Choice("devices", <<"all", "select", "custom">>, "all")
  /\ Fields("generate_tron")[5] = Text("device_ids", "default", FALSE)
<1> DEFINE g1 == Choice("pattern_format", <<"leading", "pattern">>, "leading")
           g2 == Text("pattern_leading_hex", "default", TRUE)
           g3 == Text("pattern_leading_count", "default", TRUE)
           g4 == Text("pattern_value", "default", TRUE)
           t1 == Choice("tron_mode", <<"prefix", "suffix">>, "prefix")
           t2 == Text("tron_prefix_value", "default", TRUE)
           t3 == Text("tron_suffix_value", "default", TRUE)
           d1 == Choice("devices", <<"all", "select", "custom">>, "all")
           d2 == Text("device_ids", "default", FALSE)
<1>1. /\ Fields("generate") = <<g1, g2, g3, g4>> \o <<d1, d2>>
      /\ Fields("generate_tron") = <<t1, t2, t3>> \o <<d1, d2>>
  BY DEF Fields, DeviceFields
<1>2. LET s == Fields("generate") IN
      Len(s) = 6 /\ s[1] = g1 /\ s[2] = g2 /\ s[3] = g3 /\ s[4] = g4 /\ s[5] = d1 /\ s[6] = d2
  <2> HIDE DEF g1, g2, g3, g4, d1, d2
  <2> QED
    BY <1>1, ConcatFields
<1>3. LET s == Fields("generate_tron") IN
      Len(s) = 5 /\ s[1] = t1 /\ s[2] = t2 /\ s[3] = t3 /\ s[4] = d1 /\ s[5] = d2
  <2> HIDE DEF t1, t2, t3, d1, d2
  <2> QED
    BY <1>1, ConcatFields
<1> QED
  BY <1>2, <1>3 DEF Questions

LEMMA DependsAre ==
  /\ DOMAIN Depends = {"pattern_leading_hex", "pattern_leading_count", "pattern_value",
                       "tron_prefix_value", "tron_suffix_value", "device_ids"}
  /\ Depends["pattern_leading_hex"] = <<"pattern_format", "leading">>
  /\ Depends["pattern_leading_count"] = <<"pattern_format", "leading">>
  /\ Depends["pattern_value"] = <<"pattern_format", "pattern">>
  /\ Depends["tron_prefix_value"] = <<"tron_mode", "prefix">>
  /\ Depends["tron_suffix_value"] = <<"tron_mode", "suffix">>
  /\ Depends["device_ids"] = <<"devices", "custom">>
  BY DEF Depends

\* The key of a question has one place, and depends on an earlier one.
Placed(m, i) ==
  LET k == Fields(m)[i].key IN
  /\ k \in Keys
  /\ k = "devices" <=> i = Questions(m) - 1
  /\ k = "device_ids" <=> i = Questions(m)
  /\ i = 1 => k \notin DOMAIN Depends
  /\ \A j \in 1 .. Questions(m) : k = Fields(m)[j].key => i = j
  /\ k \in DOMAIN Depends => \E d \in 1 .. i - 1 : Fields(m)[d].key = Depends[k][1]

\* The choices of a question, and its default, are answers to it.
Answerable(f) ==
  /\ f.choices = NoChoices <=> f.key \notin ChoiceKeys
  /\ f.choices # NoChoices =>
       /\ Len(f.choices) \in Nat \ {0} /\ DOMAIN f.choices = 1 .. Len(f.choices)
       /\ \A c \in 1 .. Len(f.choices) : f.choices[c] \in AnswersTo(f.key)
       /\ f.default \in AnswersTo(f.key)
  /\ f.choices = NoChoices => f.default = "default" /\ f.placeholder \in BOOLEAN

LEMMA AreAnswerable ==
  /\ Answerable(Choice("pattern_format", <<"leading", "pattern">>, "leading"))
  /\ Answerable(Choice("tron_mode", <<"prefix", "suffix">>, "prefix"))
  /\ Answerable(Choice("devices", <<"all", "select", "custom">>, "all"))
  /\ \A k \in Keys \ ChoiceKeys, p \in BOOLEAN : Answerable(Text(k, "default", p))
<1>1. Answerable(Choice("pattern_format", <<"leading", "pattern">>, "leading"))
  BY DEF Answerable, Choice, NoChoices, ChoiceKeys, AnswersTo
<1>2. Answerable(Choice("tron_mode", <<"prefix", "suffix">>, "prefix"))
  BY DEF Answerable, Choice, NoChoices, ChoiceKeys, AnswersTo
<1>3. Answerable(Choice("devices", <<"all", "select", "custom">>, "all"))
  BY DEF Answerable, Choice, NoChoices, ChoiceKeys, AnswersTo
<1>4. \A k \in Keys \ ChoiceKeys, p \in BOOLEAN : Answerable(Text(k, "default", p))
  BY DEF Answerable, Text, NoChoices, ChoiceKeys
<1> QED
  BY <1>1, <1>2, <1>3, <1>4

LEMMA FieldFacts ==
  ASSUME NEW m \in Asking
  PROVE  /\ Questions(m) \in 5 .. 6
         /\ \A i \in 1 .. Questions(m) : Placed(m, i) /\ Answerable(Fields(m)[i])
<1>1. CASE m = "generate"
  <2>1. Questions(m) = 6
    BY <1>1, FieldsAre
  <2>2. /\ Fields(m)[1].key = "pattern_format" /\ Fields(m)[2].key = "pattern_leading_hex"
        /\ Fields(m)[3].key = "pattern_leading_count" /\ Fields(m)[4].key = "pattern_value"
        /\ Fields(m)[5].key = "devices" /\ Fields(m)[6].key = "device_ids"
    BY <1>1, FieldsAre DEF Choice, Text
  <2>3. \A i \in 1 .. 6 : i \in {1, 2, 3, 4, 5, 6}
    OBVIOUS
  <2>4. \A i \in 1 .. 6 : Placed(m, i)
    BY <2>1, <2>2, <2>3 DEF Placed, Keys, Depends
  <2>5. \A i \in 1 .. 6 : Answerable(Fields(m)[i])
    BY <1>1, <2>3, FieldsAre, AreAnswerable DEF Keys, ChoiceKeys
  <2> QED
    BY <2>1, <2>4, <2>5
<1>2. CASE m = "generate_tron"
  <2>1. Questions(m) = 5
    BY <1>2, FieldsAre
  <2>2. /\ Fields(m)[1].key = "tron_mode" /\ Fields(m)[2].key = "tron_prefix_value"
        /\ Fields(m)[3].key = "tron_suffix_value"
        /\ Fields(m)[4].key = "devices" /\ Fields(m)[5].key = "device_ids"
    BY <1>2, FieldsAre DEF Choice, Text
  <2>3. \A i \in 1 .. 5 : i \in {1, 2, 3, 4, 5}
    OBVIOUS
  <2>4. \A i \in 1 .. 5 : Placed(m, i)
    BY <2>1, <2>2, <2>3 DEF Placed, Keys, Depends
  <2>5. \A i \in 1 .. 5 : Answerable(Fields(m)[i])
    BY <1>2, <2>3, FieldsAre, AreAnswerable DEF Keys, ChoiceKeys
  <2> QED
    BY <2>1, <2>4, <2>5
<1> QED
  BY <1>1, <1>2 DEF Asking

-----------------------------------------------------------------------------
(* The answers.                                                            *)

Texts == {"unset", "leading", "pattern", "prefix", "suffix", "all", "select", "custom", "default", "typed"}

\* Every answer given is one of its question.
Answers(v) == v \in [Keys -> Texts] /\ \A k \in Keys : v[k] = Unset \/ v[k] \in AnswersTo(k)

\* The visible questions up to the i-th are answered.
Answered(m, v, single, i) ==
  \A j \in VisibleIndices(m, v, single) : j <= i => v[Fields(m)[j].key] # Unset

\* A question is on the screen, all visible ones before it are answered; only
\* the ids of devices may have become invisible, when a single GPU was found.
EditInv ==
  mode # "" =>
    /\ index \in 1 .. Questions(mode) /\ Answered(mode, values, SingleGpu, index - 1)
    /\ HasField \/ (SingleGpu /\ Field.key = "device_ids")
    /\ Field.choices # NoChoices => choice \in 1 .. Len(Field.choices)
    /\ Field.choices = NoChoices => input \in {"", "typed", "wrong", "default"}

Arguments(m, v) == [command |-> m, pattern |-> PatternOf(m, v), devices |-> DeviceArgs(v)]

ConcludedInv ==
  mode # "" /\ args = Arguments(mode, values) /\ Answered(mode, values, SingleGpu, Questions(mode))

WizardInv ==
  /\ mode \in Asking \cup {""} /\ cursor \in 1 .. 3
  /\ Answers(values) /\ (SingleGpu => values["devices"] = "all")
  /\ wizard \in {"editing", "canceled", "done"}
  /\ wizard = "editing" => EditInv
  /\ wizard = "done" => ConcludedInv

LEMMA AnswersAreTexts ==
  ASSUME NEW k
  PROVE  \A x \in AnswersTo(k) : x \in Texts /\ x # Unset
<1>1. AnswersTo(k) \in {{"leading", "pattern"}, {"prefix", "suffix"}, {"all", "select", "custom"},
                        {"default", "typed"}}
  BY DEF AnswersTo
<1> QED
  BY <1>1 DEF Unset, Texts

LEMMA TextAnswers ==
  ASSUME NEW v, Answers(v), NEW k \in Keys \ ChoiceKeys
  PROVE  /\ AnswersTo(k) = {"default", "typed"}
         /\ \A default : ValueOrDefault(v, k, default) \in {"default", "typed", default}
<1>1. AnswersTo(k) = {"default", "typed"}
  BY DEF AnswersTo, ChoiceKeys
<1> QED
  BY <1>1 DEF ValueOrDefault, Answers

\* A pattern of answers and defaults parses.
LEMMA FinishIsDone ==
  ASSUME NEW v, Answers(v), mode \in Asking, Finish(v)
  PROVE  wizard' = "done" /\ args' = Arguments(mode, v)
<1>1. \A k \in Keys \ ChoiceKeys : ~Refused(ValueOrDefault(v, k, "default"))
  BY TextAnswers DEF Refused
<1>2. /\ {"pattern_value", "pattern_leading_hex", "pattern_leading_count"} \subseteq Keys \ ChoiceKeys
      /\ {"tron_prefix_value", "tron_suffix_value"} \subseteq Keys \ ChoiceKeys
  BY DEF Keys, ChoiceKeys
<1>3. \/ \E s : \E k \in Keys \ ChoiceKeys : PatternOf(mode, v) = <<s, ValueOrDefault(v, k, "default")>>
      \/ \E s : \E k, l \in Keys \ ChoiceKeys :
           PatternOf(mode, v) = <<s, ValueOrDefault(v, k, "default"), ValueOrDefault(v, l, "default")>>
  BY <1>2 DEF PatternOf, TronPatternOf
<1>4. ~ \E i \in 2 .. Len(PatternOf(mode, v)) : Refused(PatternOf(mode, v)[i])
  <2>1. ASSUME NEW s, NEW k \in Keys \ ChoiceKeys, PatternOf(mode, v) = <<s, ValueOrDefault(v, k, "default")>>,
               NEW i \in 2 .. Len(PatternOf(mode, v))
        PROVE  ~Refused(PatternOf(mode, v)[i])
    BY <1>1, <2>1
  <2>2. ASSUME NEW s, NEW k \in Keys \ ChoiceKeys, NEW l \in Keys \ ChoiceKeys,
               PatternOf(mode, v) = <<s, ValueOrDefault(v, k, "default"), ValueOrDefault(v, l, "default")>>,
               NEW i \in 2 .. Len(PatternOf(mode, v))
        PROVE  ~Refused(PatternOf(mode, v)[i])
    BY <1>1, <2>2
  <2> QED
    BY <1>3, <2>1, <2>2
<1> QED
  BY <1>4 DEF Finish, Arguments

LEMMA PositionIn ==
  ASSUME NEW s, Len(s) \in Nat \ {0}, DOMAIN s = 1 .. Len(s), NEW x
  PROVE  PositionOf(s, x) \in 1 .. Len(s)
<1>1. DOMAIN s = 1 .. Len(s) /\ Len(s) \in Nat \ {0}
  OBVIOUS
<1>2. CASE x \in ToSet(s)
  <2>1. \E i \in 1 .. Len(s) : s[i] = x
    BY <1>1, <1>2 DEF ToSet
  <2> QED
    BY <1>2, <2>1 DEF PositionOf
<1>3. CASE x \notin ToSet(s)
  BY <1>1, <1>3 DEF PositionOf
<1> QED
  BY <1>2, <1>3

\* A question that is visible, after all that are answered.
LEMMA ResetKeeps ==
  ASSUME mode' \in Asking, Answers(values'), NEW i \in VisibleIndices(mode', values', SingleGpu'),
         Answered(mode', values', SingleGpu', i - 1), ResetTo(i, values')
  PROVE  EditInv'
<1> DEFINE f == Fields(mode')[i]
<1>1. i \in 1 .. Questions(mode') /\ Placed(mode', i) /\ Answerable(f)
  BY FieldFacts DEF VisibleIndices, Questions
<1>2. index' = i /\ Field' = f /\ HasField'
  <2>1. index' = i
    BY DEF ResetTo
  <2> QED
    BY <2>1 DEF Field, HasField, Asking
<1>3. CASE f.choices = NoChoices
  <2>1. f.key \in Keys \ ChoiceKeys /\ f.default = "default" /\ f.placeholder \in BOOLEAN
    BY <1>1, <1>3 DEF Placed, Answerable
  <2>2. input' \in {"", "typed", "wrong", "default"}
    BY <1>3, <2>1, TextAnswers DEF ResetTo
  <2> QED
    BY <1>1, <1>2, <1>3, <2>2 DEF EditInv
<1>4. CASE f.choices # NoChoices
  <2>1. choice' \in 1 .. Len(f.choices)
    BY <1>1, <1>4, PositionIn DEF ResetTo, Answerable
  <2> QED
    BY <1>1, <1>2, <1>4, <2>1 DEF EditInv
<1> QED
  BY <1>3, <1>4

\* The next visible question, or the end of all of them.
LEMMA AdvanceKeeps ==
  ASSUME mode \in Asking, mode' = mode, Answers(values'), index \in 1 .. Questions(mode), wizard = "editing",
         cursor \in 1 .. 3, cursor' = cursor,
         NEW single \in BOOLEAN, SingleGpu' = single, single => values'["devices"] = "all",
         Answered(mode, values', single, index), Advance(values', single)
  PROVE  WizardInv'
<1> DEFINE visible == VisibleIndices(mode, values', single)
           later == {i \in visible : i > index}
<1>1. visible \subseteq 1 .. Questions(mode) /\ Questions(mode) \in Nat
  BY FieldFacts DEF VisibleIndices, Questions
<1>2. CASE later = {}
  <2>1. Finish(values')
    BY <1>2 DEF Advance
  <2>2. wizard' = "done" /\ args' = Arguments(mode, values')
    BY <2>1, FinishIsDone
  <2>3. Answered(mode, values', single, Questions(mode))
    BY <1>1, <1>2 DEF Answered
  <2> QED
    BY <2>2, <2>3 DEF WizardInv, ConcludedInv, Asking
<1>3. CASE later # {}
  <2> DEFINE next == CHOOSE i \in later : \A j \in later : i <= j
  <2>1. next \in later /\ \A j \in later : next <= j
    <3>1. later \subseteq Nat
      BY <1>1
    <3>2. \E i \in later : \A j \in later : i <= j
      <4> HIDE DEF later
      <4> QED
        BY <1>3, <3>1, Least
    <3> HIDE DEF later
    <3> QED
      BY <3>2
  <2>2. ResetTo(next, values') /\ wizard' = wizard
    BY <1>3 DEF Advance
  <2>3. Answered(mode, values', single, next - 1)
    <3> SUFFICES ASSUME NEW j \in visible, j <= next - 1 PROVE j <= index
      BY DEF Answered
    <3>1. j \in Nat /\ next \in Nat /\ ~(next <= j) /\ index \in Nat
      BY <1>1, <2>1
    <3> QED
      BY <2>1, <3>1
  <2>4. next \in VisibleIndices(mode', values', SingleGpu')
    BY <2>1
  <2> HIDE DEF next
  <2>5. EditInv'
    BY <2>2, <2>3, <2>4, ResetKeeps
  <2> QED
    BY <2>2, <2>5 DEF WizardInv
<1> QED
  BY <1>2, <1>3

\* An answer does not change which of the earlier questions are visible.
LEMMA StoreKeeps ==
  ASSUME NEW m \in Asking, NEW i \in 1 .. Questions(m), NEW v \in [Keys -> Texts], NEW x, x # Unset,
         NEW single \in BOOLEAN, Answered(m, v, single, i - 1)
  PROVE  Answered(m, [v EXCEPT ![Fields(m)[i].key] = x], single, i)
<1> DEFINE w == [v EXCEPT ![Fields(m)[i].key] = x]
<1> SUFFICES ASSUME NEW j \in VisibleIndices(m, w, single), j <= i
             PROVE  w[Fields(m)[j].key] # Unset
  BY DEF Answered
<1>1. Placed(m, i) /\ Placed(m, j) /\ j \in 1 .. Questions(m) /\ Questions(m) \in Nat
  BY FieldFacts DEF VisibleIndices, Questions
<1>2. CASE j = i
  BY <1>1, <1>2 DEF Placed
<1>3. CASE j # i
  <2>1. j <= i - 1 /\ Fields(m)[j].key # Fields(m)[i].key /\ Fields(m)[j].key \in Keys
    BY <1>1, <1>3 DEF Placed
  <2>2. w[Fields(m)[j].key] = v[Fields(m)[j].key]
    BY <2>1
  <2>3. VisibleIn(Fields(m)[j], v, single)
    <3>1. VisibleIn(Fields(m)[j], w, single)
      BY DEF VisibleIndices
    <3>2. ASSUME Fields(m)[j].key \in DOMAIN Depends
          PROVE  w[Depends[Fields(m)[j].key][1]] = v[Depends[Fields(m)[j].key][1]]
      <4>1. PICK d \in 1 .. j - 1 : Fields(m)[d].key = Depends[Fields(m)[j].key][1]
        BY <1>1, <3>2 DEF Placed
      <4>2. d \in 1 .. Questions(m) /\ d # i
        BY <1>1, <2>1
      <4>3. Placed(m, d)
        BY <4>2, FieldFacts
      <4>4. Fields(m)[d].key # Fields(m)[i].key /\ Fields(m)[d].key \in Keys
        BY <4>2, <4>3 DEF Placed
      <4> QED
        BY <4>1, <4>4
    <3> QED
      BY <3>1, <3>2 DEF VisibleIn
  <2>4. j \in VisibleIndices(m, v, single)
    BY <1>1, <2>3 DEF VisibleIndices, Questions
  <2> QED
    BY <2>1, <2>2, <2>4 DEF Answered
<1> QED
  BY <1>2, <1>3

\* The question on the screen, while a mode is being asked for.
LEMMA OnScreen ==
  ASSUME WizardInv, wizard = "editing", mode # ""
  PROVE  /\ mode \in Asking /\ index \in 1 .. Questions(mode) /\ Questions(mode) \in 5 .. 6
         /\ Answered(mode, values, SingleGpu, index - 1)
         /\ Placed(mode, index) /\ Answerable(Field) /\ SingleGpu \in BOOLEAN
  BY FieldFacts DEF WizardInv, EditInv, Field, SingleGpu

LEMMA InitWizard == WizardInit => WizardInv
<1> SUFFICES ASSUME WizardInit PROVE WizardInv
  OBVIOUS
<1>1. Unset \in Texts
  BY DEF Unset, Texts
<1>2. Answers([k \in Keys |-> Unset])
  <2> HIDE DEF Keys
  <2> QED
    BY <1>1 DEF Answers
<1>3. mode = "" /\ cursor = 1 /\ wizard = "editing" /\ ~SingleGpu /\ Answers(values)
  BY <1>2 DEF WizardInit, SingleGpu
<1>4. 1 \in 1 .. 3
  OBVIOUS
<1>5. EditInv
  BY <1>3 DEF EditInv
<1> QED
  BY <1>3, <1>4, <1>5 DEF WizardInv

LEMMA EscapeKeeps == WizardInv /\ Escape => WizardInv'
  BY DEF WizardInv, Escape, SingleGpu

LEMMA MovesKeeps ==
  ASSUME WizardInv, Moves
  PROVE  WizardInv'
<1>1. UNCHANGED <<mode, index, input, values, wizard, probe>> /\ wizard = "editing"
  BY DEF Moves, Editing
<1>2. CASE mode = "" /\ (\E d \in {-1, 1} : cursor + d \in 1 .. Len(Modes) /\ cursor' = cursor + d)
  <2>1. cursor' \in 1 .. 3
    BY <1>2 DEF Modes
  <2> QED
    BY <1>1, <1>2, <2>1 DEF WizardInv, EditInv, SingleGpu
<1>3. CASE /\ HasField /\ Field.choices # NoChoices /\ UNCHANGED cursor
           /\ \E d \in {-1, 1} : choice + d \in 1 .. Len(Field.choices) /\ choice' = choice + d
  <2>1. choice' \in 1 .. Len(Field.choices)
    BY <1>3
  <2>2. Field' = Field /\ HasField' /\ SingleGpu' = SingleGpu
    BY <1>1, <1>3 DEF Field, HasField, SingleGpu
  <2>3. EditInv'
    BY <1>1, <1>3, <2>1, <2>2 DEF WizardInv, EditInv
  <2> QED
    BY <1>1, <1>3, <2>2, <2>3 DEF WizardInv
<1> QED
  BY <1>2, <1>3 DEF Moves

LEMMA PicksModeKeeps ==
  ASSUME WizardInv, PicksMode
  PROVE  WizardInv'
<1>1. UNCHANGED <<cursor, values, probe>> /\ mode = "" /\ wizard = "editing" /\ cursor \in 1 .. 3
  BY DEF PicksMode, Editing, WizardInv
<1>2. CASE Modes[cursor] = "quit"
  BY <1>1, <1>2 DEF PicksMode, WizardInv, SingleGpu
<1>3. CASE Modes[cursor] # "quit"
  <2>1. mode' \in Asking /\ wizard' = "editing" /\ ResetTo(1, values') /\ SingleGpu' = SingleGpu
    <3>1. Modes[cursor] \in Asking
      <4>1. cursor \in {1, 2, 3}
        <5>1. \A c \in 1 .. 3 : c \in {1, 2, 3}
          OBVIOUS
        <5> QED
          BY <1>1, <5>1
      <4> QED
        BY <1>3, <4>1 DEF Modes, Asking
    <3>2. mode' = Modes[cursor] /\ wizard' = wizard /\ ResetTo(1, values)
      BY <1>3 DEF PicksMode
    <3>3. SingleGpu' = SingleGpu
      BY <1>1 DEF SingleGpu
    <3> QED
      BY <1>1, <3>1, <3>2, <3>3
  <2>2. Placed(mode', 1) /\ Questions(mode') \in 5 .. 6
    BY <2>1, FieldFacts
  <2>3. Fields(mode')[1].key # "devices" /\ Fields(mode')[1].key \notin DOMAIN Depends
    BY <2>2 DEF Placed
  <2>4. 1 \in VisibleIndices(mode', values', SingleGpu')
    BY <2>2, <2>3 DEF VisibleIndices, VisibleIn, Questions
  <2>5. Answered(mode', values', SingleGpu', 1 - 1)
    BY DEF Answered, VisibleIndices
  <2>6. EditInv'
    BY <1>1, <2>1, <2>4, <2>5, ResetKeeps DEF WizardInv
  <2> QED
    BY <1>1, <2>1, <2>6 DEF WizardInv
<1> QED
  BY <1>2, <1>3

\* An answer that is stored, and the next question.
LEMMA AnswerKeeps ==
  ASSUME WizardInv, wizard = "editing", HasField, NEW x \in AnswersTo(Field.key),
         values' = [values EXCEPT ![Field.key] = x], UNCHANGED <<mode, cursor, probe>>,
         Advance(values', SingleGpu)
  PROVE  WizardInv'
<1>1. mode # ""
  BY DEF HasField
<1>2. /\ mode \in Asking /\ index \in 1 .. Questions(mode) /\ Questions(mode) \in 5 .. 6
      /\ Answered(mode, values, SingleGpu, index - 1)
      /\ Field.key \in Keys /\ SingleGpu \in BOOLEAN
  BY <1>1, OnScreen DEF Placed, Field
<1>3. x \in Texts /\ x # Unset
  BY AnswersAreTexts
<1>4. Answers(values')
  BY <1>2, <1>3 DEF WizardInv, Answers
<1>5. SingleGpu' = SingleGpu
  BY DEF SingleGpu
<1>6. SingleGpu => values'["devices"] = "all"
  <2>1. SingleGpu => Field.key # "devices"
    BY DEF HasField, VisibleIndices, VisibleIn, Field
  <2>2. "devices" \in Keys
    BY DEF Keys
  <2> QED
    BY <2>1, <2>2 DEF WizardInv, Answers
<1>7. Answered(mode, values', SingleGpu, index)
  BY <1>2, <1>3, StoreKeeps DEF WizardInv, Answers, Field
<1> QED
  BY <1>2, <1>4, <1>5, <1>6, <1>7, AdvanceKeeps DEF WizardInv

LEMMA PicksChoiceKeeps ==
  ASSUME WizardInv, PicksChoice
  PROVE  WizardInv'
<1>1. wizard = "editing" /\ HasField /\ Field.choices # NoChoices /\ mode # ""
  BY DEF PicksChoice, Editing, HasField
<1>2. Answerable(Field) /\ choice \in 1 .. Len(Field.choices)
  BY <1>1, OnScreen DEF WizardInv, EditInv
<1>3. Field.choices[choice] \in AnswersTo(Field.key)
  BY <1>1, <1>2 DEF Answerable
<1> QED
  BY <1>1, <1>3, AnswerKeeps DEF PicksChoice

LEMMA EntersTextKeeps ==
  ASSUME WizardInv, EntersText
  PROVE  WizardInv'
<1>1. /\ wizard = "editing" /\ HasField /\ Field.choices = NoChoices /\ mode # ""
      /\ UNCHANGED <<mode, cursor, probe>>
  BY DEF EntersText, Editing, HasField
<1>2. CASE Refused(Entered)
  <2>1. UNCHANGED <<index, choice, input, values, wizard>>
    BY <1>2 DEF EntersText
  <2>2. Field' = Field /\ HasField' /\ SingleGpu' = SingleGpu
    BY <1>1, <2>1 DEF Field, HasField, SingleGpu
  <2>3. EditInv'
    BY <1>1, <2>1, <2>2 DEF WizardInv, EditInv
  <2> QED
    BY <1>1, <2>1, <2>2, <2>3 DEF WizardInv
<1>3. CASE ~Refused(Entered)
  <2>1. values' = [values EXCEPT ![Field.key] = Entered] /\ Advance(values', SingleGpu)
    BY <1>3 DEF EntersText
  <2>2. /\ Answerable(Field) /\ input \in {"", "typed", "wrong", "default"} /\ Field.key \in Keys
    BY <1>1, OnScreen DEF WizardInv, EditInv, Placed, Field
  <2>3. Entered \in {"typed", "default"}
    BY <1>1, <1>3, <2>2 DEF Entered, Refused, Answerable
  <2>4. Entered \in AnswersTo(Field.key)
    BY <1>1, <2>2, <2>3 DEF Answerable, AnswersTo, ChoiceKeys
  <2> QED
    BY <1>1, <2>1, <2>4, AnswerKeeps
<1> QED
  BY <1>2, <1>3

LEMMA TypesKeeps ==
  ASSUME WizardInv, Types
  PROVE  WizardInv'
<1>1. /\ wizard = "editing" /\ UNCHANGED <<mode, cursor, index, choice, values, wizard, args, probe>>
      /\ Field.choices = NoChoices /\ input' \in {"", "typed", "wrong"}
  BY DEF Types, Editing, Typed
<1>2. Field' = Field /\ HasField' = HasField /\ SingleGpu' = SingleGpu
  BY <1>1 DEF Field, HasField, SingleGpu
<1>3. EditInv'
  BY <1>1, <1>2 DEF WizardInv, EditInv
<1> QED
  BY <1>1, <1>2, <1>3 DEF WizardInv

\* Only the ids of devices are ever lost, and nothing comes after them.
LEMMA LostFieldKeeps ==
  ASSUME WizardInv, LostField
  PROVE  WizardInv'
<1>1. /\ wizard = "editing" /\ mode # "" /\ ~HasField /\ Finish(values)
      /\ UNCHANGED <<mode, cursor, index, choice, input, values, probe>>
  BY DEF LostField, Editing
<1>2. SingleGpu /\ Field.key = "device_ids"
  BY <1>1 DEF WizardInv, EditInv
<1>3. /\ mode \in Asking /\ index = Questions(mode) /\ Questions(mode) \in 5 .. 6
      /\ Answered(mode, values, SingleGpu, index - 1)
  BY <1>1, <1>2, OnScreen DEF Placed, Field
<1>4. wizard' = "done" /\ args' = Arguments(mode, values)
  BY <1>1, <1>3, FinishIsDone DEF WizardInv
<1>5. Answered(mode, values, SingleGpu, Questions(mode))
  <2> SUFFICES ASSUME NEW j \in VisibleIndices(mode, values, SingleGpu)
               PROVE  values[Fields(mode)[j].key] # Unset
    BY DEF Answered
  <2>1. j \in 1 .. Questions(mode) /\ j # index
    BY <1>1 DEF HasField, VisibleIndices, Questions
  <2>2. j <= index - 1
    BY <1>3, <2>1
  <2> QED
    BY <1>3, <2>2 DEF Answered
<1>6. SingleGpu' = SingleGpu
  BY <1>1 DEF SingleGpu
<1> QED
  BY <1>1, <1>3, <1>4, <1>5, <1>6 DEF WizardInv, ConcludedInv

LEMMA GoesBackKeeps ==
  ASSUME WizardInv, GoesBack
  PROVE  WizardInv'
<1> DEFINE earlier == {i \in VisibleIndices(mode, values, SingleGpu) : i < index}
<1>1. /\ wizard = "editing" /\ mode # "" /\ UNCHANGED <<values, wizard, args, probe>>
      /\ SingleGpu' = SingleGpu
  BY DEF GoesBack, Editing, SingleGpu
<1>2. /\ mode \in Asking /\ index \in 1 .. Questions(mode) /\ Questions(mode) \in 5 .. 6
      /\ Answered(mode, values, SingleGpu, index - 1)
  BY <1>1, OnScreen
<1>3. CASE earlier = {}
  <2>1. mode' = "" /\ cursor' = PositionOf(Modes, mode)
    BY <1>3 DEF GoesBack
  <2>2. Len(Modes) \in Nat \ {0} /\ DOMAIN Modes = 1 .. Len(Modes) /\ Len(Modes) = 3
    BY DEF Modes
  <2>3. cursor' \in 1 .. 3
    BY <2>1, <2>2, PositionIn
  <2> QED
    BY <1>1, <2>1, <2>3 DEF WizardInv, EditInv
<1>4. CASE earlier # {}
  <2> DEFINE before == CHOOSE i \in earlier : \A j \in earlier : i >= j
  <2>1. before \in earlier
    <3>1. earlier \in SUBSET (1 .. Questions(mode)) /\ Questions(mode) \in Nat
      BY <1>2 DEF VisibleIndices, Questions
    <3>2. \E i \in earlier : \A j \in earlier : i >= j
      <4> HIDE DEF earlier
      <4>1. Max(earlier) \in earlier /\ \A j \in earlier : j <= Max(earlier)
        BY <1>4, <3>1, MaxIn
      <4>2. \A j \in earlier : Max(earlier) >= j
        BY <4>1
      <4> QED
        BY <4>1, <4>2
    <3> HIDE DEF earlier
    <3> QED
      BY <3>2
  <2>2. UNCHANGED <<mode, cursor>> /\ ResetTo(before, values')
    BY <1>1, <1>4 DEF GoesBack
  <2>3. before \in VisibleIndices(mode', values', SingleGpu') /\ before < index /\ before \in Nat
    <3>1. before \in VisibleIndices(mode, values, SingleGpu) /\ before < index
      BY <2>1
    <3>2. before \in Nat
      BY <1>2, <3>1 DEF VisibleIndices, Questions
    <3> HIDE DEF before
    <3> QED
      BY <1>1, <2>2, <3>1, <3>2
  <2> HIDE DEF before
  <2>4. Answered(mode', values', SingleGpu', before - 1)
    <3> SUFFICES ASSUME NEW j \in VisibleIndices(mode, values, SingleGpu), j <= before - 1
                 PROVE  values[Fields(mode)[j].key] # Unset
      BY <1>1, <2>2 DEF Answered
    <3>1. j <= index - 1
      BY <1>2, <2>3 DEF VisibleIndices
    <3> QED
      BY <1>2, <3>1 DEF Answered
  <2>5. EditInv'
    BY <1>1, <1>2, <2>2, <2>3, <2>4, ResetKeeps DEF WizardInv
  <2> QED
    BY <1>1, <2>2, <2>5 DEF WizardInv
<1> QED
  BY <1>3, <1>4

\* The answer of the probe: a question for the devices is answered with all of
\* them, and the questions for the pattern stay what they are.
LEMMA ProbeAnswersKeeps ==
  ASSUME WizardInv, ProbeAnswers
  PROVE  WizardInv'
<1>1. /\ wizard = "editing" /\ ~SingleGpu /\ SingleGpu' = TRUE /\ UNCHANGED <<mode, cursor>>
      /\ values' = [values EXCEPT !["devices"] = "all"]
  BY DEF ProbeAnswers, Editing, SingleGpu
<1>2. Answers(values') /\ values'["devices"] = "all"
  <2>1. "devices" \in Keys /\ "all" \in AnswersTo("devices") /\ "all" \in Texts
    BY DEF Keys, AnswersTo, Texts
  <2> HIDE DEF Keys
  <2> QED
    BY <1>1, <2>1 DEF WizardInv, Answers
<1>3. \A k \in Keys : k # "devices" => values'[k] = values[k]
  BY <1>1 DEF WizardInv, Answers
<1>4. CASE mode = ""
  <2>1. wizard' = wizard
    BY <1>4 DEF ProbeAnswers
  <2> QED
    BY <1>1, <1>2, <1>4, <2>1 DEF WizardInv, EditInv
<1>5. CASE mode # ""
  <2>1. /\ mode \in Asking /\ index \in 1 .. Questions(mode) /\ Questions(mode) \in 5 .. 6
        /\ Answered(mode, values, FALSE, index - 1) /\ HasField
        /\ Placed(mode, index) /\ Answerable(Field)
    BY <1>1, <1>5, OnScreen DEF WizardInv, EditInv
  <2>2. ASSUME NEW j \in 1 .. Questions(mode), Fields(mode)[j].key # "devices", Fields(mode)[j].key # "device_ids"
        PROVE  /\ VisibleIn(Fields(mode)[j], values', TRUE) <=> VisibleIn(Fields(mode)[j], values, FALSE)
               /\ values'[Fields(mode)[j].key] = values[Fields(mode)[j].key]
    <3>1. Placed(mode, j)
      BY <2>1, FieldFacts
    <3>2. Fields(mode)[j].key \in DOMAIN Depends =>
            Depends[Fields(mode)[j].key][1] \in {"pattern_format", "tron_mode"}
      BY <2>2 DEF Depends
    <3>3. values'["pattern_format"] = values["pattern_format"] /\ values'["tron_mode"] = values["tron_mode"]
      <4>1. "pattern_format" \in Keys /\ "tron_mode" \in Keys
        BY DEF Keys
      <4> QED
        BY <1>3, <4>1
    <3>4. values'[Fields(mode)[j].key] = values[Fields(mode)[j].key]
      BY <1>3, <2>2, <3>1 DEF Placed
    <3> QED
      BY <2>2, <3>2, <3>3, <3>4 DEF VisibleIn
  <2>3. Answered(mode, values', TRUE, index - 1)
    <3> SUFFICES ASSUME NEW j \in VisibleIndices(mode, values', TRUE), j <= index - 1
                 PROVE  values'[Fields(mode)[j].key] # Unset
      BY DEF Answered
    <3>0. j \in 1 .. Questions(mode) /\ VisibleIn(Fields(mode)[j], values', TRUE)
      BY DEF VisibleIndices, Questions
    <3>1. j # Questions(mode)
      BY <2>1, <3>0
    <3>2. Placed(mode, j)
      BY <2>1, <3>0, FieldFacts
    <3>3. Fields(mode)[j].key # "devices" /\ Fields(mode)[j].key # "device_ids"
      BY <3>0, <3>1, <3>2 DEF Placed, VisibleIn
    <3>4. j \in VisibleIndices(mode, values, FALSE)
      BY <2>2, <3>0, <3>3 DEF VisibleIndices, Questions
    <3> QED
      BY <2>1, <2>2, <3>0, <3>3, <3>4 DEF Answered
  <2>4. CASE Field.key = "devices"
    <3>1. Advance(values', TRUE)
      BY <1>5, <2>4 DEF ProbeAnswers
    <3>2. Answered(mode, values', TRUE, index)
      <4> SUFFICES ASSUME NEW j \in VisibleIndices(mode, values', TRUE), j <= index
                   PROVE  j <= index - 1
        BY <2>3 DEF Answered
      <4>1. j # index /\ j \in Nat
        BY <2>4 DEF VisibleIndices, VisibleIn, Field
      <4> QED
        BY <2>1, <4>1
    <3> QED
      BY <1>1, <1>2, <2>1, <3>1, <3>2, AdvanceKeeps DEF WizardInv
  <2>5. CASE Field.key # "devices"
    <3>1. UNCHANGED <<index, choice, input, wizard>>
      BY <2>5 DEF ProbeAnswers
    <3>2. Field' = Field
      BY <1>1, <3>1 DEF Field
    <3>3. HasField' \/ Field.key = "device_ids"
      <4> SUFFICES ASSUME Field.key # "device_ids" PROVE HasField'
        OBVIOUS
      <4>1. VisibleIn(Fields(mode)[index], values, FALSE)
        <5>1. SingleGpu = FALSE
          BY <1>1 DEF SingleGpu
        <5>2. index \in VisibleIndices(mode, values, FALSE)
          BY <2>1, <5>1 DEF HasField
        <5> QED
          BY <5>2 DEF VisibleIndices
      <4>2. VisibleIn(Fields(mode)[index], values', TRUE)
        BY <2>1, <2>2, <2>5, <4>1 DEF Field
      <4>3. index \in VisibleIndices(mode, values', TRUE)
        BY <2>1, <4>2 DEF VisibleIndices, Questions
      <4> QED
        BY <1>1, <1>5, <3>1, <4>3 DEF HasField
    <3>4. EditInv'
      BY <1>1, <1>5, <2>1, <2>3, <3>1, <3>2, <3>3 DEF WizardInv, EditInv
    <3> QED
      BY <1>1, <1>2, <3>1, <3>4 DEF WizardInv
  <2> QED
    BY <2>4, <2>5
<1> QED
  BY <1>4, <1>5

LEMMA IgnoredKeeps == WizardInv /\ ProbeIsIgnored => WizardInv'
<1> SUFFICES ASSUME WizardInv, ProbeIsIgnored PROVE WizardInv'
  OBVIOUS
<1>1. UNCHANGED <<mode, cursor, index, choice, input, values, wizard, args>> /\ ~SingleGpu /\ ~SingleGpu'
  BY DEF ProbeIsIgnored, formVars, SingleGpu
<1>2. Field' = Field /\ HasField' = HasField /\ SingleGpu' = SingleGpu
  BY <1>1 DEF Field, HasField, SingleGpu
<1>3. EditInv' = EditInv /\ ConcludedInv' = ConcludedInv
  BY <1>1, <1>2 DEF EditInv, ConcludedInv
<1> QED
  BY <1>1, <1>2, <1>3 DEF WizardInv

LEMMA UntouchedKeeps == WizardInv /\ UNCHANGED wizardVars => WizardInv'
<1> SUFFICES ASSUME WizardInv, UNCHANGED wizardVars PROVE WizardInv'
  OBVIOUS
<1>1. UNCHANGED <<mode, cursor, index, choice, input, values, wizard, args, probe>>
  BY DEF wizardVars, formVars
<1>2. Field' = Field /\ HasField' = HasField /\ SingleGpu' = SingleGpu
  BY <1>1 DEF Field, HasField, SingleGpu
<1>3. EditInv' = EditInv /\ ConcludedInv' = ConcludedInv
  BY <1>1, <1>2 DEF EditInv, ConcludedInv
<1> QED
  BY <1>1, <1>2, <1>3 DEF WizardInv

LEMMA WizardStepKeeps == WizardInv /\ WizardNext => WizardInv'
  BY EscapeKeeps, MovesKeeps, PicksModeKeeps, PicksChoiceKeeps, EntersTextKeeps, TypesKeeps,
     LostFieldKeeps, GoesBackKeeps, ProbeAnswersKeeps, IgnoredKeeps DEF WizardNext, Keypress

\* What was visible was answered, and the arguments are those answers.
LEMMA ConcludedIsAnswered == WizardInv => ArgsAreTheAnswers
<1> SUFFICES ASSUME WizardInv, wizard \in {"done", "failed"} PROVE ArgsAreTheAnswers
  BY DEF ArgsAreTheAnswers
<1> DEFINE visible == {Fields(mode)[i].key : i \in VisibleIndices(mode, values, SingleGpu)}
<1>1. /\ wizard = "done" /\ mode \in Asking /\ args = Arguments(mode, values)
      /\ Answered(mode, values, SingleGpu, Questions(mode)) /\ Questions(mode) \in 5 .. 6
      /\ Answers(values) /\ (SingleGpu => values["devices"] = "all")
  BY FieldFacts DEF WizardInv, ConcludedInv
<1>2. ASSUME NEW i \in VisibleIndices(mode, values, SingleGpu)
      PROVE  /\ Fields(mode)[i].key \in Keys /\ values[Fields(mode)[i].key] # Unset
             /\ VisibleIn(Fields(mode)[i], values, SingleGpu)
  <2>1. i \in 1 .. Questions(mode) /\ Placed(mode, i) /\ VisibleIn(Fields(mode)[i], values, SingleGpu)
    BY <1>1, FieldFacts DEF VisibleIndices, Questions
  <2> QED
    BY <1>1, <2>1 DEF Answered, Placed
<1>3. \A k \in visible : k \in Keys /\ values[k] # Unset
  BY <1>2
<1>4. /\ visible \cap {"pattern_leading_hex", "pattern_leading_count", "pattern_value"} # {} => mode = "generate"
      /\ visible \cap {"tron_prefix_value", "tron_suffix_value"} # {} => mode = "generate_tron"
  <2>1. ASSUME mode = "generate", NEW i \in VisibleIndices(mode, values, SingleGpu)
        PROVE  Fields(mode)[i].key \notin {"tron_prefix_value", "tron_suffix_value"}
    <3>1. i \in 1 .. 6
      BY <2>1, FieldsAre DEF VisibleIndices, Questions
    <3>2. i \in {1, 2, 3, 4, 5, 6}
      BY <3>1
    <3> QED
      BY <2>1, <3>2, FieldsAre DEF Choice, Text
  <2>2. ASSUME mode = "generate_tron", NEW i \in VisibleIndices(mode, values, SingleGpu)
        PROVE  Fields(mode)[i].key \notin {"pattern_leading_hex", "pattern_leading_count", "pattern_value"}
    <3>1. i \in 1 .. 5
      BY <2>2, FieldsAre DEF VisibleIndices, Questions
    <3>2. i \in {1, 2, 3, 4, 5}
      BY <3>1
    <3> QED
      BY <2>2, <3>2, FieldsAre DEF Choice, Text
  <2> QED
    BY <1>1, <2>1, <2>2 DEF Asking
<1>5. /\ "devices" \notin visible => SingleGpu
      /\ "device_ids" \notin visible => values["devices"] # "custom"
  <2>1. Questions(mode) - 1 \in 1 .. Questions(mode) /\ Questions(mode) \in 1 .. Questions(mode)
    BY <1>1
  <2>2. Placed(mode, Questions(mode) - 1) /\ Placed(mode, Questions(mode))
    BY <1>1, <2>1, FieldFacts
  <2>3. Fields(mode)[Questions(mode) - 1].key = "devices" /\ Fields(mode)[Questions(mode)].key = "device_ids"
    BY <2>1, <2>2 DEF Placed
  <2>4. ~SingleGpu => Questions(mode) - 1 \in VisibleIndices(mode, values, SingleGpu)
    BY <2>1, <2>3 DEF VisibleIndices, VisibleIn, Questions, Depends
  <2>5. values["devices"] = "custom" => Questions(mode) \in VisibleIndices(mode, values, SingleGpu)
    BY <2>1, <2>3 DEF VisibleIndices, VisibleIn, Questions, Depends
  <2> QED
    BY <2>3, <2>4, <2>5
<1>6. args.pattern = PatternOf(mode, values) /\ args.devices = DeviceArgs(values)
  BY <1>1 DEF Arguments
<1> HIDE DEF visible
<1> DEFINE On(k, question, answer) == k \in visible => values[question] = answer
<1>7. /\ On("pattern_leading_hex", "pattern_format", "leading")
      /\ On("pattern_leading_count", "pattern_format", "leading")
      /\ On("pattern_value", "pattern_format", "pattern")
      /\ On("tron_prefix_value", "tron_mode", "prefix")
      /\ On("tron_suffix_value", "tron_mode", "suffix")
      /\ On("device_ids", "devices", "custom")
  <2>1. \A k \in visible \cap DOMAIN Depends : values[Depends[k][1]] = Depends[k][2]
    <3> SUFFICES ASSUME NEW i \in VisibleIndices(mode, values, SingleGpu), Fields(mode)[i].key \in DOMAIN Depends
                 PROVE  values[Depends[Fields(mode)[i].key][1]] = Depends[Fields(mode)[i].key][2]
      BY DEF visible
    <3> QED
      BY <1>2 DEF VisibleIn
  <2>2. On("pattern_leading_hex", "pattern_format", "leading")
    BY <2>1, DependsAre
  <2>3. On("pattern_leading_count", "pattern_format", "leading")
    BY <2>1, DependsAre
  <2>4. On("pattern_value", "pattern_format", "pattern")
    BY <2>1, DependsAre
  <2>5. On("tron_prefix_value", "tron_mode", "prefix")
    BY <2>1, DependsAre
  <2>6. On("tron_suffix_value", "tron_mode", "suffix")
    BY <2>1, DependsAre
  <2>7. On("device_ids", "devices", "custom")
    BY <2>1, DependsAre
  <2> QED
    BY <2>2, <2>3, <2>4, <2>5, <2>6, <2>7
<1>8. ASSUME NEW k \in visible \cap {"pattern_leading_hex", "pattern_leading_count", "pattern_value",
                                      "tron_prefix_value", "tron_suffix_value"}
      PROVE  values[k] \in ToSet(args.pattern)
  <2>1. values[k] # Unset
    BY <1>3
  <2>2. CASE k \in {"pattern_leading_hex", "pattern_leading_count"}
    <3>1. mode = "generate" /\ values["pattern_format"] = "leading"
      BY <1>7, <1>4, <2>2
    <3>2. args.pattern = <<"leading", ValueOrDefault(values, "pattern_leading_hex", "default"),
                           ValueOrDefault(values, "pattern_leading_count", "default")>>
      BY <1>6, <3>1 DEF PatternOf, ValueOrDefault, Unset
    <3>3. values[k] = args.pattern[2] \/ values[k] = args.pattern[3]
      BY <2>1, <2>2, <3>2 DEF ValueOrDefault
    <3> QED
      BY <3>2, <3>3 DEF ToSet
  <2>3. CASE k = "pattern_value"
    <3>1. mode = "generate" /\ values["pattern_format"] = "pattern"
      BY <1>7, <1>4, <2>3
    <3>2. args.pattern = <<"pattern", values[k]>>
      BY <1>6, <2>1, <2>3, <3>1 DEF PatternOf, ValueOrDefault, Unset
    <3> QED
      BY <3>2 DEF ToSet
  <2>4. CASE k = "tron_prefix_value"
    <3>1. mode = "generate_tron" /\ values["tron_mode"] = "prefix"
      BY <1>7, <1>4, <2>4
    <3>2. args.pattern = <<"prefix", values[k]>>
      BY <1>6, <2>1, <2>4, <3>1 DEF PatternOf, TronPatternOf, ValueOrDefault, Unset
    <3> QED
      BY <3>2 DEF ToSet
  <2>5. CASE k = "tron_suffix_value"
    <3>1. mode = "generate_tron" /\ values["tron_mode"] = "suffix"
      BY <1>7, <1>4, <2>5
    <3>2. args.pattern = <<"suffix", values[k]>>
      BY <1>6, <2>1, <2>5, <3>1 DEF PatternOf, TronPatternOf, ValueOrDefault, Unset
    <3> QED
      BY <3>2 DEF ToSet
  <2> QED
    BY <2>2, <2>3, <2>4, <2>5
<1>9. args.devices = IF "device_ids" \in visible THEN values["device_ids"]
                     ELSE IF "devices" \in visible /\ values["devices"] = "select" THEN "select" ELSE "all"
  <2>1. CASE "device_ids" \in visible
    <3>1. values["devices"] = "custom"
      BY <1>7, <2>1
    <3> QED
      BY <1>6, <2>1, <3>1 DEF DeviceArgs, ValueOrDefault, Unset
  <2>2. CASE "device_ids" \notin visible /\ "devices" \in visible
    <3>1. values["devices"] # "custom" /\ values["devices"] # Unset
      BY <1>3, <1>5, <2>2
    <3> QED
      BY <1>6, <2>2, <3>1 DEF DeviceArgs, ValueOrDefault
  <2>3. CASE "device_ids" \notin visible /\ "devices" \notin visible
    <3>1. values["devices"] = "all"
      BY <1>1, <1>5, <2>3
    <3> QED
      BY <1>6, <2>3, <3>1 DEF DeviceArgs, ValueOrDefault, Unset
  <2> QED
    BY <2>1, <2>2, <2>3
<1> QED
  BY <1>1, <1>3, <1>8, <1>9 DEF ArgsAreTheAnswers, visible

LEMMA KeepsWizard == WizardInv /\ [InteractiveNext]_sessionVars => WizardInv'
<1> SUFFICES ASSUME WizardInv, [InteractiveNext]_sessionVars PROVE WizardInv'
  OBVIOUS
<1>1. CASE WizardStep
  BY <1>1, WizardStepKeeps DEF WizardStep
<1>2. CASE Searches
  <2>1. WizardInit'
    BY <1>2 DEF Searches, WizardInit
  <2>2. WizardInit' => WizardInv'
    BY InitWizard, PTL
  <2> QED
    BY <2>1, <2>2
<1>3. CASE UNCHANGED sessionVars \/ Starts \/ WizardEnds \/ Settles \/ PickerStep \/ PickerEnds
           \/ DashboardStep \/ Prints
  <2>1. UNCHANGED wizardVars
    BY <1>3 DEF Starts, WizardEnds, Settles, PickerStep, PickerEnds, DashboardStep, Prints,
                sessionVars, screenVars
  <2> QED
    BY <2>1, UntouchedKeeps
<1> QED
  BY <1>1, <1>2, <1>3 DEF InteractiveNext

\* When the wizard ends with a command, its arguments are valid and are the
\* answers to the questions that are visible in the end, however the user went
\* back and forth and whenever the probe of the devices answered.
THEOREM ArgsAnswered == InteractiveSpec => []ArgsAreTheAnswers
<1>1. InteractiveInit => WizardInv
  BY InitWizard DEF InteractiveInit
<1> QED
  BY <1>1, KeepsWizard, ConcludedIsAnswered, PTL DEF InteractiveSpec

-----------------------------------------------------------------------------
(* The folds that the devices go through.                                  *)

\* What Append adds.
LEMMA AppendSet ==
  ASSUME NEW T, NEW s \in Seq(T), NEW e \in T
  PROVE  Append(s, e) \in Seq(T) /\ ToSet(Append(s, e)) = ToSet(s) \cup {e}
<1>1. /\ Append(s, e) \in Seq(T) /\ Len(Append(s, e)) = Len(s) + 1 /\ Len(s) \in Nat
      /\ \A i \in 1 .. Len(s) : Append(s, e)[i] = s[i]
      /\ Append(s, e)[Len(s) + 1] = e
      /\ DOMAIN Append(s, e) = 1 .. Len(s) + 1 /\ DOMAIN s = 1 .. Len(s)
  OBVIOUS
<1>2. DOMAIN Append(s, e) = DOMAIN s \cup {Len(s) + 1}
  BY <1>1
<1> QED
  BY <1>1, <1>2 DEF ToSet

\* Deduplicated keeps every part.
LEMMA DeduplicatedKeeps ==
  ASSUME NEW T, NEW parts \in Seq(T)
  PROVE  Deduplicated(parts) \in Seq(T) /\ ToSet(Deduplicated(parts)) = ToSet(parts)
<1> DEFINE n == Len(parts)
           F == [p \in (1 .. n) \X Seq(T) |->
                   IF parts[p[1]] \in ToSet(p[2]) THEN p[2] ELSE Append(p[2], parts[p[1]])]
           Fold(g) == [s \in SUBSET DOMAIN parts |->
                         IF s = {} THEN <<>>
                         ELSE IF parts[Max(s)] \in ToSet(g[s \ {Max(s)}]) THEN g[s \ {Max(s)}]
                              ELSE Append(g[s \ {Max(s)}], parts[Max(s)])]
<1>1. n \in Nat /\ DOMAIN parts = 1 .. n /\ \A i \in 1 .. n : parts[i] \in T
  OBVIOUS
<1>2. \E g : g = Fold(g)
  <2>1. F \in [(1 .. n) \X Seq(T) -> Seq(T)]
    BY <1>1
  <2>2. <<>> \in Seq(T)
    OBVIOUS
  <2>3. PICK g \in [SUBSET (1 .. n) -> Seq(T)] : IsFold(g, n, <<>>, F)
    <3> DEFINE V == Seq(T)
               base == <<>>
    <3>1. n \in Nat /\ base \in V /\ F \in [(1 .. n) \X V -> V]
      BY <1>1, <2>1
    <3>2. \E g \in [SUBSET (1 .. n) -> V] : IsFold(g, n, base, F)
      <4> HIDE DEF F, n, V, base
      <4> QED
        BY <3>1, FoldExists
    <3> QED
      BY <3>2
  <2>4. ASSUME NEW s \in SUBSET (1 .. n), s # {}
        PROVE  <<Max(s), g[s \ {Max(s)}]>> \in (1 .. n) \X Seq(T)
    <3>1. Max(s) \in 1 .. n
      BY <1>1, <2>4, MaxIn
    <3> QED
      BY <3>1
  <2>5. g = Fold(g)
    BY <1>1, <2>3, <2>4 DEF IsFold
  <2> QED
    BY <2>5
<1>3. PICK g : g = Fold(g) /\ Deduplicated(parts) = g[1 .. n]
  <2>1. Deduplicated(parts) = (CHOOSE g : g = Fold(g))[DOMAIN parts]
    BY DEF Deduplicated, FoldLeft, MapThenFoldSet
  <2> HIDE DEF Fold
  <2> QED
    BY <1>1, <1>2, <2>1
<1> DEFINE Good == {k \in 0 .. n : g[1 .. k] \in Seq(T) /\ ToSet(g[1 .. k]) = {parts[i] : i \in 1 .. k}}
<1>4. 0 \in Good
  <2>1. g[{}] = <<>>
    BY <1>3
  <2>2. 1 .. 0 = {} /\ ToSet(<<>>) = {}
    BY DEF ToSet
  <2>3. {parts[i] : i \in 1 .. 0} = {}
    OBVIOUS
  <2> SUFFICES g[1 .. 0] \in Seq(T) /\ ToSet(g[1 .. 0]) = {parts[i] : i \in 1 .. 0}
    BY <1>1
  <2>4. g[1 .. 0] = <<>>
    BY <2>1, <2>2
  <2> QED
    BY <2>2, <2>3, <2>4
<1>5. ASSUME NEW k \in 1 .. n, k - 1 \in Good
      PROVE  k \in Good
  <2>1. g[1 .. k] = IF parts[k] \in ToSet(g[1 .. (k - 1)]) THEN g[1 .. (k - 1)]
                    ELSE Append(g[1 .. (k - 1)], parts[k])
    <3>1. 1 .. k \in SUBSET DOMAIN parts /\ k \in Nat \ {0}
      BY <1>1
    <3>2. Max(1 .. k) = k /\ (1 .. k) \ {k} = 1 .. (k - 1) /\ 1 .. k # {}
      BY <3>1, MaxOfPrefix
    <3> QED
      BY <1>3, <3>1, <3>2
  <2>2. g[1 .. (k - 1)] \in Seq(T) /\ ToSet(g[1 .. (k - 1)]) = {parts[i] : i \in 1 .. (k - 1)}
    BY <1>5
  <2>3. {parts[i] : i \in 1 .. k} = {parts[i] : i \in 1 .. (k - 1)} \cup {parts[k]}
    BY <1>1
  <2>4. g[1 .. k] \in Seq(T) /\ ToSet(g[1 .. k]) = ToSet(g[1 .. (k - 1)]) \cup {parts[k]}
    BY <1>1, <2>1, <2>2, AppendSet
  <2> QED
    BY <1>1, <2>2, <2>3, <2>4
<1>6. n \in Good
  <2> HIDE DEF Good
  <2> QED
    BY <1>1, <1>4, <1>5, Upto
<1>7. ToSet(parts) = {parts[i] : i \in 1 .. n}
  BY <1>1 DEF ToSet
<1> QED
  BY <1>3, <1>6, <1>7

\* What the picker returns is what is ticked.
LEMMA PickedAreTicked ==
  ASSUME NEW T, offered \in Seq(T)
  PROVE  Picked \in Seq(T) /\ ToSet(Picked) = ToSet(offered) \cap ticked
<1> DEFINE n == Len(offered)
           F == [p \in (1 .. n) \X Seq(T) |->
                   IF offered[p[1]] \in ticked THEN Append(p[2], offered[p[1]]) ELSE p[2]]
           Fold(g) == [s \in SUBSET DOMAIN offered |->
                         IF s = {} THEN <<>>
                         ELSE IF offered[Max(s)] \in ticked
                              THEN Append(g[s \ {Max(s)}], offered[Max(s)]) ELSE g[s \ {Max(s)}]]
<1>1. n \in Nat /\ DOMAIN offered = 1 .. n /\ \A i \in 1 .. n : offered[i] \in T
  OBVIOUS
<1>2. \E g : g = Fold(g)
  <2>1. F \in [(1 .. n) \X Seq(T) -> Seq(T)]
    BY <1>1
  <2>2. <<>> \in Seq(T)
    OBVIOUS
  <2>3. PICK g \in [SUBSET (1 .. n) -> Seq(T)] : IsFold(g, n, <<>>, F)
    <3> DEFINE V == Seq(T)
               base == <<>>
    <3>1. n \in Nat /\ base \in V /\ F \in [(1 .. n) \X V -> V]
      BY <1>1, <2>1
    <3>2. \E g \in [SUBSET (1 .. n) -> V] : IsFold(g, n, base, F)
      <4> HIDE DEF F, n, V, base
      <4> QED
        BY <3>1, FoldExists
    <3> QED
      BY <3>2
  <2>4. ASSUME NEW s \in SUBSET (1 .. n), s # {}
        PROVE  <<Max(s), g[s \ {Max(s)}]>> \in (1 .. n) \X Seq(T)
    <3>1. Max(s) \in 1 .. n
      BY <1>1, <2>4, MaxIn
    <3> QED
      BY <3>1
  <2>5. g = Fold(g)
    BY <1>1, <2>3, <2>4 DEF IsFold
  <2> QED
    BY <2>5
<1>3. PICK g : g = Fold(g) /\ Picked = g[1 .. n]
  <2>1. Picked = (CHOOSE g : g = Fold(g))[DOMAIN offered]
    BY DEF Picked, FoldLeft, MapThenFoldSet
  <2> HIDE DEF Fold
  <2> QED
    BY <1>1, <1>2, <2>1
<1> DEFINE Taken(k) == {offered[i] : i \in 1 .. k} \cap ticked
           Good == {k \in 0 .. n : g[1 .. k] \in Seq(T) /\ ToSet(g[1 .. k]) = Taken(k)}
<1>4. 0 \in Good
  <2>1. g[{}] = <<>>
    BY <1>3
  <2>2. 1 .. 0 = {} /\ ToSet(<<>>) = {}
    BY DEF ToSet
  <2>3. Taken(0) = {}
    OBVIOUS
  <2> SUFFICES g[1 .. 0] \in Seq(T) /\ ToSet(g[1 .. 0]) = Taken(0)
    BY <1>1
  <2>4. g[1 .. 0] = <<>>
    BY <2>1, <2>2
  <2> QED
    BY <2>2, <2>3, <2>4
<1>5. ASSUME NEW k \in 1 .. n, k - 1 \in Good
      PROVE  k \in Good
  <2>1. g[1 .. k] = IF offered[k] \in ticked THEN Append(g[1 .. (k - 1)], offered[k])
                    ELSE g[1 .. (k - 1)]
    <3>1. 1 .. k \in SUBSET DOMAIN offered /\ k \in Nat \ {0}
      BY <1>1
    <3>2. Max(1 .. k) = k /\ (1 .. k) \ {k} = 1 .. (k - 1) /\ 1 .. k # {}
      BY <3>1, MaxOfPrefix
    <3> QED
      BY <1>3, <3>1, <3>2
  <2>2. g[1 .. (k - 1)] \in Seq(T) /\ ToSet(g[1 .. (k - 1)]) = Taken(k - 1)
    BY <1>5
  <2>3. Taken(k) = Taken(k - 1) \cup ({offered[k]} \cap ticked)
    <3>1. {offered[i] : i \in 1 .. k} = {offered[i] : i \in 1 .. (k - 1)} \cup {offered[k]}
      BY <1>1
    <3> QED
      BY <3>1
  <2>4. g[1 .. k] \in Seq(T) /\ ToSet(g[1 .. k]) = ToSet(g[1 .. (k - 1)]) \cup ({offered[k]} \cap ticked)
    BY <1>1, <2>1, <2>2, AppendSet
  <2> QED
    BY <1>1, <2>2, <2>3, <2>4
<1>6. n \in Good
  <2> HIDE DEF Good
  <2> QED
    BY <1>1, <1>4, <1>5, Upto
<1>7. ToSet(offered) = {offered[i] : i \in 1 .. n}
  BY <1>1 DEF ToSet
<1> QED
  BY <1>3, <1>6, <1>7

\* The device that is tuned is one of those the search runs on.
LEMMA TuningDeviceIsSearched ==
  ASSUME NEW available, available \in Seq(ToSet(available)), available # <<>>,
         NEW chosen, chosen \in Seq(ToSet(chosen)), SearchedDevices(chosen, available) # {}
  PROVE  /\ TuningDevice(chosen, available) # {}
         /\ TuningDevice(chosen, available) \subseteq SearchedDevices(chosen, available)
<1>1. CASE chosen = <<>>
  <2>1. available[1] \in ToSet(available)
    BY DEF ToSet
  <2> QED
    BY <1>1, <2>1 DEF SearchedDevices, TuningDevice
<1>2. CASE chosen # <<>>
  <2> DEFINE there == {i \in DOMAIN chosen : chosen[i] \in ToSet(available)}
  <2>1. SearchedDevices(chosen, available) = ToSet(chosen) /\ ToSet(chosen) \subseteq ToSet(available)
    BY <1>2 DEF SearchedDevices
  <2>2. there = 1 .. Len(chosen) /\ Len(chosen) \in Nat \ {0}
    <3>1. DOMAIN chosen = 1 .. Len(chosen) /\ Len(chosen) \in Nat \ {0}
      BY <1>2
    <3>2. \A i \in DOMAIN chosen : chosen[i] \in ToSet(chosen)
      BY DEF ToSet
    <3> QED
      BY <2>1, <3>1, <3>2
  <2>3. Min(there) \in there
    <3>1. 1 \in there /\ \A i \in there : 1 <= i
      BY <2>2
    <3> HIDE DEF there
    <3> QED
      BY <3>1 DEF Min
  <2>4. chosen[Min(there)] \in ToSet(chosen)
    BY <2>3 DEF ToSet
  <2>5. TuningDevice(chosen, available) = {chosen[Min(there)]}
    BY <1>2, <2>3 DEF TuningDevice
  <2> QED
    BY <2>1, <2>4, <2>5
<1> QED
  BY <1>1, <1>2

-----------------------------------------------------------------------------
(* The devices that are searched.                                          *)

LEMMA SeqOfItsOwn ==
  ASSUME NEW T, NEW s \in Seq(T)
  PROVE  s \in Seq(ToSet(s)) /\ \A i \in 1 .. Len(s) : s[i] \in ToSet(s)
<1>1. DOMAIN s = 1 .. Len(s) /\ Len(s) \in Nat /\ s = [i \in 1 .. Len(s) |-> s[i]]
  OBVIOUS
<1>2. \A i \in 1 .. Len(s) : s[i] \in ToSet(s)
  BY <1>1 DEF ToSet
<1> QED
  BY <1>1, <1>2

\* Whether the user left the choice of devices open.
AllAsked == request.select \/ request.devices \in {<<>>, <<"all">>, <<"select">>}

ListInv == request.devices \in Seq(ToSet(request.devices))

\* The picker has something ticked when it is left with "enter", of the
\* devices it was opened with; the ids are what was picked, or the list.
SelectionInv ==
  /\ ListInv
  /\ stage \in {"prompt", "wizard", "command"} => picker = "closed" /\ ids = <<>>
  /\ stage = "picker" =>
       /\ picker \in {"open", "canceled", "done"} /\ offered \in Machines
       /\ ticked \subseteq ToSet(offered) /\ position \in 1 .. Len(offered)
       /\ picker = "done" => ticked # {}
  /\ stage = "chosen" =>
       \/ picker = "done" /\ ids # <<>> /\ ids \in Seq(ToSet(ids)) /\ ToSet(ids) = ticked
       \/ picker = "closed" /\ ids = <<>> /\ AllAsked
       \/ /\ picker = "closed" /\ ~AllAsked
          /\ ids # <<>> /\ ids \in Seq(ToSet(ids)) /\ ToSet(ids) = ToSet(request.devices)

LEMMA ListIsSeq ==
  /\ <<"all">> \in Seq(ToSet(<<"all">>)) /\ <<>> \in Seq(ToSet(<<>>))
  /\ <<"0">> \in Seq(ToSet(<<"0">>)) /\ <<"1", "0", "1">> \in Seq(ToSet(<<"1", "0", "1">>))
<1>1. ToSet(<<"all">>) = {"all"} /\ ToSet(<<>>) = {} /\ ToSet(<<"0">>) = {"0"}
  BY DEF ToSet
<1>2. "0" \in ToSet(<<"1", "0", "1">>) /\ "1" \in ToSet(<<"1", "0", "1">>)
  BY DEF ToSet
<1> QED
  BY <1>1, <1>2

LEMMA InitSelection == InteractiveInit => SelectionInv
  BY ListIsSeq DEF InteractiveInit, PickerInit, SelectionInv, ListInv, NoRequest

LEMMA StartsSelection ==
  ASSUME SelectionInv, Starts
  PROVE  SelectionInv'
<1>1. stage = "prompt" /\ stage' \in {"wizard", "command"} /\ UNCHANGED <<picker, ids>>
  BY DEF Starts, screenVars, pickerVars
<1>2. ListInv'
  <2>1. CASE UNCHANGED request
    BY <2>1 DEF SelectionInv, ListInv
  <2>2. CASE \E devices \in Requests, select \in BOOLEAN : request' = [devices |-> devices, select |-> select]
    BY <2>2, RequestsAssumption DEF ListInv
  <2> QED
    BY <2>1, <2>2 DEF Starts
<1> QED
  BY <1>1, <1>2 DEF SelectionInv

LEMMA WizardEndsSelection ==
  ASSUME SelectionInv, WizardEnds
  PROVE  SelectionInv'
<1>1. stage = "wizard" /\ stage' \in {"command", "over"} /\ UNCHANGED <<picker, ids>>
  BY DEF WizardEnds, screenVars, pickerVars, Over
<1>2. ListInv'
  <2>1. CASE UNCHANGED request
    BY <2>1 DEF SelectionInv, ListInv
  <2>2. CASE request'.devices \in {<<"all">>, <<"0">>, <<"1", "0", "1">>}
    BY <2>2, ListIsSeq DEF ListInv
  <2>3. \/ UNCHANGED request
        \/ request' = [devices |-> <<"all">>, select |-> TRUE]
        \/ request' = [devices |-> <<"all">>, select |-> FALSE]
        \/ request' = [devices |-> IdsOf(args.devices), select |-> FALSE]
    BY DEF WizardEnds
  <2>4. IdsOf(args.devices) \in {<<"0">>, <<"1", "0", "1">>}
    BY DEF IdsOf
  <2> QED
    BY <2>1, <2>2, <2>3, <2>4
<1> QED
  BY <1>1, <1>2 DEF SelectionInv

LEMMA SettlesSelection ==
  ASSUME SelectionInv, Settles
  PROVE  SelectionInv'
<1> DEFINE parsed == ParseDeviceIDs(request.devices)
<1>1. stage = "command" /\ picker = "closed" /\ UNCHANGED request /\ ListInv' /\ ids = <<>>
  BY DEF Settles, SelectionInv, ListInv
<1>2. CASE stage' = "over"
  BY <1>1, <1>2 DEF SelectionInv
<1>3. CASE ~parsed.err /\ ~(parsed.select \/ request.select) /\ ids' = parsed.ids
           /\ stage' = "chosen" /\ UNCHANGED pickerVars
  <2>1. picker' = "closed" /\ request' = request
    BY <1>1, <1>3 DEF pickerVars
  <2>2. CASE request.devices \in {<<>>, <<"all">>}
    <3>1. parsed.ids = <<>>
      BY <2>2 DEF ParseDeviceIDs, Parsed
    <3>2. AllAsked'
      BY <2>1, <2>2 DEF AllAsked
    <3> QED
      BY <1>1, <1>3, <2>1, <3>1, <3>2 DEF SelectionInv
  <2>3. CASE request.devices \notin {<<>>, <<"all">>}
    <3>1. request.devices # <<"select">>
      <4> SUFFICES ASSUME request.devices = <<"select">> PROVE FALSE
        OBVIOUS
      <4>1. parsed.select
        BY <2>3 DEF ParseDeviceIDs, Parsed
      <4> QED
        BY <4>1, <1>3
    <3>2. parsed.ids = Deduplicated(request.devices)
      BY <1>3, <2>3, <3>1 DEF ParseDeviceIDs, Parsed
    <3>3. /\ parsed.ids \in Seq(ToSet(request.devices))
          /\ ToSet(parsed.ids) = ToSet(request.devices)
      BY <1>1, <3>2, DeduplicatedKeeps DEF SelectionInv, ListInv
    <3>4. parsed.ids # <<>>
      <4>1. ToSet(request.devices) # {}
        <5>1. request.devices \in Seq(ToSet(request.devices)) /\ request.devices # <<>>
          BY <2>3 DEF SelectionInv, ListInv
        <5>2. request.devices[1] \in ToSet(request.devices)
          BY <5>1
        <5> QED
          BY <5>2
      <4>2. ToSet(<<>>) = {}
        BY DEF ToSet
      <4> QED
        BY <3>3, <4>1, <4>2
    <3>5. ~AllAsked'
      <4>1. ~request.select
        BY <1>3
      <4> QED
        BY <2>1, <2>3, <3>1, <4>1 DEF AllAsked
    <3>6. ToSet(request.devices)' = ToSet(request.devices) /\ ToSet(ids') = ToSet(request.devices)
      BY <1>3, <2>1, <3>3
    <3> QED
      BY <1>1, <1>3, <2>1, <3>3, <3>4, <3>5, <3>6 DEF SelectionInv
  <2> QED
    BY <2>2, <2>3
<1>4. ASSUME parsed.select \/ request.select, ~parsed.err,
             NEW devices \in Machines, Len(devices) = 1, ids' = <<>>, stage' = "chosen", UNCHANGED pickerVars
      PROVE  SelectionInv'
  <2>1. picker' = "closed" /\ request' = request
    BY <1>1, <1>4 DEF pickerVars
  <2>2. AllAsked
    <3>1. CASE request.select
      BY <3>1 DEF AllAsked
    <3>2. CASE parsed.select
      <4>1. request.devices = <<"select">>
        BY <3>2 DEF ParseDeviceIDs, Parsed
      <4> QED
        BY <4>1 DEF AllAsked
    <3> QED
      BY <1>4, <3>1, <3>2
  <2>3. AllAsked'
    BY <2>1, <2>2 DEF AllAsked
  <2> QED
    BY <1>1, <1>4, <2>1, <2>3 DEF SelectionInv
<1>5. ASSUME NEW devices \in Machines, OpensPicker(devices), stage' = "picker"
      PROVE  SelectionInv'
  <2>1. Len(devices) \in Nat \ {0}
    BY MachinesAssumption
  <2> QED
    BY <1>1, <1>5, <2>1 DEF SelectionInv, OpensPicker
<1> QED
  BY <1>2, <1>3, <1>4, <1>5 DEF Settles, Over

LEMMA PickerStepSelection ==
  ASSUME SelectionInv, PickerStep
  PROVE  SelectionInv'
<1>1. stage = "picker" /\ UNCHANGED <<stage, request, ids, offered>> /\ picker = "open"
  BY DEF PickerStep, commandVars, PickerNext, PickerEscape, PickerMoves, Toggles, TogglesAll, Accepts, PickerKey
<1>2. /\ offered \in Machines /\ ticked \subseteq ToSet(offered) /\ ListInv'
      /\ position \in 1 .. Len(offered)
  BY <1>1 DEF SelectionInv, ListInv
<1>3. /\ picker' \in {"open", "canceled", "done"}
      /\ picker' = "done" => ticked' # {}
      /\ ticked' \subseteq ToSet(offered) /\ position' \in 1 .. Len(offered)
  <2>1. CASE PickerEscape \/ PickerMoves \/ Accepts
    BY <1>1, <1>2, <2>1 DEF PickerEscape, PickerMoves, Accepts, PickerKey
  <2>2. CASE TogglesAll
    BY <1>1, <1>2, <2>2 DEF TogglesAll, PickerKey
  <2>3. CASE Toggles
    <3>1. offered[position] \in ToSet(offered)
      BY <1>2, MachinesAssumption, SeqOfItsOwn
    <3> QED
      BY <1>1, <1>2, <2>3, <3>1 DEF Toggles, PickerKey
  <2> QED
    BY <2>1, <2>2, <2>3 DEF PickerStep, PickerNext
<1> QED
  BY <1>1, <1>2, <1>3 DEF SelectionInv

LEMMA PickerEndsSelection ==
  ASSUME SelectionInv, PickerEnds
  PROVE  SelectionInv'
<1>1. stage = "picker" /\ picker # "open" /\ UNCHANGED <<picker, offered, ticked, request>> /\ ListInv'
  BY DEF PickerEnds, screenVars, pickerVars, SelectionInv, ListInv
<1>2. CASE picker = "canceled" \/ Picked = <<>>
  BY <1>1, <1>2 DEF PickerEnds, Over, SelectionInv
<1>3. CASE ~(picker = "canceled" \/ Picked = <<>>)
  <2>1. /\ ids' = Picked /\ stage' = "chosen" /\ Picked # <<>>
        /\ picker = "done" /\ offered \in Machines /\ ticked \subseteq ToSet(offered)
    BY <1>1, <1>3 DEF PickerEnds, SelectionInv
  <2>2. Picked \in Seq(ToSet(offered)) /\ ToSet(Picked) = ticked
    BY <2>1, MachinesAssumption, PickedAreTicked
  <2>3. Picked \in Seq(ToSet(Picked))
    BY <2>2, SeqOfItsOwn
  <2> QED
    BY <1>1, <2>1, <2>2, <2>3 DEF SelectionInv
<1> QED
  BY <1>2, <1>3

LEMMA KeepsSelection == SelectionInv /\ [InteractiveNext]_sessionVars => SelectionInv'
<1> SUFFICES ASSUME SelectionInv, [InteractiveNext]_sessionVars PROVE SelectionInv'
  OBVIOUS
<1>1. ASSUME UNCHANGED <<pickerVars, stage, commandVars>>
      PROVE  SelectionInv'
  BY <1>1 DEF SelectionInv, ListInv, AllAsked, pickerVars, commandVars
<1>2. CASE WizardStep \/ DashboardStep
  BY <1>1, <1>2 DEF WizardStep, DashboardStep, screenVars
<1>3. CASE Prints
  BY <1>3 DEF Prints, Over, commandVars, SelectionInv, ListInv
<1>4. CASE Searches
  BY <1>4, ListIsSeq DEF Searches, SelectionInv, ListInv, NoRequest
<1>5. CASE UNCHANGED sessionVars
  BY <1>1, <1>5 DEF sessionVars, screenVars
<1> QED
  BY <1>2, <1>3, <1>4, <1>5, StartsSelection, WizardEndsSelection, SettlesSelection,
     PickerStepSelection, PickerEndsSelection DEF InteractiveNext

\* The search runs on the devices that were chosen, or fails, for any text of
\* --devices, any devices that are there and any keys in the picker; the device
\* that is tuned is one of them.
THEOREM ChosenSearched == InteractiveSpec => []ChosenAreSearched
<1>1. SelectionInv => ChosenAreSearched
  <2> SUFFICES ASSUME SelectionInv, stage = "chosen", NEW available \in Machines
               PROVE  LET wanted == IF picker = "done" THEN ticked
                                    ELSE IF AllAsked THEN ToSet(available) ELSE ToSet(request.devices)
                      IN /\ SearchedDevices(ids, available) \in {{}, wanted}
                         /\ SearchedDevices(ids, available) # {} =>
                              TuningDevice(ids, available) # {} /\ TuningDevice(ids, available) \subseteq wanted
    BY DEF ChosenAreSearched, AllAsked
  <2> DEFINE wanted == IF picker = "done" THEN ticked
                       ELSE IF AllAsked THEN ToSet(available) ELSE ToSet(request.devices)
  <2>1. /\ ids \in Seq(ToSet(ids))
        /\ IF ids = <<>> THEN wanted = ToSet(available) ELSE wanted = ToSet(ids)
    BY ListIsSeq DEF SelectionInv
  <2>2. SearchedDevices(ids, available) \in {{}, wanted}
    BY <2>1 DEF SearchedDevices
  <2> HIDE DEF wanted
  <2>3. SearchedDevices(ids, available) # {} =>
          TuningDevice(ids, available) # {} /\ TuningDevice(ids, available) \subseteq wanted
    BY <2>1, <2>2, MachinesAssumption, TuningDeviceIsSearched
  <2> QED
    BY <2>2, <2>3 DEF wanted
<1> QED
  BY <1>1, InitSelection, KeepsSelection, PTL DEF InteractiveSpec

-----------------------------------------------------------------------------
(* What is printed.                                                        *)

\* What runGenerate tells of a return of RunDashboard.
Verdict(r) == IF r.err # "none" /\ r.result = 0
              THEN IF r.err = "canceled" THEN "canceled" ELSE "error"
              ELSE "printed"

\* The program runs until the dashboard is there; what is told in the end is
\* what it returned.
ToldInv ==
  /\ stage \notin {"dashboard", "over"} => main = "program"
  /\ stage = "over" /\ main # "program" => main = "returned" /\ told = Verdict(ret)

PrintInv == IInv /\ ToldInv

\* A return is the last step of RunDashboard.
LEMMA ReturnStays ==
  ASSUME main = "returned", Next
  PROVE  main' = "returned" /\ ret' = ret
<1>1. CASE Search
  BY <1>1, main = "returned" DEF Search, SearchStep, CloseEvents, SendDone, Emit, EmitStep, mainVars
<1>2. CASE Commands
  BY <1>2, main = "returned" DEF Commands, WaitEvent, WaitDone, mainVars
<1>3. ~Loop /\ ~User
  BY main = "returned" DEF Loop, User, TakesEvent, TakesDone, PressQ, PressP, PressC, ProgramEnds, LoopStep
<1>4. ~Main
  BY main = "returned" DEF Main, AfterError, AfterProgram, FinalWait
<1> QED
  BY <1>1, <1>2, <1>3, <1>4 DEF Next

LEMMA InitPrint == InteractiveInit => PrintInv
  BY InitInv DEF InteractiveInit, Init, PrintInv, ToldInv

LEMMA KeepsPrint == PrintInv /\ [InteractiveNext]_sessionVars => PrintInv'
<1> SUFFICES ASSUME PrintInv, [InteractiveNext]_sessionVars PROVE PrintInv'
  OBVIOUS
<1> USE DEF PrintInv
\* A step of the screens before the dashboard.
<1>1. ASSUME UNCHANGED vars, stage \notin {"dashboard", "over"}
      PROVE  PrintInv'
  BY <1>1, NextInv DEF ToldInv, vars, mainVars
<1>2. CASE Starts \/ WizardStep \/ WizardEnds \/ Settles \/ PickerStep \/ PickerEnds \/ Searches
  <2>1. UNCHANGED vars
    BY <1>2 DEF Starts, WizardStep, WizardEnds, Settles, PickerStep, PickerEnds, Searches
  <2>2. stage \notin {"dashboard", "over"}
    BY <1>2 DEF Starts, WizardStep, WizardEnds, Settles, PickerStep, PickerEnds, Searches
  <2> QED
    BY <1>1, <2>1, <2>2
<1>3. CASE DashboardStep
  <2>1. Next /\ UNCHANGED <<stage, told>> /\ (stage = "dashboard" \/ main = "returned")
    BY <1>3 DEF DashboardStep, Running
  <2>2. IInv'
    BY <2>1, NextInv
  <2>3. CASE stage = "dashboard"
    BY <2>1, <2>2, <2>3 DEF ToldInv
  <2>4. CASE main = "returned"
    BY <2>1, <2>2, <2>4, ReturnStays DEF ToldInv
  <2> QED
    BY <2>1, <2>3, <2>4
<1>4. CASE Prints
  <2>1. UNCHANGED vars /\ main = "returned" /\ stage' = "over" /\ told' = Verdict(ret)
    BY <1>4 DEF Prints, Over, Verdict
  <2> QED
    BY <2>1, NextInv DEF ToldInv, vars, mainVars, Verdict
<1>5. CASE UNCHANGED sessionVars
  <2>1. UNCHANGED <<vars, stage, told>>
    BY <1>5 DEF sessionVars
  <2> QED
    BY <2>1, NextInv DEF ToldInv, vars, mainVars, Verdict
<1> QED
  BY <1>2, <1>3, <1>4, <1>5 DEF InteractiveNext

\* What is printed in the end is the outcome of the search that completed.
THEOREM OutcomePrinted == InteractiveSpec => []OutcomeIsPrinted
<1>1. PrintInv => OutcomeIsPrinted
  <2> SUFFICES ASSUME PrintInv PROVE OutcomeIsPrinted
    OBVIOUS
  <2>1. OutcomeIsTold
    BY IInvTold DEF PrintInv
  <2>2. ASSUME stage = "over", model.completed
        PROVE  told = IF outcome.result > 0 THEN "printed"
                      ELSE IF outcome.err = "canceled" THEN "canceled" ELSE "error"
    <3>1. model.completed = TRUE
      BY <2>2 DEF PrintInv, IInv, CompletedInv
    <3>2. main = "returned" /\ told = Verdict(ret)
      BY <2>2, <3>1 DEF PrintInv, IInv, CompletedInv, ToldInv
    <3>3. ret = outcome /\ at = "returned"
      BY <3>1, <3>2 DEF PrintInv, IInv, CompletedInv
    <3>4. /\ outcome.result \in Nat
          /\ \/ outcome.result > 0 /\ outcome.err = "none"
             \/ outcome.result = 0 /\ outcome.err \in {"failed", "canceled"}
      BY <3>3 DEF PrintInv, IInv, RunInv
    <3> QED
      BY <3>2, <3>3, <3>4 DEF Verdict
  <2> QED
    BY <2>1, <2>2 DEF OutcomeIsPrinted
<1> QED
  BY <1>1, InitPrint, KeepsPrint, PTL DEF InteractiveSpec
=============================================================================
