------------------------------- MODULE Worker -------------------------------
(***************************************************************************)
(* The headless worker (worker/worker.go): its flags and the line on stdin *)
(* become a configuration or an error; the search (RunEvents) then emits   *)
(* its events, synchronously, to stdout and to the WebSocket clients, with *)
(* progress thinned out for each of the two; at the end the command adds   *)
(* what has not been said and picks its exit status.                       *)
(*                                                                         *)
(* A key is "" (not given), "good" or "bad".                               *)
(***************************************************************************)
EXTENDS RunEvents, FiniteSets

CONSTANTS
  Flags,      (* the command lines: records of the fields resolveConfig reads *)
  Handshakes, (* the lines stdin may hold, Unreadable among them            *)
  Unreadable, (* no line, an empty one, or one that is not JSON             *)
  Batch,      (* how late a batch may make a progress event, milliseconds   *)
  MaxElapsed  (* bound of the model: milliseconds of search                 *)

ASSUME BoundsAssumption == Batch \in Nat /\ MaxElapsed \in Nat

KeyKinds == {"", "good", "bad"}

\* An interval that is negative is refused as `negative`.
ASSUME IntervalsAssumption == \A f \in Flags : f.interval \in [{"stdout", "ws"} -> Nat]

ASSUME KeysAssumption ==
  /\ \A f \in Flags : {f.initPub, f.wsKey} \subseteq KeyKinds /\ f.wsServerPort \in Int
  /\ \A l \in Handshakes \ {Unreadable} : {l.init_pub, l.ws_key} \subseteq KeyKinds

Streams == {"stdout", "ws"}

VARIABLES
  status,   (* "flags", "resolved", "running", "exited"                     *)
  flags,    (* the flags                                                    *)
  line,     (* the line on stdin                                            *)
  config,   (* resolvedConfig                                               *)
  last,     (* lastStdoutProgress, lastWSProgress                           *)
  elapsed,  (* ElapsedMS of the last progress event                         *)
  said,     (* history: the kinds of events written                         *)
  exit,     (* the exit status, -1 before                                   *)
  faulted   (* history: the backend failed, or a result was not finalised   *)

emitterVars == <<last, elapsed, said>>
workerVars == <<status, flags, line, config, emitterVars, exit, faulted, runVars, canceled>>

-----------------------------------------------------------------------------
(* resolveConfig.                                                          *)

NoConfig == [remote |-> FALSE, initPub |-> "", ws |-> FALSE, wsKey |-> "", interval |-> [s \in Streams |-> 0],
             progressMS |-> 0]

Refusal == [NoConfig EXCEPT !.initPub = "refused"]

MaxPort == 65535

\* Flags that contradict one another or are out of range.
Contradictory(f) ==
  \/ f.initPub # "" /\ f.initPubStdin
  \/ f.wsKey # "" /\ f.wsKeyStdin
  \/ f.negative
  \/ f.wsServerPort < 0 \/ f.wsServerPort > MaxPort
  \/ (f.wsKey # "" \/ f.wsKeyStdin) /\ f.wsServerPort = 0
  \/ f.wsServerPort > 0 /\ f.wsKey = "" /\ ~f.wsKeyStdin

UsesStdin(f) == f.initPubStdin \/ f.wsKeyStdin

\* Mutant: a key that is missing on stdin is not asked for.
KeyOf_Optional(flag, fromStdin, onStdin) == IF flag # "" THEN flag ELSE IF fromStdin THEN onStdin ELSE ""

\* The key of the flag, or the one on stdin, which must be there.
KeyOf(flag, fromStdin, onStdin) ==
  IF flag # "" THEN flag
  ELSE IF ~fromStdin THEN ""
  ELSE IF onStdin = "" THEN "bad" ELSE onStdin

\* Mutant: the longest interval.
MinPositive_Max(x, y) == IF x >= y THEN x ELSE y

MinPositive(x, y) == IF x > 0 /\ (y = 0 \/ x < y) THEN x ELSE y

\* A pattern, a mode or devices that do not parse, "select" included, are bad.
ResolveConfig(f, l) ==
  LET initPub == KeyOf(f.initPub, f.initPubStdin, IF UsesStdin(f) /\ l # Unreadable THEN l.init_pub ELSE "")
      wsKey == KeyOf(f.wsKey, f.wsKeyStdin, IF UsesStdin(f) /\ l # Unreadable THEN l.ws_key ELSE "")
  IN
  IF Contradictory(f) \/ (UsesStdin(f) /\ l = Unreadable) \/ "bad" \in {initPub, wsKey} \/ f.badSearch
  THEN Refusal
  ELSE [remote |-> initPub # "", initPub |-> initPub, ws |-> f.wsServerPort > 0, wsKey |-> wsKey,
        interval |-> f.interval, progressMS |-> MinPositive(f.interval["stdout"], f.interval["ws"])]

NoFlags == [initPub |-> "none"]

WorkerInit ==
  /\ RunInit /\ status = "flags" /\ flags = NoFlags /\ line = Unreadable /\ config = NoConfig
  /\ last = [s \in Streams |-> 0] /\ elapsed = 0
  /\ said = {} /\ exit = -1 /\ faulted = FALSE

-----------------------------------------------------------------------------
Says(kind) == said' = said \cup {kind}

\* runCommand as far as the configuration.  stdin is closed once it was read.
Resolves ==
  /\ status = "flags" /\ status' = "resolved"
  /\ flags' \in Flags
  /\ line' \in (IF UsesStdin(flags') THEN Handshakes ELSE {Unreadable})
  /\ config' = ResolveConfig(flags', line')
  /\ UNCHANGED <<emitterVars, exit, faulted, runVars, canceled>>

\* commandError: a refusal, or a WebSocket server that does not start.
Refuses ==
  /\ status = "resolved" /\ status' = "exited" /\ exit' = 1
  /\ config = Refusal \/ config.ws
  /\ Says("error")
  /\ UNCHANGED <<flags, line, config, last, elapsed, faulted, runVars, canceled>>

\* The search starts; the flags are only kept in the configuration.
Runs ==
  /\ status = "resolved" /\ config # Refusal /\ status' = "running"
  /\ flags' = NoFlags /\ line' = Unreadable
  /\ config' = [config EXCEPT !.initPub = "", !.wsKey = ""]
  /\ UNCHANGED <<emitterVars, exit, faulted, runVars, canceled>>

\* A stop command of a WebSocket client, or SIGINT.
Stops ==
  /\ status = "running" /\ ~canceled /\ canceled' = TRUE
  /\ UNCHANGED <<status, flags, line, config, emitterVars, exit, faulted, runVars>>

WorkerSearches ==
  /\ status = "running" /\ RunNext
  /\ faulted' = (faulted \/ settled' \in {"error", "memory"}
                         \/ (at = "search" /\ at' = "ended" /\ best > 0 /\ Ready'))
  /\ UNCHANGED <<status, flags, line, config, emitterVars, exit, canceled>>

-----------------------------------------------------------------------------
(* The emitter.                                                            *)

EmitLine ==
  /\ status = "running" /\ ~Ready /\ sending' = NoEvent
  /\ UNCHANGED <<status, flags, line, config, exit, faulted, canceled>>
  /\ UNCHANGED <<at, attempt, best, kept, settled, outcome>>

\* shouldEmitProgress.
Due(s, now) ==
  /\ config.interval[s] > 0
  /\ last[s] = 0 \/ now < last[s] \/ now - last[s] >= config.interval[s]

\* emitProgress.  A search with an interval reports at least that often, but
\* for the batch under way; an event of another GPU may come late, and time
\* does not go on between two attempts.  Without one it reports only once.
EmitsProgress ==
  /\ EmitLine /\ sending.kind = "progress"
  /\ \E now \in 0 .. MaxElapsed :
       /\ now >= elapsed - (IF Several THEN 1 ELSE 0)
       /\ config.progressMS > 0 => now <= elapsed + config.progressMS + Batch
       /\ elapsed' = now
       /\ last' = [s \in Streams |-> IF Due(s, now) THEN now ELSE last[s]]
       /\ said' = IF Due("stdout", now) THEN said \cup {"progress"} ELSE said

\* Any other event goes to both streams; a FOUND event to none.
EmitsOther ==
  /\ EmitLine /\ sending.kind # "progress"
  /\ said' = IF sending.kind = "found" THEN said ELSE said \cup {sending.kind}
  /\ UNCHANGED <<last, elapsed>>

\* Mutant: an error is only told when nothing else was.
Exits_Silent ==
  /\ status = "running" /\ at = "returned" /\ Ready /\ status' = "exited"
  /\ exit' = (IF outcome.result = 0 /\ outcome.err # "none" THEN 1 ELSE 0)
  /\ said' = said \cup (IF exit' = 1 /\ said = {} THEN {"error"} ELSE {})
  /\ UNCHANGED <<flags, line, config, last, elapsed, faulted, runVars, canceled>>

\* runCommand after the search: the result if none was emitted; the error,
\* unless some error was emitted.
Exits ==
  LET silentResult == outcome.result > 0 /\ "result" \notin said
      failed == outcome.err # "none" /\ ~(outcome.result > 0 /\ outcome.err = "canceled")
      silentError == failed /\ "error" \notin said
  IN
  /\ status = "running" /\ at = "returned" /\ Ready /\ status' = "exited"
  /\ exit' = (IF failed THEN 1 ELSE 0)
  /\ said' = said \cup (IF silentResult THEN {"result"} ELSE {}) \cup (IF silentError THEN {"error"} ELSE {})
  /\ UNCHANGED <<flags, line, config, last, elapsed, faulted, runVars, canceled>>

WorkerNext ==
  \/ Resolves \/ Refuses \/ Runs \/ Stops \/ WorkerSearches \/ EmitsProgress \/ EmitsOther \/ Exits

WorkerSpec == WorkerInit /\ [][WorkerNext]_workerVars

-----------------------------------------------------------------------------
(* Properties.                                                             *)

\* The keys are the ones asked for: a search is remote, and never makes a
\* private key of its own, as soon as either flag asks for it; the server
\* runs exactly when a port is given, and never without a good key; a key on
\* stdin is used only for the flag that names it.
KeysAsAsked ==
  (status = "resolved" /\ config # Refusal) =>
    /\ config.remote <=> (flags.initPub # "" \/ flags.initPubStdin)
    /\ config.remote => config.initPub = "good"
    /\ config.ws <=> flags.wsServerPort > 0
    /\ config.ws <=> config.wsKey = "good"
    /\ flags.initPubStdin => line.init_pub = "good"
    /\ flags.wsKeyStdin => line.ws_key = "good"

\* The exit status agrees with what was said: 0 comes after a result event,
\* 1 after an error event.
ExitIsExplained ==
  /\ exit = 0 => "result" \in said
  /\ exit = 1 => "error" \in said

\* npm README, line 249: a stopped worker emits a result when a best candidate
\* is available, whatever attempt it was of, unless the backend failed or the
\* candidate did not stand up to the host's check.
StopYieldsResult ==
  (status = "exited" /\ canceled /\ "candidate" \in said /\ ~faulted /\ outcome.err # "failed")
    => "result" \in said /\ exit = 0

\* Each stream that asked for progress gets it in time: what is due waits
\* for one report of the search and one batch at most, also when the other
\* stream's interval is the shorter one.
ProgressInTime ==
  [][\A s \in Streams :
       (config.interval[s] > 0 /\ elapsed' > elapsed) =>
         /\ elapsed' - last'[s] < config.interval[s]
         /\ \A t \in Streams :
              (config.interval[t] > 0 /\ last'[s] # last[s]) =>
                last'[s] - last[s] < config.interval[s] + config.interval[t] + Batch]_workerVars
=============================================================================
