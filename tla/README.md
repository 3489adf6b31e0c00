# ProVanity in TLA+

Models, model-checking runs and machine-checked proofs for ProVanity, the CUDA
vanity-address searcher. Everything is translated from the code under `src/`;
paths below are relative to `src/internal/`.

## The system

| Component | State it keeps | Operations | Hard part |
|---|---|---|---|
| Search loop `cuda/native/backend.cu` | device buffers, stream, pinned results, `score_max`, `rounds`, `last_progress_attempts` | `provanity_cuda_run`: check, ready, four phases, allocation, init, round loop, exits | some twenty failing calls and seven stopping callbacks, each with other resources held |
| Kernels `cuda/native/kernels.cuh` | per-lane `state_x`, `state_lambda`, `state_inv`, `hashes`; one result slot per score | init, inverse, step, transform, score, fused step and score | lanes publish concurrently; slots are never cleared between rounds; lanes of a group share an inversion |
| Arithmetic `cuda/native/{field,point}.cuh`, `secp256k1_tables.*` | a table of multiples | field and curve functions, scalar multiplication | carries, folds, the point at infinity |
| Multi-GPU runner `cuda/loader_linux.go` | `multiRunAggregator`: two mutexes, `stop`, `firstErr`, per-device sums; `runCtx` | `runMulti`, `runSingle`, `emitDeviceEvent`, `recordRunError`, `stopRuns` | one thread per GPU, cancellation seen only in callbacks |
| Callback bridge `cuda/callback_linux.go` | a `cgo.Handle` per run | `provanityCudaCallback` | two context checks around an answer |
| Search session `local/run.go`, `result.go` | `bestScore`, `bestEvent`, `result`, `runErr`, the output file | `runCUDAAttempt` and its callback, `finalizeCUDAResult`, `writeResult` | matches, errors and stops in any order |
| Autotune `local/run.go`, `tune.go` | samples, `bestPartial`, profile cache file | probe, confirm, final run, `saveCUDAProfile` | partial results across attempts; events of other GPUs behind a match; a file without a lock |
| Benchmark `local/benchmark.go`, `cli/bench.go` | samples, measurement window, live panel | tuning, measurement, save | samples that are given up, fail or are cancelled; progress of several GPUs in another order |
| Patterns `vanity/pattern.go` | none | parse, score, match | the same score on host and GPU |
| Split keys, Tron `crypto/` | none | finalize, base58check, prefix ladder | carries, intervals |
| Worker `worker/worker.go` | emitter: last progress, best score, what was emitted | `runCommand`, `Emit` | exit code, duplicate or missing result, two throttles |
| WebSocket server `worker/ws_server.go` | client set, `closed`, write locks | accept, broadcast, read loop, close | clients that come, go or stall while events are sent |
| Dashboard `tui/dashboard.go` | event and done channels, model | `startRun`, `Update`, final wait | a quit while the search stops |
| Wizard, device list and picker `cli/wizard.go`, `local/devices.go`, `tui/gpu_select.go` | screen state | key handlers | a device probe that answers late; an empty list means all |
| Rest: hashes, library loading, other commands, estimate, theme, paths, build | none or files | | see *Not modelled* |

How they interact: the CLI or the worker calls `local.Run` with an emit
function (the dashboard's channel, or the worker's emitter, which writes stdout
and broadcasts to WebSocket clients). `local.Run` makes one or more attempts
(`runCUDAAttempt`), each a `cuda.Run`, which calls `provanity_cuda_run` once per
GPU. Every event travels back synchronously: kernel slots, the host loop's scan,
the C callback, the context check, the aggregator's mutexes, the session's
callback, the emit function. A non-zero answer on the way back is the only way
to stop a search.

## Modules

| Module | What it is | Extends |
|---|---|---|
| `KeySearch` | abstract specification of one search: keys are tried one by one, every report is a new best | |
| `CudaBackend` | one call of `provanity_cuda_run` with its kernels, lanes interleaved; implements `KeySearch` | |
| `Session` | the session's callback and the end of an attempt, as operators over the session's variables | |
| `MultiRun` | `cuda.Run` over several GPUs | `Session` |
| `Autotune` | an autotuned search: many attempts, one after another | `Session` |
| `RunEvents` | a whole run as the events it emits and the outcome it returns | |
| `Worker` | the worker command from its flags to its exit status | `RunEvents` |
| `Dashboard` | the terminal program around a run | `RunEvents` |
| `Wizard`, `GpuSelect` | the setup wizard; device lists and the picker | |
| `Interactive` | `generate`: wizard, picker and dashboard, one after another | `Wizard`, `GpuSelect`, `Dashboard` |
| `ProfileCache` | processes that use and save tuned parameters in one file | |
| `Benchmark` | the benchmark command next to other processes | `ProfileCache` |
| `WsServer` | the worker's WebSocket control with its clients, broadcasts and close | |
| `Patterns` | a pattern from its text to the kernel's score, and the host's score of the same address | `Numbers` |
| `Numbers` | powers, as a table | |
| `Field`, `KeyWalk`, `TuneCandidates` | field arithmetic by limbs; the walk of the lanes over the curve; the parameters tried for a GPU | |
| `Algorithms` | the last four as one specification: one input, one computation | `Patterns`, `Field`, `KeyWalk`, `TuneCandidates` |
| `CudaBackendProofs`, `MultiRunProofs`, `WsServerProofs`, `AutotuneProofs`, `SearchHostProofs`, `BenchmarkProofs`, `AlgorithmsProofs`, `DataInduction` | theorems | |
| `MC*` | instances for TLC | |

The models meet at the interfaces the code has. `MultiRun` and `Autotune` are two
drivers of the session's callback and see the backend as its callbacks only, in
the order `KeySearch` allows. `Session` compares scores where the code compares
an address with the pattern; `Patterns` shows that the two agree. `CudaBackend`
names keys by their number; `KeyWalk` shows that the lanes stand at them.
`RunEvents` is the session as its listeners see it: attempts, candidates, partial
and final results and errors in the order `Session` and `Autotune` allow.

### CudaBackend

`pc` is the host thread's place in `provanity_cuda_run`; `gpu` is the kernel at
the head of the stream. A host action is the code between two calls that can
fail or be answered; each `CudaCall` and `emit_phase` has its place in
`AfterCall` and `AfterPhase`, its failing exits in `Fail`, its stopping exits in
`Answer`, and what an exit frees in `Released`. The six `cudaMalloc` of
`alloc_memory` are six steps, so that the exit behind it may hold any first few
of the buffers; `free_memory` frees what is there. A key is named by its attempt
number, its distance from the random seed, so adding `size * G` is adding `Size`;
an address is its key and how often the contract rehash was applied. Kernels
whose lanes touch only their own cells are one step. In the scoring kernels each
lane is two steps, up to and after the `atomicAdd` of `pv_publish_candidate`
(`ScoreLane` or `StepScoredLane`, then `FillSlot`), in any order. `state_inv` is
`"delta"` (staged for inversion), `"inverse"`, or `"garbage"`; a step with
anything but an inverse leads to `Lost`. Which score an address gets is left
open, but it does not change between two looks. `event` is the last event handed
out; an error event is a step of its own because its answer is ignored.

Left out: the value arithmetic, the split of a run over grid blocks (the model
assumes `work_size` divides `size`), the clock (whether the progress interval has
elapsed is a free choice) and the wording of messages.

### Session and MultiRun

`Session` holds `runCUDAAttempt`'s `best`, `result` and `runErr`, the output
file, and two history variables: the best score any found event of the attempt had
(`seen`) and the scores of all result events (`announced`).
Candidates and results are their scores; a match is a score of at least
`TargetScore`, and scores go up to `MaxScore` because a leading run may be
longer than asked for. Finalising and writing may fail (`Faulty`), and a failed
write leaves the file `Damaged`, since `os.WriteFile` truncates first.
An error is one for lack of memory or another, which only `Autotune` tells
apart. A match that can be finalised and written clears an earlier error of
another GPU, as the one assignment of `result` and `runErr` does
(`local/run.go:429`). `EndAttempt` is `runCUDAAttempt` after `cuda.Run` has
returned.

In `MultiRun` the goroutine of a GPU is a process: in its backend, in the gate of
`provanityCudaCallback`, in the aggregator, waiting for or holding `callbackMu`,
in `stopRuns`, then through `runSingle` and `recordRunError`. Each of the two
context checks, each lock, and the setting of `agg.stop` and the cancelling of
`runCtx` are steps of their own. The session's callback (`OnFound`, `OnError`) is
atomic because it runs under `callbackMu`, which `CallbackSerialised` checks.
The merged ready event, which no session callback stops on, and the sums of
attempts and hashrates are left out.

### Autotune

`attempt` says which attempt is under way (a probe of each candidate, a
confirmation of the best two, or the final search) and `phase` how far it is:
inside `cuda.Run`, behind it (`AttemptEnds` is the rest of `runCUDAAttempt`), or
before the code of `runCUDAAutotuned` that judges it (`JudgeError`,
`JudgeTimed`, `JudgeLast`, one action per way through the loop bodies).
`Samples` is what is measured, `TopParams` and `BestParams` the choice by medians.
The candidate list is `1 .. Probes`; a probe may be given up for speed (below 80%
of the best), may run out of memory, or may fail. The window of time in which
rates are taken is abstracted to the last rate reported, and what
`stateFromProgress` carries over, which is only shown, is left out. Variables of
the code that go out of scope are cleared (`Forget`, and `Forgets` in `Benchmark`).

An autotuned search runs on all the devices asked for, so `gpus` is one or more of
them and `live` those whose backend has not ended. `cuda.Run` is `MultiRun` reduced
to its callbacks: the answer that stops the search begins the phase `"stopping"`,
in which a GPU that had looked at the context before may still have one event
delivered (`Delivers`). It may be a second match, which replaces the first, or an
error, which takes the first one's place or, if it is for lack of memory, makes the
probe loop go on; `overtaken` keeps the matches this happened to. `RunError` is
what `runMulti` or `runSingle` return: with several GPUs a cancellation comes
first, then the first error recorded, in an order that is not that of the callbacks
(`Records`).

### RunEvents, Worker

`at` is the place of the search between two events, `sending` the event its
callback is handing over: `Ready` holds when it has been taken. `kept` is the
partial result carried from attempt to attempt, `outcome` what `Run` returns.
`settled` is what the attempt in hand comes to when `cuda.Run` returns: the result
of a match, an error, an error for lack of memory, or neither. With one GPU it comes
to that by the last event of the attempt (`Heard`). With `Several` the events of
others, which looked at the context before the stop, still follow: a second match
clears an error, an error takes the place of a match, and a tuning probe whose
error is for lack of memory makes way for the next attempt. How many follow is left
open, since the number of GPUs is.

`Worker` reads flags and stdin (`ResolveConfig`; keys are none, good or bad),
then takes the run's events one by one. `Due` and `EmitsProgress` are the throttle
of both streams over the `ElapsedMS` of the search, which may go back by one when
events of two GPUs swap. `said` is what was written; `Exits` is what `runCommand`
does with the outcome.

### Dashboard, Wizard, GpuSelect, Interactive

`events` and `done` are the two channels; `eventCmd` and `doneCmd` the commands of
the terminal library, goroutines that outlive the program; `model` the part of
`dashboardModel` that decides something. `Emit` may block on a full channel or
give up on the context. `ProgramEnds` is the library ending the program by a
signal or an error. `FinalWait` is the select of `RunDashboard` with its timeout.

`Wizard` has the fields of each mode with their conditions, so that fields appear
and vanish as values and the probe's answer change; an answer is its class (empty,
valid, invalid, a wildcard, ...), an argument list a sequence of flags with such
values. `backs` bounds how often the user goes back. `GpuSelect` has the parsing
of `--devices`, the picker, and what a search and its tuning run on. `Interactive`
runs one of them after another as `runGenerate` and the wizard do, and forgets the
screens when the dashboard starts.

### ProfileCache, Benchmark

A save is three steps: read, truncate, write, by each process on its own; a file
in the middle is `Torn`. `Resolves` is a search's choice of parameters (manual,
cache, default, or to be tuned). `Benchmark` tunes (`StartsSample`, `SampleEnds`,
`Selects`), measures (`Measures`, `RunEnds`) and saves, and keeps the live panel's
state with each event. Each `cuda.Run` is that of its GPUs (`gpu`): one of them
computes an event, under the aggregator's mutex (`Reports`, `Breaks`), and delivers
it later, under `callbackMu` (`Progress`, `TellsError`), so that events are
delivered in any order and also after the one that stops the search. `clock` is
the largest elapsed time of the aggregator, which every report of GPU 1 raises.
Rates are members of a small set; the window is `Duration` units of time after the
first event delivered, which is the warm-up; an event not later than the first
leaves the window to the host's clock (`WindowOver`).

### WsServer

The goroutines are the search's (`Emits`, then one step of `Broadcast` after
another: pick a client of the snapshot, lock, write), one per client (`accept`,
`addClient`, the `subscribed` event, then the read loop and its replies) and the
one that runs `Close`, which is either `runCommand` at its end or a listener that
failed. `writer` is the `writeMu` of a client; a write succeeds, fails because
the connection is gone, or times out because the peer has stopped reading, and
then the library shuts the connection. The encrypted frame is either a command
or undecodable.

### Patterns

One behaviour is one pattern: typed and parsed (or refused), turned into a
`cuda.Config` (or refused), and scored against one address. Characters are their
classes; base58 characters their index. The Tron side is the code's own
computation at smaller sizes, all of them constants: the address is version,
number and checksum in base `Base`, the ladder is found by the same binary
search, the kernel compares intervals for prefixes and reduces the payload byte
by byte in a word of `WordBits` for suffixes. `TronAssumption` is what the code
relies on: every address has the same length and begins with T, the checksum
moves less than a longest prefix leaves open, and a remainder times a byte fits
the word. The checksum is any function of the address; the instance takes one
that jumps up and down as far as it can between neighbours.
Spaces, the name before the colon and the leading zeros of base58, which the
version byte excludes, are left out.

### Field, KeyWalk, TuneCandidates, Algorithms

`Field` is `felt_*` limb by limb, over four limbs to the base `LimbBase` and the
prime modulus `LimbBase^4 - FoldC`, against plain arithmetic. `KeyWalk` is the
kernels' arithmetic on a curve `y^2 = x^3 + b` of prime order: the table of byte
multiples, both scalar multiplications, the finalisation, the shared inversion
with its stride, the step by the slope recurrence, and the offsets the host
prints, each compared with the key the user would compose. The arithmetic below it
is modular, and `Inverses` the inverses by definition, 0 for 0; `FieldIsExact`
justifies both. Tables and doublings are functions over what the kernels compute, the
sums over digits and the products over lanes folds. Because of the 0, one
degenerate lane spoils its group: the property says that every other lane is
exact, and where spoilt lanes can be. `TuneCandidates` is the choice of batch and
work sizes by memory, with real numbers. `Algorithms` lets one of the four compute
on one input and then end.

## Runs

| Run | Instance | Shows |
|---|---|---|
| `cuda_backend_direct` | 3 lanes, 2 scores, 3 rounds, progress on | offsets, best candidates, resources at every exit, counts, and that the call implements `KeySearch` |
| `cuda_backend_contract` | 2 lanes, 2 scores, 3 rounds | the offsets of the unfused pipeline of contract addresses |
| `multi_run` | 2 GPUs, scores to 4 with matches from 3, faults | the callback's lock, the error and the candidate the run returns, quiet after the return, and the return itself |
| `exit_without_progress` | 2 GPUs, interval 0 | violation: neither a stop nor a match need end the run |
| `autotune` | 1 or 2 GPUs, 2 probes, 2 rates, matches at scores 3 and 4 | what is skipped, chosen and kept; no attempt after a match or a stop, with the exceptions the properties name; a cancelled search returns |
| `autotune_memory` | 2 probes | violation: parameters that ran out of memory are searched with |
| `ws_server` | 2 clients (one unruly) and 1 event, or 1 client, 2 events and 2 commands | delivery, close, no connection left unserved, broadcasts that end, stop commands that are heeded |
| `algorithms` | see the bounds | kernel, configuration and host agree on every pattern; field, curve walk and tuning candidates are right |
| `interactive` | 1 or 2 GPUs, 2 attempts, 1 place in the channel, 2 steps back | the arguments are the answers, the devices the chosen ones, the outcome the printed one; stops end |
| `dashboard_stop` | the same dashboard alone | violation: a stop loses the best candidate |
| `worker` | every combination of keys, ports and streams; 2 attempts, several GPUs, scores to 3 with matches from 2 | keys as asked, exit status explained, a result after a stop, progress in time |
| `bench` | 1 or 2 GPUs, 2 candidates, both confirmed, 2 rates, a second process | the selection, the cache, the bar, and the end |

### Bounds

- `cuda_backend_*`: two scores are the least with which a better candidate can
  follow a worse one or be in the same round; three lanes can fill one slot twice
  and the other once; three rounds contain the first (no inverse, no step), one
  later round and a round after that, in which a stale slot or reciprocal would
  show. `MaxRounds` bounds the round loop; nothing else is cut off.
- `multi_run`: two GPUs are the smallest multi-GPU run, and the proofs cover any
  number. Two scores below a match let a worse candidate follow a better one; two
  scores of a match let a worse match follow a better one.
- `autotune`: two probes are the least with a choice, a best two and a slower
  one; of the rates 5 and 10 one is below 80% of the other; `MaxProgress` bounds
  the progress events of one attempt at three, enough for a rate to change within
  an attempt. With two GPUs one event can follow the stop, and with two scores of a
  match a worse one can. For `autotune_memory` one score of a match and one rate are enough.
- `ws_server`: `Limits` bounds events and commands and says which clients may
  send, stall and hang up. With two clients one comes during a broadcast to the
  other; alone, one has a command behind another one and an event behind another
  one. Each client connects once. The last event, of the exit, is not counted.
- `algorithms`: prefixes up to the length at which two free characters remain,
  just more than a checksum can move (`TronAssumption`, which the real sizes
  satisfy with 58^17 against 2^33), and suffixes up to the length at which the
  remainder times a byte just fits the word (26 * 4 + 3 < 2^7; in the code
  58^8 * 256 < 2^64). Field elements have limbs 0, 1 and 7 of 3 bits, so every
  carry and both folds happen. The curve has 4093 points over the field of 3967
  elements, a scalar 3 words of 2 digits of 2 bits, a search 4 lanes in 2 groups
  for 4 rounds; seeds are those that carry through every word, that meet the step
  point, and some in between. Memories are every 16 MiB to 48 GiB and the numbers
  next to the thresholds.
- `interactive`: with one place in the channel the search blocks at once; one
  kept candidate can hide another; two attempts can disagree. `MaxBacks` bounds
  the steps back in the wizard.
- `worker`: with matches at 2 and 3 a late match can be worse than the first. Intervals
  of 2 to 5 with a batch of 1 make either stream the slower
  one; `MaxElapsed` lets the slower one be due twice.
- `bench`: two candidates, each with up to three samples (a probe and two
  confirmations), any of which may be given up or fail, so that a candidate may be
  probed and not confirmed, or confirmed once. Of the rates 5 and 10 one is below
  80% of the other. That the code confirms the best three and leaves others out is
  left to `ChosenStood`, which is proved for any number of candidates and
  confirmations. The window is two units of time, so that a sample can be given up
  before its end. Two GPUs are the least whose events can be delivered in the
  opposite order; a window of two lets a late one take the bar back by one unit
  and start the window late. The other process uses the cache and saves once the
  benchmark is over, when its own save may still be under way.

### Fairness

`MultiRun` assumes that a goroutine which can go on does, that a backend finishes
its rounds and, when an interval is set, comes to its next progress event.
`Autotune` and `Benchmark`, which always have an interval, assume the same of the
host's goroutine, and `Benchmark` of its first GPU: whoever else reports, GPU 1
does, its event is delivered in the end, and its clock, the first to have been
started, goes on; so the window is over some time. `WsServer` assumes that every goroutine of the worker is
scheduled while the process lives. `Interactive` assumes that the goroutines of
the dashboard are scheduled, that a search does on its own what needs no GPU, and
that a cancelled one ends, which the interval of `generate` (one second)
justifies; it assumes nothing of the user. The Go and OS schedulers, the clock and
the write timeout justify all this. Nothing makes a GPU find a key, a call fail, a
user cancel, or a peer read, write or leave. `CudaBackend`, `Worker` and
`Algorithms` state safety only.

### Mutants

Beside the definitions the modules have mutants, each with the slip a plausible
bug would make (`Released_NoPartial`, `RecordRunError_All`,
`Refold_Dropped`, ...): every property fails in its run when the definition
is replaced by its mutant.

### Disagreements with the documentation

The violation runs show what the code does against what its documents say
(`npm/worker-linux-x64/README.md` unless noted).

- `exit_without_progress`: the worker exits on a match or a stop command (line
  31); with the default interval of 0 (line 84) a backend that finds nothing
  makes no callback and notices neither.
- `autotune_memory`: parameters that run out of memory are unusable and skipped
  (comment at `local/run.go:143`); the sample of their probe survives a
  confirmation that ran out of memory.
- `dashboard_stop`: the key `p` stops the search and keeps the best candidate so
  far (`tui/dashboard.go:761`); when the program ends before the search has
  stopped, the outcome may be received by the program's own command, and the
  final wait of `RunDashboard` waits for nothing.

Others were met without a run of their own:

- The worker exits when it finds a match (line 31); with several GPUs the error of
  another one, delivered behind the match, makes the attempt fail (`local/run.go:445`,
  450), and if it is for lack of memory the tuning goes on with the next parameters
  (189). `NoFurtherAttempt` bounds this: `Lost` names the only cause.
- The result event is the final result (line 181); two GPUs that match together
  emit two (`loader_linux.go:402`), of which the second, which is the one returned,
  may be the worse (`local/run.go:409`).
- `--output` writes the final result (line 85); each attempt writes its own
  partial one, the last not always the best (`local/run.go:471`).
- The subscribed event is sent immediately and broadcasts follow (line 256); the
  client is among those broadcast to before it is sent (`ws_server.go:112`).
- The document gives `pattern:VALUE` with wildcards for Tron (line 161), which
  `ParseTronPattern` refuses.
- A pattern of wildcards only is accepted, matches every address and has target
  0, but a score of 0 is never published by a kernel (`kernels.cuh:416`), so such
  a search does not end.

## Proofs

`CudaBackendProofs` proves every property of `cuda_backend_direct`, and four
more that the run leaves to the proof (types, empty slots, the order of keys, and
the meaning of the return value), for every `Size`, `MaxScore`, `MaxRounds` and both modes, from the assumptions that the
first two are positive and the flags Boolean: `TypeCorrect`, `OffsetsAreRight`,
`SlotsStayUsable`, `BestReported`, `KeysInOrder`, `CountsAreRight`,
`ExitsRelease`, `ReturnsTell`, and `ImplementsKeySearch`, the refinement.

None of the invariants is inductive alone. `IInv` adds, for every point of the
stream: what each lane's key and `state_inv` are before and after the kernel at
its head (`KeyInv`, `HashInv`), that a claimed slot is claimed by one lane that
has been counted in and still holds the hash in registers (`ClaimInv`), that a
counted slot is claimed or filled with a lane and the hash of that lane's key
(`SlotInv`), that `host_results` is the slots once the stream has drained
(`CopyInv`), that slots above the best score were empty when the round began and
the best of the keys looked at is the best of the non-empty slots (`BestInv`),
and which keys have been tried by which lane (`TriedInv`). The refinement maps
`tried` to the scored pairs, `reports` to offset and score, and `over` to the
return; a lane's look at an address is a `Try`, the scan's report a `Report`,
every return a `Finish`, anything else a stutter.

`MultiRunProofs` proves the safety properties of `multi_run` for any finite set
of at least two GPUs, any target and greatest score, with or without output,
faults and progress events: `TypeCorrect`, `OneCallback`, `OwnCancelNoError`,
`FailureReturned`, `BestReturned` and `Quiet`. Its `IInv` adds:

- `GpuInv`, what the place of a goroutine says of its run: it has a return value
  exactly when it has left `runSingle`, its event is none when it is in its
  backend or has left, it cancels `runCtx` only after `stop`, and it returns a
  cancellation only if the user cancelled or the run was stopped;
- `ErrInv`, where the recorded error comes from: a cancellation from the user, a
  failure from a GPU that failed or is announcing it; and `runCtx` is cancelled
  only after `stop`. This is why the cancellations that `stopRuns` brings about
  are not errors: they reach `recordRunError` with `stop` set;
- `LockInv`, that a goroutine in the callback holds `callbackMu`, and that it is
  the only one;
- `BestInv`, that `best` is the best score seen and there is no result as long as
  `best` is below the target, and from then on there is a result or an error;
- `ReturnInv`, that the run returns when every goroutine is done, and the three
  properties of what it returns.

`WsServerProofs` proves the safety properties of `ws_server` for any set of clients
and any bounds: `TypeCorrect`, `NobodyLeft`, `AllServed` and `AllDelivered`. Its
`IInv` adds

- `ConnInv`, what a connection, its goroutine and its membership say of one
  another: a client that still runs but is not among `s.clients` is shut;
- `CloseInv`, that once the server is closed nobody is added and its clients are
  among those to be closed, which is why none is left;
- `BroadcastInv`, that the clients of a broadcast were added before it;
- `DeliveryInv`, that a client has got the events since its addition except the
  one a broadcast under way owes it.

`AutotuneProofs` proves the safety properties of `autotune` for any number
of candidates, scores, rates, progress events and GPUs. Two invariants:

- `KeptInv`, that what was announced is no better than `bestPartial`, or lost to
  another GPU (`Settled`), as long as the attempt searches; that while it stops the
  match in hand is announced too, if no error stands; and that the outcome stands
  for it. A GPU can only follow another one that has ended if there are several
  (`GpusInv`), so that with one GPU nothing is lost. It gives
  `NothingAnnouncedIsLost` and `AttemptsStop`;
- `ChoiceInv`, that parameters whose probe was refused have no sample, because
  probes run in order and what is still to be probed has neither a sample nor a
  verdict. What is confirmed or chosen is taken from the samples, so
  `RefusedNeverChosen`.

`SearchHostProofs` is about the hosts of a run (`RunEvents`). It proves the three invariants and
the action property of `worker` for any command lines whose keys are missing, good or bad,
any number of attempts and any intervals: `KeysAreThoseAsked` from what
`resolveConfig` accepts, `StatusExplained` from the fact that the search returns a
result or an error and never both (`RunInv`), and `StopKeepsCandidate` from
`HeldInv`, that only a failure loses a candidate that was told, and that what
comes to an error is one, whichever events of other GPUs come late. `InTime` rests on
`TimelyInv`: a stream is never as much as its interval behind, and the search
reports at least as often as the shorter interval asks for. Of the dashboard it proves `OutcomeTold`: the outcome is sent once, after the last event, and stays what
it is (`DoneInv`), so the completed model has it (`CompletedInv`).

It also proves the three invariants of `interactive` for any lists of
devices, any texts of `--devices`, any capacity of the channel and any number of
ways back:

- `ArgsAnswered`, that the arguments of the wizard are valid and are the answers to
  the questions visible in the end. Its `WizardInv` says that the questions before
  the one on the screen are answered, those that are visible validly; the answer to
  one question can only hide or show later ones, and an answer of the device probe
  that comes late changes none of the earlier ones;
- `ChosenSearched`, that the search runs on the devices chosen. `SelectionInv` says
  that the picker is left with a choice only if something is ticked, and that the
  ids are what was picked or the list as it was parsed. That the loops of
  `ParseDeviceIDs` and of the selection keep exactly what they should is shown by
  unfolding their folds;
- `OutcomePrinted`, from `OutcomeTold` and `ToldInv`: what is printed is the verdict
  on what `RunDashboard` returned, and a return stays.

`BenchmarkProofs` proves every safety property of `bench`, for any
number of processes, keys, candidates, confirmations and GPUs, any duration and rates, from the
assumptions that the stored parameters are parameters and the rates are numbers:

- `QuietKept`. `QuietInv` adds what a save under way has read (`CacheShape`), that a
  process that does not save has nothing to save (`NothingToSave`), and that without
  an overlap at most one process is between its read and its write (`OneSaves`), so
  that it writes back all that it finds;
- `CacheMeasured`. `MeasuredInv` adds that what every process has read and is about to
  save was measured, which a torn file and a failed measurement have to respect;
- `ChosenStood`. `StoodInv` says that the samples grow in the order of the loops
  (`ProbesInOrder`), that the best of the probes are those confirmed (`BestAreTried`)
  and what a candidate that was given up has (`GivenUp`). The median and the ranking
  are counts; that a median exists and that the ranking has no gap are lemmas;
- `BarGoesOn`, from `PanelInv`, that the panel counts the samples `autotuneBenchmark`
  has counted, so that the share of the bar never shrinks from one sample to the next;
  within a sample the only GPU's clock and its event before the callback are not behind
  what is shown (`InOrder`), and of several one that is must have computed its event
  earlier.

`AlgorithmsProofs` proves `TriedCanRun`, for a GPU of any memory: every batch of a
candidate is of whole half-steps and its buffers are within the memory (`Suits`),
which the thresholds of the lists ensure, and `uniqueCUDAParams` keeps its list free
of doubles, by its fold.

It also proves `ScoresAreOne` and `ParserKnows`, for all sizes that satisfy
`SizesAssumption` and `TronAssumption`, which the sizes of the code do, and for every
checksum function. `PatternInv` says, stage by stage, what has become of the text:
what an accepted pattern is (`PatternOk`), that the configuration says the same
(`ConfigOk`), and that what was refused no address has (`RefusedOk`). It is inductive
because of four facts about the computations:

- `PrefixIsStart`: a text is a prefix of an address exactly when it stands for the
  payload divided by a power of the base (`NumeralIs`, `SameDigits`);
- `ReachableIsMet`: payloads rise with the addresses, in steps smaller than what a
  longest prefix leaves open (`PayloadsRise`), so a prefix whose range overlaps that
  of the addresses has an address in it. The test of the two ends in
  `tronPrefixReachable` is right because of that, and only for prefixes that short;
- `LowerBoundIsLeast`: the binary search ends, within its bounds, at the least
  address, so a level of the ladder is the addresses that carry its prefix
  (`RangeIsPrefix`), and the deepest level is the length of the match (`DepthIsRun`);
- `RemainderIs`: no step of the kernel's reduction leaves the word, so that its
  remainder is that of the payload and has its last characters (`LastDigits`).

The third is `ElementsAreExact`, for any even base of a limb and any `FoldC` below it
for which the modulus is an odd prime, as `FieldAssumption` says. Equality modulo the
prime is `Same`. Sums, differences and halves differ from their results by a multiple
of the modulus, and eight subtractions are more than `Normalized` needs; the rest is

- `CombaIs`: no column sum leaves the three limbs of `felt_acc3` (`Acc3Is`), so that the
  eight limbs, each left by its column (`ColumnLeaves`), are those of the product;
- `Reduce512Is`: a limb folded from limb i on changes the number by a multiple of the
  modulus and carries less than a limb out of the fourth (`FoldLimbIs`); the second fold
  carries at most once more, since what is left then is small (`RefoldIs`);
- `ModInvIs`: the loop of `felt_mod_inv` keeps u = a x and v = a y modulo the prime and
  no common divisor of u and v but 1 (`InvertKeeps`), and u + v falls in every step, so
  that it ends with the inverse (`InvertFinds`). Only this needs the modulus to be prime.

The fourth is `OffsetsOpen`, for any curve, keys, seeds and sizes that satisfy
`WalkAssumption`, `OrderAssumption` and `GroupAssumption`. The second says that the
field is of odd prime order, and that the order of the group is odd, above the number
of lanes and below what the words hold, but near to it: all true of secp256k1, four
64-bit words and any number of lanes the backend accepts. The third is what is not
proved here: below the order the multiples of the generator are finite points of the
curve, and the group law (`Sum`) adds to them the multiples the kernels add, those of
one digit, of the private keys and of the number of lanes. That is the associativity
of the group, a fact about curves and not about this code, which uses it; TLC
evaluates it on the curve of the instance. What follows from it is

- `WithCarriesIs`: the words with their carries are addition modulo what they hold,
  for `format_offset` as for the kernel;
- `PrecompIs`, `TimesGIs`, `TimesGJacIs`: the table holds the multiples of each digit,
  and both scalar multiplications give the multiple of their scalar. That the partial
  sums never meet the cases the formulas leave out (`h` = 0, equal points) is where the
  order has to be odd and near to what the words hold (`TermsAreSmall`, `BelowOrder`);
- `JacAddIs`: the mixed addition represents the affine sum (`Represents`), so that a
  finalised lane is the affine point and the slope to the step point (`FinalizedIs`);
- `GroupInverseIs`: the one inversion of a group gives each lane its own inverse,
  because a product splits at any lane (`ProductSplits`, `SharedInverse`), unless one
  of the group is 0;
- `SteppedIs`: the slope that follows from the last one by the factor is the slope of
  the new point (`SlopeFollows`), and the point hashed is the sum.

`WalkInv` is the inductive invariant: a lane that no degenerate lane has spoilt
(`Regular`) holds the abscissa of its scalar's multiple, the slope and the difference
to the step point, and the point it hashed (`LaneHolds`). The property speaks of the
hash alone, from which the next round cannot be derived. `MultiplesDiffer` says that
no two scalars below the order give one point, and only opposite ones one abscissa, so
that the degenerate lanes are exactly those of `Exceptional`.

`DataInduction` holds what these use about folds. The theorems of the library that
do induction take a predicate as a parameter, which the provers cannot instantiate;
but that the strict subset ordering of finite sets is well founded
(`FS_StrictSubsetOrderingWellFounded`) is a plain fact, and gives least numbers, then
induction with a set for the predicate, then the function by which a fold is defined
(`FoldExists`). A fold can then be unfolded one position at a time (`Upto`).

The lemmas about the session are in `MultiRunProofs` and `AutotuneProofs`.

Only model-checked: the liveness properties `RunReturns`, `CancelReturns`,
`BroadcastEnds`, `StopHeeded`, `StopReturns`, `SearchEnds` and `BenchEnds`
(liveness is out of the prover's reach). Every invariant and every action property
of a passing run is a theorem. What the proofs rest on besides the prover are the
assumptions on the constants, which the modules name and TLC evaluates on the
instances; all but `GroupAssumption` say what sizes, primes and orders may be.

## Not modelled

- Keccak and SHA-256 (`keccak*.cuh`, `sha256.cuh`): fixed permutations without
  state; a smaller one would be another function. Where they matter they are
  arbitrary functions.
- Library loading (`embed_*.go`, `load` in `loader_linux.go`): paths, `dlopen` and
  a `sync.Once`. Two processes that extract the library at once may see each
  other's half-written file; nothing in the repository says otherwise.
- The aggregator's merged ready event and its sums of attempts and hashrates,
  which are only displayed. The Windows loader repeats the Linux one.
- Key generation and public keys (`crypto/splitkey.go`): library arithmetic.
- A `--work-size` that does not divide the number of lanes: the backend accepts
  it and starts lanes that do not exist; what they overwrite is undefined.
- The other commands, the difficulty estimate, the theme, number formatting,
  paths and build scripts: flags, floating point, strings and layout.
