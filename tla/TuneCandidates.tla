---------------------------- MODULE TuneCandidates ----------------------------
(***************************************************************************)
(* The parameters that autotuning tries on a GPU, by its memory            *)
(* (local/tune.go, in MiB; 0 when it is not known): the candidates of a    *)
(* search (onlineTuningCandidates) and of a benchmark (tuningCandidates).  *)
(***************************************************************************)
EXTENDS Integers, SequencesExt

Param(batch, work) == [batch |-> batch, work |-> work]

Both(batch) == <<Param(batch, 128), Param(batch, 256)>>

\* isLowMemoryCUDADevice: up to 8 GiB.
IsLowMemory(memory) == memory \in 1 .. 8192

\* defaultBatchMultipleForMemory: 55% of the memory, by the 24480 bytes of a
\* batch in three buffers, in steps of 16384: one step is 7650/11 MiB.
DefaultBatch(memory) ==
  IF memory = 0 THEN 16384
  ELSE Max({32768, Min({16384 * ((11 * memory) \div 7650), 245760})})

\* Mutant: gigabytes of 1000.
MaxQuickTuneBatch_Decimal(memory) ==
  IF memory >= 30 * 1000 THEN 983040 ELSE DefaultBatch(memory)

\* maxQuickTuneBatchForMemory: the largest there is from 30 GiB on.
MaxQuickTuneBatch(memory) ==
  LET budget == DefaultBatch(memory) IN
  IF memory >= 30 * 1024 THEN 983040
  ELSE IF IsLowMemory(memory) /\ budget > 65536 THEN budget - 8192
  ELSE budget

\* uniqueCUDAParams: the first one of each.
Unique(params) ==
  FoldLeft(LAMBDA out, p : IF p \in ToSet(out) THEN out ELSE Append(out, p), <<>>, params)

\* Both parameters of a batch, unless it is too large.
UpTo(max, batch) == IF batch > max THEN <<>> ELSE Both(batch)

\* highMemoryTuningCandidates
HighMemory(max) == UpTo(max, 491520) \o UpTo(max, 737280) \o UpTo(max, 983040)

\* onlineTuningCandidates
OnlineCandidates(memory) ==
  LET budget == DefaultBatch(memory)
      max == MaxQuickTuneBatch(memory)
      lowest == <<Param(16384, 128), Param(16384, 256), Param(65536, 256)>>
      budgeted == IF IsLowMemory(memory) /\ max > 65536 THEN <<Param(max, 256)>>
                  ELSE IF budget <= max THEN Both(budget) ELSE <<>>
      middle == IF max >= 131072 THEN <<Param(131072, 256)>> ELSE <<>>
      high == IF max >= 245760 /\ budget >= 245760 THEN Both(245760) ELSE <<>>
  IN Unique(lowest \o budgeted \o middle \o high \o HighMemory(max))

\* tuningCandidates
BenchCandidates(memory) ==
  LET budget == DefaultBatch(memory)
      max == MaxQuickTuneBatch(memory)
      low == IsLowMemory(memory)
      smaller == UpTo(max, 16384) \o UpTo(max, 32768) \o UpTo(max, 65536)
      larger == IF low THEN <<>>
                ELSE UpTo(max, 131072) \o UpTo(max, budget)
                       \o (IF budget >= 245760 THEN UpTo(max, 245760) ELSE <<>>)
      last == IF low /\ max > 65536 THEN <<Param(max, 256)>> ELSE <<>>
  IN Unique(smaller \o larger \o HighMemory(max) \o last)

-----------------------------------------------------------------------------
(* Properties.                                                             *)

BatchLanes == 255    \* PV_BATCH_LANES
InvertGroup == 102   \* PV_INVERT_GROUP_SIZE

\* What alloc_memory asks for: four buffers of 32 bytes a lane, in MiB, with
\* one for the table and the results.
Allocated(p) == (4 * BatchLanes * p.batch) \div 32768 + 1

\* What the kernels need of parameters: whole inversion groups, without which
\* the backend refuses them, and whole blocks, without which the last block
\* has lanes beyond the buffers; no more threads than they are compiled for.
Launchable(p) ==
  /\ (BatchLanes * p.batch) % InvertGroup = 0 /\ (BatchLanes * p.batch) % p.work = 0
  /\ p.work \in 1 .. 256

\* Every candidate can be launched, none is listed twice, and on a GPU of
\* 2 GiB and more all of them fit its memory; more memory never means a
\* smaller largest candidate.
CandidatesFit(memory, more) ==
  \A candidates \in {OnlineCandidates(memory), BenchCandidates(memory)} :
    /\ candidates # <<>> /\ IsInjective(candidates)
    /\ \A i \in DOMAIN candidates :
         /\ Launchable(candidates[i])
         /\ memory >= 2048 => Allocated(candidates[i]) <= memory
    /\ memory # 0 => MaxQuickTuneBatch(memory) <= MaxQuickTuneBatch(memory + more)
=============================================================================
