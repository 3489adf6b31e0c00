-------------------------- MODULE AlgorithmsProofs --------------------------
(***************************************************************************)
(* Proofs about the computations of Algorithms.                            *)
(***************************************************************************)
EXTENDS Algorithms, DataInduction, SequenceTheorems

-----------------------------------------------------------------------------
(* The batches that a memory allows.                                       *)

LEMMA TwoMax == ASSUME NEW a \in Int, NEW b \in Int PROVE Max({a, b}) = IF a >= b THEN a ELSE b
<1>1. \E x \in {a, b} : \A y \in {a, b} : x >= y
  OBVIOUS
<1>2. PICK x \in {a, b} : x = Max({a, b}) /\ \A y \in {a, b} : x >= y
  BY <1>1 DEF Max
<1> QED
  BY <1>2

LEMMA TwoMin == ASSUME NEW a \in Int, NEW b \in Int PROVE Min({a, b}) = IF a <= b THEN a ELSE b
<1>1. \E x \in {a, b} : \A y \in {a, b} : x <= y
  OBVIOUS
<1>2. PICK x \in {a, b} : x = Min({a, b}) /\ \A y \in {a, b} : x <= y
  BY <1>1 DEF Min
<1> QED
  BY <1>2

\* How many steps of 16384 the share of a memory has room for.
Steps(memory) == (11 * memory) \div 7650

LEMMA StepsBounds ==
  ASSUME NEW memory \in Nat
  PROVE  /\ Steps(memory) \in Nat
         /\ 7650 * Steps(memory) <= 11 * memory /\ 11 * memory < 7650 * (Steps(memory) + 1)
  BY DEF Steps

\* A default batch is 2 to 15 steps, and the steps there is room for between.
LEMMA DefaultIs ==
  ASSUME NEW memory \in Nat \ {0}
  PROVE  DefaultBatch(memory) = IF Steps(memory) <= 2 THEN 32768
                                ELSE IF Steps(memory) >= 15 THEN 245760 ELSE 16384 * Steps(memory)
<1>1. Steps(memory) \in Nat
  BY StepsBounds
<1>2. Min({16384 * Steps(memory), 245760}) = IF Steps(memory) <= 15 THEN 16384 * Steps(memory) ELSE 245760
  BY <1>1, TwoMin
<1>3. Min({16384 * Steps(memory), 245760}) \in Int
  BY <1>1, <1>2
<1>4. DefaultBatch(memory) = Max({32768, Min({16384 * Steps(memory), 245760})})
  BY DEF DefaultBatch, Steps
<1> DEFINE least == Min({16384 * Steps(memory), 245760})
<1> HIDE DEF least
<1>5. Max({32768, least}) = IF 32768 >= least THEN 32768 ELSE least
  BY <1>3, TwoMax DEF least
<1> QED
  BY <1>1, <1>2, <1>4, <1>5 DEF least

LEMMA LargestIsPositive == ASSUME NEW memory \in Nat PROVE MaxQuickTuneBatch(memory) >= 16384
<1>1. CASE memory = 0
  BY <1>1 DEF DefaultBatch, MaxQuickTuneBatch, IsLowMemory
<1>2. CASE memory # 0
  <2>1. Steps(memory) \in Nat
    BY StepsBounds
  <2>2. DefaultBatch(memory) >= 32768 /\ DefaultBatch(memory) \in Nat
    BY <1>2, <2>1, DefaultIs
  <2> QED
    BY <1>2, <2>2 DEF MaxQuickTuneBatch
<1> QED
  BY <1>1, <1>2

\* More memory never means a smaller largest candidate.
LEMMA LargestGrows ==
  ASSUME NEW memory \in Nat \ {0}, NEW more \in Nat
  PROVE  MaxQuickTuneBatch(memory) <= MaxQuickTuneBatch(memory + more)
<1> DEFINE k == Steps(memory)
           m == Steps(memory + more)
<1>1. memory + more \in Nat \ {0} /\ k \in Nat /\ m \in Nat /\ k <= m
  BY StepsBounds
<1>2. DefaultBatch(memory) = IF k <= 2 THEN 32768 ELSE IF k >= 15 THEN 245760 ELSE 16384 * k
  BY DefaultIs
<1>3. DefaultBatch(memory + more) = IF m <= 2 THEN 32768 ELSE IF m >= 15 THEN 245760 ELSE 16384 * m
  BY <1>1, DefaultIs
<1> HIDE DEF k, m
<1> QED
  BY <1>1, <1>2, <1>3 DEF MaxQuickTuneBatch, IsLowMemory

-----------------------------------------------------------------------------
(* What fits a memory.                                                     *)

Fitting(memory) ==
  {p \in [batch : Nat, work : {128, 256}] :
     Launchable(p) /\ (memory >= 2048 => Allocated(p) <= memory)}

\* A batch of whole half-steps whose buffers are no more than the memory.
Suits(batch, memory) ==
  /\ \E j \in 1 .. 120 : batch = 8192 * j
  /\ memory >= 2048 => 1020 * batch < 32768 * memory

LEMMA SuitingFits ==
  ASSUME NEW memory \in Nat, NEW batch \in Nat, Suits(batch, memory), NEW work \in {128, 256}
  PROVE  Param(batch, work) \in Fitting(memory)
<1>1. PICK j \in 1 .. 120 : batch = 8192 * j
  BY DEF Suits
<1>2. (255 * batch) % 102 = 0 /\ (255 * batch) % 128 = 0 /\ (255 * batch) % 256 = 0
  BY <1>1
<1>3. memory >= 2048 => (1020 * batch) \div 32768 + 1 <= memory
  BY <1>1 DEF Suits
<1>4. work \in 1 .. 256 /\ Param(batch, work) \in [batch : Nat, work : {128, 256}]
  BY DEF Param
<1>5. Launchable(Param(batch, work))
  BY <1>2, <1>4 DEF Launchable, Param, BatchLanes, InvertGroup
<1>6. 4 * BatchLanes * batch = 1020 * batch
  BY DEF BatchLanes
<1>7. Allocated(Param(batch, work)) = (1020 * batch) \div 32768 + 1
  BY <1>6 DEF Allocated, Param
<1> QED
  BY <1>3, <1>4, <1>5, <1>7 DEF Fitting

\* The batches the candidates are made of.
LEMMA BatchesSuit ==
  ASSUME NEW memory \in Nat
  PROVE  LET max == MaxQuickTuneBatch(memory) IN
         /\ max \in Nat /\ Suits(max, memory)
         /\ DefaultBatch(memory) \in Nat
         /\ DefaultBatch(memory) <= max => Suits(DefaultBatch(memory), memory)
         /\ Suits(16384, memory) /\ Suits(32768, memory) /\ Suits(65536, memory)
         /\ \A batch \in {131072, 245760, 491520, 737280, 983040} : batch <= max => Suits(batch, memory)
<1> DEFINE k == Steps(memory)
<1>1. CASE memory = 0
  <2>1. DefaultBatch(memory) = 16384 /\ MaxQuickTuneBatch(memory) = 16384
    BY <1>1 DEF DefaultBatch, MaxQuickTuneBatch, IsLowMemory
  <2> QED
    BY <1>1, <2>1 DEF Suits
<1>2. CASE memory # 0
  <2>1. k \in Nat /\ 7650 * k <= 11 * memory /\ 11 * memory < 7650 * (k + 1)
    BY StepsBounds
  <2>2. DefaultBatch(memory) = IF k <= 2 THEN 32768 ELSE IF k >= 15 THEN 245760 ELSE 16384 * k
    BY <1>2, DefaultIs
  <2>3. MaxQuickTuneBatch(memory) =
          IF memory >= 30720 THEN 983040
          ELSE IF memory <= 8192 /\ DefaultBatch(memory) > 65536 THEN DefaultBatch(memory) - 8192
          ELSE DefaultBatch(memory)
    BY <1>2 DEF MaxQuickTuneBatch, IsLowMemory
  <2> HIDE DEF k
  <2>4. Suits(16384, memory) /\ Suits(32768, memory) /\ Suits(65536, memory)
    BY DEF Suits
  <2>5. DefaultBatch(memory) \in Nat /\ Suits(DefaultBatch(memory), memory)
    BY <2>1, <2>2 DEF Suits
  <2>6. MaxQuickTuneBatch(memory) \in Nat /\ Suits(MaxQuickTuneBatch(memory), memory)
    BY <2>1, <2>2, <2>3 DEF Suits
  <2>7. ASSUME NEW batch \in {131072, 245760, 491520, 737280, 983040}, batch <= MaxQuickTuneBatch(memory)
        PROVE  Suits(batch, memory)
    BY <2>1, <2>2, <2>3, <2>7 DEF Suits
  <2> QED
    BY <2>4, <2>5, <2>6, <2>7
<1> QED
  BY <1>1, <1>2
-----------------------------------------------------------------------------
(* The lists of candidates.                                                *)

LEMMA BothFit ==
  ASSUME NEW memory \in Nat, NEW batch \in Nat, Suits(batch, memory)
  PROVE  Both(batch) \in Seq(Fitting(memory))
<1>1. Param(batch, 128) \in Fitting(memory) /\ Param(batch, 256) \in Fitting(memory)
  BY SuitingFits
<1> QED
  BY <1>1 DEF Both

LEMMA UpToFits ==
  ASSUME NEW memory \in Nat, NEW batch \in Nat, NEW max \in Nat, batch <= max => Suits(batch, memory)
  PROVE  UpTo(max, batch) \in Seq(Fitting(memory))
<1>1. batch > max => UpTo(max, batch) = <<>>
  BY DEF UpTo
<1>2. batch <= max => UpTo(max, batch) = Both(batch)
  BY DEF UpTo
<1>3. CASE batch > max
  BY <1>1, <1>3
<1>4. CASE batch <= max
  BY <1>2, <1>4, BothFit
<1> QED
  BY <1>3, <1>4

LEMMA HighFits ==
  ASSUME NEW memory \in Nat
  PROVE  HighMemory(MaxQuickTuneBatch(memory)) \in Seq(Fitting(memory))
<1> DEFINE max == MaxQuickTuneBatch(memory)
<1>1. max \in Nat
  BY BatchesSuit
<1>2. ASSUME NEW batch \in {491520, 737280, 983040}
      PROVE  UpTo(max, batch) \in Seq(Fitting(memory))
  <2>1. batch <= max => Suits(batch, memory)
    BY BatchesSuit
  <2> QED
    BY <1>1, <2>1, UpToFits
<1> HIDE DEF max
<1> QED
  BY <1>2 DEF HighMemory, max

\* Two lists, one behind the other.
LEMMA BehindNonEmpty ==
  ASSUME NEW T, NEW s \in Seq(T), NEW t \in Seq(T)
  PROVE  s \o t \in Seq(T) /\ (s # <<>> \/ t # <<>> => s \o t # <<>>)
<1>1. s \o t \in Seq(T) /\ Len(s \o t) = Len(s) + Len(t) /\ Len(s) \in Nat /\ Len(t) \in Nat
  OBVIOUS
<1>2. (s # <<>> => Len(s) > 0) /\ (t # <<>> => Len(t) > 0)
  BY EmptySeq
<1>3. s # <<>> \/ t # <<>> => Len(s \o t) # 0
  BY <1>1, <1>2
<1> QED
  BY <1>1, <1>3

\* uniqueCUDAParams keeps some of what it gets, nothing twice.
LEMMA UniqueKeeps ==
  ASSUME NEW T, NEW params \in Seq(T), params # <<>>
  PROVE  Unique(params) \in Seq(T) /\ Unique(params) # <<>> /\ IsInjective(Unique(params))
<1> DEFINE n == Len(params)
           F == [p \in (1 .. n) \X Seq(T) |->
                   IF params[p[1]] \in ToSet(p[2]) THEN p[2] ELSE Append(p[2], params[p[1]])]
           Fold(g) == [s \in SUBSET DOMAIN params |->
                         IF s = {} THEN <<>>
                         ELSE IF params[Max(s)] \in ToSet(g[s \ {Max(s)}]) THEN g[s \ {Max(s)}]
                              ELSE Append(g[s \ {Max(s)}], params[Max(s)])]
<1>1. n \in Nat /\ n # 0 /\ DOMAIN params = 1 .. n /\ \A i \in 1 .. n : params[i] \in T
  BY EmptySeq
<1>2. \E g : g = Fold(g)
  <2>1. F \in [(1 .. n) \X Seq(T) -> Seq(T)]
    BY <1>1
  <2>2. PICK g \in [SUBSET (1 .. n) -> Seq(T)] : IsFold(g, n, <<>>, F)
    <3> DEFINE V == Seq(T)
               base == <<>>
    <3>1. n \in Nat /\ base \in V /\ F \in [(1 .. n) \X V -> V]
      BY <1>1, <2>1
    <3>2. \E g \in [SUBSET (1 .. n) -> V] : IsFold(g, n, base, F)
      <4> HIDE DEF F, n, V, base
      <4> QED
        BY <3>1, FoldExists
    <3> QED
      BY <3>2
  <2>3. ASSUME NEW s \in SUBSET (1 .. n), s # {}
        PROVE  <<Max(s), g[s \ {Max(s)}]>> \in (1 .. n) \X Seq(T)
    <3>1. Max(s) \in 1 .. n
      BY <1>1, <2>3, MaxIn
    <3> QED
      BY <3>1
  <2>4. g = Fold(g)
    BY <1>1, <2>2, <2>3 DEF IsFold
  <2> QED
    BY <2>4
<1>3. PICK g : g = Fold(g) /\ Unique(params) = g[1 .. n]
  <2>1. Unique(params) = (CHOOSE g : g = Fold(g))[DOMAIN params]
    BY DEF Unique, FoldLeft, MapThenFoldSet
  <2> HIDE DEF Fold
  <2> QED
    BY <1>1, <1>2, <2>1
<1> DEFINE Good == {k \in 0 .. n : g[1 .. k] \in Seq(T) /\ IsInjective(g[1 .. k])
                                  /\ (k > 0 => g[1 .. k] # <<>>)}
<1>4. 0 \in Good
  <2>1. g[{}] = <<>> /\ 1 .. 0 = {}
    BY <1>3
  <2>2. IsInjective(<<>>)
    BY DEF IsInjective
  <2> SUFFICES g[1 .. 0] \in Seq(T) /\ IsInjective(g[1 .. 0])
    BY <1>1
  <2>3. g[1 .. 0] = <<>>
    BY <2>1
  <2> QED
    BY <2>2, <2>3
<1>5. ASSUME NEW k \in 1 .. n, k - 1 \in Good
      PROVE  k \in Good
  <2> DEFINE before == g[1 .. (k - 1)]
  <2>1. g[1 .. k] = IF params[k] \in ToSet(before) THEN before ELSE Append(before, params[k])
    <3>1. 1 .. k \in SUBSET DOMAIN params /\ k \in Nat \ {0}
      BY <1>1
    <3>2. Max(1 .. k) = k /\ (1 .. k) \ {k} = 1 .. (k - 1) /\ 1 .. k # {}
      BY <3>1, MaxOfPrefix
    <3> QED
      BY <1>3, <3>1, <3>2
  <2>2. before \in Seq(T) /\ IsInjective(before)
    BY <1>5
  <2> SUFFICES g[1 .. k] \in Seq(T) /\ IsInjective(g[1 .. k]) /\ g[1 .. k] # <<>>
    BY <1>1
  <2> HIDE DEF before
  <2>3. CASE params[k] \in ToSet(before)
    <3>1. before # <<>>
      BY <2>3 DEF ToSet
    <3> QED
      BY <1>1, <2>1, <2>2, <2>3, <3>1
  <2>4. CASE params[k] \notin ToSet(before)
    <3>1. /\ g[1 .. k] = Append(before, params[k]) /\ g[1 .. k] \in Seq(T) /\ g[1 .. k] # <<>>
          /\ Len(before) \in Nat /\ DOMAIN g[1 .. k] = 1 .. Len(before) + 1
          /\ \A i \in 1 .. Len(before) : g[1 .. k][i] = before[i]
          /\ g[1 .. k][Len(before) + 1] = params[k]
      BY <1>1, <2>1, <2>2, <2>4
    <3>2. \A i \in 1 .. Len(before) : before[i] # params[k]
      BY <2>2, <2>4 DEF ToSet
    <3>3. \A i, j \in 1 .. Len(before) : before[i] = before[j] => i = j
      BY <2>2 DEF IsInjective
    <3>4. IsInjective(g[1 .. k])
      BY <3>1, <3>2, <3>3 DEF IsInjective
    <3> QED
      BY <1>1, <3>1, <3>4
  <2> QED
    BY <2>3, <2>4
<1>6. n \in Good
  <2> HIDE DEF Good
  <2> QED
    BY <1>1, <1>4, <1>5, Upto
<1>7. g[1 .. n] \in Seq(T) /\ IsInjective(g[1 .. n]) /\ (n > 0 => g[1 .. n] # <<>>)
  BY <1>6
<1>8. n > 0
  BY <1>1
<1> QED
  BY <1>3, <1>7, <1>8

\* A list that fits, without doubles.
LEMMA UniqueFits ==
  ASSUME NEW memory \in Nat, NEW params \in Seq(Fitting(memory)), params # <<>>
  PROVE  LET candidates == Unique(params) IN
         /\ candidates # <<>> /\ IsInjective(candidates)
         /\ \A i \in DOMAIN candidates :
              /\ Launchable(candidates[i])
              /\ memory >= 2048 => Allocated(candidates[i]) <= memory
<1>1. Unique(params) \in Seq(Fitting(memory)) /\ Unique(params) # <<>> /\ IsInjective(Unique(params))
  BY UniqueKeeps
<1>2. \A i \in DOMAIN Unique(params) : Unique(params)[i] \in Fitting(memory)
  BY <1>1
<1> QED
  BY <1>1, <1>2 DEF Fitting

LEMMA OnlineFit ==
  ASSUME NEW memory \in Nat
  PROVE  \E params \in Seq(Fitting(memory)) : params # <<>> /\ OnlineCandidates(memory) = Unique(params)
<1> DEFINE F == Fitting(memory)
           budget == DefaultBatch(memory)
           max == MaxQuickTuneBatch(memory)
           lowest == <<Param(16384, 128), Param(16384, 256), Param(65536, 256)>>
           budgeted == IF IsLowMemory(memory) /\ max > 65536 THEN <<Param(max, 256)>>
                       ELSE IF budget <= max THEN Both(budget) ELSE <<>>
           middle == IF max >= 131072 THEN <<Param(131072, 256)>> ELSE <<>>
           high == IF max >= 245760 /\ budget >= 245760 THEN Both(245760) ELSE <<>>
<1>1. /\ max \in Nat /\ Suits(max, memory) /\ budget \in Nat /\ (budget <= max => Suits(budget, memory))
      /\ Suits(16384, memory) /\ Suits(65536, memory)
      /\ (131072 <= max => Suits(131072, memory)) /\ (245760 <= max => Suits(245760, memory))
  BY BatchesSuit
<1>2. OnlineCandidates(memory) = Unique(lowest \o budgeted \o middle \o high \o HighMemory(max))
  BY DEF OnlineCandidates
<1>3. lowest \in Seq(F) /\ lowest # <<>>
  <2>1. Param(16384, 128) \in F /\ Param(16384, 256) \in F /\ Param(65536, 256) \in F
    BY <1>1, SuitingFits
  <2> HIDE DEF F
  <2> QED
    BY <2>1
<1>4. <<>> \in Seq(F)
  OBVIOUS
<1>5. budgeted \in Seq(F)
  <2>1. Param(max, 256) \in F /\ (budget <= max => Both(budget) \in Seq(F))
    BY <1>1, SuitingFits, BothFit
  <2> HIDE DEF F, max, budget
  <2> QED
    BY <1>4, <2>1
<1>6. middle \in Seq(F)
  <2>1. max >= 131072 => Param(131072, 256) \in F
    BY <1>1, SuitingFits
  <2> HIDE DEF F, max
  <2> QED
    BY <1>4, <2>1
<1>7. high \in Seq(F)
  <2>1. max >= 245760 => Both(245760) \in Seq(F)
    BY <1>1, BothFit
  <2> HIDE DEF F, max, budget
  <2> QED
    BY <1>4, <2>1
<1>8. HighMemory(max) \in Seq(F)
  BY HighFits
<1>9. /\ lowest \o budgeted \o middle \o high \o HighMemory(max) \in Seq(F)
      /\ lowest \o budgeted \o middle \o high \o HighMemory(max) # <<>>
  <2> HIDE DEF F, lowest, budgeted, middle, high, max
  <2>1. lowest \o budgeted \in Seq(F) /\ lowest \o budgeted # <<>>
    BY <1>3, <1>5, BehindNonEmpty
  <2>2. lowest \o budgeted \o middle \in Seq(F) /\ lowest \o budgeted \o middle # <<>>
    BY <2>1, <1>6, BehindNonEmpty
  <2>3. lowest \o budgeted \o middle \o high \in Seq(F) /\ lowest \o budgeted \o middle \o high # <<>>
    BY <2>2, <1>7, BehindNonEmpty
  <2> QED
    BY <2>3, <1>8, BehindNonEmpty
<1> HIDE DEF lowest, budgeted, middle, high, max
<1> QED
  BY <1>2, <1>9

LEMMA BenchFit ==
  ASSUME NEW memory \in Nat
  PROVE  \E params \in Seq(Fitting(memory)) : params # <<>> /\ BenchCandidates(memory) = Unique(params)
<1> DEFINE F == Fitting(memory)
           budget == DefaultBatch(memory)
           max == MaxQuickTuneBatch(memory)
           low == IsLowMemory(memory)
           smaller == UpTo(max, 16384) \o UpTo(max, 32768) \o UpTo(max, 65536)
           top == IF budget >= 245760 THEN UpTo(max, 245760) ELSE <<>>
           larger == IF low THEN <<>> ELSE UpTo(max, 131072) \o UpTo(max, budget) \o top
           last == IF low /\ max > 65536 THEN <<Param(max, 256)>> ELSE <<>>
<1>1. /\ max \in Nat /\ Suits(max, memory) /\ budget \in Nat /\ (budget <= max => Suits(budget, memory))
      /\ Suits(16384, memory) /\ Suits(32768, memory) /\ Suits(65536, memory)
      /\ (131072 <= max => Suits(131072, memory)) /\ (245760 <= max => Suits(245760, memory))
  BY BatchesSuit
<1>2. BenchCandidates(memory) = Unique(smaller \o larger \o HighMemory(max) \o last)
  BY DEF BenchCandidates
<1>3. ASSUME NEW batch \in Nat, batch <= max => Suits(batch, memory)
      PROVE  UpTo(max, batch) \in Seq(F)
  BY <1>1, <1>3, UpToFits
<1>4. <<>> \in Seq(F)
  OBVIOUS
<1>5. smaller \in Seq(F) /\ smaller # <<>>
  <2>1. UpTo(max, 16384) \in Seq(F) /\ UpTo(max, 32768) \in Seq(F) /\ UpTo(max, 65536) \in Seq(F)
    BY <1>1, <1>3
  <2>2. UpTo(max, 16384) # <<>>
    <3>1. max >= 16384
      BY LargestIsPositive
    <3>2. Both(16384) # <<>>
      BY DEF Both
    <3> QED
      BY <1>1, <3>1, <3>2 DEF UpTo
  <2> HIDE DEF F, max
  <2>3. UpTo(max, 16384) \o UpTo(max, 32768) \in Seq(F) /\ UpTo(max, 16384) \o UpTo(max, 32768) # <<>>
    BY <2>1, <2>2, BehindNonEmpty
  <2> QED
    BY <2>1, <2>3, BehindNonEmpty
<1>6. larger \in Seq(F)
  <2>1. UpTo(max, 131072) \in Seq(F) /\ UpTo(max, budget) \in Seq(F) /\ UpTo(max, 245760) \in Seq(F)
    BY <1>1, <1>3
  <2> HIDE DEF F, max, budget, low
  <2> QED
    BY <1>4, <2>1
<1>7. last \in Seq(F)
  <2>1. Param(max, 256) \in F
    BY <1>1, SuitingFits
  <2> HIDE DEF F, max, low
  <2> QED
    BY <1>4, <2>1
<1>8. HighMemory(max) \in Seq(F)
  BY HighFits
<1>9. /\ smaller \o larger \o HighMemory(max) \o last \in Seq(F)
      /\ smaller \o larger \o HighMemory(max) \o last # <<>>
  <2> HIDE DEF F, smaller, larger, last, max
  <2>1. smaller \o larger \in Seq(F) /\ smaller \o larger # <<>>
    BY <1>5, <1>6, BehindNonEmpty
  <2>2. smaller \o larger \o HighMemory(max) \in Seq(F) /\ smaller \o larger \o HighMemory(max) # <<>>
    BY <2>1, <1>8, BehindNonEmpty
  <2> QED
    BY <2>2, <1>7, BehindNonEmpty
<1> HIDE DEF smaller, larger, last, max
<1> QED
  BY <1>2, <1>9

-----------------------------------------------------------------------------
(* Any memory.                                                             *)

\* Whatever the memory of a GPU, both lists are of parameters that can be
\* launched and that fit it, without doubles, and more memory never means a
\* smaller largest candidate.
LEMMA AnyMemoryFits ==
  ASSUME NEW memory \in Nat, NEW more \in Nat
  PROVE  CandidatesFit(memory, more)
<1>1. memory # 0 => MaxQuickTuneBatch(memory) <= MaxQuickTuneBatch(memory + more)
  BY LargestGrows
<1>2. ASSUME NEW candidates \in {OnlineCandidates(memory), BenchCandidates(memory)}
      PROVE  /\ candidates # <<>> /\ IsInjective(candidates)
             /\ \A i \in DOMAIN candidates :
                  /\ Launchable(candidates[i])
                  /\ memory >= 2048 => Allocated(candidates[i]) <= memory
  <2>1. PICK params \in Seq(Fitting(memory)) : params # <<>> /\ candidates = Unique(params)
    BY <1>2, OnlineFit, BenchFit
  <2> QED
    BY <2>1, UniqueFits
<1> QED
  BY <1>1, <1>2 DEF CandidatesFit

\* Only parameters that can run on a GPU are tried on it, whatever its memory.
THEOREM TriedCanRun == AlgorithmsSpec => []CandidatesCanRun
<1> DEFINE Given == given.kind = "memory" => given.memory \in Nat /\ given.more \in Nat
<1>1. AlgorithmsInit => Given
  BY DEF AlgorithmsInit, NothingGiven
<1>2. Given /\ [AlgorithmsNext]_<<vars, walkVars, given>> => Given'
  <2> SUFFICES ASSUME Given, [AlgorithmsNext]_<<vars, walkVars, given>> PROVE Given'
    OBVIOUS
  <2>1. ASSUME NEW a, NEW b, Computes(a, b)
        PROVE  Given'
    BY <2>1 DEF Computes
  <2>2. ASSUME NEW memory \in Memories, NEW more \in Mores, Tunes(memory, more)
        PROVE  Given'
    BY <2>2, MemoriesAssumption DEF Tunes
  <2>3. given' = given => Given'
    OBVIOUS
  <2> QED
    BY <2>1, <2>2, <2>3 DEF AlgorithmsNext, Walks
<1>3. Given => CandidatesCanRun
  BY AnyMemoryFits DEF CandidatesCanRun
<1> QED
  BY <1>1, <1>2, <1>3, PTL DEF AlgorithmsSpec

-----------------------------------------------------------------------------
(* Division.                                                               *)

LEMMA DivMod ==
  ASSUME NEW a \in Nat, NEW b \in Nat \ {0}
  PROVE  /\ a \div b \in Nat /\ a % b \in Nat /\ a % b < b
         /\ a = b * (a \div b) + (a % b)
<1>1. a \div b \in Nat /\ b * (a \div b) <= a /\ a < b * (a \div b) + b
  OBVIOUS
<1>2. a % b = a - b * (a \div b)
  OBVIOUS
<1>3. a % b \in 0 .. b - 1
  OBVIOUS
<1> DEFINE q == a \div b
           r == a % b
<1> HIDE DEF q, r
<1>4. q \in Nat /\ r \in 0 .. b - 1 /\ r = a - b * q
  BY <1>1, <1>2, <1>3 DEF q, r
<1>5. b * q \in Nat
  BY <1>4
<1>6. r \in Nat /\ r < b /\ a = b * q + r
  BY <1>4, <1>5
<1> QED
  BY <1>4, <1>6 DEF q, r

LEMMA Apart ==
  ASSUME NEW b \in Nat, NEW p \in Nat, NEW q \in Nat, p < q
  PROVE  b * p + b <= b * q
  OBVIOUS

\* Quotient and remainder are unique.
LEMMA DivUnique ==
  ASSUME NEW b \in Nat \ {0}, NEW p \in Nat, NEW q \in Nat, NEW r \in Nat, NEW s \in Nat,
         b * q + r = b * p + s, r < b, s < b
  PROVE  q = p /\ r = s
<1>1. ~(q < p) /\ ~(p < q)
  BY Apart
<1>2. q = p
  BY <1>1
<1>3. b * q = b * p /\ b * q \in Nat
  BY <1>2
<1> QED
  BY <1>2, <1>3

LEMMA DivModIs ==
  ASSUME NEW b \in Nat \ {0}, NEW q \in Nat, NEW r \in Nat, r < b
  PROVE  (b * q + r) \div b = q /\ (b * q + r) % b = r
<1> DEFINE a == b * q + r
<1>1. a \in Nat
  OBVIOUS
<1>2. /\ a \div b \in Nat /\ a % b \in Nat /\ a % b < b
      /\ a = b * (a \div b) + (a % b)
  BY <1>1, DivMod
<1> DEFINE p == a \div b
           s == a % b
<1>3. p \in Nat /\ s \in Nat /\ s < b /\ b * q + r = b * p + s
  BY <1>2
<1> HIDE DEF p, s
<1>4. q = p /\ r = s
  BY <1>3, DivUnique
<1> QED
  BY <1>4 DEF p, s

\* Dividing twice is dividing by the product.
LEMMA DivDiv ==
  ASSUME NEW a \in Nat, NEW b \in Nat \ {0}, NEW c \in Nat \ {0}
  PROVE  a \div (b * c) = (a \div c) \div b
<1> DEFINE m == a \div c
           s == a % c
           q == m \div b
           r == m % b
<1>1. m \in Nat /\ s \in Nat /\ s < c /\ a = c * m + s
  BY DivMod
<1> HIDE DEF m, s
<1>2. q \in Nat /\ r \in Nat /\ r < b /\ m = b * q + r
  BY <1>1, DivMod
<1> HIDE DEF q, r
<1>3. c * r + s \in Nat /\ c * r + s < b * c
  <2>1. c * r + c <= c * b
    BY <1>2, Apart
  <2>2. c * r \in Nat /\ c * b \in Nat /\ c * b = b * c
    BY <1>2
  <2> QED
    BY <1>1, <2>1, <2>2
<1>4. a = (b * c) * q + (c * r + s)
  <2>1. c * (b * q + r) = (b * c) * q + c * r
    BY <1>2
  <2>2. c * m = (b * c) * q + c * r
    BY <1>2, <2>1
  <2>3. c * r \in Nat /\ (b * c) * q \in Nat
    BY <1>2
  <2> QED
    BY <1>1, <2>2, <2>3
<1>5. b * c \in Nat \ {0}
  OBVIOUS
<1>6. ((b * c) * q + (c * r + s)) \div (b * c) = q
  <2> DEFINE d == b * c
             t == c * r + s
  <2> HIDE DEF d, t
  <2>1. (d * q + t) \div d = q
    BY <1>2, <1>3, <1>5, DivModIs DEF d, t
  <2> QED
    BY <2>1 DEF d, t
<1>7. a \div (b * c) = q
  BY <1>4, <1>6
<1> QED
  BY <1>7 DEF q, m

\* A multiple of the divisor does not change the remainder.
LEMMA ModMultiple ==
  ASSUME NEW b \in Nat \ {0}, NEW q \in Nat, NEW a \in Nat
  PROVE  (b * q + a) % b = a % b
<1> DEFINE p == a \div b
           r == a % b
<1>1. p \in Nat /\ r \in Nat /\ r < b /\ a = b * p + r
  BY DivMod
<1> HIDE DEF p, r
<1>2. b * q + a = b * (q + p) + r /\ q + p \in Nat
  BY <1>1
<1>3. (b * (q + p) + r) % b = r
  BY <1>1, <1>2, DivModIs
<1> QED
  BY <1>2, <1>3 DEF r

-----------------------------------------------------------------------------
(* Powers.                                                                 *)

IsPowers(power, base, n) ==
  /\ power \in [0 .. n -> Nat] /\ power[0] = 1
  /\ \A k \in 1 .. n : power[k] = base * power[k - 1]

LEMMA PowersArePowers ==
  ASSUME NEW base \in Nat, NEW n \in Nat
  PROVE  IsPowers(Powers(base, n), base, n)
<1> DEFINE Follows(f, k) == f[k] = IF k = 0 THEN 1 ELSE base * f[k - 1]
           Solves(f, k) == f \in [0 .. k -> Nat] /\ \A j \in 0 .. k : Follows(f, j)
           Solved == {k \in 0 .. n : \E f : Solves(f, k)}
           Body(f) == [j \in 0 .. n |-> IF j = 0 THEN 1 ELSE base * f[j - 1]]
<1>1. 0 \in Solved
  <2> DEFINE f == [j \in 0 .. 0 |-> 1]
  <2>1. f \in [0 .. 0 -> Nat] /\ \A j \in 0 .. 0 : Follows(f, j)
    OBVIOUS
  <2>2. \E g : Solves(g, 0)
    BY <2>1
  <2> HIDE DEF Solves
  <2> QED
    BY <2>2
<1>2. ASSUME NEW k \in 1 .. n, k - 1 \in Solved
      PROVE  k \in Solved
  <2>1. PICK f : Solves(f, k - 1)
    BY <1>2
  <2>2. base * f[k - 1] \in Nat
    <3>1. k - 1 \in 0 .. k - 1 /\ f \in [0 .. k - 1 -> Nat]
      BY <2>1
    <3>2. f[k - 1] \in Nat
      BY <3>1
    <3> QED
      BY <3>2
  <2> DEFINE h == [j \in 0 .. k |-> IF j = k THEN base * f[k - 1] ELSE f[j]]
  <2>3. \A j \in 0 .. k - 1 : h[j] = f[j] /\ f[j] \in Nat
    BY <2>1
  <2>4. h \in [0 .. k -> Nat]
    <3>1. \A j \in 0 .. k : j # k => j \in 0 .. k - 1
      OBVIOUS
    <3> QED
      BY <2>2, <2>3, <3>1
  <2>5. h[k] = base * h[k - 1]
    <3>1. k - 1 \in 0 .. k - 1 /\ k \in 0 .. k
      OBVIOUS
    <3> QED
      BY <2>3, <3>1
  <2>6. \A j \in 0 .. k - 1 : Follows(f, j)
    BY <2>1
  <2> HIDE DEF h
  <2>7. \A j \in 0 .. k : Follows(h, j)
    <3> SUFFICES ASSUME NEW j \in 0 .. k PROVE Follows(h, j)
      OBVIOUS
    <3>1. CASE j = k
      BY <2>5, <3>1
    <3>2. CASE j # k
      <4>1. j \in 0 .. k - 1 /\ (j # 0 => j - 1 \in 0 .. k - 1)
        BY <3>2
      <4>2. h[j] = f[j] /\ (j # 0 => h[j - 1] = f[j - 1])
        BY <2>3, <4>1
      <4> QED
        BY <2>6, <4>1, <4>2
    <3> QED
      BY <3>1, <3>2
  <2>8. \E g : Solves(g, k)
    BY <2>4, <2>7
  <2> HIDE DEF Solves
  <2> QED
    BY <2>8
<1>3. PICK f : Solves(f, n)
  <2>1. n \in Solved
    <3> HIDE DEF Solved
    <3> QED
      BY <1>1, <1>2, Upto
  <2> HIDE DEF Solves
  <2> QED
    BY <2>1
<1>4. f = Body(f)
  <2>1. \A j \in 0 .. n : f[j] = Body(f)[j]
    BY <1>3
  <2> QED
    BY <1>3, <2>1
<1>5. Powers(base, n) = (CHOOSE g : g = Body(g))
  BY DEF Powers
<1>6. Powers(base, n) = Body(Powers(base, n))
  <2> HIDE DEF Body
  <2> QED
    BY <1>4, <1>5
<1> DEFINE p == Powers(base, n)
<1> HIDE DEF p
<1>7. p = [j \in 0 .. n |-> IF j = 0 THEN 1 ELSE base * p[j - 1]]
  BY <1>6 DEF p
<1>8. p[0] = 1 /\ \A k \in 1 .. n : p[k] = base * p[k - 1]
  BY <1>7
<1> DEFINE Numbers == {k \in 0 .. n : p[k] \in Nat}
<1>9. \A k \in 1 .. n : k - 1 \in Numbers => k \in Numbers
  BY <1>8
<1>10. ASSUME NEW m \in 0 .. n
       PROVE  p[m] \in Nat
  <2>1. 0 \in Numbers
    BY <1>8
  <2>2. m \in Numbers
    <3> HIDE DEF Numbers
    <3>1. \A k \in 1 .. m : k - 1 \in Numbers => k \in Numbers
      BY <1>9
    <3> QED
      BY <2>1, <3>1, Upto
  <2> QED
    BY <2>2
<1>11. p \in [0 .. n -> Nat]
  BY <1>7, <1>10
<1> QED
  BY <1>8, <1>11 DEF IsPowers, p

LEMMA PowersPositive ==
  ASSUME NEW base \in Nat \ {0}, NEW n \in Nat, NEW power, IsPowers(power, base, n), NEW k \in 0 .. n
  PROVE  power[k] \in Nat \ {0}
<1> DEFINE Good == {j \in 0 .. n : power[j] # 0}
<1>1. 0 \in Good
  BY DEF IsPowers
<1>2. \A j \in 1 .. k : j - 1 \in Good => j \in Good
  BY DEF IsPowers
<1>3. k \in Good
  <2> HIDE DEF Good
  <2> QED
    BY <1>1, <1>2, Upto
<1> QED
  BY <1>3 DEF IsPowers

\* Exponents add up.
LEMMA PowersAdd ==
  ASSUME NEW base \in Nat, NEW n \in Nat, NEW power, IsPowers(power, base, n),
         NEW i \in 0 .. n, NEW j \in 0 .. n, i + j <= n
  PROVE  power[i + j] = power[i] * power[j]
<1> DEFINE Good == {k \in 0 .. j : power[i + k] = power[i] * power[k]}
<1>1. 0 \in Good
  <2>1. power[i] \in Nat /\ power[0] = 1 /\ i + 0 = i
    BY DEF IsPowers
  <2> QED
    BY <2>1
<1>2. ASSUME NEW k \in 1 .. j, k - 1 \in Good
      PROVE  k \in Good
  <2>1. /\ power[i + k] = base * power[i + (k - 1)] /\ power[k] = base * power[k - 1]
        /\ power[i] \in Nat /\ power[k - 1] \in Nat
    <3>1. i + k \in 1 .. n /\ (i + k) - 1 = i + (k - 1) /\ k \in 1 .. n /\ k - 1 \in 0 .. n
      OBVIOUS
    <3> QED
      BY <3>1 DEF IsPowers
  <2>2. power[i + (k - 1)] = power[i] * power[k - 1]
    BY <1>2
  <2>3. base * (power[i] * power[k - 1]) = power[i] * (base * power[k - 1])
    BY <2>1
  <2> QED
    BY <2>1, <2>2, <2>3
<1>3. j \in Good
  <2> HIDE DEF Good
  <2> QED
    BY <1>1, <1>2, Upto
<1> QED
  BY <1>3

LEMMA PowersGrow ==
  ASSUME NEW base \in Nat \ {0}, NEW n \in Nat, NEW power, IsPowers(power, base, n),
         NEW i \in 0 .. n, NEW j \in 0 .. n, i <= j
  PROVE  power[i] <= power[j]
<1>1. j - i \in 0 .. n /\ i + (j - i) = j
  OBVIOUS
<1>2. power[j] = power[i] * power[j - i]
  BY <1>1, PowersAdd
<1>3. power[i] \in Nat \ {0} /\ power[j - i] \in Nat \ {0}
  BY <1>1, PowersPositive
<1> DEFINE a == power[i]
           b == power[j - i]
<1>4. a <= a * b
  <2> HIDE DEF a, b
  <2>1. a \in Nat /\ b \in Nat \ {0}
    BY <1>3 DEF a, b
  <2> QED
    BY <2>1
<1> QED
  BY <1>2, <1>4
-----------------------------------------------------------------------------
(* Numerals.                                                               *)

\* h is what the first digits of s amount to, position by position.
IsHorner(h, base, s) ==
  /\ h \in [0 .. Len(s) -> Nat] /\ h[0] = 0
  /\ \A k \in 1 .. Len(s) : h[k] = h[k - 1] * base + s[k]

LEMMA ValueIsHorner ==
  ASSUME NEW base \in Nat, NEW s \in Seq(Nat)
  PROVE  \E h : IsHorner(h, base, s) /\ Value(base, s) = h[Len(s)]
<1> DEFINE n == Len(s)
           F == [p \in (1 .. n) \X Nat |-> p[2] * base + s[p[1]]]
           Fold(g) == [d \in SUBSET DOMAIN s |->
                         IF d = {} THEN 0 ELSE g[d \ {Max(d)}] * base + s[Max(d)]]
<1>1. n \in Nat /\ DOMAIN s = 1 .. n /\ \A i \in 1 .. n : s[i] \in Nat
  OBVIOUS
<1>2. \E g : g = Fold(g)
  <2>1. F \in [(1 .. n) \X Nat -> Nat]
    <3> SUFFICES ASSUME NEW p \in (1 .. n) \X Nat PROVE p[2] * base + s[p[1]] \in Nat
      OBVIOUS
    <3>1. p[2] \in Nat /\ s[p[1]] \in Nat
      BY <1>1
    <3> DEFINE v == p[2]
               c == s[p[1]]
    <3> HIDE DEF v, c
    <3>2. v \in Nat /\ c \in Nat
      BY <3>1 DEF v, c
    <3>3. v * base \in Nat
      BY <3>2
    <3>4. v * base + c \in Nat
      BY <3>2, <3>3
    <3> QED
      BY <3>4 DEF v, c
  <2>2. PICK g \in [SUBSET (1 .. n) -> Nat] : IsFold(g, n, 0, F)
    <3> HIDE DEF F, n
    <3> QED
      BY <1>1, <2>1, FoldExists
  <2>3. ASSUME NEW d \in SUBSET (1 .. n), d # {}
        PROVE  <<Max(d), g[d \ {Max(d)}]>> \in (1 .. n) \X Nat
    <3>1. Max(d) \in 1 .. n
      BY <1>1, <2>3, MaxIn
    <3> QED
      BY <3>1
  <2>4. g = Fold(g)
    BY <1>1, <2>2, <2>3 DEF IsFold
  <2> QED
    BY <2>4
<1>3. PICK g : g = Fold(g) /\ Value(base, s) = g[1 .. n]
  <2>1. Value(base, s) = (CHOOSE g : g = Fold(g))[DOMAIN s]
    BY DEF Value, FoldLeft, MapThenFoldSet
  <2> HIDE DEF Fold
  <2> QED
    BY <1>1, <1>2, <2>1
<1>4. g[1 .. 0] = 0
  <2>1. g[{}] = 0 /\ 1 .. 0 = {}
    BY <1>3
  <2> QED
    BY <2>1
<1>5. ASSUME NEW k \in 1 .. n
      PROVE  g[1 .. k] = g[1 .. (k - 1)] * base + s[k]
  <2>1. 1 .. k \in SUBSET DOMAIN s /\ k \in Nat \ {0}
    BY <1>1
  <2>2. Max(1 .. k) = k /\ (1 .. k) \ {k} = 1 .. (k - 1) /\ 1 .. k # {}
    BY <2>1, MaxOfPrefix
  <2> QED
    BY <1>3, <2>1, <2>2
<1> DEFINE h == [k \in 0 .. n |-> g[1 .. k]]
           Numbers == {k \in 0 .. n : g[1 .. k] \in Nat}
<1> HIDE DEF n
<1>6. ASSUME NEW m \in 0 .. n
      PROVE  g[1 .. m] \in Nat
  <2>1. 0 \in Numbers
    BY <1>1, <1>4
  <2>2. ASSUME NEW k \in 1 .. m, k - 1 \in Numbers
        PROVE  k \in Numbers
    <3>1. g[1 .. (k - 1)] \in Nat /\ s[k] \in Nat /\ k \in 1 .. n
      BY <1>1, <2>2
    <3> DEFINE v == g[1 .. (k - 1)]
               c == s[k]
    <3>2. v * base + c \in Nat
      <4> HIDE DEF v, c
      <4>1. v \in Nat /\ c \in Nat
        BY <3>1 DEF v, c
      <4>2. v * base \in Nat
        BY <4>1
      <4> QED
        BY <4>1, <4>2
    <3> QED
      BY <1>5, <3>1, <3>2
  <2>3. m \in Numbers
    <3> HIDE DEF Numbers
    <3> QED
      BY <1>1, <2>1, <2>2, Upto
  <2> QED
    BY <2>3
<1>7. h \in [0 .. n -> Nat] /\ h[0] = 0 /\ h[n] = g[1 .. n]
  BY <1>1, <1>4, <1>6
<1>8. \A k \in 1 .. n : h[k] = h[k - 1] * base + s[k]
  BY <1>1, <1>5
<1>9. IsHorner(h, base, s)
  <2> HIDE DEF h
  <2> QED
    BY <1>7, <1>8 DEF IsHorner, n
<1> QED
  BY <1>3, <1>7, <1>9 DEF n

\* Equal digits make equal numbers.
LEMMA SameStart ==
  ASSUME NEW base \in Nat, NEW s \in Seq(Nat), NEW t \in Seq(Nat),
         NEW h, IsHorner(h, base, s), NEW g, IsHorner(g, base, t),
         NEW k \in Nat, k <= Len(s), k <= Len(t), \A i \in 1 .. k : s[i] = t[i]
  PROVE  h[k] = g[k]
<1> DEFINE Same == {j \in 0 .. k : h[j] = g[j]}
<1>1. 0 \in Same
  BY DEF IsHorner
<1>2. ASSUME NEW j \in 1 .. k, j - 1 \in Same
      PROVE  j \in Same
  <2>1. j \in 1 .. Len(s) /\ j \in 1 .. Len(t) /\ s[j] = t[j]
    OBVIOUS
  <2> QED
    BY <1>2, <2>1 DEF IsHorner
<1>3. k \in Same
  <2> HIDE DEF Same
  <2> QED
    BY <1>1, <1>2, Upto
<1> QED
  BY <1>3

\* Equal numbers of as many digits have equal digits.
LEMMA SameDigits ==
  ASSUME NEW base \in Nat \ {0}, NEW s \in Seq(0 .. base - 1), NEW t \in Seq(0 .. base - 1),
         NEW h, IsHorner(h, base, s), NEW g, IsHorner(g, base, t),
         NEW k \in Nat, k <= Len(s), k <= Len(t), h[k] = g[k]
  PROVE  \A i \in 1 .. k : s[i] = t[i]
<1>1. ASSUME NEW j \in 1 .. k, h[j] = g[j]
      PROVE  h[j - 1] = g[j - 1] /\ s[j] = t[j]
  <2>1. j \in 1 .. Len(s) /\ j \in 1 .. Len(t) /\ j - 1 \in 0 .. Len(s) /\ j - 1 \in 0 .. Len(t)
    OBVIOUS
  <2>2. h[j] = h[j - 1] * base + s[j] /\ g[j] = g[j - 1] * base + t[j]
    BY <2>1 DEF IsHorner
  <2> DEFINE p == h[j - 1]
             q == g[j - 1]
             c == s[j]
             d == t[j]
  <2>3. p \in Nat /\ q \in Nat /\ c \in 0 .. base - 1 /\ d \in 0 .. base - 1
    <3>1. p \in Nat
      BY <2>1 DEF IsHorner
    <3>2. q \in Nat
      BY <2>1 DEF IsHorner
    <3>3. c \in 0 .. base - 1 /\ d \in 0 .. base - 1
      BY <2>1, ElementOfSeq
    <3> QED
      BY <3>1, <3>2, <3>3
  <2> HIDE DEF p, q, c, d
  <2>4. p * base + c = q * base + d
    BY <1>1, <2>2 DEF p, q, c, d
  <2>5. base * p + c = base * q + d /\ c \in Nat /\ d \in Nat /\ c < base /\ d < base
    BY <2>3, <2>4
  <2>6. p = q /\ c = d
    BY <2>3, <2>5, DivUnique
  <2> QED
    BY <2>6 DEF p, q, c, d
<1> DEFINE Back == {m \in 0 .. k : h[k - m] = g[k - m]}
<1>2. 0 \in Back
  OBVIOUS
<1>3. ASSUME NEW m \in 1 .. k, m - 1 \in Back
      PROVE  m \in Back
  <2>1. k - (m - 1) \in 1 .. k /\ (k - (m - 1)) - 1 = k - m
    OBVIOUS
  <2>2. h[k - (m - 1)] = g[k - (m - 1)]
    BY <1>3
  <2> QED
    BY <1>1, <2>1, <2>2
<1>4. ASSUME NEW i \in 1 .. k
      PROVE  s[i] = t[i]
  <2>1. k - i \in 0 .. k /\ k - (k - i) = i
    OBVIOUS
  <2>2. k - i \in Back
    <3>1. \A m \in 1 .. k - i : m - 1 \in Back => m \in Back
      <4> SUFFICES ASSUME NEW m \in 1 .. k - i, m - 1 \in Back PROVE m \in Back
        OBVIOUS
      <4>1. m \in 1 .. k
        OBVIOUS
      <4> HIDE DEF Back
      <4> QED
        BY <1>3, <4>1
    <3>2. k - i \in Nat
      OBVIOUS
    <3> HIDE DEF Back
    <3> QED
      BY <1>2, <3>1, <3>2, Upto
  <2> QED
    BY <1>1, <2>1, <2>2
<1> QED
  BY <1>4

\* The first digits of a number's numeral are the number without its last ones.
LEMMA NumeralIs ==
  ASSUME NEW base \in Nat \ {0}, NEW n \in Nat, NEW power, IsPowers(power, base, n),
         NEW v \in Nat, v < power[n], NEW s, s = InBase(base, power, n, v)
  PROVE  /\ s \in Seq(0 .. base - 1) /\ Len(s) = n
         /\ \A h : IsHorner(h, base, s) => \A k \in 0 .. n : h[k] = v \div power[n - k]
<1>1. \A k \in 0 .. n : power[k] \in Nat \ {0}
  BY PowersPositive
<1>2. ASSUME NEW i \in 1 .. n
      PROVE  (v \div power[n - i]) % base \in 0 .. base - 1
  <2>1. power[n - i] \in Nat \ {0}
    BY <1>1
  <2>2. v \div power[n - i] \in Nat
    BY <2>1, DivMod
  <2> QED
    BY <2>2
<1>3. s = [i \in 1 .. n |-> (v \div power[n - i]) % base]
  BY DEF InBase
<1>4. s \in [1 .. n -> 0 .. base - 1]
  BY <1>2, <1>3
<1>5. s \in Seq(0 .. base - 1) /\ Len(s) = n
  BY <1>4
<1>6. ASSUME NEW h, IsHorner(h, base, s), NEW m \in 0 .. n
      PROVE  h[m] = v \div power[n - m]
  <2> DEFINE Right == {k \in 0 .. n : h[k] = v \div power[n - k]}
  <2>1. 0 \in Right
    <3>1. h[0] = 0 /\ n - 0 = n
      BY <1>6 DEF IsHorner
    <3>2. v \div power[n] = 0
      BY <1>1
    <3> QED
      BY <3>1, <3>2
  <2>2. ASSUME NEW k \in 1 .. m, k - 1 \in Right
        PROVE  k \in Right
    <3>1. k \in 1 .. n /\ n - (k - 1) \in 1 .. n /\ (n - (k - 1)) - 1 = n - k /\ n - k \in 0 .. n
      OBVIOUS
    <3>2. power[n - (k - 1)] = base * power[n - k] /\ power[n - k] \in Nat \ {0}
      BY <1>1, <3>1 DEF IsPowers
    <3>3. h[k] = h[k - 1] * base + s[k]
      BY <1>5, <1>6, <3>1 DEF IsHorner
    <3>4. h[k - 1] = v \div (base * power[n - k])
      BY <2>2, <3>2
    <3> DEFINE q == v \div power[n - k]
    <3>5. q \in Nat /\ v \div (base * power[n - k]) = q \div base
      BY <3>2, DivMod, DivDiv
    <3>6. s[k] = q % base
      BY <1>3, <3>1
    <3> HIDE DEF q
    <3>7. q = base * (q \div base) + (q % base) /\ q \div base \in Nat
      BY <3>5, DivMod
    <3>8. h[k] = (q \div base) * base + (q % base)
      BY <3>3, <3>4, <3>5, <3>6
    <3>9. h[k] = q
      BY <3>7, <3>8
    <3> QED
      BY <3>1, <3>9 DEF q
  <2>3. m \in Right
    <3> HIDE DEF Right
    <3> QED
      BY <2>1, <2>2, Upto
  <2> QED
    BY <2>3
<1> QED
  BY <1>5, <1>6

LEMMA DivOne ==
  ASSUME NEW a \in Nat
  PROVE  a \div 1 = a
<1>1. 1 * a + 0 = a
  OBVIOUS
<1> QED
  BY <1>1, DivModIs

\* The quotients of the numbers of one interval.
LEMMA DivBounds ==
  ASSUME NEW a \in Nat, NEW b \in Nat \ {0}, NEW q \in Nat
  PROVE  /\ (a \div b >= q) <=> (b * q <= a)
         /\ (a \div b = q) <=> (b * q <= a /\ a < b * q + b)
<1> DEFINE p == a \div b
           r == a % b
<1>1. p \in Nat /\ r \in Nat /\ r < b /\ a = b * p + r
  BY DivMod
<1> HIDE DEF p, r
<1>2. b * q \in Nat /\ b * p \in Nat
  BY <1>1
<1>3. p < q => b * p + b <= b * q
  BY <1>1, Apart
<1>4. q < p => b * q + b <= b * p
  BY <1>1, Apart
<1>5. p = q => b * p = b * q
  OBVIOUS
<1>6. (p >= q) <=> (b * q <= a)
  BY <1>1, <1>2, <1>3, <1>4, <1>5
<1>7. (p = q) <=> (b * q <= a /\ a < b * q + b)
  BY <1>1, <1>2, <1>3, <1>4, <1>5
<1> QED
  BY <1>6, <1>7 DEF p

LEMMA DivMonotone ==
  ASSUME NEW a \in Nat, NEW b \in Nat \ {0}, NEW c \in Nat, a <= c
  PROVE  a \div b <= c \div b
<1> DEFINE q == a \div b
<1>1. q \in Nat
  BY DivMod
<1> HIDE DEF q
<1>2. b * q <= a /\ b * q \in Nat
  <2>1. q >= q
    BY <1>1
  <2> QED
    BY <1>1, <2>1, DivBounds DEF q
<1>3. b * q <= c
  BY <1>2
<1>4. c \div b >= q
  BY <1>1, <1>3, DivBounds
<1>5. c \div b \in Nat
  BY DivMod
<1> QED
  BY <1>1, <1>4, <1>5 DEF q

LEMMA DivShift ==
  ASSUME NEW b \in Nat \ {0}, NEW q \in Nat, NEW a \in Nat
  PROVE  (b * q + a) \div b = q + (a \div b)
<1> DEFINE p == a \div b
           r == a % b
<1>1. p \in Nat /\ r \in Nat /\ r < b /\ a = b * p + r
  BY DivMod
<1> HIDE DEF p, r
<1>2. b * q + a = b * (q + p) + r /\ q + p \in Nat
  BY <1>1
<1>3. (b * (q + p) + r) \div b = q + p
  BY <1>1, <1>2, DivModIs
<1> QED
  BY <1>2, <1>3 DEF p

-----------------------------------------------------------------------------
(* The sizes.                                                              *)

LEMMA BasePowers == IsPowers(BasePower, Base, Length)
  BY SizesAssumption, PowersArePowers DEF BasePower

LEMMA BytePowers == IsPowers(BytePower, Byte, PayloadBytes) /\ PayloadBytes \in Nat
<1>1. PayloadBytes \in Nat
  BY SizesAssumption DEF PayloadBytes
<1> QED
  BY <1>1, SizesAssumption, PowersArePowers DEF BytePower

LEMMA PositivePowers ==
  /\ \A k \in 0 .. Length : BasePower[k] \in Nat \ {0}
  /\ \A k \in 0 .. PayloadBytes : BytePower[k] \in Nat \ {0}
<1>1. Base \in Nat \ {0} /\ Byte \in Nat \ {0} /\ Length \in Nat
  BY SizesAssumption
<1> QED
  BY <1>1, BasePowers, BytePowers, PowersPositive

LEMMA SizesPositive == Space \in Nat \ {0} /\ Sums \in Nat \ {0}
<1>1. AddressBytes \in 0 .. PayloadBytes /\ SumBytes \in 0 .. PayloadBytes
  BY SizesAssumption DEF PayloadBytes
<1> QED
  BY <1>1, PositivePowers DEF Space, Sums

\* Payloads rise with the addresses, in steps of less than two checksum ranges.
LEMMA PayloadsRise ==
  ASSUME NEW x \in 0 .. Space - 1
  PROVE  /\ Payload(x) \in Nat
         /\ Version * Space * Sums <= Payload(x)
         /\ Payload(x) < (Version + 1) * Space * Sums
         /\ \A y \in 0 .. Space - 1 : x < y => Payload(x) < Payload(y)
         /\ x > 0 => Payload(x) < Payload(x - 1) + 2 * Sums
<1> DEFINE V == Version * Space * Sums
<1>1. Version \in Nat /\ Space \in Nat \ {0} /\ Sums \in Nat \ {0}
  BY SizesAssumption, SizesPositive
<1>2. V \in Nat
  <2>1. Version * Space \in Nat
    BY <1>1
  <2> DEFINE W == Version * Space
  <2> HIDE DEF W
  <2>2. W * Sums \in Nat
    BY <1>1, <2>1 DEF W
  <2> QED
    BY <2>2 DEF W
<1>3. (Version + 1) * Space * Sums = V + Space * Sums
  BY <1>1
<1>4. \A y \in 0 .. Space - 1 : Checksum[y] \in Nat /\ Checksum[y] < Sums
  BY <1>1, TronAssumption
<1>5. \A y \in 0 .. Space - 1 : Payload(y) = V + (y * Sums + Checksum[y]) /\ y * Sums \in Nat
  <2> SUFFICES ASSUME NEW y \in 0 .. Space - 1
               PROVE  Payload(y) = V + (y * Sums + Checksum[y]) /\ y * Sums \in Nat
    OBVIOUS
  <2>1. y * Sums \in Nat
    BY <1>1
  <2>2. Payload(y) = V + y * Sums + Checksum[y]
    BY DEF Payload
  <2> HIDE DEF V
  <2> QED
    BY <1>2, <1>4, <2>1, <2>2
<1> HIDE DEF V
<1>6. Payload(x) \in Nat /\ V <= Payload(x)
  BY <1>2, <1>4, <1>5
<1>7. Payload(x) < V + Space * Sums
  <2>1. Sums * x + Sums <= Sums * Space
    BY <1>1, Apart
  <2>2. x * Sums + Sums <= Space * Sums /\ Space * Sums \in Nat
    BY <1>1, <2>1
  <2> QED
    BY <1>1, <1>2, <1>4, <1>5, <2>2
<1>8. ASSUME NEW y \in 0 .. Space - 1, x < y
      PROVE  Payload(x) < Payload(y)
  <2> DEFINE m == x * Sums
             n == y * Sums
             c == Checksum[x]
             d == Checksum[y]
  <2>1. m + Sums <= n
    <3>1. Sums * x + Sums <= Sums * y
      BY <1>1, <1>8, Apart
    <3> QED
      BY <1>1, <3>1
  <2>2. /\ Payload(x) = V + (m + c) /\ Payload(y) = V + (n + d)
        /\ m \in Nat /\ n \in Nat /\ c \in Nat /\ d \in Nat /\ c < Sums
    BY <1>4, <1>5
  <2> HIDE DEF m, n, c, d
  <2> QED
    BY <1>1, <1>2, <2>1, <2>2
<1>9. ASSUME x > 0
      PROVE  Payload(x) < Payload(x - 1) + 2 * Sums
  <2>1. x - 1 \in 0 .. Space - 1 /\ (x - 1) * Sums = x * Sums - Sums
    BY <1>1, <1>9
  <2>2. Payload(x) = V + (x * Sums + Checksum[x]) /\ x * Sums \in Nat
        /\ Checksum[x] \in Nat /\ Checksum[x] < Sums
    BY <1>4, <1>5
  <2>3. Payload(x - 1) = V + ((x * Sums - Sums) + Checksum[x - 1])
        /\ Checksum[x - 1] \in Nat
    BY <1>4, <1>5, <2>1
  <2> DEFINE m == x * Sums
             c == Checksum[x]
             d == Checksum[x - 1]
  <2> HIDE DEF m, c, d
  <2>4. V + (m + c) < (V + ((m - Sums) + d)) + 2 * Sums
    BY <1>1, <1>2, <2>2, <2>3 DEF m, c, d
  <2> QED
    BY <2>2, <2>3, <2>4 DEF m, c, d
<1> QED
  BY <1>3, <1>6, <1>7, <1>8, <1>9 DEF V

\* Every payload has Length characters, the first one T.
LEMMA PayloadFits ==
  ASSUME NEW x \in 0 .. Space - 1
  PROVE  /\ Payload(x) \in Nat /\ Payload(x) < BasePower[Length]
         /\ Payload(x) \div BasePower[Length - 1] = Tee
         /\ Payload(x) < BytePower[PayloadBytes]
<1> DEFINE T == BasePower[Length - 1]
           P == Payload(x)
<1>1. Length - 1 \in 0 .. Length /\ Length \in 1 .. Length /\ Base \in Nat /\ Tee \in 0 .. Base - 1
  BY SizesAssumption
<1>2. T \in Nat \ {0} /\ BasePower[Length] = Base * T
  BY <1>1, BasePowers, PositivePowers DEF IsPowers
<1>3. P \in Nat /\ Version * Space * Sums <= P /\ P < (Version + 1) * Space * Sums
  BY PayloadsRise
<1>4. /\ Tee * T <= Version * Space * Sums
      /\ (Version + 1) * Space * Sums <= (Tee + 1) * T
  BY TronAssumption
<1>5. (Version * Space * Sums) \in Nat /\ ((Version + 1) * Space * Sums) \in Nat
  <2>1. Version \in Nat /\ Space \in Nat \ {0} /\ Sums \in Nat \ {0}
    BY SizesAssumption, SizesPositive
  <2>2. \A u \in Nat, v \in Nat : u * v \in Nat
    OBVIOUS
  <2>3. Version * Space \in Nat /\ (Version + 1) * Space \in Nat
    BY <2>1, <2>2
  <2> QED
    BY <2>1, <2>2, <2>3
<1> DEFINE a == Version * Space * Sums
           b == (Version + 1) * Space * Sums
<1> HIDE DEF T, P, a, b
<1>6. T * Tee <= P /\ P < T * Tee + T /\ T * Tee \in Nat
  <2>1. T * Tee \in Nat /\ Tee * T = T * Tee /\ (Tee + 1) * T = T * Tee + T
    BY <1>1, <1>2
  <2>2. T * Tee <= a /\ a <= P /\ P < b /\ b <= T * Tee + T /\ a \in Nat /\ b \in Nat
    BY <1>3, <1>4, <1>5, <2>1 DEF a, b
  <2> QED
    BY <1>2, <1>3, <2>1, <2>2
<1>7. P \div T = Tee
  BY <1>1, <1>2, <1>3, <1>6, DivBounds
<1>8. T * Tee + T <= T * Base /\ T * Base = Base * T /\ Base * T \in Nat
  <2>1. Tee < Base /\ Tee \in Nat
    BY <1>1
  <2> QED
    BY <1>1, <1>2, <2>1, Apart
<1>9. P < BasePower[Length]
  BY <1>2, <1>3, <1>6, <1>8
<1>10. BytePower[PayloadBytes] = Byte * (Space * Sums)
  <2>1. /\ PayloadBytes \in 1 .. PayloadBytes /\ PayloadBytes - 1 = AddressBytes + SumBytes
        /\ AddressBytes \in 0 .. PayloadBytes /\ SumBytes \in 0 .. PayloadBytes
        /\ AddressBytes + SumBytes <= PayloadBytes
        /\ PayloadBytes \in Nat /\ Byte \in Nat
    BY SizesAssumption DEF PayloadBytes
  <2>2. BytePower[AddressBytes + SumBytes] = Space * Sums
    BY <2>1, BytePowers, PowersAdd DEF Space, Sums
  <2> QED
    BY <2>1, <2>2, BytePowers DEF IsPowers
<1>11. P < BytePower[PayloadBytes]
  <2> DEFINE S == Space * Sums
  <2>1. S \in Nat \ {0} /\ (Version + 1) * Space * Sums = (Version + 1) * S
    BY SizesAssumption, SizesPositive
  <2> HIDE DEF S
  <2>2. S * (Version + 1) <= S * Byte
    <3>1. Version + 1 <= Byte /\ Version + 1 \in Nat /\ Byte \in Nat
      BY SizesAssumption
    <3>2. Version + 1 < Byte => S * (Version + 1) + S <= S * Byte
      BY <2>1, <3>1, Apart
    <3>3. S * (Version + 1) \in Nat /\ S * Byte \in Nat
      BY <2>1, <3>1
    <3>4. CASE Version + 1 = Byte
      BY <3>3, <3>4
    <3>5. CASE Version + 1 < Byte
      BY <2>1, <3>2, <3>3, <3>5
    <3> QED
      BY <3>1, <3>4, <3>5
  <2>3. (Version + 1) * S = S * (Version + 1) /\ Byte * S = S * Byte /\ S * Byte \in Nat
        /\ S * (Version + 1) \in Nat
    BY <2>1, SizesAssumption
  <2>4. P < S * (Version + 1)
    BY <1>3, <2>1, <2>3
  <2>5. BytePower[PayloadBytes] = S * Byte
    BY <1>10, <2>3 DEF S
  <2> QED
    BY <1>3, <2>2, <2>3, <2>4, <2>5
<1> QED
  BY <1>3, <1>7, <1>9, <1>11 DEF P, T

-----------------------------------------------------------------------------
(* Prefixes.                                                               *)

LEMMA AddressNumeral ==
  ASSUME NEW x \in 0 .. Space - 1
  PROVE  /\ TronAddress(x) \in Seq(Digits) /\ Len(TronAddress(x)) = Length
         /\ \A h : IsHorner(h, Base, TronAddress(x)) =>
              \A k \in 0 .. Length : h[k] = Payload(x) \div BasePower[Length - k]
<1>1. Base \in Nat \ {0} /\ Length \in Nat
  BY SizesAssumption
<1> QED
  BY <1>1, BasePowers, PayloadFits, NumeralIs DEF TronAddress, Digits

\* A text is a prefix of an address when it stands for what is left of the
\* payload without its last characters.
LEMMA PrefixIsStart ==
  ASSUME NEW prefix \in Seq(Digits), Len(prefix) <= Length, NEW x \in 0 .. Space - 1
  PROVE  LET start == Payload(x) \div BasePower[Length - Len(prefix)] IN
         /\ Value(Base, prefix) \in Nat
         /\ Value(Base, SubSeq(TronAddress(x), 1, Len(prefix))) = start
         /\ IsPrefix(prefix, TronAddress(x)) <=> (start = Value(Base, prefix))
<1> DEFINE m == Len(prefix)
           t == TronAddress(x)
           s == SubSeq(t, 1, m)
<1>1. Base \in Nat \ {0} /\ Length \in Nat /\ Digits = 0 .. Base - 1 /\ Digits \subseteq Nat
  BY SizesAssumption DEF Digits
<1>2. t \in Seq(Digits) /\ Len(t) = Length /\ m \in 0 .. Length
  BY <1>1, AddressNumeral
<1>3. s \in Seq(Digits) /\ Len(s) = m /\ \A i \in 1 .. m : s[i] = t[i]
  BY <1>1, <1>2, SubSeqProperties
<1>4. prefix \in Seq(Nat) /\ t \in Seq(Nat) /\ s \in Seq(Nat)
  BY <1>1, <1>2, <1>3, SeqMonotonic
<1> HIDE DEF s, t
<1>5. PICK g : IsHorner(g, Base, prefix) /\ Value(Base, prefix) = g[m]
  BY <1>1, <1>4, ValueIsHorner
<1>6. PICK f : IsHorner(f, Base, s) /\ Value(Base, s) = f[m]
  BY <1>1, <1>3, <1>4, ValueIsHorner
<1>7. PICK h : IsHorner(h, Base, t)
  BY <1>1, <1>4, ValueIsHorner
<1>8. h[m] = Payload(x) \div BasePower[Length - m]
  BY <1>2, <1>7, AddressNumeral DEF t
<1>9. /\ m \in Nat /\ m <= Len(prefix) /\ m <= Len(s) /\ m <= Len(t) /\ Base \in Nat
      /\ s \in Seq(Nat) /\ t \in Seq(Nat) /\ prefix \in Seq(Nat)
  BY <1>1, <1>2, <1>3, <1>4
<1>10. f[m] = h[m]
  <2> HIDE DEF m
  <2>1. \A i \in 1 .. m : s[i] = t[i]
    BY <1>3
  <2> QED
    BY <1>6, <1>7, <1>9, <2>1, SameStart
<1>11. g[m] \in Nat
  BY <1>2, <1>5 DEF IsHorner
<1>12. IsPrefix(prefix, t) <=> \A i \in 1 .. m : prefix[i] = t[i]
  <2>1. IsPrefix(prefix, t) <=> SubSeq(prefix, 1, m) = s
    BY <1>2 DEF IsPrefix, s
  <2>2. SubSeq(prefix, 1, m) = prefix
    BY <1>2
  <2>3. prefix = s <=> \A i \in 1 .. m : prefix[i] = s[i]
    BY <1>3, SeqEqual
  <2> QED
    BY <1>3, <2>1, <2>2, <2>3
<1>13. ASSUME \A i \in 1 .. m : prefix[i] = t[i]
       PROVE  g[m] = h[m]
  <2> HIDE DEF m
  <2> QED
    BY <1>5, <1>7, <1>13, <1>9, SameStart
<1>14. ASSUME g[m] = h[m]
       PROVE  \A i \in 1 .. m : prefix[i] = t[i]
  BY <1>1, <1>2, <1>5, <1>7, <1>14, SameDigits
<1>15. (g[m] = h[m]) <=> IsPrefix(prefix, t)
  BY <1>12, <1>13, <1>14
<1> QED
  BY <1>5, <1>6, <1>8, <1>10, <1>11, <1>15 DEF s, t

\* What a prefix filled up with the first, or the last, character stands for.
LEMMA PaddedValue ==
  ASSUME NEW prefix \in Seq(Digits), Len(prefix) <= Length
  PROVE  LET rest == BasePower[Length - Len(prefix)] IN
         /\ Value(Base, Padded(prefix, 0)) = rest * Value(Base, prefix)
         /\ Value(Base, Padded(prefix, Base - 1)) = rest * Value(Base, prefix) + (rest - 1)
<1> DEFINE m == Len(prefix)
           V == Value(Base, prefix)
<1>1. Base \in Nat \ {0} /\ Length \in Nat /\ Digits = 0 .. Base - 1 /\ Digits \subseteq Nat
  BY SizesAssumption DEF Digits
<1>2. prefix \in Seq(Nat) /\ m \in 0 .. Length
  BY <1>1, SeqMonotonic
<1>3. PICK g : IsHorner(g, Base, prefix) /\ V = g[m]
  BY <1>1, <1>2, ValueIsHorner
<1>4. V \in Nat
  BY <1>2, <1>3 DEF IsHorner
<1>5. ASSUME NEW c \in Digits
      PROVE  LET s == Padded(prefix, c) IN
             /\ s \in Seq(Nat) /\ Len(s) = Length
             /\ \A i \in 1 .. m : s[i] = prefix[i]
             /\ \A i \in m + 1 .. Length : s[i] = c
  <2> DEFINE tail == [i \in 1 .. Length - m |-> c]
  <2>1. tail \in Seq(Nat) /\ Len(tail) = Length - m
    BY <1>1, <1>2
  <2>2. \A i \in 1 .. Length - m : tail[i] = c
    OBVIOUS
  <2>3. Padded(prefix, c) = prefix \o tail
    BY DEF Padded
  <2> HIDE DEF tail
  <2> QED
    BY <1>1, <1>2, <2>1, <2>2, <2>3, ConcatProperties
<1>6. ASSUME NEW c \in Digits
      PROVE  \E h : /\ IsHorner(h, Base, Padded(prefix, c))
                    /\ Value(Base, Padded(prefix, c)) = h[Length] /\ h[m] = V
                    /\ \A j \in 1 .. Length - m : h[m + j] = h[m + (j - 1)] * Base + c
  <2> DEFINE s == Padded(prefix, c)
  <2>1. /\ s \in Seq(Nat) /\ Len(s) = Length
        /\ \A i \in 1 .. m : s[i] = prefix[i]
        /\ \A i \in m + 1 .. Length : s[i] = c
    BY <1>5
  <2> HIDE DEF s
  <2>2. PICK h : IsHorner(h, Base, s) /\ Value(Base, s) = h[Length]
    BY <1>1, <2>1, ValueIsHorner
  <2>3. h[m] = V
    BY <1>1, <1>2, <1>3, <2>1, <2>2, SameStart
  <2>4. \A j \in 1 .. Length - m : h[m + j] = h[m + (j - 1)] * Base + c
    <3> SUFFICES ASSUME NEW j \in 1 .. Length - m
                 PROVE  h[m + j] = h[m + (j - 1)] * Base + c
      OBVIOUS
    <3>1. m + j \in m + 1 .. Length /\ m + j \in 1 .. Length /\ (m + j) - 1 = m + (j - 1)
      BY <1>1, <1>2
    <3> QED
      BY <2>1, <2>2, <3>1 DEF IsHorner
  <2> QED
    BY <2>2, <2>3, <2>4 DEF s
<1> DEFINE n == Length - m
<1>7. n \in Nat /\ n \in 0 .. Length /\ \A j \in 0 .. n : BasePower[j] \in Nat \ {0}
  BY <1>1, <1>2, PositivePowers
<1>8. \A j \in 1 .. n : BasePower[j] = Base * BasePower[j - 1]
  BY <1>1, <1>2, BasePowers DEF IsPowers
<1> HIDE DEF V, n
<1>9. Value(Base, Padded(prefix, 0)) = BasePower[n] * V
  <2>1. 0 \in Digits
    BY <1>1
  <2>2. PICK h : /\ Value(Base, Padded(prefix, 0)) = h[Length] /\ h[m] = V
                 /\ \A j \in 1 .. n : h[m + j] = h[m + (j - 1)] * Base + 0
    BY <1>6, <2>1 DEF n
  <2> DEFINE Right == {j \in 0 .. n : h[m + j] = BasePower[j] * V}
  <2>3. 0 \in Right
    <3>1. h[m + 0] = V /\ BasePower[0] = 1
      BY <1>2, <2>2, BasePowers DEF IsPowers
    <3> QED
      BY <1>4, <1>7, <3>1
  <2>4. ASSUME NEW j \in 1 .. n, j - 1 \in Right
        PROVE  j \in Right
    <3>1. h[m + j] = (BasePower[j - 1] * V) * Base + 0
      BY <2>2, <2>4
    <3>2. BasePower[j] = Base * BasePower[j - 1] /\ BasePower[j - 1] \in Nat
      BY <1>7, <1>8
    <3> DEFINE p == BasePower[j - 1]
    <3>3. (p * V) * Base + 0 = (Base * p) * V
      <4> HIDE DEF p
      <4>1. p \in Nat
        BY <3>2 DEF p
      <4>2. (p * V) * Base = (Base * p) * V /\ (Base * p) * V \in Int
        BY <1>1, <1>4, <4>1
      <4> QED
        BY <4>2
    <3> QED
      BY <3>1, <3>2, <3>3
  <2>5. n \in Right
    <3> HIDE DEF Right
    <3> QED
      BY <1>7, <2>3, <2>4, Upto
  <2>6. m + n = Length
    BY <1>1, <1>2 DEF n
  <2> QED
    BY <2>2, <2>5, <2>6
<1>10. Value(Base, Padded(prefix, Base - 1)) = BasePower[n] * V + (BasePower[n] - 1)
  <2>1. Base - 1 \in Digits
    BY <1>1
  <2>2. PICK h : /\ Value(Base, Padded(prefix, Base - 1)) = h[Length] /\ h[m] = V
                 /\ \A j \in 1 .. n : h[m + j] = h[m + (j - 1)] * Base + (Base - 1)
    BY <1>6, <2>1 DEF n
  <2> DEFINE Right == {j \in 0 .. n : h[m + j] = BasePower[j] * V + (BasePower[j] - 1)}
  <2>3. 0 \in Right
    <3>1. h[m + 0] = V /\ BasePower[0] = 1
      BY <1>2, <2>2, BasePowers DEF IsPowers
    <3> QED
      BY <1>4, <1>7, <3>1
  <2>4. ASSUME NEW j \in 1 .. n, j - 1 \in Right
        PROVE  j \in Right
    <3>1. h[m + j] = (BasePower[j - 1] * V + (BasePower[j - 1] - 1)) * Base + (Base - 1)
      BY <2>2, <2>4
    <3>2. BasePower[j] = Base * BasePower[j - 1] /\ BasePower[j - 1] \in Nat
      BY <1>7, <1>8
    <3> DEFINE p == BasePower[j - 1]
    <3>3. (p * V + (p - 1)) * Base + (Base - 1) = (Base * p) * V + (Base * p - 1)
      <4> HIDE DEF p
      <4>1. p \in Nat
        BY <3>2 DEF p
      <4>2. (p * V + (p - 1)) * Base = ((Base * p) * V + Base * p) - Base
        BY <1>1, <1>4, <4>1
      <4>3. (Base * p) * V \in Int /\ Base * p \in Int
        BY <1>1, <1>4, <4>1
      <4> QED
        BY <1>1, <4>2, <4>3
    <3> QED
      BY <3>1, <3>2, <3>3
  <2>5. n \in Right
    <3> HIDE DEF Right
    <3> QED
      BY <1>7, <2>3, <2>4, Upto
  <2>6. m + n = Length
    BY <1>1, <1>2 DEF n
  <2> QED
    BY <2>2, <2>5, <2>6
<1> QED
  BY <1>9, <1>10 DEF n, V

\* tronPrefixReachable looks at the ends of the range only; checksums leave no
\* gap between addresses that a prefix could fall into.
LEMMA ReachableIsMet ==
  ASSUME NEW prefix \in Seq(Digits), Len(prefix) <= MaxPrefix + 1
  PROVE  Reachable(prefix) <=> \E x \in 0 .. Space - 1 : IsPrefix(prefix, TronAddress(x))
<1> DEFINE m == Len(prefix)
           M == BasePower[Length - m]
           V == Value(Base, prefix)
           low == M * V
<1>1. Length \in Nat /\ MaxPrefix \in Nat /\ m \in 0 .. Length /\ MaxPrefix < Length /\ Space \in Nat \ {0}
  BY SizesAssumption, SizesPositive
<1>2. M \in Nat \ {0} /\ 0 \in 0 .. Space - 1 /\ Space - 1 \in 0 .. Space - 1
  BY <1>1, PositivePowers
<1>3. V \in Nat
  BY <1>1, <1>2, PrefixIsStart
<1>4. low \in Nat
  <2> HIDE DEF M, V
  <2> QED
    BY <1>2, <1>3
<1>5. \A x \in 0 .. Space - 1 :
        /\ Payload(x) \in Nat
        /\ IsPrefix(prefix, TronAddress(x)) <=> (low <= Payload(x) /\ Payload(x) < low + M)
  <2> SUFFICES ASSUME NEW x \in 0 .. Space - 1
               PROVE  /\ Payload(x) \in Nat
                      /\ IsPrefix(prefix, TronAddress(x)) <=>
                           (low <= Payload(x) /\ Payload(x) < low + M)
    OBVIOUS
  <2>1. IsPrefix(prefix, TronAddress(x)) <=> (Payload(x) \div M = V)
    BY <1>1, PrefixIsStart
  <2>2. Payload(x) \in Nat
    BY PayloadsRise
  <2> HIDE DEF M, V
  <2> QED
    BY <1>2, <1>3, <2>1, <2>2, DivBounds
<1>6. Reachable(prefix) <=> (low <= Payload(Space - 1) /\ low + (M - 1) >= Payload(0))
  <2>1. /\ Value(Base, Padded(prefix, 0)) = low
        /\ Value(Base, Padded(prefix, Base - 1)) = low + (M - 1)
    BY <1>1, PaddedValue
  <2> HIDE DEF low, M
  <2> QED
    BY <2>1 DEF Reachable
<1>7. 2 * Sums <= M
  <2>1. Length - 1 - MaxPrefix \in 0 .. Length /\ Length - m \in 0 .. Length
        /\ Length - 1 - MaxPrefix <= Length - m /\ Base \in Nat \ {0}
    BY <1>1, SizesAssumption
  <2>2. BasePower[Length - 1 - MaxPrefix] <= M
    BY <1>1, <2>1, BasePowers, PowersGrow
  <2>3. BasePower[Length - 1 - MaxPrefix] \in Nat /\ Sums \in Nat
    BY <2>1, PositivePowers, SizesPositive
  <2> HIDE DEF M
  <2> QED
    BY <1>2, <2>2, <2>3, TronAssumption
<1> HIDE DEF low, M, V
<1>8. ASSUME NEW x \in 0 .. Space - 1, low <= Payload(x), Payload(x) < low + M
      PROVE  low <= Payload(Space - 1) /\ low + (M - 1) >= Payload(0)
  <2>1. Payload(0) <= Payload(x)
    <3>1. 0 < x => Payload(0) < Payload(x)
      BY <1>2, PayloadsRise
    <3> QED
      BY <1>2, <1>5, <3>1
  <2>2. Payload(x) <= Payload(Space - 1)
    <3>1. x < Space - 1 => Payload(x) < Payload(Space - 1)
      BY <1>2, PayloadsRise
    <3> QED
      BY <1>1, <1>2, <1>5, <3>1
  <2> QED
    BY <1>2, <1>4, <1>5, <1>8, <2>1, <2>2
<1>9. ASSUME low <= Payload(Space - 1), low + (M - 1) >= Payload(0)
      PROVE  \E x \in 0 .. Space - 1 : low <= Payload(x) /\ Payload(x) < low + M
  <2> DEFINE Above == {x \in 0 .. Space - 1 : low <= Payload(x)}
  <2>1. Above \subseteq Nat /\ Above # {}
    BY <1>2, <1>9
  <2>2. PICK x \in Above : \A y \in Above : x <= y
    <3> HIDE DEF Above
    <3> QED
      BY <2>1, Least
  <2>3. x \in 0 .. Space - 1 /\ low <= Payload(x)
    BY <2>2
  <2>4. Payload(x) < low + M
    <3>1. CASE x = 0
      BY <1>2, <1>4, <1>5, <1>9, <3>1
    <3>2. CASE x > 0
      <4>1. x - 1 \in 0 .. Space - 1 /\ ~(x <= x - 1)
        BY <1>1, <2>3, <3>2
      <4>2. ~(low <= Payload(x - 1))
        BY <2>2, <4>1
      <4>3. Payload(x) < Payload(x - 1) + 2 * Sums
        BY <2>3, <3>2, PayloadsRise
      <4>4. Payload(x) \in Nat /\ Payload(x - 1) \in Nat /\ Sums \in Nat
        BY <1>5, <2>3, <4>1, SizesPositive
      <4> QED
        BY <1>2, <1>4, <1>7, <4>2, <4>3, <4>4
    <3> QED
      BY <1>1, <2>3, <3>1, <3>2
  <2> QED
    BY <2>3, <2>4
<1> QED
  BY <1>5, <1>6, <1>8, <1>9

-----------------------------------------------------------------------------
(* The ladder of a prefix.                                                 *)

\* One step of the binary search.
Halved(f, holds, p) ==
  LET mid == (p[1] + p[2]) \div 2 IN
  IF p[1] >= p[2] THEN p[1]
  ELSE IF mid \in holds THEN f[<<p[1], mid>>] ELSE f[<<mid + 1, p[2]>>]

Halves == (0 .. Space) \X (0 .. Space)

LEMMA Middle ==
  ASSUME NEW p \in Halves, p[1] < p[2], NEW mid, mid = (p[1] + p[2]) \div 2
  PROVE  /\ <<p[1], mid>> \in Halves /\ mid - p[1] < p[2] - p[1]
         /\ <<mid + 1, p[2]>> \in Halves /\ p[2] - (mid + 1) < p[2] - p[1]
         /\ mid \in 0 .. Space - 1 /\ p[1] <= mid /\ mid + 1 <= p[2]
<1> DEFINE lo == p[1]
           hi == p[2]
<1>1. lo \in 0 .. Space /\ hi \in 0 .. Space /\ Space \in Nat /\ lo < hi
  BY SizesPositive DEF Halves
<1> HIDE DEF lo, hi
<1>2. mid \in Nat /\ lo <= mid /\ mid < hi
  <2>1. mid = (lo + hi) \div 2
    BY DEF lo, hi
  <2> QED
    BY <1>1, <2>1
<1>3. /\ mid - lo < hi - lo /\ hi - (mid + 1) < hi - lo
      /\ mid \in 0 .. Space /\ mid + 1 \in 0 .. Space /\ mid \in 0 .. Space - 1 /\ mid + 1 <= hi
  BY <1>1, <1>2
<1> QED
  BY <1>1, <1>2, <1>3 DEF lo, hi, Halves

LEMMA SearchExists ==
  ASSUME NEW holds
  PROVE  \E f \in [Halves -> 0 .. Space] : f = [p \in Halves |-> Halved(f, holds, p)]
<1> DEFINE Solves(f, k) == \A p \in Halves : p[2] - p[1] <= k => f[p] = Halved(f, holds, p)
           Solved == {k \in Nat : \E f \in [Halves -> 0 .. Space] : Solves(f, k)}
<1>1. \A p \in Halves : p[1] \in 0 .. Space /\ p[2] \in 0 .. Space /\ Space \in Nat
  BY SizesPositive DEF Halves
<1>2. 0 \in Solved
  <2> DEFINE f == [p \in Halves |-> p[1]]
  <2>1. f \in [Halves -> 0 .. Space]
    BY <1>1
  <2>2. Solves(f, 0)
    BY <1>1 DEF Halved
  <2> HIDE DEF f, Solves
  <2>3. \E g \in [Halves -> 0 .. Space] : Solves(g, 0)
    BY <2>1, <2>2
  <2> QED
    BY <2>3
<1>3. ASSUME NEW k \in Nat, k \in Solved
      PROVE  k + 1 \in Solved
  <2>1. PICK f \in [Halves -> 0 .. Space] : Solves(f, k)
    BY <1>3
  <2> DEFINE h == [p \in Halves |-> Halved(f, holds, p)]
  <2>2. h \in [Halves -> 0 .. Space]
    <3> SUFFICES ASSUME NEW p \in Halves PROVE Halved(f, holds, p) \in 0 .. Space
      OBVIOUS
    <3>1. CASE p[1] >= p[2]
      BY <1>1, <3>1 DEF Halved
    <3>2. CASE ~(p[1] >= p[2])
      <4> DEFINE mid == (p[1] + p[2]) \div 2
      <4>1. <<p[1], mid>> \in Halves /\ <<mid + 1, p[2]>> \in Halves
        BY <1>1, <3>2, Middle
      <4>2. f[<<p[1], mid>>] \in 0 .. Space /\ f[<<mid + 1, p[2]>>] \in 0 .. Space
        BY <2>1, <4>1
      <4> QED
        BY <3>2, <4>2 DEF Halved
    <3> QED
      BY <3>1, <3>2
  <2>3. \A q \in Halves : q[2] - q[1] <= k => h[q] = f[q]
    BY <2>1
  <2>4. Solves(h, k + 1)
    <3> SUFFICES ASSUME NEW p \in Halves, p[2] - p[1] <= k + 1
                 PROVE  h[p] = Halved(h, holds, p)
      OBVIOUS
    <3>1. h[p] = Halved(f, holds, p)
      OBVIOUS
    <3> HIDE DEF h
    <3>2. CASE p[1] >= p[2]
      BY <3>1, <3>2 DEF Halved
    <3>3. CASE ~(p[1] >= p[2])
      <4> DEFINE mid == (p[1] + p[2]) \div 2
                 a == <<p[1], mid>>
                 b == <<mid + 1, p[2]>>
      <4>1. /\ a \in Halves /\ a[2] - a[1] < p[2] - p[1]
            /\ b \in Halves /\ b[2] - b[1] < p[2] - p[1]
        BY <1>1, <3>3, Middle
      <4>2. a[2] - a[1] <= k /\ b[2] - b[1] <= k
        BY <1>1, <4>1
      <4>3. h[a] = f[a] /\ h[b] = f[b]
        BY <2>3, <4>1, <4>2
      <4> QED
        BY <3>1, <3>3, <4>3 DEF Halved
    <3> QED
      BY <3>2, <3>3
  <2> HIDE DEF h, Solves
  <2>5. \E g \in [Halves -> 0 .. Space] : Solves(g, k + 1)
    BY <2>2, <2>4
  <2> QED
    BY <2>5
<1>4. PICK f \in [Halves -> 0 .. Space] : Solves(f, Space)
  <2>1. Space \in Solved
    <3> HIDE DEF Solved
    <3> QED
      BY <1>2, <1>3, SizesPositive, Induction
  <2> HIDE DEF Solves
  <2> QED
    BY <2>1
<1>5. \A p \in Halves : f[p] = Halved(f, holds, p)
  BY <1>1, <1>4
<1>6. f = [p \in Halves |-> Halved(f, holds, p)]
  BY <1>4, <1>5
<1> QED
  BY <1>6

\* The search finds where `holds`, once true, stays true.
LEMMA LowerBoundIsLeast ==
  ASSUME NEW holds \in SUBSET (0 .. Space - 1),
         \A x \in holds : \A y \in 0 .. Space - 1 : x <= y => y \in holds
  PROVE  /\ LowerBound(holds) \in 0 .. Space
         /\ \A x \in 0 .. Space - 1 : x \in holds <=> LowerBound(holds) <= x
<1> DEFINE Body(f) == [p \in Halves |-> Halved(f, holds, p)]
           g == CHOOSE f : f = Body(f)
           Splits(lo, hi) == \A x \in 0 .. Space - 1 : (x < lo => x \notin holds) /\ (x >= hi => x \in holds)
<1>1. LowerBound(holds) = g[<<0, Space>>]
  BY DEF LowerBound, Halved, Halves
<1>2. g = Body(g)
  <2>1. \E f : f = Body(f)
    BY SearchExists
  <2> HIDE DEF Body
  <2> QED
    BY <2>1
<1> HIDE DEF g
<1>3. \A p \in Halves : g[p] = Halved(g, holds, p)
  BY <1>2
<1>4. \A p \in Halves : p[1] \in 0 .. Space /\ p[2] \in 0 .. Space /\ p = <<p[1], p[2]>>
  BY DEF Halves
<1>5. Space \in Nat
  BY SizesPositive
<1> DEFINE Right(p) == g[p] \in 0 .. Space /\ Splits(g[p], g[p])
           Good == {k \in Nat : \A p \in Halves :
                      p[1] <= p[2] /\ p[2] - p[1] <= k /\ Splits(p[1], p[2]) => Right(p)}
<1>6. 0 \in Good
  <2> SUFFICES ASSUME NEW p \in Halves, p[1] <= p[2], p[2] - p[1] <= 0, Splits(p[1], p[2])
               PROVE  Right(p)
    OBVIOUS
  <2>1. p[1] = p[2] /\ p[1] >= p[2]
    BY <1>4
  <2>2. g[p] = p[1]
    BY <1>3, <2>1 DEF Halved
  <2> QED
    BY <1>4, <2>1, <2>2
<1>7. ASSUME NEW k \in Nat, k \in Good
      PROVE  k + 1 \in Good
  <2> SUFFICES ASSUME NEW p \in Halves, p[1] <= p[2], p[2] - p[1] <= k + 1, Splits(p[1], p[2])
               PROVE  Right(p)
    OBVIOUS
  <2> DEFINE mid == (p[1] + p[2]) \div 2
             a == <<p[1], mid>>
             b == <<mid + 1, p[2]>>
  <2>1. CASE p[1] >= p[2]
    <3>1. g[p] = p[1]
      BY <1>3, <2>1 DEF Halved
    <3>2. p[1] = p[2]
      BY <1>4, <2>1
    <3> QED
      BY <1>4, <3>1, <3>2
  <2>2. CASE ~(p[1] >= p[2])
    <3>1. /\ a \in Halves /\ a[2] - a[1] < p[2] - p[1] /\ a[1] <= a[2]
          /\ b \in Halves /\ b[2] - b[1] < p[2] - p[1] /\ b[1] <= b[2]
          /\ mid \in 0 .. Space - 1
      BY <1>4, <2>2, Middle
    <3>2. a[2] - a[1] <= k /\ b[2] - b[1] <= k
      BY <1>4, <3>1
    <3>3. g[p] = IF mid \in holds THEN g[a] ELSE g[b]
      BY <1>3, <2>2 DEF Halved
    <3>4. CASE mid \in holds
      <4>1. \A x \in 0 .. Space - 1 : x >= mid => x \in holds
        BY <1>5, <3>1, <3>4
      <4>2. Splits(a[1], a[2])
        BY <4>1
      <4>3. Right(a)
        BY <1>7, <3>1, <3>2, <4>2
      <4>4. g[p] = g[a]
        BY <3>3, <3>4
      <4> QED
        BY <4>3, <4>4
    <3>5. CASE mid \notin holds
      <4>1. \A x \in 0 .. Space - 1 : x < mid + 1 => x \notin holds
        BY <1>5, <3>1, <3>5
      <4>2. Splits(b[1], b[2])
        BY <4>1
      <4>3. Right(b)
        BY <1>7, <3>1, <3>2, <4>2
      <4>4. g[p] = g[b]
        BY <3>3, <3>5
      <4> QED
        BY <4>3, <4>4
    <3> QED
      BY <3>4, <3>5
  <2> QED
    BY <2>1, <2>2
<1>8. Space \in Good
  <2> HIDE DEF Good
  <2> QED
    BY <1>5, <1>6, <1>7, Induction
<1>9. Right(<<0, Space>>)
  <2>1. <<0, Space>> \in Halves /\ Splits(0, Space)
    BY <1>5 DEF Halves
  <2> HIDE DEF Right, Splits
  <2> QED
    BY <1>5, <1>8, <2>1
<1> QED
  BY <1>1, <1>5, <1>9

\* The interval of a prefix is the addresses that carry it.
LEMMA RangeIsPrefix ==
  ASSUME NEW prefix \in Seq(Digits), Len(prefix) <= Length, NEW range, range = AddressRange(prefix)
  PROVE  /\ \A x \in 0 .. Space - 1 :
              (range.lo <= x /\ x <= range.hi) <=> IsPrefix(prefix, TronAddress(x))
         /\ (\E x \in 0 .. Space - 1 : IsPrefix(prefix, TronAddress(x))) => range.ok
<1> DEFINE Start(x) == Value(Base, SubSeq(TronAddress(x), 1, Len(prefix)))
           V == Value(Base, prefix)
           notLess == {x \in 0 .. Space - 1 : Start(x) >= V}
           greater == {x \in 0 .. Space - 1 : Start(x) > V}
           lo == LowerBound(notLess)
           past == LowerBound(greater)
<1>1. range.lo = lo /\ range.hi = past - 1 /\ range.ok = (lo < Space /\ (lo < Space => Start(lo) = V))
  BY DEF AddressRange
<1>2. Space \in Nat /\ Length \in Nat
  BY SizesPositive, SizesAssumption
<1>3. \A x \in 0 .. Space - 1 : /\ Start(x) \in Nat
                                /\ IsPrefix(prefix, TronAddress(x)) <=> (Start(x) = V)
                                /\ V \in Nat
  <2> SUFFICES ASSUME NEW x \in 0 .. Space - 1
               PROVE  /\ Start(x) \in Nat
                      /\ IsPrefix(prefix, TronAddress(x)) <=> (Start(x) = V)
                      /\ V \in Nat
    OBVIOUS
  <2>1. Length - Len(prefix) \in 0 .. Length
    BY <1>2
  <2>2. BasePower[Length - Len(prefix)] \in Nat \ {0} /\ Payload(x) \in Nat
    BY <2>1, PositivePowers, PayloadsRise
  <2>3. Start(x) = Payload(x) \div BasePower[Length - Len(prefix)]
    BY PrefixIsStart
  <2>4. Start(x) \in Nat
    BY <2>2, <2>3, DivMod
  <2> QED
    BY <2>3, <2>4, PrefixIsStart
<1>4. ASSUME NEW x \in 0 .. Space - 1, NEW y \in 0 .. Space - 1, x <= y
      PROVE  Start(x) <= Start(y)
  <2>1. Length - Len(prefix) \in 0 .. Length
    BY <1>2
  <2>2. /\ BasePower[Length - Len(prefix)] \in Nat \ {0}
        /\ Payload(x) \in Nat /\ Payload(y) \in Nat
    BY <2>1, PositivePowers, PayloadsRise
  <2>3. Payload(x) <= Payload(y)
    <3>1. x < y => Payload(x) < Payload(y)
      BY PayloadsRise
    <3> QED
      BY <1>2, <1>4, <2>2, <3>1
  <2>4. /\ Start(x) = Payload(x) \div BasePower[Length - Len(prefix)]
        /\ Start(y) = Payload(y) \div BasePower[Length - Len(prefix)]
    BY PrefixIsStart
  <2> HIDE DEF Start
  <2> QED
    BY <2>2, <2>3, <2>4, DivMonotone
<1> HIDE DEF Start, V
<1>5. /\ lo \in 0 .. Space
      /\ \A x \in 0 .. Space - 1 : x \in notLess <=> lo <= x
  <2>1. notLess \in SUBSET (0 .. Space - 1)
    OBVIOUS
  <2>2. \A x \in notLess : \A y \in 0 .. Space - 1 : x <= y => y \in notLess
    <3> SUFFICES ASSUME NEW x \in notLess, NEW y \in 0 .. Space - 1, x <= y PROVE y \in notLess
      OBVIOUS
    <3>1. x \in 0 .. Space - 1 /\ Start(x) >= V /\ Start(x) <= Start(y)
      BY <1>4
    <3> QED
      BY <1>3, <3>1
  <2> HIDE DEF notLess
  <2> QED
    BY <2>1, <2>2, LowerBoundIsLeast
<1>6. /\ past \in 0 .. Space
      /\ \A x \in 0 .. Space - 1 : x \in greater <=> past <= x
  <2>1. greater \in SUBSET (0 .. Space - 1)
    OBVIOUS
  <2>2. \A x \in greater : \A y \in 0 .. Space - 1 : x <= y => y \in greater
    <3> SUFFICES ASSUME NEW x \in greater, NEW y \in 0 .. Space - 1, x <= y PROVE y \in greater
      OBVIOUS
    <3>1. x \in 0 .. Space - 1 /\ Start(x) > V /\ Start(x) <= Start(y)
      BY <1>4
    <3> QED
      BY <1>3, <3>1
  <2> HIDE DEF greater
  <2> QED
    BY <2>1, <2>2, LowerBoundIsLeast
<1> HIDE DEF lo, past
<1>7. ASSUME NEW x \in 0 .. Space - 1
      PROVE  (range.lo <= x /\ x <= range.hi) <=> IsPrefix(prefix, TronAddress(x))
  <2>1. range.lo <= x <=> Start(x) >= V
    BY <1>1, <1>5
  <2>2. past <= x <=> Start(x) > V
    BY <1>6
  <2>3. x <= range.hi <=> ~(past <= x)
    BY <1>1, <1>2, <1>6
  <2> QED
    BY <1>3, <2>1, <2>2, <2>3
<1>8. ASSUME NEW x \in 0 .. Space - 1, IsPrefix(prefix, TronAddress(x))
      PROVE  range.ok
  <2>1. Start(x) = V
    BY <1>3, <1>8
  <2>2. lo <= x
    BY <1>3, <1>5, <2>1
  <2>3. lo \in 0 .. Space - 1
    BY <1>2, <1>5, <2>2
  <2>4. Start(lo) >= V
    BY <1>5, <2>3
  <2>5. Start(lo) <= Start(x)
    BY <1>4, <2>2, <2>3
  <2>6. Start(lo) = V
    BY <1>3, <2>1, <2>3, <2>4, <2>5
  <2>7. lo < Space
    BY <1>2, <2>3
  <2>8. (lo < Space /\ (lo < Space => Start(lo) = V)) = TRUE
    BY <2>6, <2>7
  <2> QED
    BY ONLY <1>1, <2>8, Zenon
<1> QED
  BY <1>7, <1>8

\* A longer prefix carries the shorter ones.
LEMMA PrefixOfPrefix ==
  ASSUME NEW value \in Seq(Digits), NEW k \in 1 .. Len(value), Len(value) <= Length,
         NEW x \in 0 .. Space - 1
  PROVE  LET start == SubSeq(value, 1, k) IN
         /\ start \in Seq(Digits) /\ Len(start) = k
         /\ IsPrefix(start, TronAddress(x)) <=> \A i \in 1 .. k : TronAddress(x)[i] = value[i]
<1> DEFINE start == SubSeq(value, 1, k)
           t == TronAddress(x)
<1>1. start \in Seq(Digits) /\ Len(start) = k /\ \A i \in 1 .. k : start[i] = value[i]
  BY SubSeqProperties
<1>2. t \in Seq(Digits) /\ Len(t) = Length /\ Length \in Nat
  BY AddressNumeral, SizesAssumption
<1>3. SubSeq(t, 1, k) \in Seq(Digits) /\ Len(SubSeq(t, 1, k)) = k
      /\ \A i \in 1 .. k : SubSeq(t, 1, k)[i] = t[i]
  BY <1>2, SubSeqProperties
<1> HIDE DEF start, t
<1>4. SubSeq(start, 1, k) = start
  BY <1>1
<1>5. IsPrefix(start, t) <=> start = SubSeq(t, 1, k)
  BY <1>1, <1>2, <1>4 DEF IsPrefix
<1>6. start = SubSeq(t, 1, k) <=> \A i \in 1 .. k : start[i] = SubSeq(t, 1, k)[i]
  BY <1>1, <1>3, SeqEqual
<1> QED
  BY <1>1, <1>3, <1>5, <1>6 DEF start, t

\* The deepest interval an address is in, and the length of the match after
\* the T, are one number.
LEMMA DepthIsRun ==
  ASSUME NEW value \in Seq(Digits), Len(value) \in 2 .. Length, value[1] = Tee,
         NEW x \in 0 .. Space - 1
  PROVE  /\ PrefixDepth(Ladder(value), x) = Run(PrefixMatches(value, TronAddress(x)), Len(value) - 1)
         /\ IsPrefix(value, TronAddress(x)) <=>
              1 .. (Len(value) - 1) \subseteq PrefixMatches(value, TronAddress(x))
<1> DEFINE n == Len(value) - 1
           ladder == Ladder(value)
           t == TronAddress(x)
           Good == PrefixMatches(value, t)
<1>1. Length \in Nat /\ n \in Nat /\ Len(value) = n + 1 /\ n >= 1
  BY SizesAssumption
<1>2. Good = {i \in 1 .. n : t[i + 1] = value[i + 1]}
  BY DEF PrefixMatches
<1>3. t[1] = Tee
  <2>1. /\ Payload(x) \div BasePower[Length - 1] = Tee
        /\ 1 \in 1 .. Length /\ Base \in Nat \ {0} /\ Tee \in 0 .. Base - 1
    BY PayloadFits, SizesAssumption
  <2>2. t[1] = (Payload(x) \div BasePower[Length - 1]) % Base
    BY <2>1 DEF TronAddress, InBase
  <2>3. Tee % Base = Tee
    BY <2>1
  <2> QED
    BY <2>1, <2>2, <2>3
<1>4. ASSUME NEW k \in 1 .. n
      PROVE  IsPrefix(SubSeq(value, 1, k + 1), t) <=> 1 .. k \subseteq Good
  <2>1. k + 1 \in 1 .. Len(value)
    BY <1>1
  <2>2. IsPrefix(SubSeq(value, 1, k + 1), t) <=> \A i \in 1 .. k + 1 : t[i] = value[i]
    BY <2>1, PrefixOfPrefix
  <2> HIDE DEF t, Good
  <2>3. ASSUME 1 .. k \subseteq Good
        PROVE  \A i \in 1 .. k + 1 : t[i] = value[i]
    <3> SUFFICES ASSUME NEW i \in 1 .. k + 1 PROVE t[i] = value[i]
      OBVIOUS
    <3>1. CASE i = 1
      BY <1>3, <3>1
    <3>2. CASE i # 1
      <4>1. i - 1 \in 1 .. k /\ (i - 1) + 1 = i
        BY <3>2
      <4> QED
        BY <1>2, <2>3, <4>1
    <3> QED
      BY <3>1, <3>2
  <2>4. ASSUME \A i \in 1 .. k + 1 : t[i] = value[i]
        PROVE  1 .. k \subseteq Good
    <3> SUFFICES ASSUME NEW i \in 1 .. k PROVE i \in Good
      OBVIOUS
    <3>1. i + 1 \in 1 .. k + 1 /\ i \in 1 .. n
      BY <1>1
    <3> QED
      BY <1>2, <2>4, <3>1
  <2> QED
    BY <2>2, <2>3, <2>4
<1>5. DOMAIN ladder = 1 .. n
  BY DEF Ladder
<1>6. ASSUME NEW k \in 1 .. n
      PROVE  (ladder[k].lo <= x /\ x <= ladder[k].hi) <=> 1 .. k \subseteq Good
  <2>1. k + 1 \in 1 .. Len(value) /\ k + 1 <= Length
    BY <1>1
  <2>2. SubSeq(value, 1, k + 1) \in Seq(Digits) /\ Len(SubSeq(value, 1, k + 1)) = k + 1
    BY <2>1, PrefixOfPrefix
  <2>3. ladder[k] = AddressRange(SubSeq(value, 1, k + 1))
    BY DEF Ladder
  <2>4. (ladder[k].lo <= x /\ x <= ladder[k].hi) <=> IsPrefix(SubSeq(value, 1, k + 1), t)
    BY <2>1, <2>2, <2>3, RangeIsPrefix
  <2> QED
    BY <1>4, <2>4
<1> HIDE DEF ladder, Good, t, n
<1>7. {0} \cup {k \in DOMAIN ladder : ladder[k].lo <= x /\ x <= ladder[k].hi}
        = {k \in 0 .. n : 1 .. k \subseteq Good}
  <2>1. 1 .. 0 = {} /\ \A k \in 0 .. n : k # 0 => k \in 1 .. n
    BY <1>1
  <2>2. \A k \in 1 .. n : k \in 0 .. n
    BY <1>1
  <2>3. 0 \in 0 .. n
    BY <1>1
  <2> QED
    BY <1>5, <1>6, <2>1, <2>2, <2>3
<1>8. PrefixDepth(ladder, x) = Run(Good, n)
  BY <1>7 DEF PrefixDepth, Run
<1>9. IsPrefix(value, t) <=> 1 .. n \subseteq Good
  <2>1. n \in 1 .. n /\ n + 1 = Len(value) /\ SubSeq(value, 1, Len(value)) = value
    BY <1>1
  <2> QED
    BY <1>4, <2>1
<1> QED
  BY <1>8, <1>9 DEF ladder, Good, t, n

\* A run is as long as it can be exactly when everything matches.
LEMMA RunReaches ==
  ASSUME NEW n \in Nat, NEW matching
  PROVE  Run(matching, n) \in 0 .. n /\ (Run(matching, n) >= n <=> 1 .. n \subseteq matching)
<1> DEFINE S == {k \in 0 .. n : 1 .. k \subseteq matching}
           Mirror == {n - k : k \in S}
<1>1. Mirror \subseteq Nat /\ Mirror # {}
  <2>1. 0 \in S
    OBVIOUS
  <2>2. \A k \in S : n - k \in Nat
    OBVIOUS
  <2> QED
    BY <2>1, <2>2
<1>2. \E m \in Mirror : \A j \in Mirror : m <= j
  <2> HIDE DEF Mirror
  <2> QED
    BY <1>1, Least
<1>3. PICK m \in S : \A j \in S : n - m <= n - j
  BY <1>2
<1>4. m \in S /\ \A j \in S : j <= m
  BY <1>3
<1>5. Run(matching, n) \in S /\ \A j \in S : j <= Run(matching, n)
  BY <1>4 DEF Run, MaxOf
<1>6. Run(matching, n) \in 0 .. n /\ 1 .. Run(matching, n) \subseteq matching
  BY <1>5
<1>7. 1 .. n \subseteq matching => n <= Run(matching, n)
  <2>1. 1 .. n \subseteq matching => n \in S
    OBVIOUS
  <2> QED
    BY <1>5, <2>1
<1>8. Run(matching, n) >= n => Run(matching, n) = n
  BY <1>6
<1> QED
  BY <1>6, <1>7, <1>8

-----------------------------------------------------------------------------
(* Suffixes.                                                               *)

LEMMA WordPositive == Word \in Nat \ {0}
<1>1. WordBits \in Nat /\ 2 \in Nat \ {0} /\ WordBits \in 0 .. WordBits
  BY SizesAssumption
<1>2. IsPowers(Powers(2, WordBits), 2, WordBits)
  BY <1>1, PowersArePowers
<1> QED
  BY <1>1, <1>2, PowersPositive DEF Word

\* r is the remainder after each byte.
IsRemainder(r, mod, s) ==
  /\ r \in [0 .. Len(s) -> Nat] /\ r[0] = 0
  /\ \A k \in 1 .. Len(s) : r[k] = ((r[k - 1] * Byte + s[k]) % Word) % mod

LEMMA RemainderSteps ==
  ASSUME NEW mod \in Nat \ {0}, NEW s \in Seq(Nat)
  PROVE  \E r : IsRemainder(r, mod, s) /\ Remainder(mod, s) = r[Len(s)]
<1> DEFINE n == Len(s)
           Step(v, c) == ((v * Byte + c) % Word) % mod
           F == [p \in (1 .. n) \X Nat |-> Step(p[2], s[p[1]])]
           Fold(g) == [d \in SUBSET DOMAIN s |->
                         IF d = {} THEN 0 ELSE Step(g[d \ {Max(d)}], s[Max(d)])]
<1>1. n \in Nat /\ DOMAIN s = 1 .. n /\ \A i \in 1 .. n : s[i] \in Nat
  OBVIOUS
<1>2. ASSUME NEW v \in Nat, NEW c \in Nat
      PROVE  Step(v, c) \in Nat
  <2>1. v * Byte + c \in Nat
    <3>1. v * Byte \in Nat
      BY SizesAssumption
    <3> QED
      BY <3>1
  <2> DEFINE a == v * Byte + c
  <2> HIDE DEF a
  <2>2. a % Word \in Nat
    BY <2>1, WordPositive, DivMod DEF a
  <2> DEFINE b == a % Word
  <2> HIDE DEF b
  <2>3. b % mod \in Nat
    BY <2>2, DivMod DEF b
  <2> QED
    BY <2>3 DEF a, b
<1> HIDE DEF Step
<1>3. \E g : g = Fold(g)
  <2>1. F \in [(1 .. n) \X Nat -> Nat]
    <3> SUFFICES ASSUME NEW p \in (1 .. n) \X Nat PROVE Step(p[2], s[p[1]]) \in Nat
      OBVIOUS
    <3>1. p[2] \in Nat /\ s[p[1]] \in Nat
      BY <1>1
    <3> QED
      BY <1>2, <3>1
  <2>2. PICK g \in [SUBSET (1 .. n) -> Nat] : IsFold(g, n, 0, F)
    <3> HIDE DEF F, n
    <3> QED
      BY <1>1, <2>1, FoldExists
  <2>3. ASSUME NEW d \in SUBSET (1 .. n), d # {}
        PROVE  <<Max(d), g[d \ {Max(d)}]>> \in (1 .. n) \X Nat
    <3>1. Max(d) \in 1 .. n
      BY <1>1, <2>3, MaxIn
    <3> QED
      BY <3>1
  <2>4. g = Fold(g)
    BY <1>1, <2>2, <2>3 DEF IsFold
  <2> QED
    BY <2>4
<1>4. PICK g : g = Fold(g) /\ Remainder(mod, s) = g[1 .. n]
  <2>1. Remainder(mod, s) = (CHOOSE g : g = Fold(g))[DOMAIN s]
    BY DEF Remainder, FoldLeft, MapThenFoldSet, Step
  <2> HIDE DEF Fold
  <2> QED
    BY <1>1, <1>3, <2>1
<1>5. g[1 .. 0] = 0
  <2>1. g[{}] = 0 /\ 1 .. 0 = {}
    BY <1>4
  <2> QED
    BY <2>1
<1>6. ASSUME NEW k \in 1 .. n
      PROVE  g[1 .. k] = Step(g[1 .. (k - 1)], s[k])
  <2>1. 1 .. k \in SUBSET DOMAIN s /\ k \in Nat \ {0}
    BY <1>1
  <2>2. Max(1 .. k) = k /\ (1 .. k) \ {k} = 1 .. (k - 1) /\ 1 .. k # {}
    BY <2>1, MaxOfPrefix
  <2> QED
    BY <1>4, <2>1, <2>2
<1> DEFINE r == [k \in 0 .. n |-> g[1 .. k]]
           Numbers == {k \in 0 .. n : g[1 .. k] \in Nat}
<1> HIDE DEF n
<1>7. ASSUME NEW m \in 0 .. n
      PROVE  g[1 .. m] \in Nat
  <2>1. 0 \in Numbers
    BY <1>1, <1>5
  <2>2. ASSUME NEW k \in 1 .. m, k - 1 \in Numbers
        PROVE  k \in Numbers
    <3>1. g[1 .. (k - 1)] \in Nat /\ s[k] \in Nat /\ k \in 1 .. n
      BY <1>1, <2>2
    <3> QED
      <4>1. Step(g[1 .. (k - 1)], s[k]) \in Nat
        BY <1>2, <3>1
      <4> QED
        BY <1>6, <3>1, <4>1
  <2>3. m \in Numbers
    <3> HIDE DEF Numbers
    <3> QED
      BY <1>1, <2>1, <2>2, Upto
  <2> QED
    BY <2>3
<1>8. r \in [0 .. n -> Nat] /\ r[0] = 0 /\ r[n] = g[1 .. n]
  BY <1>1, <1>5, <1>7
<1>9. \A k \in 1 .. n : r[k] = Step(r[k - 1], s[k])
  BY <1>1, <1>6
<1>10. IsRemainder(r, mod, s)
  <2> HIDE DEF r
  <2> QED
    BY <1>8, <1>9 DEF IsRemainder, n, Step
<1> QED
  BY <1>4, <1>8, <1>10 DEF n

\* The word never overflows: the remainder of the bytes is that of the number.
LEMMA RemainderIs ==
  ASSUME NEW n \in 0 .. MaxSuffix, NEW x \in 0 .. Space - 1
  PROVE  Remainder(BasePower[n], InBase(Byte, BytePower, PayloadBytes, Payload(x)))
           = Payload(x) % BasePower[n]
<1> DEFINE mod == BasePower[n]
           s == InBase(Byte, BytePower, PayloadBytes, Payload(x))
           L == PayloadBytes
<1>1. /\ Byte \in Nat \ {0} /\ Base \in Nat \ {0} /\ L \in Nat /\ n \in 0 .. Length
      /\ MaxSuffix \in 0 .. Length /\ n <= MaxSuffix /\ Length \in Nat
  BY SizesAssumption, BytePowers
<1>2. mod \in Nat \ {0} /\ Payload(x) \in Nat /\ BasePower[MaxSuffix] \in Nat
  BY <1>1, PositivePowers, PayloadsRise
<1>3. /\ s \in Seq(0 .. Byte - 1) /\ Len(s) = L
      /\ \A h : IsHorner(h, Byte, s) => \A k \in 0 .. L : h[k] = Payload(x) \div BytePower[L - k]
  BY <1>1, BytePowers, PayloadFits, NumeralIs
<1> HIDE DEF s, L
<1>4. s \in Seq(Nat)
  <2>1. 0 .. Byte - 1 \subseteq Nat
    BY <1>1
  <2> QED
    BY <1>3, <2>1, SeqMonotonic
<1>5. PICK h : IsHorner(h, Byte, s)
  BY <1>1, <1>4, ValueIsHorner
<1>6. PICK r : IsRemainder(r, mod, s) /\ Remainder(mod, s) = r[L]
  BY <1>2, <1>3, <1>4, RemainderSteps
<1>7. h[L] = Payload(x)
  <2>1. L \in 0 .. L /\ L - L = 0 /\ BytePower[0] = 1
    BY <1>1, BytePowers DEF IsPowers
  <2>2. h[L] = Payload(x) \div 1
    BY <1>3, <1>5, <2>1
  <2> QED
    BY <1>2, <2>2, DivOne
<1>8. mod * Byte <= Word
  <2>1. mod <= BasePower[MaxSuffix]
    BY <1>1, BasePowers, PowersGrow
  <2> DEFINE top == BasePower[MaxSuffix]
  <2> HIDE DEF mod, top
  <2>2. mod \in Nat /\ top \in Nat /\ mod <= top
    BY <1>2, <2>1 DEF top
  <2>3. mod < top => Byte * mod + Byte <= Byte * top
    BY <1>1, <2>2, Apart
  <2>4. Byte * mod \in Nat /\ Byte * top \in Nat /\ Byte * mod = mod * Byte /\ Byte * top = top * Byte
    BY <1>1, <2>2
  <2>5. mod * Byte <= top * Byte
    <3>1. CASE mod = top
      BY <2>4, <3>1
    <3>2. CASE mod < top
      BY <1>1, <2>3, <2>4, <3>2
    <3> QED
      BY <2>2, <3>1, <3>2
  <2>6. top * Byte <= Word
    BY TronAssumption DEF top
  <2> QED
    BY <2>4, <2>5, <2>6, WordPositive
<1> DEFINE Right == {k \in 0 .. L : r[k] = h[k] % mod}
<1>9. 0 \in Right
  <2>1. r[0] = 0 /\ h[0] = 0
    BY <1>5, <1>6 DEF IsHorner, IsRemainder
  <2>2. 0 % mod = 0
    BY <1>2
  <2> QED
    BY <1>1, <2>1, <2>2
<1>10. ASSUME NEW k \in 1 .. L, k - 1 \in Right
       PROVE  k \in Right
  <2> DEFINE u == h[k - 1]
             v == r[k - 1]
             b == s[k]
             q == u \div mod
  <2>1. k - 1 \in 0 .. L /\ k \in 1 .. Len(s)
    BY <1>1, <1>3
  <2>2. u \in Nat /\ b \in 0 .. Byte - 1
    <3>1. u \in Nat
      BY <1>3, <1>5, <2>1 DEF IsHorner
    <3>2. b \in 0 .. Byte - 1
      BY <1>3, <2>1, ElementOfSeq
    <3> QED
      BY <3>1, <3>2
  <2>3. v = u % mod
    BY <1>10
  <2>4. h[k] = u * Byte + b
    BY <1>5, <2>1 DEF IsHorner
  <2>5. r[k] = ((v * Byte + b) % Word) % mod
    BY <1>6, <2>1 DEF IsRemainder
  <2> HIDE DEF u, v, b, mod
  <2>6. q \in Nat /\ v \in Nat /\ v < mod /\ u = mod * q + v
    BY <1>2, <2>2, <2>3, DivMod
  <2> HIDE DEF q
  <2>7. v * Byte + b \in Nat /\ v * Byte + b < Word
    <3>1. Byte * v + Byte <= Byte * mod
      BY <1>1, <1>2, <2>6, Apart
    <3>2. Byte * v \in Nat /\ Byte * v = v * Byte /\ Byte * mod = mod * Byte /\ Byte * mod \in Nat
      BY <1>1, <1>2, <2>6
    <3> QED
      BY <1>1, <1>8, <2>2, <3>1, <3>2, WordPositive
  <2> DEFINE a == v * Byte + b
  <2>8. u * Byte + b = mod * (q * Byte) + a /\ q * Byte \in Nat
    <3>1. (mod * q + v) * Byte = mod * (q * Byte) + v * Byte /\ q * Byte \in Nat
      BY <1>1, <1>2, <2>6
    <3>2. mod * (q * Byte) \in Nat /\ v * Byte \in Nat
      BY <1>1, <1>2, <2>6
    <3>3. u * Byte = mod * (q * Byte) + v * Byte
      BY <2>6, <3>1
    <3> QED
      BY <2>2, <3>1, <3>2, <3>3
  <2> HIDE DEF a
  <2>9. a % Word = a
    BY <2>7, WordPositive DEF a
  <2>10. h[k] % mod = a % mod
    <3> DEFINE c == q * Byte
    <3> HIDE DEF c
    <3>1. c \in Nat /\ a \in Nat /\ h[k] = mod * c + a /\ mod \in Nat \ {0}
      BY <1>2, <2>4, <2>7, <2>8 DEF a, c, mod
    <3>2. (mod * c + a) % mod = a % mod
      BY <3>1, ModMultiple
    <3> QED
      BY <3>1, <3>2
  <2>11. r[k] = a % mod
    BY <2>5, <2>9 DEF a
  <2> QED
    BY <1>1, <2>1, <2>10, <2>11 DEF mod
<1>11. L \in Right
  <2> HIDE DEF Right
  <2> QED
    BY <1>1, <1>9, <1>10, Upto
<1> QED
  BY <1>6, <1>7, <1>11 DEF s, L

\* The last characters of a payload are those of its remainder.
LEMMA LastDigits ==
  ASSUME NEW n \in 0 .. Length, NEW i \in 1 .. n, NEW a \in Nat
  PROVE  ((a % BasePower[n]) \div BasePower[i - 1]) % Base = (a \div BasePower[i - 1]) % Base
<1> DEFINE mod == BasePower[n]
           low == BasePower[i - 1]
           high == BasePower[n - i]
           q == a \div mod
           r == a % mod
           c == high * q
<1>1. Length \in Nat /\ n \in Nat /\ i - 1 \in 0 .. Length /\ n - i \in 0 .. Length /\ i \in 1 .. Length
      /\ Base \in Nat \ {0} /\ i \in 0 .. Length /\ i + (n - i) = n
  BY SizesAssumption
<1>2. mod \in Nat \ {0} /\ low \in Nat \ {0} /\ high \in Nat \ {0}
  BY <1>1, PositivePowers
<1>3. mod = (Base * low) * high
  <2>1. BasePower[i] = Base * low
    BY <1>1, BasePowers DEF IsPowers
  <2>2. BasePower[i + (n - i)] = BasePower[i] * high
    BY <1>1, BasePowers, PowersAdd
  <2> QED
    BY <1>1, <2>1, <2>2
<1> HIDE DEF mod, low, high
<1>4. q \in Nat /\ r \in Nat /\ a = mod * q + r
  BY <1>2, DivMod
<1> HIDE DEF q, r
<1>5. c \in Nat /\ Base * c \in Nat /\ mod * q = low * (Base * c)
  <2>1. c \in Nat
    BY <1>2, <1>4
  <2>2. Base * c \in Nat
    <3> HIDE DEF c
    <3> QED
      BY <1>1, <2>1
  <2>3. ((Base * low) * high) * q = low * (Base * (high * q))
    BY <1>1, <1>2, <1>4
  <2> QED
    BY <1>3, <2>1, <2>2, <2>3
<1> HIDE DEF c
<1> DEFINE d == Base * c
           p == r \div low
<1>6. a \div low = d + p
  <2> HIDE DEF d
  <2>1. a = low * d + r /\ d \in Nat
    BY <1>4, <1>5 DEF d
  <2>2. (low * d + r) \div low = d + (r \div low)
    BY <1>2, <1>4, <2>1, DivShift
  <2> QED
    BY <2>1, <2>2
<1>7. p \in Nat
  BY <1>2, <1>4, DivMod
<1> HIDE DEF p
<1>8. (Base * c + p) % Base = p % Base
  BY <1>1, <1>5, <1>7, ModMultiple
<1> QED
  BY <1>6, <1>8 DEF p, r, mod, low

\* The kernel's remainder shows the characters the host compares.
LEMMA SuffixIsRun ==
  ASSUME NEW value \in Seq(Digits), Len(value) \in 1 .. MaxSuffix, NEW x \in 0 .. Space - 1
  PROVE  /\ SuffixDepth(Reverse(value), x) = Run(SuffixMatches(value, TronAddress(x)), Len(value))
         /\ IsSuffix(value, TronAddress(x)) <=>
              1 .. Len(value) \subseteq SuffixMatches(value, TronAddress(x))
<1> DEFINE n == Len(value)
           t == TronAddress(x)
           P == Payload(x)
           digits == Reverse(value)
           r == P % BasePower[n]
<1>1. n \in Nat /\ n \in 0 .. Length /\ n \in 0 .. MaxSuffix /\ Length \in Nat /\ MaxSuffix <= Length
  BY SizesAssumption
<1>2. P \in Nat
  BY PayloadsRise
<1>3. digits = [i \in 1 .. n |-> value[(n - i) + 1]] /\ Len(digits) = n
  BY <1>1 DEF Reverse
<1>4. SuffixDepth(digits, x) =
        Run({i \in 1 .. n : (r \div BasePower[i - 1]) % Base = digits[i]}, n)
  BY <1>1, <1>3, RemainderIs DEF SuffixDepth
<1>5. ASSUME NEW i \in 1 .. n
      PROVE  /\ t[Length + 1 - i] = (r \div BasePower[i - 1]) % Base
             /\ digits[i] = value[n + 1 - i]
  <2>1. Length + 1 - i \in 1 .. Length /\ Length - (Length + 1 - i) = i - 1 /\ (n - i) + 1 = n + 1 - i
    BY <1>1
  <2>2. t[Length + 1 - i] = (P \div BasePower[i - 1]) % Base
    BY <2>1 DEF TronAddress, InBase
  <2> QED
    BY <1>1, <1>2, <1>3, <2>1, <2>2, LastDigits
<1>6. SuffixMatches(value, t) = {i \in 1 .. n : (r \div BasePower[i - 1]) % Base = digits[i]}
  BY <1>5 DEF SuffixMatches
<1>7. t \in Seq(Digits) /\ Len(t) = Length
  BY AddressNumeral
<1> HIDE DEF t, r
<1>8. IsSuffix(value, t) <=> 1 .. n \subseteq SuffixMatches(value, t)
  <2> DEFINE back == Reverse(t)
  <2>1. back = [i \in 1 .. Length |-> t[(Length - i) + 1]] /\ Len(back) = Length /\ back \in Seq(Digits)
    <3>1. back = [i \in 1 .. Length |-> t[(Length - i) + 1]]
      BY <1>7 DEF Reverse
    <3>2. \A i \in 1 .. Length : t[(Length - i) + 1] \in Digits
      BY <1>1, <1>7
    <3> QED
      BY <1>1, <3>1, <3>2
  <2>2. digits \in Seq(Digits)
    <3>1. \A i \in 1 .. n : value[(n - i) + 1] \in Digits
      BY <1>1
    <3> QED
      BY <1>1, <1>3, <3>1
  <2>3. \A i \in 1 .. n : digits[i] = value[n + 1 - i] /\ back[i] = t[Length + 1 - i]
    <3>1. \A i \in 1 .. n : (Length - i) + 1 = Length + 1 - i /\ i \in 1 .. Length
      BY <1>1
    <3> QED
      BY <1>5, <2>1, <3>1
  <2> HIDE DEF digits, back
  <2>4. SubSeq(back, 1, n) \in Seq(Digits) /\ Len(SubSeq(back, 1, n)) = n
        /\ \A i \in 1 .. n : SubSeq(back, 1, n)[i] = back[i]
    BY <1>1, <2>1, SubSeqProperties
  <2>5. IsSuffix(value, t) <=> digits = SubSeq(back, 1, n)
    <3>1. SubSeq(digits, 1, n) = digits
      BY <1>3, <2>2
    <3>2. IsSuffix(value, t) <=> IsPrefix(digits, back)
      BY DEF IsSuffix, digits, back
    <3>3. Len(digits) = n /\ Len(back) = Length /\ n <= Length
      BY <1>1, <1>3, <2>1
    <3>4. IsPrefix(digits, back) <=> (n <= Length /\ SubSeq(digits, 1, n) = SubSeq(back, 1, n))
      BY <3>3 DEF IsPrefix
    <3> QED
      BY <3>1, <3>2, <3>3, <3>4
  <2>6. digits = SubSeq(back, 1, n) <=> \A i \in 1 .. n : digits[i] = SubSeq(back, 1, n)[i]
    BY <1>3, <2>2, <2>4, SeqEqual
  <2>7. digits = SubSeq(back, 1, n) <=>
          \A i \in 1 .. n : t[Length + 1 - i] = value[n + 1 - i]
    BY <2>3, <2>4, <2>6
  <2> QED
    BY <2>5, <2>7 DEF SuffixMatches
<1> QED
  BY <1>4, <1>6, <1>8 DEF t

-----------------------------------------------------------------------------
(* Patterns of nibbles.                                                    *)

Marks == {"0", "a", "X"}

LEMMA NibbleIsText ==
  ASSUME NEW c \in Marks, NEW k \in Nibbles
  PROVE  (PatternNibble(c) # Wildcard /\ k = PatternNibble(c)) <=> (c # "X" /\ HexText(k) = c)
<1>1. PatternNibble(c) = IF c = "0" THEN 0 ELSE IF c = "a" THEN 10 ELSE 255
  BY DEF PatternNibble, Wildcard
<1>2. HexText(k) = IF k = 0 THEN "0" ELSE IF k = 10 THEN "a" ELSE "b"
  BY DEF HexText
<1>3. k \in {0, 10, 11} /\ c \in {"0", "a", "X"} /\ Wildcard = 255
  BY DEF Marks, Nibbles, Wildcard
<1> QED
  BY <1>1, <1>2, <1>3

\* The pattern of the whole address.
Filled(value) ==
  [i \in 1 .. HexLen |-> IF i <= Len(value) THEN PatternNibble(value[i]) ELSE Wildcard]

\* The positions that match, to the kernel and to the host.
KernelMatches(want, a) == {i \in 1 .. HexLen : want[i] # Wildcard /\ a[i] = want[i]}
HostMatches(value, a) == {i \in Concrete(value) : HexText(a[i]) = value[i]}

LEMMA NibblesMatch ==
  ASSUME NEW value \in Seq(Marks), Len(value) \in 1 .. HexLen, NEW a \in [1 .. HexLen -> Nibbles]
  PROVE  /\ KernelMatches(Filled(value), a) = HostMatches(value, a)
         /\ (\A i \in Concrete(value) : HexText(a[i]) = value[i]) <=>
              Cardinality(HostMatches(value, a)) >= Cardinality(Concrete(value))
<1> DEFINE C == Concrete(value)
           R == HostMatches(value, a)
           want == Filled(value)
<1>1. HexLen \in Nat /\ C \subseteq 1 .. Len(value) /\ Len(value) \in Nat
  BY SizesAssumption DEF Concrete
<1>2. ASSUME NEW i \in 1 .. HexLen
      PROVE  (want[i] # Wildcard /\ a[i] = want[i]) <=> (i \in C /\ HexText(a[i]) = value[i])
  <2>1. CASE i <= Len(value)
    <3>1. i \in DOMAIN value /\ value[i] \in Marks /\ a[i] \in Nibbles /\ want[i] = PatternNibble(value[i])
      BY <1>1, <2>1 DEF Filled
    <3>2. i \in C <=> value[i] # "X"
      BY <3>1 DEF Concrete
    <3> QED
      BY <3>1, <3>2, NibbleIsText
  <2>2. CASE ~(i <= Len(value))
    <3>1. i \notin C /\ want[i] = Wildcard
      BY <1>1, <2>2 DEF Filled
    <3> QED
      BY <3>1
  <2> QED
    BY <2>1, <2>2
<1>3. \A i \in C : i \in 1 .. HexLen
  BY <1>1
<1> HIDE DEF C, want
<1>4. R = {i \in C : HexText(a[i]) = value[i]} /\ KernelMatches(want, a) = R
  BY <1>2, <1>3 DEF KernelMatches, HostMatches, C
<1>5. IsFiniteSet(C) /\ R \subseteq C
  <2>1. IsFiniteSet(1 .. Len(value))
    BY <1>1, FS_Interval
  <2> QED
    BY <1>1, <1>4, <2>1, FS_Subset
<1> HIDE DEF R
<1>6. IsFiniteSet(R) /\ Cardinality(R) <= Cardinality(C) /\ (Cardinality(R) = Cardinality(C) => R = C)
  BY <1>5, FS_Subset
<1>7. Cardinality(R) \in Nat /\ Cardinality(C) \in Nat
  BY <1>5, <1>6, FS_CardinalityType
<1>8. (\A i \in C : HexText(a[i]) = value[i]) <=> R = C
  BY <1>4
<1>9. R = C <=> Cardinality(R) >= Cardinality(C)
  BY <1>6, <1>7
<1> QED
  BY <1>4, <1>8, <1>9 DEF R, C, want

LEMMA LeadingMatch ==
  ASSUME NEW c \in {"0", "a"}, NEW a \in [1 .. HexLen -> Nibbles]
  PROVE  {i \in 1 .. HexLen : a[i] = PatternNibble(c)} = {i \in 1 .. HexLen : HexText(a[i]) = c}
<1>1. ASSUME NEW i \in 1 .. HexLen
      PROVE  a[i] = PatternNibble(c) <=> HexText(a[i]) = c
  <2>1. a[i] \in {0, 10, 11}
    BY DEF Nibbles
  <2>2. PatternNibble(c) = IF c = "0" THEN 0 ELSE 10
    BY DEF PatternNibble
  <2>3. HexText(a[i]) = IF a[i] = 0 THEN "0" ELSE IF a[i] = 10 THEN "a" ELSE "b"
    BY DEF HexText
  <2> QED
    BY <2>1, <2>2, <2>3
<1> QED
  BY <1>1

-----------------------------------------------------------------------------
(* From what was typed to the score.                                       *)

LEMMA SeqOfIsSeq == ASSUME NEW S, NEW n \in Nat, NEW s \in SeqOf(S, n) PROVE s \in Seq(S)
<1>1. PICK m \in 0 .. n : s \in [1 .. m -> S]
  BY DEF SeqOf
<1> QED
  BY <1>1

Met(prefix) == \E x \in 0 .. Space - 1 : IsPrefix(prefix, TronAddress(x))

\* What a pattern is, once accepted: what cudaConfig and the scores rely on.
PatternOk ==
  LET value == pattern.value IN
  /\ pattern.kind \in Kinds /\ pattern.kind = text.kind
  /\ pattern.kind = "pattern" =>
       value \in Seq(Marks) /\ Len(value) \in 1 .. HexLen /\ pattern.count = Cardinality(Concrete(value))
  /\ pattern.kind = "leading" => value[1] \in {"0", "a"}
  /\ pattern.kind = "tron-prefix" =>
       /\ value \in Seq(Digits) /\ Len(value) \in 2 .. MaxPrefix + 1 /\ value[1] = Tee
       /\ pattern.count = Len(value) - 1
       /\ value = <<Tee>> \o Bare(text.value) /\ Met(value)
  /\ pattern.kind = "tron-suffix" =>
       value \in Seq(Digits) /\ Len(value) \in 1 .. MaxSuffix /\ pattern.count = Len(value)

\* The configuration says what the pattern says.
ConfigOk ==
  LET value == pattern.value IN
  /\ config.mode = pattern.kind
  /\ pattern.kind = "pattern" =>
       config.target = Filled(value)
  /\ pattern.kind = "leading" => config.target = <<PatternNibble(value[1])>>
  /\ pattern.kind = "tron-prefix" => config.target = Ladder(value)
  /\ pattern.kind = "tron-suffix" => config.target = Reverse(value)

AddressOk ==
  /\ pattern.kind \in {"pattern", "leading"} => address \in [1 .. HexLen -> Nibbles]
  /\ pattern.kind \in {"tron-prefix", "tron-suffix"} => address \in 0 .. Space - 1

\* Refused is only what no address can have.
RefusedOk ==
  /\ pattern = NoText
  /\ text.kind = "tron-prefix" /\ WellFormed(Bare(text.value), MaxPrefix) =>
       ~Met(<<Tee>> \o Bare(text.value))

PatternInv ==
  /\ stage \in {"typed", "parsed", "configured", "scored", "refused"}
  /\ stage = "typed" => text = NoText /\ pattern = NoText
  /\ stage \in {"parsed", "configured", "scored"} => PatternOk
  /\ stage \in {"configured", "scored"} => ConfigOk
  /\ stage = "scored" => AddressOk
  /\ stage = "refused" => RefusedOk

LEMMA PatternParsed ==
  ASSUME PatternInv, NEW value \in SeqOf(HexChars, HexLen + 1), ParsePattern(value)
  PROVE  PatternInv'
<1>1. value \in Seq(HexChars)
  BY SizesAssumption, SeqOfIsSeq
<1>2. /\ stage = "typed" /\ pattern = NoText
      /\ text' = [kind |-> "pattern", value |-> value, count |-> 0]
  BY DEF ParsePattern, Typed, PatternInv
<1>3. CASE Len(value) \in 1 .. HexLen /\ "g" \notin ToSet(value)
  <2> DEFINE normal == [i \in DOMAIN value |-> Normal(value[i])]
  <2>1. normal \in Seq(Marks) /\ Len(normal) = Len(value)
    <3>1. \A i \in 1 .. Len(value) : Normal(value[i]) \in Marks
      <4> SUFFICES ASSUME NEW i \in 1 .. Len(value) PROVE Normal(value[i]) \in Marks
        OBVIOUS
      <4>1. value[i] \in HexChars /\ value[i] # "g"
        BY <1>1, <1>3 DEF ToSet
      <4> QED
        BY <4>1 DEF HexChars, Normal, Marks
    <3> QED
      BY <1>1, <3>1
  <2> HIDE DEF normal
  <2>2. pattern' = [kind |-> "pattern", value |-> normal, count |-> Cardinality(Concrete(normal))]
        /\ stage' = "parsed"
    BY <1>3 DEF ParsePattern, Accept, normal
  <2>3. PatternOk'
    BY <1>2, <1>3, <2>1, <2>2 DEF PatternOk, Kinds
  <2> QED
    BY <2>2, <2>3 DEF PatternInv
<1>4. CASE ~(Len(value) \in 1 .. HexLen /\ "g" \notin ToSet(value))
  <2>1. stage' = "refused" /\ pattern' = NoText
    BY <1>2, <1>4 DEF ParsePattern, Refuse
  <2> QED
    BY <1>2, <2>1 DEF PatternInv, RefusedOk
<1> QED
  BY <1>3, <1>4

LEMMA LeadingParsed ==
  ASSUME PatternInv, NEW value \in SeqOf(HexChars, 2), NEW count \in 0 .. HexLen + 1,
         ParseLeading(value, count)
  PROVE  PatternInv'
<1>1. /\ stage = "typed" /\ pattern = NoText
      /\ text' = [kind |-> "leading", value |-> value, count |-> count]
  BY DEF ParseLeading, Typed, PatternInv
<1> DEFINE right == Len(value) = 1 /\ value[1] \in {"0", "a", "A"} /\ count \in 1 .. HexLen
<1>2. CASE right
  <2>1. /\ pattern' = [kind |-> "leading", value |-> <<Normal(value[1])>>, count |-> count]
        /\ stage' = "parsed"
    BY <1>2 DEF ParseLeading, Accept
  <2>2. Normal(value[1]) \in {"0", "a"}
    BY <1>2 DEF Normal
  <2>3. PatternOk'
    BY <1>1, <2>1, <2>2 DEF PatternOk, Kinds
  <2> QED
    BY <2>1, <2>3 DEF PatternInv
<1>3. CASE ~right
  <2>1. stage' = "refused" /\ pattern' = NoText
    BY <1>1, <1>3 DEF ParseLeading, Refuse
  <2> QED
    BY <1>1, <2>1 DEF PatternInv, RefusedOk
<1> QED
  BY <1>2, <1>3

LEMMA PrefixParsed ==
  ASSUME PatternInv, NEW value \in SeqOf(TextDigits, MaxPrefix + 2), ParseTronPrefix(value)
  PROVE  PatternInv'
<1> DEFINE bare == Bare(value)
           full == <<Tee>> \o bare
<1>1. /\ stage = "typed" /\ pattern = NoText
      /\ text' = [kind |-> "tron-prefix", value |-> value, count |-> 0]
  BY DEF ParseTronPrefix, Typed, PatternInv
<1>2. bare \in Seq(TextDigits)
  <2>1. value \in Seq(TextDigits)
    BY SizesAssumption, SeqOfIsSeq
  <2>2. value # <<>> => Tail(value) \in Seq(TextDigits)
    BY <2>1, HeadTailProperties
  <2> QED
    BY <2>1, <2>2 DEF Bare
<1>3. ASSUME WellFormed(bare, MaxPrefix)
      PROVE  /\ full \in Seq(Digits) /\ Len(full) \in 2 .. MaxPrefix + 1 /\ full[1] = Tee
             /\ Len(full) - 1 \in Nat
             /\ Reachable(full) <=> Met(full)
  <2>1. bare \in Seq(Digits) /\ Len(bare) \in 1 .. MaxPrefix /\ Tee \in Digits /\ MaxPrefix \in Nat
    <3>1. \A i \in 1 .. Len(bare) : bare[i] \in Digits
      <4> SUFFICES ASSUME NEW i \in 1 .. Len(bare) PROVE bare[i] \in Digits
        OBVIOUS
      <4>1. bare[i] \in TextDigits /\ bare[i] # BadDigit
        BY <1>2, <1>3 DEF WellFormed, ToSet
      <4> QED
        BY <4>1 DEF TextDigits
    <3>2. Len(bare) \in 1 .. MaxPrefix /\ Tee \in Digits /\ MaxPrefix \in Nat
      BY <1>3, SizesAssumption DEF WellFormed, Digits
    <3>3. bare \in Seq(Digits)
      BY <1>2, <3>1
    <3> QED
      BY <3>2, <3>3
  <2> HIDE DEF bare
  <2>2. full \in Seq(Digits) /\ Len(full) = 1 + Len(bare) /\ full[1] = Tee
    <3>1. <<Tee>> \in Seq(Digits) /\ Len(<<Tee>>) = 1 /\ <<Tee>>[1] = Tee
      BY <2>1
    <3> QED
      BY <2>1, <3>1, ConcatProperties
  <2> HIDE DEF full
  <2>3. Len(full) \in 2 .. MaxPrefix + 1 /\ Len(full) <= MaxPrefix + 1 /\ Len(full) - 1 \in Nat
    BY <2>1, <2>2
  <2>4. Reachable(full) <=> Met(full)
    BY <2>2, <2>3, ReachableIsMet DEF Met
  <2> QED
    BY <2>2, <2>3, <2>4
<1>4. CASE WellFormed(bare, MaxPrefix) /\ Reachable(full)
  <2>1. pattern' = [kind |-> "tron-prefix", value |-> full, count |-> Len(full) - 1] /\ stage' = "parsed"
    BY <1>4 DEF ParseTronPrefix, Accept
  <2>2. Met(full)
    BY <1>3, <1>4
  <2>3. pattern'.value = <<Tee>> \o Bare(text'.value)
    BY <1>1, <2>1
  <2>4. PatternOk'
    <3>1. Met(pattern.value)'
      BY <2>1, <2>2 DEF Met
    <3> HIDE DEF full
    <3> QED
      BY <1>1, <1>3, <1>4, <2>1, <2>3, <3>1 DEF PatternOk, Kinds
  <2> QED
    BY <2>1, <2>4 DEF PatternInv
<1>5. CASE ~(WellFormed(bare, MaxPrefix) /\ Reachable(full))
  <2>1. stage' = "refused" /\ pattern' = NoText
    BY <1>1, <1>5 DEF ParseTronPrefix, Refuse
  <2>2. text'.value = value
    BY <1>1
  <2>3. WellFormed(bare, MaxPrefix) => ~Met(full)
    BY <1>3, <1>5
  <2>4. RefusedOk'
    BY <2>1, <2>2, <2>3 DEF RefusedOk, Met
  <2> QED
    BY <2>1, <2>4 DEF PatternInv
<1> QED
  BY <1>4, <1>5

LEMMA SuffixParsed ==
  ASSUME PatternInv, NEW value \in SeqOf(TextDigits, MaxSuffix + 1), ParseTronSuffix(value)
  PROVE  PatternInv'
<1>1. /\ stage = "typed" /\ pattern = NoText
      /\ text' = [kind |-> "tron-suffix", value |-> value, count |-> 0]
  BY DEF ParseTronSuffix, Typed, PatternInv
<1>2. value \in Seq(TextDigits)
  BY SizesAssumption, SeqOfIsSeq
<1>3. CASE WellFormed(value, MaxSuffix)
  <2>1. pattern' = [kind |-> "tron-suffix", value |-> value, count |-> Len(value)] /\ stage' = "parsed"
    BY <1>3 DEF ParseTronSuffix, Accept
  <2>2. value \in Seq(Digits) /\ Len(value) \in 1 .. MaxSuffix
    <3>1. \A i \in 1 .. Len(value) : value[i] \in Digits
      <4> SUFFICES ASSUME NEW i \in 1 .. Len(value) PROVE value[i] \in Digits
        OBVIOUS
      <4>1. value[i] \in TextDigits /\ value[i] # BadDigit
        BY <1>2, <1>3 DEF WellFormed, ToSet
      <4> QED
        BY <4>1 DEF TextDigits
    <3>2. Len(value) \in 1 .. MaxSuffix
      BY <1>3 DEF WellFormed
    <3>3. value \in Seq(Digits)
      BY <1>2, <3>1
    <3> QED
      BY <3>2, <3>3
  <2>3. PatternOk'
    BY <1>1, <2>1, <2>2 DEF PatternOk, Kinds
  <2> QED
    BY <2>1, <2>3 DEF PatternInv
<1>4. CASE ~WellFormed(value, MaxSuffix)
  <2>1. stage' = "refused" /\ pattern' = NoText
    BY <1>1, <1>4 DEF ParseTronSuffix, Refuse
  <2> QED
    BY <1>1, <2>1 DEF PatternInv, RefusedOk
<1> QED
  BY <1>3, <1>4

\* Every level of a prefix that an address has, has an address.
LEMMA LadderOk ==
  ASSUME NEW value \in Seq(Digits), Len(value) \in 2 .. MaxPrefix + 1, Met(value)
  PROVE  /\ Len(Ladder(value)) \in 1 .. MaxPrefix
         /\ \A k \in DOMAIN Ladder(value) : Ladder(value)[k].ok
<1>1. MaxPrefix \in Nat /\ MaxPrefix < Length /\ Length \in Nat /\ Len(value) <= Length
  BY SizesAssumption
<1>2. DOMAIN Ladder(value) = 1 .. Len(value) - 1 /\ Len(Ladder(value)) = Len(value) - 1
  BY <1>1 DEF Ladder
<1>3. PICK x \in 0 .. Space - 1 : IsPrefix(value, TronAddress(x))
  BY DEF Met
<1>4. ASSUME NEW k \in 1 .. Len(value) - 1
      PROVE  Ladder(value)[k].ok
  <2> DEFINE start == SubSeq(value, 1, k + 1)
  <2>1. k + 1 \in 1 .. Len(value) /\ Len(value) \in 1 .. Len(value) /\ k + 1 <= Length
    BY <1>1
  <2>2. /\ start \in Seq(Digits) /\ Len(start) = k + 1
        /\ IsPrefix(start, TronAddress(x)) <=> \A i \in 1 .. k + 1 : TronAddress(x)[i] = value[i]
    BY <1>1, <2>1, PrefixOfPrefix
  <2>3. \A i \in 1 .. Len(value) : TronAddress(x)[i] = value[i]
    <3>1. SubSeq(value, 1, Len(value)) = value
      OBVIOUS
    <3> QED
      BY <1>1, <1>3, <2>1, <3>1, PrefixOfPrefix
  <2>4. IsPrefix(start, TronAddress(x))
    BY <2>1, <2>2, <2>3
  <2>5. Ladder(value)[k] = AddressRange(start)
    BY DEF Ladder
  <2> HIDE DEF start
  <2> QED
    BY <2>1, <2>2, <2>4, <2>5, RangeIsPrefix
<1> QED
  BY <1>1, <1>2, <1>4

LEMMA ConfigureKeeps == ASSUME PatternInv, Configure PROVE PatternInv'
<1>1. /\ stage = "parsed" /\ PatternOk
      /\ text' = text /\ pattern' = pattern /\ address' = address
  BY DEF Configure, PatternInv
<1>2. PatternOk'
  <2>1. Met(pattern.value) => Met(pattern.value)'
    BY <1>1 DEF Met
  <2> QED
    BY <1>1, <2>1 DEF PatternOk
<1> SUFFICES stage' = "configured" /\ ConfigOk'
  BY <1>2 DEF PatternInv
<1>3. CASE /\ pattern.kind = "pattern"
           /\ Configured([i \in 1 .. HexLen |->
                IF i <= Len(pattern.value) THEN PatternNibble(pattern.value[i]) ELSE Wildcard])
  BY <1>1, <1>3 DEF Configured, ConfigOk, Filled
<1>4. CASE pattern.kind = "leading" /\ Configured(<<PatternNibble(pattern.value[1])>>)
  BY <1>1, <1>4 DEF Configured, ConfigOk
<1>5. CASE /\ pattern.kind = "tron-prefix"
           /\ LET ladder == Ladder(pattern.value) IN
              IF Len(ladder) \in 1 .. MaxPrefix /\ \A k \in DOMAIN ladder : ladder[k].ok
              THEN Configured(ladder)
              ELSE stage' = "refused" /\ UNCHANGED config
  <2>1. /\ Len(Ladder(pattern.value)) \in 1 .. MaxPrefix
        /\ \A k \in DOMAIN Ladder(pattern.value) : Ladder(pattern.value)[k].ok
    BY <1>1, <1>5, LadderOk DEF PatternOk
  <2>2. Configured(Ladder(pattern.value))
    BY <1>5, <2>1
  <2>3. stage' = "configured" /\ config'.mode = pattern.kind /\ config'.target = Ladder(pattern.value)
    BY <2>2 DEF Configured
  <2> QED
    BY <1>1, <1>5, <2>3 DEF ConfigOk
<1>6. CASE pattern.kind = "tron-suffix" /\ Configured(SuffixDigits(pattern.value))
  BY <1>1, <1>6 DEF Configured, ConfigOk, SuffixDigits
<1> QED
  BY <1>3, <1>4, <1>5, <1>6 DEF Configure

LEMMA TryKeeps == ASSUME PatternInv, Try PROVE PatternInv'
<1>1. /\ stage = "configured" /\ stage' = "scored" /\ PatternOk /\ ConfigOk
      /\ text' = text /\ pattern' = pattern /\ config' = config
  BY DEF Try, PatternInv
<1>2. PatternOk' /\ ConfigOk'
  <2>1. Met(pattern.value) => Met(pattern.value)'
    BY <1>1 DEF Met
  <2> QED
    BY <1>1, <2>1 DEF PatternOk, ConfigOk
<1>3. AddressOk'
  BY <1>1 DEF Try, AddressOk
<1> QED
  BY <1>1, <1>2, <1>3 DEF PatternInv

LEMMA PatternKept == ASSUME PatternInv, [AlgorithmsNext]_<<vars, walkVars, given>> PROVE PatternInv'
<1>1. CASE UNCHANGED vars
  <2>1. text' = text /\ pattern' = pattern /\ stage' = stage /\ config' = config /\ address' = address
    BY <1>1 DEF vars
  <2> QED
    BY <2>1 DEF PatternInv, PatternOk, ConfigOk, AddressOk, RefusedOk, Met
<1>2. CASE Next
  <2>1. CASE Parse
    BY <2>1, PatternParsed, LeadingParsed, PrefixParsed, SuffixParsed DEF Parse
  <2> QED
    BY <1>2, <2>1, ConfigureKeeps, TryKeeps DEF Next
<1> QED
  BY <1>1, <1>2 DEF AlgorithmsNext, Computes, Tunes, Walks, vars

\* In every reachable state what is held of a pattern says what was typed.
LEMMA PatternHolds == AlgorithmsSpec => []PatternInv
<1>1. AlgorithmsInit => PatternInv
  BY DEF AlgorithmsInit, Init, PatternInv
<1> QED
  BY <1>1, PatternKept, PTL DEF AlgorithmsSpec

\* The kernel and the host give one score, and it reaches the target exactly
\* when the address matches, whatever the sizes and the checksums.
THEOREM ScoresAreOne == AlgorithmsSpec => []ScoresAgree
<1>1. ASSUME PatternInv, stage = "scored"
      PROVE  KernelScore = HostScore /\ (Matches <=> HostScore >= pattern.count)
  <2> DEFINE value == pattern.value
  <2>1. PatternOk /\ ConfigOk /\ AddressOk
    BY <1>1 DEF PatternInv
  <2>2. config.mode = pattern.kind /\ pattern.kind \in Kinds
    BY <2>1 DEF PatternOk, ConfigOk
  <2>3. CASE pattern.kind = "pattern"
    <3>1. /\ value \in Seq(Marks) /\ Len(value) \in 1 .. HexLen
          /\ address \in [1 .. HexLen -> Nibbles] /\ pattern.count = Cardinality(Concrete(value))
          /\ config.target = Filled(value)
      BY <2>1, <2>3 DEF PatternOk, ConfigOk, AddressOk
    <3>2. /\ KernelScore = Cardinality(KernelMatches(config.target, address))
          /\ HostScore = Cardinality(HostMatches(value, address))
          /\ Matches <=> \A i \in Concrete(value) : HexText(address[i]) = value[i]
      BY <2>2, <2>3 DEF KernelScore, HostScore, Matches, KernelMatches, HostMatches
    <3> HIDE DEF value
    <3>3. /\ KernelMatches(Filled(value), address) = HostMatches(value, address)
          /\ (\A i \in Concrete(value) : HexText(address[i]) = value[i]) <=>
               Cardinality(HostMatches(value, address)) >= Cardinality(Concrete(value))
      BY <3>1, NibblesMatch
    <3> QED
      BY <3>1, <3>2, <3>3
  <2>4. CASE pattern.kind = "leading"
    <3>1. /\ value[1] \in {"0", "a"} /\ address \in [1 .. HexLen -> Nibbles]
          /\ config.target = <<PatternNibble(value[1])>>
      BY <2>1, <2>4 DEF PatternOk, ConfigOk, AddressOk
    <3>2. /\ KernelScore = Run({i \in 1 .. HexLen : address[i] = config.target[1]}, HexLen)
          /\ HostScore = Run({i \in 1 .. HexLen : HexText(address[i]) = value[1]}, HexLen)
          /\ Matches <=> HostScore >= pattern.count
      BY <2>2, <2>4 DEF KernelScore, HostScore, Matches
    <3>3. config.target[1] = PatternNibble(value[1])
      BY <3>1
    <3> DEFINE c == value[1]
    <3> HIDE DEF c
    <3>4. {i \in 1 .. HexLen : address[i] = PatternNibble(c)} = {i \in 1 .. HexLen : HexText(address[i]) = c}
      BY <3>1, LeadingMatch DEF c
    <3> QED
      BY <3>2, <3>3, <3>4 DEF c
  <2>5. CASE pattern.kind = "tron-prefix"
    <3> DEFINE t == TronAddress(address)
               n == Len(value) - 1
    <3>1. /\ value \in Seq(Digits) /\ Len(value) \in 2 .. MaxPrefix + 1 /\ value[1] = Tee
          /\ pattern.count = n /\ address \in 0 .. Space - 1 /\ config.target = Ladder(value)
      BY <2>1, <2>5 DEF PatternOk, ConfigOk, AddressOk
    <3>2. /\ KernelScore = PrefixDepth(Ladder(value), address)
          /\ HostScore = Run(PrefixMatches(value, t), n)
          /\ Matches <=> IsPrefix(value, t)
      BY <2>2, <2>5, <3>1 DEF KernelScore, HostScore, Matches
    <3> HIDE DEF value
    <3>3. Len(value) \in 2 .. Length /\ n \in Nat
      BY <3>1, SizesAssumption
    <3>4. /\ PrefixDepth(Ladder(value), address) = Run(PrefixMatches(value, t), n)
          /\ IsPrefix(value, t) <=> 1 .. n \subseteq PrefixMatches(value, t)
      BY <3>1, <3>3, DepthIsRun
    <3>5. Run(PrefixMatches(value, t), n) >= n <=> 1 .. n \subseteq PrefixMatches(value, t)
      BY <3>3, RunReaches
    <3> HIDE DEF t, n
    <3> QED
      BY <3>1, <3>2, <3>4, <3>5
  <2>6. CASE pattern.kind = "tron-suffix"
    <3> DEFINE t == TronAddress(address)
               n == Len(value)
    <3>1. /\ value \in Seq(Digits) /\ Len(value) \in 1 .. MaxSuffix
          /\ pattern.count = n /\ address \in 0 .. Space - 1 /\ config.target = Reverse(value)
      BY <2>1, <2>6 DEF PatternOk, ConfigOk, AddressOk
    <3>2. /\ KernelScore = SuffixDepth(Reverse(value), address)
          /\ HostScore = Run(SuffixMatches(value, t), n)
          /\ Matches <=> IsSuffix(value, t)
      BY <2>2, <2>6, <3>1 DEF KernelScore, HostScore, Matches
    <3> HIDE DEF value
    <3>3. n \in Nat
      BY <3>1
    <3>4. /\ SuffixDepth(Reverse(value), address) = Run(SuffixMatches(value, t), n)
          /\ IsSuffix(value, t) <=> 1 .. n \subseteq SuffixMatches(value, t)
      BY <3>1, SuffixIsRun
    <3>5. Run(SuffixMatches(value, t), n) >= n <=> 1 .. n \subseteq SuffixMatches(value, t)
      BY <3>3, RunReaches
    <3> HIDE DEF t, n
    <3> QED
      BY <3>1, <3>2, <3>4, <3>5
  <2> QED
    BY <2>2, <2>3, <2>4, <2>5, <2>6 DEF Kinds
<1>2. PatternInv => ScoresAgree
  BY <1>1 DEF ScoresAgree
<1> QED
  BY <1>2, PatternHolds, PTL

\* The parser refuses exactly the prefixes that no address has, and cudaConfig
\* none that the parser accepts.
THEOREM ParserKnows == AlgorithmsSpec => []ParserIsExact
<1>1. ASSUME PatternInv
      PROVE  ParserIsExact
  <2>1. CASE stage = "refused"
    <3>1. RefusedOk
      BY <1>1, <2>1 DEF PatternInv
    <3> QED
      BY <2>1, <3>1 DEF RefusedOk, ParserIsExact, Met
  <2>2. CASE stage = "typed"
    <3>1. text.kind = "none"
      BY <1>1, <2>2 DEF PatternInv, NoText
    <3> QED
      BY <2>2, <3>1 DEF ParserIsExact
  <2>3. CASE stage \in {"parsed", "configured", "scored"}
    <3>1. PatternOk
      BY <1>1, <2>3 DEF PatternInv
    <3>2. text.kind = "tron-prefix" => Met(<<Tee>> \o Bare(text.value))
      BY <3>1 DEF PatternOk
    <3> QED
      BY <2>3, <3>2 DEF ParserIsExact, Met
  <2> QED
    BY <1>1, <2>1, <2>2, <2>3 DEF PatternInv
<1> QED
  BY <1>1, PatternHolds, PTL

-----------------------------------------------------------------------------
(* The field.                                                              *)

\* a and b leave the same remainder by m.
Same(m, a, b) == \E k \in Int : a = b + m * k

\* A number is the remainder it leaves.
LEMMA ModInt ==
  ASSUME NEW m \in Nat \ {0}, NEW a \in Int
  PROVE  a % m \in 0 .. m - 1 /\ Same(m, a, a % m)
<1>1. a % m \in 0 .. m - 1
  OBVIOUS
<1>2. a \div m \in Int /\ a % m = a - m * (a \div m)
  OBVIOUS
<1>3. PICK k \in Int : a % m = a - m * k
  BY <1>2
<1>4. a = (a % m) + m * k
  BY <1>1, <1>3
<1> QED
  BY <1>1, <1>4 DEF Same

\* Reduced numbers that are the same are equal.
LEMMA SameIsEqual ==
  ASSUME NEW m \in Nat \ {0}, NEW a \in 0 .. m - 1, NEW b \in 0 .. m - 1, Same(m, a, b)
  PROVE  a = b
<1>1. PICK k \in Int : a = b + m * k
  BY DEF Same
<1>2. ~(k >= 1) /\ ~(k <= -1)
  <2>1. k >= 1 => m * k >= m
    OBVIOUS
  <2>2. k <= -1 => m * k <= -m
    OBVIOUS
  <2> QED
    BY <1>1, <2>1, <2>2
<1> QED
  BY <1>1, <1>2

\* Being the same is an equivalence that sums and products respect.
LEMMA SameRefl ==
  ASSUME NEW m \in Nat \ {0}, NEW a \in Int
  PROVE  Same(m, a, a)
  BY a = a + m * 0 DEF Same

LEMMA SameSym ==
  ASSUME NEW m \in Nat \ {0}, NEW a \in Int, NEW b \in Int, Same(m, a, b)
  PROVE  Same(m, b, a)
<1>1. PICK k \in Int : a = b + m * k
  BY DEF Same
<1>2. b = a + m * (-k) /\ -k \in Int
  BY <1>1
<1> QED
  BY <1>2 DEF Same

LEMMA SameTrans ==
  ASSUME NEW m \in Nat \ {0}, NEW a \in Int, NEW b \in Int, NEW c \in Int, Same(m, a, b), Same(m, b, c)
  PROVE  Same(m, a, c)
<1>1. PICK k \in Int : a = b + m * k
  BY DEF Same
<1>2. PICK l \in Int : b = c + m * l
  BY DEF Same
<1>3. a = c + m * (k + l) /\ k + l \in Int
  BY <1>1, <1>2
<1> QED
  BY <1>3 DEF Same

LEMMA SameSum ==
  ASSUME NEW m \in Nat \ {0}, NEW a \in Int, NEW b \in Int, NEW c \in Int, NEW d \in Int,
         Same(m, a, b), Same(m, c, d)
  PROVE  Same(m, a + c, b + d) /\ Same(m, a - c, b - d)
<1>1. PICK k \in Int : a = b + m * k
  BY DEF Same
<1>2. PICK l \in Int : c = d + m * l
  BY DEF Same
<1>3. a + c = (b + d) + m * (k + l) /\ k + l \in Int
  BY <1>1, <1>2
<1>4. a - c = (b - d) + m * (k - l) /\ k - l \in Int
  BY <1>1, <1>2
<1> QED
  BY <1>3, <1>4 DEF Same

LEMMA SameProduct ==
  ASSUME NEW m \in Nat \ {0}, NEW a \in Int, NEW b \in Int, NEW c \in Int, NEW d \in Int,
         Same(m, a, b), Same(m, c, d)
  PROVE  Same(m, a * c, b * d)
<1>1. PICK k \in Int : a = b + m * k
  BY DEF Same
<1>2. PICK l \in Int : c = d + m * l
  BY DEF Same
<1>3. a * c = b * d + m * (k * d + b * l + k * m * l)
  BY <1>1, <1>2
<1>4. k * d + b * l + k * m * l \in Int
  OBVIOUS
<1> QED
  BY <1>3, <1>4 DEF Same

\* Equal remainders are congruence.
LEMMA SameMod ==
  ASSUME NEW m \in Nat \ {0}, NEW a \in Int, NEW b \in Int
  PROVE  Same(m, a, b) <=> a % m = b % m
<1>1. a % m \in 0 .. m - 1 /\ Same(m, a, a % m) /\ b % m \in 0 .. m - 1 /\ Same(m, b, b % m)
  BY ModInt
<1> DEFINE r == a % m
           s == b % m
<1>2. r \in 0 .. m - 1 /\ s \in 0 .. m - 1 /\ r \in Int /\ s \in Int /\ Same(m, a, r) /\ Same(m, b, s)
  BY <1>1
<1> HIDE DEF r, s
<1>3. ASSUME Same(m, a, b)
      PROVE  r = s
  <2>1. Same(m, r, a)
    BY <1>2, SameSym
  <2>2. Same(m, r, b)
    BY <1>2, <1>3, <2>1, SameTrans
  <2>3. Same(m, r, s)
    BY <1>2, <2>2, SameTrans
  <2> QED
    BY <1>2, <2>3, SameIsEqual
<1>4. ASSUME r = s
      PROVE  Same(m, a, b)
  <2>1. Same(m, r, b)
    BY <1>2, <1>4, SameSym
  <2> QED
    BY <1>2, <2>1, SameTrans
<1> QED
  BY <1>3, <1>4 DEF r, s

\* The remainder is the reduced number that is the same.
LEMMA ModIs ==
  ASSUME NEW m \in Nat \ {0}, NEW a \in Int, NEW b \in 0 .. m - 1, Same(m, a, b)
  PROVE  a % m = b
<1>1. b \in Int /\ a % m \in 0 .. m - 1 /\ Same(m, a, a % m)
  BY ModInt
<1> DEFINE r == a % m
<1>2. r \in 0 .. m - 1 /\ r \in Int /\ Same(m, a, r)
  BY <1>1
<1> HIDE DEF r
<1>3. Same(m, r, a)
  BY <1>2, SameSym
<1>4. Same(m, r, b)
  BY <1>1, <1>2, <1>3, SameTrans
<1>5. r = b
  BY <1>2, <1>4, SameIsEqual
<1> QED
  BY <1>5 DEF r

\* How large the numbers are.
LEMMA FieldSizes ==
  /\ LimbBase \in Nat /\ LimbBase >= 2 /\ FullBase \in Nat /\ FieldMod \in Nat \ {0} /\ FoldC \in Nat
  /\ FullBase = FieldMod + FoldC /\ 0 < FoldC /\ FoldC < LimbBase
  /\ LimbBase * LimbBase \in Nat /\ FullBase = (LimbBase * LimbBase) * (LimbBase * LimbBase)
  /\ 2 * LimbBase <= LimbBase * LimbBase /\ 2 * (LimbBase * LimbBase) <= FullBase
<1> DEFINE b == LimbBase
           s == b * b
<1>1. b \in Nat /\ b >= 2 /\ FoldC \in Nat /\ 0 < FoldC /\ FoldC < b
  BY FieldAssumption
<1>2. s \in Nat /\ 2 * b <= s /\ 4 <= s
  <2>1. s \in Nat
    BY <1>1
  <2>2. b * b >= 2 * b
    BY <1>1
  <2> QED
    BY <1>1, <2>1, <2>2
<1>3. FullBase = s * s
  BY <1>1 DEF FullBase
<1> HIDE DEF s
<1>4. s * s \in Nat /\ 4 * s <= s * s
  BY <1>2
<1> DEFINE f == s * s
<1> HIDE DEF f
<1>5. f \in Nat /\ 4 * s <= f
  BY <1>4 DEF f
<1>6. FieldMod = f - FoldC
  BY <1>3 DEF FieldMod, f
<1>7. FieldMod \in Nat \ {0} /\ f = FieldMod + FoldC
  BY <1>1, <1>2, <1>5, <1>6
<1>8. 2 * s <= f
  BY <1>2, <1>5
<1> QED
  BY <1>1, <1>2, <1>3, <1>4, <1>7, <1>8 DEF f, s

\* The modulus is odd, the full base is even.
LEMMA Parities ==
  /\ FullBase \div 2 \in Nat /\ FullBase = 2 * (FullBase \div 2)
  /\ FieldMod = 2 * (FieldMod \div 2) + 1 /\ FieldMod \div 2 \in Nat
<1>1. PICK h \in Nat : LimbBase = 2 * h
  <2>1. LimbBase \in Nat /\ LimbBase % 2 = 0
    BY FieldAssumption
  <2> QED
    BY <2>1
<1>2. FullBase = 2 * (h * LimbBase * LimbBase * LimbBase) /\ h * LimbBase * LimbBase * LimbBase \in Nat
  <2>1. FullBase = (2 * h) * (LimbBase * LimbBase * LimbBase)
    BY <1>1, FieldSizes DEF FullBase
  <2>2. LimbBase * LimbBase * LimbBase \in Nat
    BY FieldSizes
  <2> DEFINE c == LimbBase * LimbBase * LimbBase
  <2>3. h * LimbBase * LimbBase * LimbBase = h * c
    BY FieldSizes
  <2> HIDE DEF c
  <2>4. c \in Nat /\ FullBase = (2 * h) * c
    BY <2>1, <2>2 DEF c
  <2>5. (2 * h) * c = 2 * (h * c) /\ h * c \in Nat
    BY <2>4
  <2> QED
    BY <2>3, <2>4, <2>5
<1>3. PICK q \in Nat : FullBase = 2 * q
  BY <1>2
<1>4. FullBase \div 2 = q
  BY <1>3
<1>5. FieldMod \in Nat /\ FieldMod % 2 = 1
  BY FieldSizes, FieldAssumption
<1>6. FieldMod = 2 * (FieldMod \div 2) + 1 /\ FieldMod \div 2 \in Nat
  BY <1>5
<1> QED
  BY <1>3, <1>4, <1>6

-----------------------------------------------------------------------------
(* Sums and differences.                                                   *)

LEMMA AddRawIs ==
  ASSUME NEW a \in 0 .. FullBase - 1, NEW b \in 0 .. FullBase - 1
  PROVE  /\ a + b < FullBase => AddRaw(a, b).v = a + b /\ AddRaw(a, b).carry = 0
         /\ a + b >= FullBase => AddRaw(a, b).v = a + b - FullBase /\ AddRaw(a, b).carry = 1
         /\ AddRaw(a, b).v \in 0 .. FullBase - 1
<1> DEFINE f == FullBase
<1>1. f \in Nat \ {0} /\ a \in 0 .. f - 1 /\ b \in 0 .. f - 1
  BY FieldSizes
<1>2. AddRaw(a, b).v = (a + b) % f /\ AddRaw(a, b).carry = (a + b) \div f
  BY DEF AddRaw
<1> HIDE DEF f
<1>3. CASE a + b < f
  <2> DEFINE r == a + b
  <2>1. r \in Nat /\ r < f /\ 0 \in Nat /\ f * 0 + r = r
    BY <1>1, <1>3
  <2> HIDE DEF r
  <2>2. (f * 0 + r) \div f = 0 /\ (f * 0 + r) % f = r
    BY <1>1, <2>1, DivModIs
  <2> QED
    BY <1>1, <1>2, <1>3, <2>1, <2>2 DEF f, r
<1>4. CASE a + b >= f
  <2> DEFINE r == a + b - f
  <2>1. r \in Nat /\ r < f /\ a + b = f * 1 + r
    BY <1>1, <1>4
  <2> HIDE DEF r
  <2>2. (f * 1 + r) \div f = 1 /\ (f * 1 + r) % f = r
    BY <1>1, <2>1, DivModIs
  <2> QED
    BY <1>1, <1>2, <1>4, <2>1, <2>2 DEF f, r
<1> QED
  BY <1>1, <1>3, <1>4

\* felt_sub_raw: the difference, or what borrows to it.
LEMMA SubRawIs ==
  ASSUME NEW a \in 0 .. FullBase - 1, NEW b \in 0 .. FullBase - 1
  PROVE  /\ a < b => SubRaw(a, b).v = a - b + FullBase
         /\ ~(a < b) => SubRaw(a, b).v = a - b
         /\ SubRaw(a, b).borrow = (a < b)
         /\ SubRaw(a, b).v \in 0 .. FullBase - 1
<1> DEFINE f == FullBase
<1>1. f \in Nat \ {0} /\ a \in 0 .. f - 1 /\ b \in 0 .. f - 1 /\ a - b \in Int
  BY FieldSizes
<1>2. SubRaw(a, b).v = (a - b) % f /\ SubRaw(a, b).borrow = (a < b)
  BY DEF SubRaw
<1> HIDE DEF f
<1>3. CASE a < b
  <2>1. a - b + f \in 0 .. f - 1 /\ a - b = (a - b + f) + f * (-1)
    BY <1>1, <1>3
  <2>2. Same(f, a - b, a - b + f)
    BY <2>1 DEF Same
  <2>3. (a - b) % f = a - b + f
    BY <1>1, <2>1, <2>2, ModIs
  <2> QED
    BY <1>1, <1>2, <1>3, <2>1, <2>3 DEF f
<1>4. CASE ~(a < b)
  <2>1. a - b \in 0 .. f - 1
    BY <1>1, <1>4
  <2>2. Same(f, a - b, a - b)
    BY <1>1, SameRefl
  <2>3. (a - b) % f = a - b
    BY <1>1, <2>1, <2>2, ModIs
  <2> QED
    BY <1>1, <1>2, <1>4, <2>1, <2>3 DEF f
<1> QED
  BY <1>3, <1>4

\* felt_reduce_once: the modulus is subtracted where it fits.
LEMMA ReduceOnceIs ==
  ASSUME NEW a \in 0 .. FullBase - 1
  PROVE  ReduceOnce(a) = (IF a < FieldMod THEN a ELSE a - FieldMod) /\ ReduceOnce(a) \in Elements
<1>1. FieldMod \in 0 .. FullBase - 1 /\ 2 * FieldMod >= FullBase
  BY FieldSizes
<1>2. /\ SubRaw(a, FieldMod).borrow = (a < FieldMod)
      /\ ~(a < FieldMod) => SubRaw(a, FieldMod).v = a - FieldMod
  BY <1>1, SubRawIs
<1>3. ReduceOnce(a) = IF a < FieldMod THEN a ELSE a - FieldMod
  BY <1>2 DEF ReduceOnce
<1> QED
  BY <1>1, <1>3, FieldSizes DEF Elements

\* felt_normalize leaves what one subtraction of the modulus can reduce reduced.
LEMMA NormalizedIs ==
  ASSUME NEW a \in 0 .. FullBase - 1
  PROVE  Normalized(a) = (IF a < FieldMod THEN a ELSE a - FieldMod)
<1> DEFINE times == [i \in 1 .. 8 |-> i]
           V == 0 .. FullBase - 1
           F == [p \in (1 .. 8) \X V |-> ReduceOnce(p[2])]
           Fold(g) == [s \in SUBSET DOMAIN times |-> IF s = {} THEN a ELSE ReduceOnce(g[s \ {Max(s)}])]
<1>1. DOMAIN times = 1 .. 8 /\ 8 \in Nat
  OBVIOUS
<1>2. \A r \in V : ReduceOnce(r) \in V /\ ReduceOnce(r) \in Elements
  BY ReduceOnceIs, FieldSizes DEF Elements
<1>3. \E g : g = Fold(g)
  <2>1. F \in [(1 .. 8) \X V -> V]
    <3> SUFFICES ASSUME NEW p \in (1 .. 8) \X V PROVE ReduceOnce(p[2]) \in V
      OBVIOUS
    <3>1. p[2] \in V
      OBVIOUS
    <3> HIDE DEF V
    <3> QED
      BY <1>2, <3>1
  <2>2. PICK g \in [SUBSET (1 .. 8) -> V] : IsFold(g, 8, a, F)
    <3>1. \E g \in [SUBSET (1 .. 8) -> V] : IsFold(g, 8, a, F)
      <4>1. a \in V
        OBVIOUS
      <4> HIDE DEF F, V
      <4> QED
        BY <1>1, <2>1, <4>1, FoldExists
    <3> QED
      BY <3>1
  <2>3. ASSUME NEW s \in SUBSET (1 .. 8), s # {}
        PROVE  <<Max(s), g[s \ {Max(s)}]>> \in (1 .. 8) \X V
    <3>1. Max(s) \in 1 .. 8
      BY <1>1, <2>3, MaxIn
    <3> HIDE DEF V
    <3> QED
      BY <2>2, <3>1
  <2>4. g = Fold(g)
    <3>1. g = [s \in SUBSET (1 .. 8) |-> g[s]]
      BY <2>2
    <3>2. \A s \in SUBSET (1 .. 8) : g[s] = IF s = {} THEN a ELSE ReduceOnce(g[s \ {Max(s)}])
      <4> HIDE DEF V
      <4> QED
        BY <2>2, <2>3 DEF IsFold
    <3> QED
      BY <1>1, <3>1, <3>2
  <2> QED
    BY <2>4
<1>4. PICK g : g = Fold(g) /\ Normalized(a) = g[1 .. 8]
  <2>1. Normalized(a) = (CHOOSE g : g = Fold(g))[DOMAIN times]
    BY DEF Normalized, FoldLeft, MapThenFoldSet
  <2> HIDE DEF Fold, times
  <2> QED
    BY <1>1, <1>3, <2>1
<1> DEFINE once == IF a < FieldMod THEN a ELSE a - FieldMod
           Good == {k \in 0 .. 8 : k > 0 => g[1 .. k] = once}
<1>5. g[{}] = a /\ 1 .. 0 = {}
  BY <1>4
<1>6. ASSUME NEW k \in 1 .. 8
      PROVE  g[1 .. k] = ReduceOnce(g[1 .. (k - 1)])
  <2>1. 1 .. k \in SUBSET DOMAIN times /\ k \in Nat \ {0}
    BY <1>1
  <2>2. Max(1 .. k) = k /\ (1 .. k) \ {Max(1 .. k)} = 1 .. (k - 1) /\ 1 .. k # {}
    BY <2>1, MaxOfPrefix
  <2> QED
    BY <1>4, <2>1, <2>2
<1>7. ReduceOnce(a) = once /\ once \in Elements
  BY ReduceOnceIs
<1>8. once \in V /\ ReduceOnce(once) = once
  <2> HIDE DEF once
  <2>1. once \in 0 .. FullBase - 1 /\ once < FieldMod
    BY <1>7, FieldSizes DEF Elements
  <2> QED
    BY <2>1, ReduceOnceIs
<1>9. 0 \in Good
  OBVIOUS
<1>10. ASSUME NEW k \in 1 .. 8, k - 1 \in Good
       PROVE  k \in Good
  <2> SUFFICES g[1 .. k] = once
    OBVIOUS
  <2>1. CASE k = 1
    <3>1. g[1 .. (k - 1)] = a
      BY <1>5, <2>1
    <3> QED
      BY <1>6, <1>7, <3>1
  <2>2. CASE k # 1
    <3>1. g[1 .. (k - 1)] = once
      BY <1>10, <2>2
    <3> HIDE DEF once
    <3> QED
      BY <1>6, <1>8, <3>1
  <2> QED
    BY <2>1, <2>2
<1>11. 8 \in Good
  <2> HIDE DEF Good
  <2> QED
    BY <1>1, <1>9, <1>10, Upto
<1> QED
  BY <1>4, <1>11

\* felt_fold_overflow adds FoldC, again if that overflows.
LEMMA FoldOverflowIs ==
  ASSUME NEW a \in 0 .. FullBase - 1
  PROVE  FoldOverflow(a) = IF a + FoldC < FullBase THEN a + FoldC ELSE a + FoldC - FullBase + FoldC
<1> DEFINE V == 0 .. FullBase - 1
           Fold(f) == [r \in V |-> LET sum == AddRaw(r, FoldC) IN IF sum.carry = 1 THEN f[sum.v] ELSE sum.v]
           folded == [r \in V |-> IF r + FoldC < FullBase THEN r + FoldC ELSE r + FoldC - FullBase + FoldC]
<1>1. FoldC \in V /\ FullBase \in Nat /\ 2 * FoldC < FullBase
  BY FieldSizes
<1>2. ASSUME NEW r \in V, r + FoldC >= FullBase
      PROVE  /\ AddRaw(r, FoldC).carry = 1 /\ AddRaw(r, FoldC).v = r + FoldC - FullBase
             /\ r + FoldC - FullBase \in V /\ (r + FoldC - FullBase) + FoldC < FullBase
  BY <1>1, <1>2, AddRawIs
<1>3. ASSUME NEW r \in V, r + FoldC < FullBase
      PROVE  AddRaw(r, FoldC).carry = 0 /\ AddRaw(r, FoldC).v = r + FoldC
  BY <1>1, <1>3, AddRawIs
<1>4. folded = Fold(folded)
  <2> SUFFICES ASSUME NEW r \in V
               PROVE  folded[r] = IF AddRaw(r, FoldC).carry = 1 THEN folded[AddRaw(r, FoldC).v]
                                  ELSE AddRaw(r, FoldC).v
    OBVIOUS
  <2>1. CASE r + FoldC < FullBase
    BY <1>3, <2>1
  <2>2. CASE ~(r + FoldC < FullBase)
    <3>1. r + FoldC >= FullBase
      BY <1>1, <2>2
    <3>2. folded[r + FoldC - FullBase] = (r + FoldC - FullBase) + FoldC
      BY <1>2, <3>1
    <3>3. folded[r] = r + FoldC - FullBase + FoldC
      BY <2>2
    <3> QED
      BY <1>2, <3>1, <3>2, <3>3
  <2> QED
    BY <2>1, <2>2
<1>5. PICK f : f = Fold(f) /\ FoldOverflow(a) = f[a]
  <2>1. FoldOverflow(a) = (CHOOSE f : f = Fold(f))[a]
    BY DEF FoldOverflow
  <2> HIDE DEF Fold, folded
  <2> QED
    BY <1>4, <2>1
<1>6. \A r \in V : f[r] = IF AddRaw(r, FoldC).carry = 1 THEN f[AddRaw(r, FoldC).v]
                          ELSE AddRaw(r, FoldC).v
  BY <1>5
<1> HIDE DEF Fold, folded
<1>7. CASE a + FoldC < FullBase
  BY <1>3, <1>5, <1>6, <1>7
<1>8. CASE ~(a + FoldC < FullBase)
  <2>1. a + FoldC >= FullBase
    BY <1>1, <1>8
  <2> DEFINE r == a + FoldC - FullBase
  <2>2. AddRaw(a, FoldC).carry = 1 /\ AddRaw(a, FoldC).v = r /\ r \in V /\ r + FoldC < FullBase
    BY <1>2, <2>1
  <2> HIDE DEF r
  <2>3. f[a] = f[r]
    BY <1>6, <2>2
  <2>4. f[r] = r + FoldC
    BY <1>3, <1>6, <2>2
  <2> QED
    BY <1>5, <1>8, <2>3, <2>4 DEF r
<1> QED
  BY <1>7, <1>8

\* felt_mod_add is the sum of the field.
LEMMA ModAddIs ==
  ASSUME NEW a \in Elements, NEW b \in Elements
  PROVE  ModAdd(a, b) \in Elements /\ ModAdd(a, b) = (a + b) % FieldMod
<1>1. a \in 0 .. FullBase - 1 /\ b \in 0 .. FullBase - 1 /\ a + b < 2 * FieldMod
  BY FieldSizes DEF Elements
<1> DEFINE r == IF a + b < FieldMod THEN a + b ELSE a + b - FieldMod
<1>2. r \in 0 .. FieldMod - 1 /\ (a + b = r + FieldMod * 0 \/ a + b = r + FieldMod * 1)
  BY <1>1, FieldSizes DEF Elements
<1>3. (a + b) % FieldMod = r
  <2>1. Same(FieldMod, a + b, r)
    BY <1>2 DEF Same
  <2> HIDE DEF r
  <2> QED
    BY <1>1, <1>2, <2>1, FieldSizes, ModIs
<1>4. ModAdd(a, b) = r
  <2> DEFINE sum == AddRaw(a, b)
             c == IF sum.carry = 1 THEN FoldOverflow(sum.v) ELSE sum.v
  <2>1. ModAdd(a, b) = Normalized(c)
    BY DEF ModAdd
  <2>2. CASE a + b < FullBase
    <3>1. sum.v = a + b /\ sum.carry = 0
      BY <1>1, <2>2, AddRawIs
    <3> DEFINE n == a + b
    <3>2. c = n
      BY <3>1
    <3>3. n \in 0 .. FullBase - 1
      BY <1>1, <2>2, FieldSizes
    <3> HIDE DEF c, n
    <3>4. Normalized(c) = IF n < FieldMod THEN n ELSE n - FieldMod
      BY <3>2, <3>3, NormalizedIs
    <3> QED
      BY <1>1, <2>1, <3>4, FieldSizes DEF n
  <2>3. CASE a + b >= FullBase
    <3>1. sum.v = a + b - FullBase /\ sum.carry = 1 /\ sum.v \in 0 .. FullBase - 1
      BY <1>1, <2>3, AddRawIs
    <3>2. a + b - FullBase + FoldC = a + b - FieldMod /\ a + b - FullBase + FoldC < FieldMod
      BY <1>1, <2>3, FieldSizes
    <3>3. FoldOverflow(sum.v) = a + b - FieldMod
      BY <1>1, <3>1, <3>2, FoldOverflowIs, FieldSizes
    <3>4. c = a + b - FieldMod /\ a + b - FieldMod \in 0 .. FullBase - 1
      BY <1>1, <2>3, <3>1, <3>2, <3>3, FieldSizes
    <3>5. Normalized(c) = a + b - FieldMod
      BY <3>2, <3>4, NormalizedIs, FieldSizes, <1>1
    <3>6. ~(a + b < FieldMod)
      BY <2>3, <1>1, FieldSizes
    <3> QED
      BY <2>1, <3>5, <3>6
  <2> QED
    BY <1>1, <2>2, <2>3, FieldSizes
<1> QED
  BY <1>2, <1>3, <1>4 DEF Elements

\* felt_mod_sub is the difference of the field.
LEMMA ModSubIs ==
  ASSUME NEW a \in Elements, NEW b \in Elements
  PROVE  /\ ModSub(a, b) \in Elements /\ ModSub(a, b) = (a - b) % FieldMod
         /\ Same(FieldMod, ModSub(a, b), a - b)
<1>1. a \in 0 .. FullBase - 1 /\ b \in 0 .. FullBase - 1 /\ FieldMod \in 0 .. FullBase - 1 /\ a - b \in Int
  BY FieldSizes DEF Elements
<1> DEFINE r == IF a < b THEN a - b + FieldMod ELSE a - b
<1>2. r \in 0 .. FieldMod - 1 /\ r \in Elements /\ (a - b = r + FieldMod * 0 \/ a - b = r + FieldMod * (-1))
  BY <1>1, FieldSizes DEF Elements
<1>3. Same(FieldMod, a - b, r)
  BY <1>2 DEF Same
<1>4. ModSub(a, b) = r
  <2> DEFINE d == SubRaw(a, b)
  <2>1. ModSub(a, b) = IF d.borrow THEN AddRaw(d.v, FieldMod).v ELSE d.v
    BY DEF ModSub
  <2>2. CASE a < b
    <3>1. d.borrow = TRUE /\ d.v = a - b + FullBase /\ d.v \in 0 .. FullBase - 1
      BY <1>1, <2>2, SubRawIs
    <3>2. d.v + FieldMod >= FullBase
      BY <1>1, <2>2, <3>1, FieldSizes DEF Elements
    <3>3. AddRaw(d.v, FieldMod).v = d.v + FieldMod - FullBase
      BY <1>1, <3>1, <3>2, AddRawIs
    <3> QED
      BY <1>1, <2>1, <2>2, <3>1, <3>3, FieldSizes
  <2>3. CASE ~(a < b)
    <3>1. ~ d.borrow /\ d.v = a - b
      BY <1>1, <2>3, SubRawIs
    <3> QED
      BY <2>1, <2>3, <3>1
  <2> QED
    BY <2>2, <2>3
<1> HIDE DEF r
<1>5. (a - b) % FieldMod = r
  BY <1>1, <1>2, <1>3, FieldSizes, ModIs
<1>6. Same(FieldMod, r, a - b)
  BY <1>1, <1>2, <1>3, FieldSizes, SameSym
<1> QED
  BY <1>2, <1>4, <1>5, <1>6

\* felt_mod_half of an element is an element, of any number it is a number.
LEMMA ModHalfIs ==
  ASSUME NEW a \in 0 .. FullBase - 1
  PROVE  /\ a % 2 = 0 => 2 * ModHalf(a) = a
         /\ a % 2 = 1 => 2 * ModHalf(a) = a + FieldMod
         /\ ModHalf(a) \in 0 .. FullBase - 1
         /\ a \in Elements => ModHalf(a) \in Elements
<1>1. FieldMod \in 0 .. FullBase - 1 /\ FullBase \in Nat /\ a \in Nat
  BY FieldSizes
<1>2. PICK h \in Nat : FullBase \div 2 = h /\ FullBase = 2 * h
  BY Parities
<1>3. PICK m \in Nat : FieldMod = 2 * m + 1
  BY Parities
<1>4. CASE a % 2 = 0
  <2>1. ModHalf(a) = a \div 2 + 0 * h
    BY <1>2, <1>4 DEF ModHalf
  <2>2. ModHalf(a) = a \div 2
    BY <1>1, <1>2, <2>1
  <2> QED
    BY <1>1, <1>4, <2>2 DEF Elements
<1>5. CASE a % 2 = 1
  <2>1. PICK l \in Nat : a = 2 * l + 1
    <3>1. a = 2 * (a \div 2) + 1 /\ a \div 2 \in Nat
      BY <1>1, <1>5
    <3> QED
      BY <3>1
  <2> DEFINE sum == AddRaw(a, FieldMod)
  <2>2. ModHalf(a) = sum.v \div 2 + sum.carry * h
    BY <1>2, <1>5 DEF ModHalf
  <2>3. CASE a + FieldMod < FullBase
    <3>1. sum.v = a + FieldMod /\ sum.carry = 0
      BY <1>1, <2>3, AddRawIs
    <3>2. sum.v = 2 * (l + m + 1)
      BY <1>3, <2>1, <3>1
    <3>3. ModHalf(a) = l + m + 1
      BY <1>2, <2>2, <3>1, <3>2
    <3> QED
      BY <1>1, <1>3, <1>5, <2>1, <2>3, <3>3 DEF Elements
  <2>4. CASE a + FieldMod >= FullBase
    <3>1. sum.v = a + FieldMod - FullBase /\ sum.carry = 1
      BY <1>1, <2>4, AddRawIs
    <3>2. sum.v = 2 * (l + m + 1 - h)
      BY <1>2, <1>3, <2>1, <3>1
    <3>3. ModHalf(a) = l + m + 1
      BY <1>2, <2>2, <3>1, <3>2
    <3> QED
      BY <1>1, <1>3, <1>5, <2>1, <3>3 DEF Elements
  <2> QED
    BY <1>1, <2>3, <2>4
<1>6. a % 2 \in {0, 1}
  BY <1>1
<1> QED
  BY <1>4, <1>5, <1>6

-----------------------------------------------------------------------------
(* Inverses.                                                               *)

\* What the loop of felt_mod_inv works on.
Inversions == [u : 0 .. FullBase - 1, v : 0 .. FullBase - 1, x : 0 .. FullBase - 1, y : 0 .. FullBase - 1]

\* d divides n.
Divides(d, n) == \E k \in Int : n = d * k

\* Four limbs stay four limbs in felt_mod_sub.
LEMMA ModSubCloses ==
  ASSUME NEW a \in 0 .. FullBase - 1, NEW b \in 0 .. FullBase - 1
  PROVE  ModSub(a, b) \in 0 .. FullBase - 1
<1> DEFINE d == SubRaw(a, b)
<1>1. d.v \in 0 .. FullBase - 1
  BY SubRawIs
<1>2. FieldMod \in 0 .. FullBase - 1
  BY FieldSizes
<1>3. AddRaw(d.v, FieldMod).v \in 0 .. FullBase - 1
  <2> HIDE DEF d
  <2> QED
    BY <1>1, <1>2, AddRawIs
<1>4. ModSub(a, b) = IF d.borrow THEN AddRaw(d.v, FieldMod).v ELSE d.v
  BY DEF ModSub
<1> QED
  BY <1>1, <1>3, <1>4

\* One step of the loop: which numbers change, and that they get smaller.
LEMMA InvertOnceIs ==
  ASSUME NEW s \in Inversions, s.u # 0, s.v # 0, NEW t, t = InvertOnce(s)
  PROVE  /\ t \in Inversions /\ t.u + t.v < s.u + s.v
         /\ \/ /\ s.u = 2 * t.u /\ t.x = ModHalf(s.x) /\ t.v = s.v /\ t.y = s.y
            \/ /\ s.v = 2 * t.v /\ t.y = ModHalf(s.y) /\ t.u = s.u /\ t.x = s.x
            \/ /\ s.u = t.u + s.v /\ t.x = ModSub(s.x, s.y) /\ t.v = s.v /\ t.y = s.y
            \/ /\ s.v = t.v + s.u /\ t.y = ModSub(s.y, s.x) /\ t.u = s.u /\ t.x = s.x
<1> DEFINE V == 0 .. FullBase - 1
<1>1. s.u \in V /\ s.v \in V /\ s.x \in V /\ s.y \in V /\ FullBase \in Nat
  BY FieldSizes DEF Inversions
<1>2. ModHalf(s.x) \in V /\ ModHalf(s.y) \in V /\ ModSub(s.x, s.y) \in V /\ ModSub(s.y, s.x) \in V
  BY <1>1, ModHalfIs, ModSubCloses
<1>3. s = [u |-> s.u, v |-> s.v, x |-> s.x, y |-> s.y]
  BY DEF Inversions
<1>4. CASE s.u % 2 = 0
  <2>1. t = [s EXCEPT !.u = s.u \div 2, !.x = ModHalf(s.x)]
    BY <1>4 DEF InvertOnce
  <2>2. t = [u |-> s.u \div 2, v |-> s.v, x |-> ModHalf(s.x), y |-> s.y]
    BY <1>3, <2>1
  <2>3. s.u \div 2 \in V /\ s.u = 2 * (s.u \div 2) /\ s.u \div 2 < s.u
    BY <1>1, <1>4
  <2> QED
    BY <1>1, <1>2, <2>2, <2>3 DEF Inversions
<1>5. CASE s.u % 2 # 0 /\ s.v % 2 = 0
  <2>1. t = [s EXCEPT !.v = s.v \div 2, !.y = ModHalf(s.y)]
    BY <1>5 DEF InvertOnce
  <2>2. t = [u |-> s.u, v |-> s.v \div 2, x |-> s.x, y |-> ModHalf(s.y)]
    BY <1>3, <2>1
  <2>3. s.v \div 2 \in V /\ s.v = 2 * (s.v \div 2) /\ s.v \div 2 < s.v
    BY <1>1, <1>5
  <2> QED
    BY <1>1, <1>2, <2>2, <2>3 DEF Inversions
<1>6. CASE s.u % 2 # 0 /\ s.v % 2 # 0 /\ s.u >= s.v
  <2>1. t = [s EXCEPT !.u = s.u - s.v, !.x = ModSub(s.x, s.y)]
    BY <1>6 DEF InvertOnce
  <2>2. t = [u |-> s.u - s.v, v |-> s.v, x |-> ModSub(s.x, s.y), y |-> s.y]
    BY <1>3, <2>1
  <2>3. s.u - s.v \in V /\ s.u - s.v < s.u
    BY <1>1, <1>6
  <2> QED
    BY <1>1, <1>2, <2>2, <2>3 DEF Inversions
<1>7. CASE s.u % 2 # 0 /\ s.v % 2 # 0 /\ ~(s.u >= s.v)
  <2>1. t = [s EXCEPT !.v = s.v - s.u, !.y = ModSub(s.y, s.x)]
    BY <1>7 DEF InvertOnce
  <2>2. t = [u |-> s.u, v |-> s.v - s.u, x |-> s.x, y |-> ModSub(s.y, s.x)]
    BY <1>3, <2>1
  <2>3. s.v - s.u \in V /\ s.v - s.u < s.v
    BY <1>1, <1>7
  <2> QED
    BY <1>1, <1>2, <2>2, <2>3 DEF Inversions
<1> QED
  BY <1>4, <1>5, <1>6, <1>7

\* f is the loop from s on.
Inverted(f, s) ==
  IF s.u = 0 THEN Normalized(s.y) ELSE IF s.v = 0 THEN Normalized(s.x) ELSE f[InvertOnce(s)]

\* The loop ends: the numbers get smaller.
LEMMA InvertExists == \E f : f = [s \in Inversions |-> Inverted(f, s)]
<1> DEFINE Solves(f, k) == \A s \in Inversions : s.u + s.v <= k => f[s] = Inverted(f, s)
           Solved == {k \in Nat : \E f : Solves(f, k)}
<1>1. \A s \in Inversions : s.u \in Nat /\ s.v \in Nat /\ s.u < FullBase /\ s.v < FullBase
  BY FieldSizes DEF Inversions
<1>2. 0 \in Solved
  <2> DEFINE f == [s \in Inversions |-> Normalized(s.y)]
  <2>1. Solves(f, 0)
    BY <1>1 DEF Inverted
  <2> HIDE DEF f, Solves
  <2> QED
    BY <2>1
<1>3. ASSUME NEW k \in Nat, k \in Solved
      PROVE  k + 1 \in Solved
  <2>1. PICK f : Solves(f, k)
    BY <1>3
  <2> DEFINE h == [s \in Inversions |-> Inverted(f, s)]
  <2>2. \A s \in Inversions : s.u + s.v <= k => h[s] = f[s]
    BY <2>1
  <2>3. Solves(h, k + 1)
    <3> SUFFICES ASSUME NEW s \in Inversions, s.u + s.v <= k + 1
                 PROVE  h[s] = Inverted(h, s)
      OBVIOUS
    <3>1. h[s] = Inverted(f, s)
      OBVIOUS
    <3> HIDE DEF h
    <3>2. CASE s.u = 0 \/ s.v = 0
      BY <3>1, <3>2 DEF Inverted
    <3>3. CASE s.u # 0 /\ s.v # 0
      <4> DEFINE t == InvertOnce(s)
      <4>1. t \in Inversions /\ t.u + t.v < s.u + s.v
        BY <3>3, InvertOnceIs
      <4>2. t.u + t.v <= k
        <5> HIDE DEF t
        <5> QED
          BY <1>1, <4>1
      <4>3. h[t] = f[t]
        <5> HIDE DEF t
        <5> QED
          BY <2>2, <4>1, <4>2
      <4> QED
        BY <3>1, <3>3, <4>3 DEF Inverted
    <3> QED
      BY <3>2, <3>3
  <2> HIDE DEF h, Solves
  <2> QED
    BY <2>3
<1> DEFINE n == 2 * FullBase
<1>4. n \in Nat /\ \A s \in Inversions : s.u + s.v <= n
  BY <1>1, FieldSizes
<1>5. n \in Solved
  <2> HIDE DEF Solved, n
  <2> QED
    BY <1>2, <1>3, <1>4, Induction
<1>6. PICK f : \A s \in Inversions : f[s] = Inverted(f, s)
  BY <1>4, <1>5
<1> DEFINE h == [s \in Inversions |-> f[s]]
<1>7. ASSUME NEW s \in Inversions
      PROVE  h[s] = Inverted(h, s)
  <2>1. s.u # 0 /\ s.v # 0 => InvertOnce(s) \in Inversions
    BY InvertOnceIs
  <2> QED
    BY <1>6, <2>1 DEF Inverted
<1>8. h = [s \in Inversions |-> Inverted(h, s)]
  <2>1. h = [s \in Inversions |-> h[s]]
    OBVIOUS
  <2> HIDE DEF h
  <2> QED
    BY <1>7, <2>1
<1> QED
  BY <1>8

\* The invariant of the loop: u = a * x and v = a * y, and only 1 divides both.
Inverting(a, s) ==
  /\ s \in Inversions /\ s.x \in Elements /\ s.y \in Elements
  /\ s.u # 0 \/ s.v # 0
  /\ Same(FieldMod, a * s.x, s.u) /\ Same(FieldMod, a * s.y, s.v)
  /\ \A d \in Nat : Divides(d, s.u) /\ Divides(d, s.v) => d = 1

\* Halving both sides, by an odd modulus.
LEMMA HalfSame ==
  ASSUME NEW a \in Nat, NEW x \in Elements, NEW u \in Nat, Same(FieldMod, a * x, 2 * u)
  PROVE  Same(FieldMod, a * ModHalf(x), u)
<1> DEFINE h == ModHalf(x)
           p == FieldMod
<1>1. x \in 0 .. FullBase - 1 /\ p \in Nat /\ x \in Nat
  BY FieldSizes DEF Elements
<1>2. h \in Nat /\ (2 * h = x + p * 0 \/ 2 * h = x + p * 1)
  <2>1. x % 2 \in {0, 1} /\ x + p * 0 = x /\ x + p * 1 = x + p
    BY <1>1
  <2> QED
    BY <1>1, <2>1, ModHalfIs, FieldSizes
<1>3. PICK m \in Nat : p = 2 * m + 1
  BY Parities
<1>4. PICK k \in Int : a * x = 2 * u + p * k
  BY DEF Same
<1>5. PICK e \in {0, 1} : 2 * h = x + p * e
  BY <1>2
<1> HIDE DEF h, p
<1> DEFINE l == k + a * e
<1>6. l \in Int /\ 2 * (a * h) = 2 * u + p * l /\ a * h \in Int
  <2>1. 2 * (a * h) = a * (2 * h)
    BY <1>2
  <2>2. a * (2 * h) = a * (x + p * e)
    BY <1>5
  <2>3. a * (x + p * e) = a * x + p * (a * e)
    BY <1>1
  <2>4. p * (k + a * e) = p * k + p * (a * e)
    BY <1>1
  <2>5. a * e \in Int /\ p * k \in Int /\ p * (a * e) \in Int /\ a * h \in Int
    BY <1>1, <1>2
  <2> QED
    BY <1>4, <2>1, <2>2, <2>3, <2>4, <2>5
<1> HIDE DEF l
<1> DEFINE q == a * h
<1>7. q \in Int /\ 2 * q = 2 * u + p * l /\ 2 * q = 2 * u + (2 * m + 1) * l
  BY <1>3, <1>6
<1> HIDE DEF q
<1>8. l = 2 * (q - u - m * l) /\ m * l \in Int
  <2>1. (2 * m + 1) * l = 2 * (m * l) + l /\ m * l \in Int
    BY <1>6
  <2> QED
    BY <1>6, <1>7, <2>1
<1> DEFINE j == q - u - m * l
<1>9. j \in Int /\ l = 2 * j
  BY <1>6, <1>7, <1>8
<1> HIDE DEF j
<1>10. q = u + p * j
  <2>1. p * l = 2 * (p * j) /\ p * j \in Int
    BY <1>1, <1>9
  <2> QED
    BY <1>7, <2>1
<1> QED
  BY <1>9, <1>10 DEF Same, q, h, p

\* What a subtraction of the loop keeps.
LEMMA DifferenceSame ==
  ASSUME NEW a \in Nat, NEW x \in Elements, NEW y \in Elements, NEW u \in Nat, NEW v \in Nat,
         NEW w \in Nat, u = w + v, Same(FieldMod, a * x, u), Same(FieldMod, a * y, v)
  PROVE  Same(FieldMod, a * ModSub(x, y), w)
<1> DEFINE d == ModSub(x, y)
           p == FieldMod
<1>1. p \in Nat \ {0} /\ x \in Int /\ y \in Int /\ a \in Int
  BY FieldSizes DEF Elements
<1>2. d \in Int /\ Same(p, d, x - y)
  BY ModSubIs, FieldSizes DEF Elements
<1> HIDE DEF d, p
<1>3. Same(p, a, a)
  BY <1>1, SameRefl
<1>4. Same(p, a * d, a * (x - y))
  <2>1. x - y \in Int
    BY <1>1
  <2> QED
    BY <1>1, <1>2, <1>3, <2>1, SameProduct
<1>5. Same(p, a * x - a * y, u - v)
  <2>1. a * x \in Int /\ a * y \in Int /\ u \in Int /\ v \in Int
    BY <1>1
  <2> QED
    BY <1>1, <2>1, SameSum DEF p
<1>6. a * x - a * y = a * (x - y) /\ u - v = w /\ a * (x - y) \in Int /\ a * d \in Int
  BY <1>1, <1>2
<1>7. Same(p, a * d, w)
  BY <1>1, <1>4, <1>5, <1>6, SameTrans
<1> QED
  BY <1>7 DEF p, d

\* The loop of felt_mod_inv keeps u = a * x and v = a * y.
LEMMA InvertKeeps ==
  ASSUME NEW a \in Nat, NEW s, Inverting(a, s), s.u # 0, s.v # 0, NEW t, t = InvertOnce(s)
  PROVE  Inverting(a, t)
<1>1. s \in Inversions /\ s.x \in Elements /\ s.y \in Elements
  BY DEF Inverting
<1>2. /\ t \in Inversions
      /\ \/ /\ s.u = 2 * t.u /\ t.x = ModHalf(s.x) /\ t.v = s.v /\ t.y = s.y
         \/ /\ s.v = 2 * t.v /\ t.y = ModHalf(s.y) /\ t.u = s.u /\ t.x = s.x
         \/ /\ s.u = t.u + s.v /\ t.x = ModSub(s.x, s.y) /\ t.v = s.v /\ t.y = s.y
         \/ /\ s.v = t.v + s.u /\ t.y = ModSub(s.y, s.x) /\ t.u = s.u /\ t.x = s.x
  BY <1>1, InvertOnceIs
<1>3. s.u \in Nat /\ s.v \in Nat /\ t.u \in Nat /\ t.v \in Nat
  BY <1>1, <1>2, FieldSizes DEF Inversions
<1>4. s.x \in 0 .. FullBase - 1 /\ s.y \in 0 .. FullBase - 1
  BY <1>1 DEF Inversions
<1>5. t.x \in Elements /\ t.y \in Elements
  BY <1>1, <1>2, <1>4, ModHalfIs, ModSubIs
<1>6. t.u # 0 \/ t.v # 0
  BY <1>2
<1>7. Same(FieldMod, a * s.x, s.u) /\ Same(FieldMod, a * s.y, s.v)
  BY DEF Inverting
<1>8. Same(FieldMod, a * t.x, t.u)
  BY <1>1, <1>2, <1>3, <1>7, HalfSame, DifferenceSame
<1>9. Same(FieldMod, a * t.y, t.v)
  BY <1>1, <1>2, <1>3, <1>7, HalfSame, DifferenceSame
<1>10. ASSUME NEW d \in Nat, Divides(d, t.u), Divides(d, t.v)
       PROVE  d = 1
  <2>1. PICK k \in Int : t.u = d * k
    BY <1>10 DEF Divides
  <2>2. PICK l \in Int : t.v = d * l
    BY <1>10 DEF Divides
  <2>3. 2 * t.u = d * (2 * k) /\ 2 * t.v = d * (2 * l) /\ t.u + t.v = d * (k + l)
    BY <1>3, <2>1, <2>2
  <2>4. 2 * k \in Int /\ 2 * l \in Int /\ k + l \in Int
    OBVIOUS
  <2>5. Divides(d, 2 * t.u) /\ Divides(d, 2 * t.v) /\ Divides(d, t.u + t.v)
    BY <2>3, <2>4 DEF Divides
  <2>6. t.u + t.v = t.v + t.u
    BY <1>3
  <2>7. Divides(d, s.u) /\ Divides(d, s.v)
    BY <1>2, <1>10, <2>5, <2>6
  <2> QED
    BY <2>7 DEF Inverting
<1> QED
  BY <1>2, <1>5, <1>6, <1>8, <1>9, <1>10 DEF Inverting

\* The loop ends with the inverse.
LEMMA InvertFinds ==
  ASSUME NEW a \in Nat, NEW f, f = [s \in Inversions |-> Inverted(f, s)], NEW s, Inverting(a, s)
  PROVE  f[s] \in Elements /\ (a * f[s]) % FieldMod = 1
<1> DEFINE Found(t) == f[t] \in Elements /\ (a * f[t]) % FieldMod = 1
           Good == {k \in Nat : \A t \in Inversions : t.u + t.v <= k /\ Inverting(a, t) => Found(t)}
<1>1. \A t \in Inversions : f[t] = Inverted(f, t)
  OBVIOUS
<1>2. \A t \in Inversions : t.u \in Nat /\ t.v \in Nat /\ t.u < FullBase /\ t.v < FullBase
  BY FieldSizes DEF Inversions
<1>3. ASSUME NEW t \in Inversions, Inverting(a, t), t.u = 0 \/ t.v = 0
      PROVE  Found(t)
  <2> DEFINE z == IF t.u = 0 THEN t.y ELSE t.x
             w == IF t.u = 0 THEN t.v ELSE t.u
  <2>1. w \in Nat /\ z \in Elements /\ Same(FieldMod, a * z, w)
    BY <1>2, <1>3 DEF Inverting
  <2>2. w = 1
    <3>1. w = w * 1 /\ 0 = w * 0
      BY <1>2, <2>1
    <3>2. Divides(w, w) /\ Divides(w, 0)
      BY <3>1 DEF Divides
    <3>3. Divides(w, t.u) /\ Divides(w, t.v)
      BY <1>3, <3>2
    <3> HIDE DEF w
    <3> QED
      BY <1>3, <2>1, <3>3 DEF Inverting
  <2>3. f[t] = Normalized(z)
    BY <1>1, <1>3 DEF Inverted
  <2> HIDE DEF z, w
  <2>4. z \in 0 .. FullBase - 1 /\ z < FieldMod /\ z \in Int
    BY <2>1, FieldSizes DEF Elements
  <2>5. f[t] = z
    BY <2>3, <2>4, NormalizedIs
  <2>6. a * z \in Int /\ 1 \in 0 .. FieldMod - 1
    BY <2>4, FieldSizes
  <2>7. (a * z) % FieldMod = 1
    BY <2>1, <2>2, <2>6, FieldSizes, ModIs
  <2> QED
    BY <2>1, <2>5, <2>7
<1>4. 0 \in Good
  <2> SUFFICES ASSUME NEW t \in Inversions, t.u + t.v <= 0, Inverting(a, t)
               PROVE  Found(t)
    OBVIOUS
  <2>1. t.u = 0
    BY <1>2
  <2> QED
    BY <1>3, <2>1
<1>5. ASSUME NEW k \in Nat, k \in Good
      PROVE  k + 1 \in Good
  <2> SUFFICES ASSUME NEW t \in Inversions, t.u + t.v <= k + 1, Inverting(a, t)
               PROVE  Found(t)
    OBVIOUS
  <2>1. CASE t.u = 0 \/ t.v = 0
    BY <1>3, <2>1
  <2>2. CASE t.u # 0 /\ t.v # 0
    <3> DEFINE r == InvertOnce(t)
    <3>1. r \in Inversions /\ r.u + r.v < t.u + t.v
      BY <2>2, InvertOnceIs
    <3>2. Inverting(a, r)
      BY <2>2, InvertKeeps
    <3>3. f[t] = f[r]
      BY <1>1, <2>2 DEF Inverted
    <3> HIDE DEF r
    <3>4. r.u + r.v <= k
      BY <1>2, <3>1
    <3>5. Found(r)
      BY <1>5, <3>1, <3>2, <3>4
    <3> QED
      BY <3>3, <3>5
  <2> QED
    BY <2>1, <2>2
<1>6. s \in Inversions
  BY DEF Inverting
<1> DEFINE n == s.u + s.v
<1>7. n \in Nat /\ s.u + s.v <= n
  BY <1>2, <1>6
<1>8. n \in Good
  <2> HIDE DEF Good, n
  <2> QED
    BY <1>4, <1>5, <1>7, Induction
<1> QED
  BY <1>6, <1>7, <1>8

\* felt_mod_inv is the inverse of the field.
LEMMA ModInvIs ==
  ASSUME NEW a \in Elements
  PROVE  ModInv(a) \in Elements /\ (a # 0 => (a * ModInv(a)) % FieldMod = 1)
<1>1. CASE a = 0
  BY <1>1, FieldSizes DEF ModInv, Elements
<1>2. CASE a # 0
  <2> DEFINE s == [u |-> a, v |-> FieldMod, x |-> 1, y |-> 0]
             Body(f) == [r \in Inversions |-> Inverted(f, r)]
  <2>1. PICK f : f = Body(f) /\ ModInv(a) = f[s]
    <3>1. ModInv(a) = (CHOOSE f : f = Body(f))[s]
      BY <1>2 DEF ModInv, Inverted, Inversions
    <3>2. \E f : f = Body(f)
      BY InvertExists
    <3> HIDE DEF Body, s
    <3> QED
      BY <3>1, <3>2
  <2>2. a \in Nat /\ a > 0 /\ a < FieldMod /\ FieldMod \in Nat \ {0} /\ FieldMod \in 0 .. FullBase - 1
    BY <1>2, FieldSizes DEF Elements
  <2>3. s \in Inversions /\ s.x \in Elements /\ s.y \in Elements /\ s.u # 0
    <3>1. 1 \in 0 .. FullBase - 1 /\ 0 \in 0 .. FullBase - 1 /\ a \in 0 .. FullBase - 1
          /\ 1 \in Elements /\ 0 \in Elements
      BY <2>2, FieldSizes DEF Elements
    <3> QED
      BY <1>2, <2>2, <3>1 DEF Inversions
  <2>4. Same(FieldMod, a * s.x, s.u)
    <3>1. a * 1 = a + FieldMod * 0
      BY <2>2
    <3> QED
      BY <3>1 DEF Same
  <2>5. Same(FieldMod, a * s.y, s.v)
    <3>1. a * 0 = FieldMod + FieldMod * (-1)
      BY <2>2
    <3> QED
      BY <3>1 DEF Same
  <2>6. ASSUME NEW d \in Nat, Divides(d, a), Divides(d, FieldMod)
        PROVE  d = 1
    <3>1. PICK k \in Int : a = d * k
      BY <2>6 DEF Divides
    <3>2. PICK l \in Int : FieldMod = d * l
      BY <2>6 DEF Divides
    <3>3. d # 0 /\ k > 0
      BY <2>2, <3>1
    <3>4. d <= a
      <4>1. d * k >= d
        BY <3>3
      <4> QED
        BY <2>2, <3>1, <4>1
    <3>5. l \in Nat
      BY <2>2, <3>2, <3>3
    <3>6. FieldMod % d = 0
      <4>1. d \in Nat \ {0} /\ 0 \in 0 .. d - 1 /\ d * l \in Int
        BY <3>3
      <4>2. Same(d, d * l, 0)
        BY d * l = 0 + d * l DEF Same
      <4> DEFINE e == d * l
      <4>3. e \in Int /\ Same(d, e, 0)
        BY <4>1, <4>2
      <4> HIDE DEF e
      <4>4. e % d = 0
        BY <4>1, <4>3, ModIs
      <4> QED
        BY <3>2, <4>4 DEF e
    <3>7. d \notin 2 .. FieldMod - 1
      BY <3>6, FieldAssumption
    <3> QED
      BY <2>2, <3>3, <3>4, <3>7
  <2>7. Inverting(a, s)
    BY <2>3, <2>4, <2>5, <2>6 DEF Inverting
  <2> HIDE DEF s
  <2> QED
    BY <2>1, <2>2, <2>7, InvertFinds
<1> QED
  BY <1>1, <1>2

-----------------------------------------------------------------------------
(* Products.                                                               *)

LEMMA Places ==
  /\ Place(0) = 1 /\ Place(1) = LimbBase /\ Place(2) = LimbBase * LimbBase
  /\ Place(3) = LimbBase * LimbBase * LimbBase
  BY DEF Place

\* A number and its limbs.
LEMMA LimbsAre ==
  ASSUME NEW a \in 0 .. FullBase - 1
  PROVE  \E p \in 0 .. LimbBase - 1, q \in 0 .. LimbBase - 1, r \in 0 .. LimbBase - 1, s \in 0 .. LimbBase - 1 :
           /\ Limb(a, 0) = p /\ Limb(a, 1) = q /\ Limb(a, 2) = r /\ Limb(a, 3) = s
           /\ a = p + LimbBase * (q + LimbBase * (r + LimbBase * s))
<1> DEFINE b == LimbBase
<1>1. b \in Nat \ {0} /\ a \in Nat /\ b * b \in Nat \ {0} /\ a < FullBase
  BY FieldSizes
<1> DEFINE x == a \div b
           y == x \div b
           z == y \div b
<1>2. Limb(a, 0) = a % b /\ Limb(a, 1) = x % b
  BY <1>1, Places, DivOne DEF Limb
<1>3. x \in Nat /\ y \in Nat /\ z \in Nat
  <2>1. x \in Nat
    BY <1>1, DivMod
  <2> HIDE DEF x
  <2>2. y \in Nat
    BY <1>1, <2>1, DivMod
  <2> HIDE DEF y
  <2>3. z \in Nat
    BY <1>1, <2>2, DivMod
  <2> QED
    BY <2>1, <2>2, <2>3
<1>4. Limb(a, 2) = y % b
  <2>1. a \div (b * b) = y
    BY <1>1, DivDiv
  <2> QED
    BY <2>1, Places DEF Limb
<1>5. Limb(a, 3) = z % b
  <2>1. a \div ((b * b) * b) = x \div (b * b)
    BY <1>1, DivDiv
  <2>2. x \div (b * b) = z
    <3> HIDE DEF x
    <3> QED
      BY <1>1, <1>3, DivDiv
  <2> QED
    BY <2>1, <2>2, Places DEF Limb
<1> DEFINE p == a % b
           q == x % b
           r == y % b
<1>6. p \in 0 .. b - 1 /\ a = b * x + p
  BY <1>1, DivMod
<1>7. q \in 0 .. b - 1 /\ x = b * y + q
  <2> HIDE DEF x
  <2> QED
    BY <1>1, <1>3, DivMod
<1>8. r \in 0 .. b - 1 /\ y = b * z + r
  <2> HIDE DEF y
  <2> QED
    BY <1>1, <1>3, DivMod
<1> HIDE DEF x, y, z, p, q, r
<1>9. a = p + b * (q + b * (r + b * z))
  <2>1. b * z \in Nat /\ y = r + b * z
    BY <1>1, <1>3, <1>8
  <2>2. b * y \in Nat /\ x = q + b * y
    BY <1>1, <1>3, <1>7
  <2>3. b * x \in Nat /\ a = p + b * x
    BY <1>1, <1>3, <1>6
  <2> QED
    BY <2>1, <2>2, <2>3
<1>10. z < b
  <2> SUFFICES ASSUME z >= b PROVE FALSE
    BY <1>1, <1>3
  <2>1. b * z >= b * b
    BY <1>1, <1>3
  <2>2. y >= b * b
    BY <1>1, <1>3, <1>8, <2>1
  <2> DEFINE c == b * b
  <2>3. c \in Nat /\ y >= c
    BY <1>1, <2>2
  <2> HIDE DEF c
  <2>4. b * y >= b * c /\ b * c \in Nat /\ b * y \in Nat
    BY <1>1, <1>3, <2>3
  <2>5. x >= b * c
    BY <1>1, <1>3, <1>7, <2>4
  <2> DEFINE d == b * c
  <2>6. d \in Nat /\ x >= d
    BY <2>4, <2>5
  <2> HIDE DEF d
  <2>7. b * x >= b * d /\ b * d \in Nat /\ b * x \in Nat
    BY <1>1, <1>3, <2>6
  <2>8. a >= b * d
    BY <1>1, <1>3, <1>6, <2>7
  <2>9. FullBase = b * d
    <3>1. FullBase = (b * b) * (b * b)
      BY FieldSizes
    <3>2. (b * b) * (b * b) = b * (b * (b * b))
      BY <1>1
    <3> QED
      BY <3>1, <3>2 DEF d, c
  <2> QED
    BY <1>1, <2>7, <2>8, <2>9
<1>11. z % b = z /\ z \in 0 .. b - 1
  BY <1>1, <1>3, <1>10
<1> QED
  BY <1>2, <1>4, <1>5, <1>6, <1>7, <1>8, <1>9, <1>11 DEF p, q, r

\* The accumulator of a column has room: so much at most is shifted in.
Room == 4 * (LimbBase - 1)

\* The carries of a column have room in a limb and a bit.
LEMMA RoomFits ==
  /\ Room \in Nat /\ Room > 0 /\ Room * LimbBase \in Nat /\ LimbBase * LimbBase * LimbBase \in Nat \ {0}
  /\ Room * LimbBase <= LimbBase * LimbBase * LimbBase
  /\ Room + 4 * ((LimbBase - 1) * (LimbBase - 1)) = Room * LimbBase
<1> DEFINE b == LimbBase
<1>1. b \in Nat /\ b >= 2
  BY FieldSizes
<1>2. PICK k \in Nat : b = k + 2
  BY <1>1, b - 2 \in Nat /\ b = (b - 2) + 2
<1> HIDE DEF b
<1>3. Room = 4 * (k + 1)
  BY <1>2 DEF Room, b
<1>4. k * k \in Nat /\ b * b = k * k + 4 * k + 4
  BY <1>2
<1>5. Room <= b * b
  BY <1>3, <1>4
<1>6. Room * b <= (b * b) * b
  <2> DEFINE s == b * b
             r == Room
  <2>1. s \in Nat /\ r \in Nat /\ r <= s
    BY <1>3, <1>4, <1>5
  <2> HIDE DEF s, r
  <2>2. r * b <= s * b
    BY <1>1, <2>1
  <2> QED
    BY <2>2 DEF s, r
<1>7. Room + 4 * ((b - 1) * (b - 1)) = Room * b
  BY <1>2, <1>3
<1>8. Room * b \in Nat /\ (b * b) * b \in Nat
  BY <1>1, <1>3
<1>9. (b * b) * b # 0
  <2>1. Room * b > 0
    BY <1>1, <1>3
  <2> QED
    BY <1>6, <1>8, <2>1
<1> QED
  BY <1>3, <1>6, <1>7, <1>8, <1>9 DEF b

\* felt_acc3 loses nothing while there is room.
LEMMA Acc3Is ==
  ASSUME NEW s \in Nat, NEW p \in Nat, s + p < Room * LimbBase
  PROVE  Acc3(s, p) = s + p
<1> DEFINE m == LimbBase * LimbBase * LimbBase
           n == s + p
<1>1. m \in Nat \ {0} /\ n \in Nat /\ n < m
  BY RoomFits
<1>2. Acc3(s, p) = n % m
  BY DEF Acc3
<1> HIDE DEF m, n
<1>3. n % m = n
  BY <1>1
<1> QED
  BY <1>2, <1>3 DEF n

\* No larger than the product of two limbs.
Fits(x) == x \in Nat /\ x <= (LimbBase - 1) * (LimbBase - 1)

\* What is left of a column sum s of c, shifted in, and the products d: a limb,
\* and what is shifted out.
Leaves(s, c, d) ==
  \E n \in Nat, l \in 0 .. LimbBase - 1 :
    n < Room /\ s \div LimbBase = n /\ s % LimbBase = l /\ c + d = LimbBase * n + l

\* What a column leaves and carries to the next.
LEMMA SumLeaves ==
  ASSUME NEW s \in Nat, s < Room * LimbBase, NEW c, NEW d, s = c + d
  PROVE  Leaves(s, c, d)
<1> DEFINE q == s \div LimbBase
           r == s % LimbBase
<1>1. LimbBase \in Nat \ {0}
  BY FieldSizes
<1>2. q \in Nat /\ r \in Nat /\ r < LimbBase /\ s = LimbBase * q + r
  BY <1>1, DivMod
<1> HIDE DEF q, r
<1>3. q < Room
  <2> SUFFICES ASSUME q >= Room PROVE FALSE
    BY <1>2, RoomFits
  <2>1. LimbBase * q >= LimbBase * Room
    BY <1>1, <1>2, RoomFits
  <2>2. LimbBase * Room = Room * LimbBase /\ LimbBase * q \in Nat /\ Room * LimbBase \in Nat
    BY <1>1, <1>2, RoomFits
  <2> QED
    BY <1>2, <2>1, <2>2
<1>4. r \in 0 .. LimbBase - 1 /\ c + d = LimbBase * q + r
  BY <1>1, <1>2
<1> QED
  BY <1>2, <1>3, <1>4 DEF q, r, Leaves

\* A column of up to four products.
LEMMA ColumnLeaves ==
  ASSUME NEW c \in Nat, c < Room,
         NEW p, Fits(p), NEW q, Fits(q), NEW r, Fits(r), NEW t, Fits(t)
  PROVE  /\ Leaves(Acc3(c, p), c, p)
         /\ Leaves(Acc3(Acc3(c, p), q), c, p + q)
         /\ Leaves(Acc3(Acc3(Acc3(c, p), q), r), c, p + q + r)
         /\ Leaves(Acc3(Acc3(Acc3(Acc3(c, p), q), r), t), c, p + q + r + t)
<1> DEFINE s == (LimbBase - 1) * (LimbBase - 1)
           e == Room * LimbBase
<1>1. s \in Nat /\ e \in Nat /\ Room \in Nat /\ Room + 4 * s = e
  <2>1. LimbBase - 1 \in Nat
    BY FieldSizes
  <2> QED
    BY <2>1, RoomFits
<1>2. /\ p \in Nat /\ q \in Nat /\ r \in Nat /\ t \in Nat
      /\ p <= s /\ q <= s /\ r <= s /\ t <= s
  BY DEF Fits
<1> HIDE DEF s, e
<1> DEFINE s1 == c + p
           s2 == s1 + q
           s3 == s2 + r
           s4 == s3 + t
<1>3. /\ s1 \in Nat /\ s2 \in Nat /\ s3 \in Nat /\ s4 \in Nat
      /\ s1 < e /\ s2 < e /\ s3 < e /\ s4 < e
  BY <1>1, <1>2
<1>4. s1 = c + p /\ s2 = c + (p + q) /\ s3 = c + (p + q + r) /\ s4 = c + (p + q + r + t)
  BY <1>2
<1>5. Acc3(c, p) = s1
  BY <1>2, <1>3, Acc3Is DEF e
<1> HIDE DEF s1
<1>6. Acc3(s1, q) = s2
  BY <1>2, <1>3, Acc3Is DEF e
<1> HIDE DEF s2
<1>7. Acc3(s2, r) = s3
  BY <1>2, <1>3, Acc3Is DEF e
<1> HIDE DEF s3
<1>8. Acc3(s3, t) = s4
  BY <1>2, <1>3, Acc3Is DEF e
<1> HIDE DEF s4
<1>9. /\ Leaves(s1, c, p) /\ Leaves(s2, c, p + q) /\ Leaves(s3, c, p + q + r)
      /\ Leaves(s4, c, p + q + r + t)
  BY <1>3, <1>4, SumLeaves DEF e
<1> QED
  BY <1>5, <1>6, <1>7, <1>8, <1>9

\* A product of limbs fits.
LEMMA LimbProduct ==
  ASSUME NEW x \in 0 .. LimbBase - 1, NEW y \in 0 .. LimbBase - 1
  PROVE  Fits(x * y)
<1> DEFINE b == LimbBase - 1
<1>1. b \in Nat /\ x \in Nat /\ y \in Nat /\ x <= b /\ y <= b
  BY FieldSizes
<1> HIDE DEF b
<1>2. x * y <= b * y
  BY <1>1
<1>3. b * y <= b * b
  BY <1>1
<1>4. x * y \in Nat /\ b * y \in Nat /\ b * b \in Nat
  BY <1>1
<1>5. x * y <= b * b
  BY <1>2, <1>3, <1>4
<1> QED
  BY <1>4, <1>5 DEF b, Fits

\* A number below the divisor.
LEMMA SmallIs ==
  ASSUME NEW m \in Nat, NEW n \in Nat, n < m
  PROVE  n \div m = 0 /\ n % m = n
<1>1. m \in Nat \ {0} /\ 0 \in Nat /\ m * 0 + n = n
  OBVIOUS
<1>2. (m * 0 + n) \div m = 0 /\ (m * 0 + n) % m = n
  BY <1>1, DivModIs
<1> QED
  BY <1>1, <1>2

\* One column: c shifted in, the products, what is left and what is shifted out.
LEMMA HornerGrows ==
  ASSUME NEW b \in Nat, NEW l \in Nat, NEW x \in Nat, NEW m \in Nat, x >= m
  PROVE  l + b * x \in Nat /\ b * m \in Nat /\ l + b * x >= b * m
<1>1. b * x >= b * m /\ b * x \in Nat /\ b * m \in Nat
  OBVIOUS
<1> QED
  BY <1>1

\* One more column.
LEMMA HornerStep ==
  ASSUME NEW b \in Nat, NEW c \in Nat, NEW d \in Nat, NEW l \in Nat, NEW n \in Nat, NEW w \in Nat,
         c + d = b * n + l
  PROVE  c + (d + b * w) = l + b * (n + w)
<1>1. b * (n + w) = b * n + b * w /\ b * n \in Nat /\ b * w \in Nat
  OBVIOUS
<1> QED
  BY <1>1

\* Two numbers of four limbs, multiplied column by column.
LEMMA Columns ==
  ASSUME NEW b \in Nat, NEW p0 \in Nat, NEW p1 \in Nat, NEW p2 \in Nat, NEW p3 \in Nat,
         NEW q0 \in Nat, NEW q1 \in Nat, NEW q2 \in Nat, NEW q3 \in Nat
  PROVE  (p0 + b * (p1 + b * (p2 + b * p3))) * (q0 + b * (q1 + b * (q2 + b * q3)))
           = p0 * q0 + b * (p0 * q1 + p1 * q0 + b * (p0 * q2 + p1 * q1 + p2 * q0
               + b * (p0 * q3 + p1 * q2 + p2 * q1 + p3 * q0 + b * (p1 * q3 + p2 * q2 + p3 * q1
                   + b * (p2 * q3 + p3 * q2 + b * (p3 * q3))))))
  OBVIOUS

\* felt_mul_512_comba: the eight limbs are those of the product.
LEMMA CombaIs ==
  ASSUME NEW a \in 0 .. FullBase - 1, NEW b \in 0 .. FullBase - 1
  PROVE  \E l \in [1 .. 8 -> 0 .. LimbBase - 1] :
           /\ Comba(a, b) = l
           /\ a * b = l[1] + LimbBase * (l[2] + LimbBase * (l[3] + LimbBase * (l[4] + LimbBase * (l[5]
                        + LimbBase * (l[6] + LimbBase * (l[7] + LimbBase * l[8]))))))
<1> DEFINE B == LimbBase
           D == 0 .. LimbBase - 1
<1>1. B \in Nat \ {0} /\ a \in Nat /\ b \in Nat /\ 0 \in D /\ \A x \in D : x \in Nat
  BY FieldSizes
<1>2. PICK p0 \in D, p1 \in D, p2 \in D, p3 \in D :
        /\ Limb(a, 0) = p0 /\ Limb(a, 1) = p1 /\ Limb(a, 2) = p2 /\ Limb(a, 3) = p3
        /\ a = p0 + B * (p1 + B * (p2 + B * p3))
  BY LimbsAre
<1>3. PICK q0 \in D, q1 \in D, q2 \in D, q3 \in D :
        /\ Limb(b, 0) = q0 /\ Limb(b, 1) = q1 /\ Limb(b, 2) = q2 /\ Limb(b, 3) = q3
        /\ b = q0 + B * (q1 + B * (q2 + B * q3))
  BY LimbsAre
<1>4. \A x \in D, y \in D : Fits(x * y)
  BY LimbProduct
<1>5. Fits(0)
  <2>1. 0 * 0 = 0
    OBVIOUS
  <2> QED
    BY <1>1, <1>4, <2>1
<1> DEFINE s0 == Acc3(0, p0 * q0)
           s1 == Acc3(Acc3(s0 \div B, p0 * q1), p1 * q0)
           s2 == Acc3(Acc3(Acc3(s1 \div B, p0 * q2), p1 * q1), p2 * q0)
           s3 == Acc3(Acc3(Acc3(Acc3(s2 \div B, p0 * q3), p1 * q2), p2 * q1), p3 * q0)
           s4 == Acc3(Acc3(Acc3(s3 \div B, p1 * q3), p2 * q2), p3 * q1)
           s5 == Acc3(Acc3(s4 \div B, p2 * q3), p3 * q2)
           s6 == Acc3(s5 \div B, p3 * q3)
           l == [i \in 1 .. 8 |-> <<s0, s1, s2, s3, s4, s5, s6, s6 \div B>>[i] % B]
<1>6. Comba(a, b) = l
  BY <1>2, <1>3 DEF Comba
<1>7. PICK c1 \in Nat, l0 \in D :
        /\ c1 < Room /\ s0 \div B = c1 /\ s0 % B = l0
        /\ 0 + (p0 * q0) = B * c1 + l0
  <2>1. s0 = Acc3(0, p0 * q0)
    OBVIOUS
  <2>2. 0 \in Nat /\ 0 < Room
    BY RoomFits
  <2> DEFINE x == p0 * q0
  <2>3. Fits(x) /\ Fits(0)
    BY <1>4, <1>5
  <2>4. s0 = Acc3(0, x)
    BY <2>1
  <2> HIDE DEF s0, x
  <2>5. Leaves(Acc3(0, x), 0, x)
    BY <2>2, <2>3, ColumnLeaves
  <2> QED
    BY <2>4, <2>5 DEF Leaves, x
<1> HIDE DEF s0
<1>8. PICK c2 \in Nat, l1 \in D :
        /\ c2 < Room /\ s1 \div B = c2 /\ s1 % B = l1
        /\ c1 + (p0 * q1 + p1 * q0) = B * c2 + l1
  <2>1. s1 = Acc3(Acc3(c1, p0 * q1), p1 * q0)
    BY <1>7
  <2>2. c1 \in Nat /\ c1 < Room
    BY <1>7
  <2> DEFINE x == p0 * q1
             y == p1 * q0
  <2>3. Fits(x) /\ Fits(y) /\ Fits(0)
    BY <1>4, <1>5
  <2>4. s1 = Acc3(Acc3(c1, x), y)
    BY <2>1
  <2> HIDE DEF s1, x, y
  <2>5. Leaves(Acc3(Acc3(c1, x), y), c1, x + y)
    BY <2>2, <2>3, ColumnLeaves
  <2> QED
    BY <2>4, <2>5 DEF Leaves, x, y
<1> HIDE DEF s1
<1>9. PICK c3 \in Nat, l2 \in D :
        /\ c3 < Room /\ s2 \div B = c3 /\ s2 % B = l2
        /\ c2 + (p0 * q2 + p1 * q1 + p2 * q0) = B * c3 + l2
  <2>1. s2 = Acc3(Acc3(Acc3(c2, p0 * q2), p1 * q1), p2 * q0)
    BY <1>8
  <2>2. c2 \in Nat /\ c2 < Room
    BY <1>8
  <2> DEFINE x == p0 * q2
             y == p1 * q1
             z == p2 * q0
  <2>3. Fits(x) /\ Fits(y) /\ Fits(z) /\ Fits(0)
    BY <1>4, <1>5
  <2>4. s2 = Acc3(Acc3(Acc3(c2, x), y), z)
    BY <2>1
  <2> HIDE DEF s2, x, y, z
  <2>5. Leaves(Acc3(Acc3(Acc3(c2, x), y), z), c2, x + y + z)
    BY <2>2, <2>3, ColumnLeaves
  <2> QED
    BY <2>4, <2>5 DEF Leaves, x, y, z
<1> HIDE DEF s2
<1>10. PICK c4 \in Nat, l3 \in D :
        /\ c4 < Room /\ s3 \div B = c4 /\ s3 % B = l3
        /\ c3 + (p0 * q3 + p1 * q2 + p2 * q1 + p3 * q0) = B * c4 + l3
  <2>1. s3 = Acc3(Acc3(Acc3(Acc3(c3, p0 * q3), p1 * q2), p2 * q1), p3 * q0)
    BY <1>9
  <2>2. c3 \in Nat /\ c3 < Room
    BY <1>9
  <2> DEFINE x == p0 * q3
             y == p1 * q2
             z == p2 * q1
             t == p3 * q0
  <2>3. Fits(x) /\ Fits(y) /\ Fits(z) /\ Fits(t) /\ Fits(0)
    BY <1>4, <1>5
  <2>4. s3 = Acc3(Acc3(Acc3(Acc3(c3, x), y), z), t)
    BY <2>1
  <2> HIDE DEF s3, x, y, z, t
  <2>5. Leaves(Acc3(Acc3(Acc3(Acc3(c3, x), y), z), t), c3, x + y + z + t)
    BY <2>2, <2>3, ColumnLeaves
  <2> QED
    BY <2>4, <2>5 DEF Leaves, x, y, z, t
<1> HIDE DEF s3
<1>11. PICK c5 \in Nat, l4 \in D :
        /\ c5 < Room /\ s4 \div B = c5 /\ s4 % B = l4
        /\ c4 + (p1 * q3 + p2 * q2 + p3 * q1) = B * c5 + l4
  <2>1. s4 = Acc3(Acc3(Acc3(c4, p1 * q3), p2 * q2), p3 * q1)
    BY <1>10
  <2>2. c4 \in Nat /\ c4 < Room
    BY <1>10
  <2> DEFINE x == p1 * q3
             y == p2 * q2
             z == p3 * q1
  <2>3. Fits(x) /\ Fits(y) /\ Fits(z) /\ Fits(0)
    BY <1>4, <1>5
  <2>4. s4 = Acc3(Acc3(Acc3(c4, x), y), z)
    BY <2>1
  <2> HIDE DEF s4, x, y, z
  <2>5. Leaves(Acc3(Acc3(Acc3(c4, x), y), z), c4, x + y + z)
    BY <2>2, <2>3, ColumnLeaves
  <2> QED
    BY <2>4, <2>5 DEF Leaves, x, y, z
<1> HIDE DEF s4
<1>12. PICK c6 \in Nat, l5 \in D :
        /\ c6 < Room /\ s5 \div B = c6 /\ s5 % B = l5
        /\ c5 + (p2 * q3 + p3 * q2) = B * c6 + l5
  <2>1. s5 = Acc3(Acc3(c5, p2 * q3), p3 * q2)
    BY <1>11
  <2>2. c5 \in Nat /\ c5 < Room
    BY <1>11
  <2> DEFINE x == p2 * q3
             y == p3 * q2
  <2>3. Fits(x) /\ Fits(y) /\ Fits(0)
    BY <1>4, <1>5
  <2>4. s5 = Acc3(Acc3(c5, x), y)
    BY <2>1
  <2> HIDE DEF s5, x, y
  <2>5. Leaves(Acc3(Acc3(c5, x), y), c5, x + y)
    BY <2>2, <2>3, ColumnLeaves
  <2> QED
    BY <2>4, <2>5 DEF Leaves, x, y
<1> HIDE DEF s5
<1>13. PICK c7 \in Nat, l6 \in D :
        /\ c7 < Room /\ s6 \div B = c7 /\ s6 % B = l6
        /\ c6 + (p3 * q3) = B * c7 + l6
  <2>1. s6 = Acc3(c6, p3 * q3)
    BY <1>12
  <2>2. c6 \in Nat /\ c6 < Room
    BY <1>12
  <2> DEFINE x == p3 * q3
  <2>3. Fits(x) /\ Fits(0)
    BY <1>4, <1>5
  <2>4. s6 = Acc3(c6, x)
    BY <2>1
  <2> HIDE DEF s6, x
  <2>5. Leaves(Acc3(c6, x), c6, x)
    BY <2>2, <2>3, ColumnLeaves
  <2> QED
    BY <2>4, <2>5 DEF Leaves, x
<1> HIDE DEF s6
<1>14. /\ p0 \in Nat /\ p1 \in Nat /\ p2 \in Nat /\ p3 \in Nat /\ q0 \in Nat /\ q1 \in Nat /\ q2 \in Nat /\ q3 \in Nat
       /\ l0 \in Nat /\ l1 \in Nat /\ l2 \in Nat /\ l3 \in Nat /\ l4 \in Nat /\ l5 \in Nat /\ l6 \in Nat
  BY <1>1
<1> DEFINE d0 == p0 * q0
           d1 == p0 * q1 + p1 * q0
           d2 == p0 * q2 + p1 * q1 + p2 * q0
           d3 == p0 * q3 + p1 * q2 + p2 * q1 + p3 * q0
           d4 == p1 * q3 + p2 * q2 + p3 * q1
           d5 == p2 * q3 + p3 * q2
           d6 == p3 * q3
<1>15. d0 \in Nat /\ d1 \in Nat /\ d2 \in Nat /\ d3 \in Nat /\ d4 \in Nat /\ d5 \in Nat /\ d6 \in Nat
  BY <1>14
<1>16. a * b = d0 + B * (d1 + B * (d2 + B * (d3 + B * (d4 + B * (d5 + B * d6)))))
  BY <1>1, <1>2, <1>3, <1>14, Columns
<1>17. /\ 0 + d0 = B * c1 + l0 /\ c1 + d1 = B * c2 + l1 /\ c2 + d2 = B * c3 + l2 /\ c3 + d3 = B * c4 + l3
       /\ c4 + d4 = B * c5 + l4 /\ c5 + d5 = B * c6 + l5 /\ c6 + d6 = B * c7 + l6
  BY <1>7, <1>8, <1>9, <1>10, <1>11, <1>12, <1>13
<1> HIDE DEF d0, d1, d2, d3, d4, d5, d6
<1> DEFINE w5 == d5 + B * d6
           w4 == d4 + B * w5
           w3 == d3 + B * w4
           w2 == d2 + B * w3
           w1 == d1 + B * w2
           w0 == d0 + B * w1
<1>18. w5 \in Nat /\ c5 + w5 = l5 + B * (c6 + d6)
  <2>1. w5 \in Nat
    BY <1>1, <1>15
  <2> QED
    BY <1>1, <1>14, <1>15, <1>17, <2>1, HornerStep
<1> HIDE DEF w5
<1>19. w4 \in Nat /\ c4 + w4 = l4 + B * (c5 + w5)
  <2>1. w4 \in Nat
    BY <1>1, <1>15, <1>18
  <2> QED
    BY <1>1, <1>14, <1>15, <1>17, <2>1, HornerStep, <1>18
<1> HIDE DEF w4
<1>20. w3 \in Nat /\ c3 + w3 = l3 + B * (c4 + w4)
  <2>1. w3 \in Nat
    BY <1>1, <1>15, <1>19
  <2> QED
    BY <1>1, <1>14, <1>15, <1>17, <2>1, HornerStep, <1>19
<1> HIDE DEF w3
<1>21. w2 \in Nat /\ c2 + w2 = l2 + B * (c3 + w3)
  <2>1. w2 \in Nat
    BY <1>1, <1>15, <1>20
  <2> QED
    BY <1>1, <1>14, <1>15, <1>17, <2>1, HornerStep, <1>20
<1> HIDE DEF w2
<1>22. w1 \in Nat /\ c1 + w1 = l1 + B * (c2 + w2)
  <2>1. w1 \in Nat
    BY <1>1, <1>15, <1>21
  <2> QED
    BY <1>1, <1>14, <1>15, <1>17, <2>1, HornerStep, <1>21
<1> HIDE DEF w1
<1>23. w0 \in Nat /\ 0 + w0 = l0 + B * (c1 + w1)
  <2>1. w0 \in Nat
    BY <1>1, <1>15, <1>22
  <2> QED
    BY <1>1, <1>14, <1>15, <1>17, <2>1, HornerStep, <1>22
<1> HIDE DEF w0
<1>24. a * b = w0
  BY <1>16 DEF w0, w1, w2, w3, w4, w5
<1> DEFINE y6 == l6 + B * c7
           y5 == l5 + B * y6
           y4 == l4 + B * y5
           y3 == l3 + B * y4
           y2 == l2 + B * y3
           y1 == l1 + B * y2
           y0 == l0 + B * y1
<1>25. a * b = y0
  <2>1. c6 + d6 = y6
    BY <1>1, <1>14, <1>15, <1>17
  <2>2. c5 + w5 = y5
    BY <1>18, <2>1
  <2>3. c4 + w4 = y4
    BY <1>19, <2>2
  <2>4. c3 + w3 = y3
    BY <1>20, <2>3
  <2>5. c2 + w2 = y2
    BY <1>21, <2>4
  <2>6. c1 + w1 = y1
    BY <1>22, <2>5
  <2>7. 0 + w0 = y0
    BY <1>23, <2>6
  <2> QED
    BY <1>23, <1>24, <2>7
<1>26. c7 < B
  <2> SUFFICES ASSUME c7 >= B PROVE FALSE
    BY <1>1
  <2> DEFINE m2 == B * B
             m3 == B * m2
             m4 == B * m3
             m5 == B * m4
             m6 == B * m5
             m7 == B * m6
             m8 == B * m7
  <2>1. y6 \in Nat /\ m2 \in Nat /\ y6 >= m2
    BY <1>1, <1>14, HornerGrows
  <2> HIDE DEF y6, m2
  <2>2. y5 \in Nat /\ m3 \in Nat /\ y5 >= m3
    BY <1>1, <1>14, <2>1, HornerGrows
  <2> HIDE DEF y5, m3
  <2>3. y4 \in Nat /\ m4 \in Nat /\ y4 >= m4
    BY <1>1, <1>14, <2>2, HornerGrows
  <2> HIDE DEF y4, m4
  <2>4. y3 \in Nat /\ m5 \in Nat /\ y3 >= m5
    BY <1>1, <1>14, <2>3, HornerGrows
  <2> HIDE DEF y3, m5
  <2>5. y2 \in Nat /\ m6 \in Nat /\ y2 >= m6
    BY <1>1, <1>14, <2>4, HornerGrows
  <2> HIDE DEF y2, m6
  <2>6. y1 \in Nat /\ m7 \in Nat /\ y1 >= m7
    BY <1>1, <1>14, <2>5, HornerGrows
  <2> HIDE DEF y1, m7
  <2>7. y0 \in Nat /\ m8 \in Nat /\ y0 >= m8
    BY <1>1, <1>14, <2>6, HornerGrows
  <2> HIDE DEF y0, m8
  <2>8. m8 = FullBase * FullBase
    <3>1. FullBase = m2 * m2
      BY FieldSizes DEF m2
    <3>2. m4 = m2 * m2
      BY <1>1 DEF m4, m3, m2
    <3>3. m8 = m4 * m4
      <4> DEFINE s == m2
      <4>1. m4 = s * s /\ s = B * B /\ s \in Nat
        BY <2>1, <3>2 DEF m2
      <4>2. m8 = B * (B * (B * (B * m4)))
        BY DEF m8, m7, m6, m5
      <4>3. B * (B * (B * (B * m4))) = (B * B) * ((B * B) * m4)
        BY <1>1, <2>3
      <4>4. m8 = s * (s * m4)
        BY <4>1, <4>2, <4>3
      <4> HIDE DEF s, m4, m8
      <4> QED
        BY <2>3, <4>1, <4>4
    <3> QED
      BY <3>1, <3>2, <3>3
  <2>9. a * b < FullBase * FullBase
    <3> DEFINE f == FullBase
    <3>1. f \in Nat /\ a < f /\ b < f
      BY <1>1, FieldSizes
    <3> HIDE DEF f
    <3>2. a * b <= a * f /\ a * f + f <= f * f
      <4>1. a + 1 <= f
        BY <1>1, <3>1
      <4>2. (a + 1) * f <= f * f
        BY <1>1, <3>1, <4>1
      <4> QED
        BY <1>1, <3>1, <4>2
    <3>3. a * b \in Nat /\ a * f \in Nat /\ f * f \in Nat /\ f > 0
      BY <1>1, <3>1
    <3>4. a * b < f * f
      BY <3>2, <3>3, <3>1
    <3> QED
      BY <3>4 DEF f
  <2>10. FullBase * FullBase \in Nat
    BY FieldSizes
  <2> QED
    BY <1>25, <2>7, <2>8, <2>9, <2>10
<1>27. c7 % B = c7 /\ c7 \in D
  BY <1>1, <1>26, SmallIs
<1>28. /\ l[1] = l0 /\ l[2] = l1 /\ l[3] = l2 /\ l[4] = l3 /\ l[5] = l4 /\ l[6] = l5 /\ l[7] = l6
       /\ l[8] = c7
  BY <1>7, <1>8, <1>9, <1>10, <1>11, <1>12, <1>13, <1>27
<1>29. l \in [1 .. 8 -> D]
  <2> SUFFICES ASSUME NEW i \in 1 .. 8 PROVE l[i] \in D
    OBVIOUS
  <2> HIDE DEF l, D
  <2>1. i = 1 \/ i = 2 \/ i = 3 \/ i = 4 \/ i = 5 \/ i = 6 \/ i = 7 \/ i = 8
    OBVIOUS
  <2> QED
    BY <1>27, <1>28, <2>1
<1>30. a * b = l[1] + B * (l[2] + B * (l[3] + B * (l[4] + B * (l[5] + B * (l[6] + B * (l[7] + B * l[8]))))))
  <2> HIDE DEF l
  <2> QED
    BY <1>25, <1>28
<1> HIDE DEF l
<1> QED
  BY <1>6, <1>29, <1>30

-----------------------------------------------------------------------------
(* Folding products.                                                       *)

\* What is folded: four limbs and what was carried out of them.
Folded == [low : 0 .. FullBase - 1, carry : 0 .. LimbBase - 1]

\* felt_acc_add_u128: nothing gets lost while the sum has five limbs.
LEMMA FoldLimbIs ==
  ASSUME NEW acc \in Folded, NEW hi \in 0 .. LimbBase - 1, NEW i \in 0 .. 3
  PROVE  LET total == acc.low + FullBase * acc.carry + hi * FoldC * Place(i)
             next == FoldLimb(acc, hi, i)
         IN /\ total \in Nat /\ next \in Folded
            /\ total < FullBase * LimbBase => next.low + FullBase * next.carry = total
<1> DEFINE f == FullBase
           b == LimbBase
           total == acc.low + f * acc.carry + hi * FoldC * Place(i)
           next == FoldLimb(acc, hi, i)
<1>1. f \in Nat \ {0} /\ b \in Nat \ {0} /\ f * f \in Nat \ {0} /\ f * b \in Nat /\ f * b <= f * f
  <2>1. f \in Nat /\ b \in Nat /\ f > 0 /\ b > 0 /\ b <= f
    BY FieldSizes
  <2> HIDE DEF f, b
  <2>2. f * b <= f * f /\ f * b \in Nat /\ f * f \in Nat /\ f * f > 0
    BY <2>1
  <2> QED
    BY <2>1, <2>2
<1>2. Place(i) \in Nat
  <2>1. b * b \in Nat /\ b * b * b \in Nat
    BY <1>1
  <2>2. i = 0 \/ i = 1 \/ i = 2 \/ i = 3
    OBVIOUS
  <2> QED
    BY <1>1, <2>1, <2>2, Places
<1>3. acc.low \in Nat /\ acc.carry \in Nat /\ hi \in Nat
  BY <1>1 DEF Folded
<1>4. total \in Nat
  <2>1. hi * FoldC \in Nat
    BY <1>3, FieldSizes
  <2> DEFINE c == hi * FoldC
  <2> HIDE DEF c
  <2>2. c * Place(i) \in Nat
    BY <1>2, <2>1 DEF c
  <2>3. f * acc.carry \in Nat
    BY <1>1, <1>3
  <2> QED
    BY <1>3, <2>2, <2>3 DEF c
<1> DEFINE eight == total % (f * f)
           propagated == total \div (f * f)
           up == eight \div f
<1>5. next = [low |-> eight % f, carry |-> (Limb(up, 0) + propagated) % b]
  BY DEF FoldLimb
<1> HIDE DEF total, f, b
<1>6. eight \in Nat /\ propagated \in Nat
  <2> DEFINE g == f * f
  <2>1. g \in Nat \ {0}
    BY <1>1
  <2> HIDE DEF g
  <2>2. total % g \in Nat /\ total \div g \in Nat
    BY <1>4, <2>1, DivMod
  <2> QED
    BY <2>2 DEF g
<1> HIDE DEF eight, propagated
<1>7. /\ eight % f \in Nat /\ eight % f < f /\ up \in Nat /\ eight = f * up + (eight % f)
      /\ Limb(up, 0) = up % b /\ up % b \in Nat
  <2>1. eight % f \in Nat /\ eight % f < f /\ up \in Nat /\ eight = f * up + (eight % f)
    BY <1>1, <1>6, DivMod
  <2> HIDE DEF up
  <2>2. up % b \in Nat
    BY <1>1, <2>1, DivMod
  <2>3. Limb(up, 0) = up % b
    BY <2>1, Places, DivOne DEF Limb, b
  <2> QED
    BY <2>1, <2>2, <2>3
<1> HIDE DEF up
<1> DEFINE high == Limb(up, 0) + propagated
<1>8. high \in Nat /\ high % b \in Nat /\ high % b < b
  <2>1. high \in Nat
    BY <1>6, <1>7
  <2> HIDE DEF high
  <2> QED
    BY <1>1, <2>1, DivMod
<1>9. next \in Folded
  <2>1. eight % f \in 0 .. f - 1 /\ high % b \in 0 .. b - 1
    BY <1>1, <1>7, <1>8
  <2> QED
    BY <1>5, <2>1 DEF Folded, f, b
<1>10. ASSUME total < f * b
       PROVE  next.low + f * next.carry = total
  <2>1. eight = total /\ propagated = 0
    <3> DEFINE g == f * f
    <3>1. g \in Nat /\ total < g
      BY <1>1, <1>4, <1>10
    <3> HIDE DEF g
    <3>2. total \div g = 0 /\ total % g = total
      BY <1>4, <3>1, SmallIs
    <3> QED
      BY <3>2 DEF g, eight, propagated
  <2>2. up < b
    <3> SUFFICES ASSUME up >= b PROVE FALSE
      BY <1>1, <1>7
    <3>1. f * up >= f * b /\ f * up \in Nat
      BY <1>1, <1>7
    <3> QED
      BY <1>1, <1>7, <1>10, <2>1, <3>1
  <2>3. high = up /\ up % b = up
    <3>1. up % b = up
      BY <1>1, <1>7, <2>2, SmallIs
    <3> QED
      BY <1>7, <2>1, <3>1
  <2>4. next.low = eight % f /\ next.carry = up
    BY <1>5, <2>3
  <2>5. f * up \in Nat
    BY <1>1, <1>7
  <2> HIDE DEF next, high
  <2> QED
    BY <1>7, <2>1, <2>4, <2>5
<1> QED
  BY <1>4, <1>9, <1>10 DEF total, f, b

\* One pass of the second fold.
LEMMA RefoldStep ==
  ASSUME NEW low \in 0 .. FullBase - 1, NEW carry \in 0 .. LimbBase - 1
  PROVE  LET next == FoldLimb([low |-> low, carry |-> 0], carry, 0)
             total == low + carry * FoldC
         IN /\ total \in Nat
            /\ total < FullBase => next = [low |-> total, carry |-> 0]
            /\ total >= FullBase => /\ next = [low |-> total - FullBase, carry |-> 1]
                                    /\ total - FullBase + FoldC < FullBase
<1> DEFINE f == FullBase
           b == LimbBase
           total == low + carry * FoldC
           acc == [low |-> low, carry |-> 0]
           next == FoldLimb(acc, carry, 0)
           s == b * b
<1>1. /\ f \in Nat /\ b \in Nat /\ b >= 2 /\ s \in Nat /\ f * b \in Nat /\ 2 * b <= s /\ 2 * s <= f
      /\ FoldC \in Nat /\ FoldC < b
  <2>1. f \in Nat /\ b \in Nat
    BY FieldSizes
  <2>2. f * b \in Nat
    BY <2>1
  <2> QED
    BY <2>1, <2>2, FieldSizes
<1>2. carry * FoldC \in Nat /\ carry * FoldC <= s
  <2>1. carry \in Nat /\ carry <= b
    BY <1>1
  <2> HIDE DEF b
  <2>2. carry * FoldC <= b * FoldC /\ b * FoldC <= b * b
    BY <1>1, <2>1
  <2>3. carry * FoldC \in Nat /\ b * FoldC \in Nat
    BY <1>1, <2>1
  <2> QED
    BY <1>1, <2>2, <2>3
<1>3. acc \in Folded /\ acc.low = low /\ acc.carry = 0
  BY <1>1 DEF Folded
<1>4. total \in Nat /\ total < 2 * f /\ total - f < s
  <2> HIDE DEF s
  <2> QED
    BY <1>1, <1>2
<1>5. acc.low + f * acc.carry + carry * FoldC * Place(0) = total
  <2> DEFINE c == carry * FoldC
  <2>1. c * 1 = c /\ f * 0 = 0 /\ low + 0 + c = low + c
    BY <1>1, <1>2
  <2> HIDE DEF c, acc
  <2>2. low + f * 0 + c * 1 = low + c
    BY <1>1, <2>1
  <2> QED
    BY <1>3, <2>2, Places DEF c
<1>6. total < f * b
  <2> HIDE DEF total, f, b
  <2>1. f * b >= f * 2
    BY <1>1
  <2> QED
    BY <1>1, <1>4, <2>1
<1>7. next \in Folded /\ next.low + f * next.carry = total
  <2>1. 0 \in 0 .. 3
    OBVIOUS
  <2> HIDE DEF acc
  <2> QED
    BY <1>3, <1>5, <1>6, <2>1, FoldLimbIs
<1> HIDE DEF next, total
<1>8. /\ next = [low |-> next.low, carry |-> next.carry]
      /\ next.low \in Nat /\ next.low < f /\ next.carry \in Nat
  BY <1>1, <1>7 DEF Folded
<1>9. ASSUME next.carry >= 2
      PROVE  FALSE
  <2>1. f * next.carry >= f * 2 /\ f * next.carry \in Nat
    BY <1>1, <1>8, <1>9
  <2> QED
    BY <1>1, <1>4, <1>7, <1>8, <2>1
<1>10. next.carry = 0 \/ next.carry = 1
  BY <1>8, <1>9
<1>11. /\ next.carry = 0 => next.low = total
       /\ next.carry = 1 => next.low = total - f
  <2>1. f * 0 = 0 /\ f * 1 = f
    BY <1>1
  <2> QED
    BY <1>1, <1>7, <1>8, <2>1
<1>12. total - f + FoldC < f
  <2> HIDE DEF s
  <2> QED
    BY <1>1, <1>4
<1>13. total < f => next = [low |-> total, carry |-> 0]
  BY <1>1, <1>4, <1>8, <1>10, <1>11
<1>14. total >= f => next = [low |-> total - f, carry |-> 1]
  BY <1>1, <1>4, <1>8, <1>10, <1>11
<1> QED
  BY <1>4, <1>12, <1>13, <1>14 DEF next, total

\* The second fold ends, reduced to four limbs.
LEMMA RefoldIs ==
  ASSUME NEW acc \in Folded
  PROVE  /\ Refold(acc) \in 0 .. FullBase - 1
         /\ Same(FieldMod, acc.low + FullBase * acc.carry, Refold(acc))
<1> DEFINE Total(r) == r.low + r.carry * FoldC
           Step(r) == FoldLimb([r EXCEPT !.carry = 0], r.carry, 0)
           Fold(f) == [r \in Folded |-> IF r.carry = 0 THEN r.low ELSE f[Step(r)]]
           Right(r) == IF r.carry = 0 THEN r.low
                       ELSE IF Total(r) < FullBase THEN Total(r) ELSE Total(r) - FullBase + FoldC
           folded == [r \in Folded |-> Right(r)]
<1>1. FullBase \in Nat /\ FoldC \in Nat /\ 0 < FoldC /\ FoldC < FullBase /\ FullBase = FieldMod + FoldC
      /\ FieldMod \in Nat
  BY FieldSizes
<1>2. ASSUME NEW r \in Folded
      PROVE  /\ r.low \in 0 .. FullBase - 1 /\ r.carry \in 0 .. LimbBase - 1 /\ Total(r) \in Nat
             /\ Total(r) < FullBase => Step(r) = [low |-> Total(r), carry |-> 0]
             /\ ~(Total(r) < FullBase) => /\ Step(r) = [low |-> Total(r) - FullBase, carry |-> 1]
                                          /\ Total(r) - FullBase + FoldC < FullBase
  <2>1. r = [low |-> r.low, carry |-> r.carry] /\ r.low \in 0 .. FullBase - 1 /\ r.carry \in 0 .. LimbBase - 1
    BY DEF Folded
  <2>2. [r EXCEPT !.carry = 0] = [low |-> r.low, carry |-> 0]
    BY <2>1
  <2>3. /\ Total(r) \in Nat
        /\ Total(r) < FullBase => Step(r) = [low |-> Total(r), carry |-> 0]
        /\ Total(r) >= FullBase => /\ Step(r) = [low |-> Total(r) - FullBase, carry |-> 1]
                                   /\ Total(r) - FullBase + FoldC < FullBase
    BY <2>1, <2>2, RefoldStep
  <2> HIDE DEF Step, Total
  <2>4. ~(Total(r) < FullBase) => Total(r) >= FullBase
    BY <1>1, <2>3
  <2> QED
    BY <2>1, <2>3, <2>4
<1> HIDE DEF Step
<1>3. ASSUME NEW n \in 0 .. FullBase - 1, NEW c \in {0, 1}
      PROVE  [low |-> n, carry |-> c] \in Folded
  <2>1. c \in 0 .. LimbBase - 1
    BY FieldSizes
  <2> QED
    BY <2>1 DEF Folded
<1>4. ASSUME NEW f, \A r \in Folded : f[r] = IF r.carry = 0 THEN r.low ELSE f[Step(r)], NEW r \in Folded
      PROVE  f[r] = Right(r)
  <2>1. CASE r.carry = 0
    BY <1>4, <2>1
  <2>2. CASE r.carry # 0 /\ Total(r) < FullBase
    <3> DEFINE t == [low |-> Total(r), carry |-> 0]
    <3>1. t \in Folded /\ t.carry = 0 /\ t.low = Total(r)
      <4> HIDE DEF Total
      <4>1. Total(r) \in 0 .. FullBase - 1
        BY <1>1, <1>2, <2>2
      <4> QED
        BY <1>3, <4>1
    <3>2. f[r] = f[t]
      BY <1>2, <1>4, <2>2
    <3> HIDE DEF t, Total
    <3>3. f[t] = Total(r)
      BY <1>4, <3>1
    <3> QED
      BY <2>2, <3>2, <3>3
  <2>3. CASE r.carry # 0 /\ ~(Total(r) < FullBase)
    <3> DEFINE w == Total(r) - FullBase
               t == [low |-> w, carry |-> 1]
    <3>1. w \in Nat /\ w + FoldC < FullBase /\ w \in 0 .. FullBase - 1 /\ w + FoldC \in 0 .. FullBase - 1
      <4> HIDE DEF Total
      <4> QED
        BY <1>1, <1>2, <2>3
    <3>2. f[r] = f[t]
      BY <1>2, <1>4, <2>3
    <3> HIDE DEF w
    <3>3. t \in Folded /\ t.carry = 1 /\ t.low = w
      BY <1>3, <3>1
    <3>4. Total(t) = w + FoldC
      BY <1>1, <3>1, <3>3
    <3> HIDE DEF t
    <3>5. Step(t) = [low |-> w + FoldC, carry |-> 0]
      BY <1>2, <3>1, <3>3, <3>4
    <3>6. f[t] = f[Step(t)]
      BY <1>4, <3>3
    <3>7. Step(t) \in Folded
      BY <1>3, <3>1, <3>5
    <3>8. f[Step(t)] = w + FoldC
      BY <1>4, <3>5, <3>7
    <3> HIDE DEF Total
    <3> QED
      BY <2>3, <3>2, <3>6, <3>8 DEF w
  <2> QED
    BY <2>1, <2>2, <2>3
<1>5. folded = Fold(folded)
  <2> SUFFICES ASSUME NEW r \in Folded, r.carry # 0
               PROVE  Right(r) = folded[Step(r)]
    OBVIOUS
  <2>1. CASE Total(r) < FullBase
    <3> DEFINE t == [low |-> Total(r), carry |-> 0]
    <3>1. t \in Folded /\ t.carry = 0 /\ t.low = Total(r) /\ Step(r) = t
      <4> HIDE DEF Total
      <4>1. Total(r) \in 0 .. FullBase - 1
        BY <1>1, <1>2, <2>1
      <4> QED
        BY <1>2, <1>3, <2>1, <4>1
    <3> HIDE DEF t, Total
    <3>2. folded[t] = Total(r)
      BY <3>1
    <3> QED
      BY <2>1, <3>1, <3>2
  <2>2. CASE ~(Total(r) < FullBase)
    <3> DEFINE w == Total(r) - FullBase
               t == [low |-> w, carry |-> 1]
    <3>1. w \in Nat /\ w + FoldC < FullBase /\ w \in 0 .. FullBase - 1
      <4> HIDE DEF Total
      <4> QED
        BY <1>1, <1>2, <2>2
    <3>2. Step(r) = t
      BY <1>2, <2>2
    <3> HIDE DEF w
    <3>3. t \in Folded /\ t.carry = 1 /\ t.low = w
      BY <1>3, <3>1
    <3>4. Total(t) = w + FoldC
      BY <1>1, <3>1, <3>3
    <3> HIDE DEF t
    <3>5. Right(t) = w + FoldC
      BY <3>1, <3>3, <3>4
    <3>6. folded[t] = w + FoldC
      <4> HIDE DEF Right
      <4> QED
        BY <3>3, <3>5
    <3> HIDE DEF folded, Total
    <3> QED
      BY <2>2, <3>2, <3>6 DEF w
  <2> QED
    BY <2>1, <2>2
<1>6. PICK f : f = Fold(f) /\ Refold(acc) = f[acc]
  <2>1. Refold(acc) = (CHOOSE f : f = Fold(f))[acc]
    BY DEF Refold, Folded, Step
  <2>2. \E f : f = Fold(f)
    <3> HIDE DEF Fold, folded
    <3> QED
      BY <1>5
  <2> HIDE DEF Fold
  <2> QED
    BY <2>1, <2>2
<1>7. Refold(acc) = Right(acc)
  <2>1. \A r \in Folded : f[r] = IF r.carry = 0 THEN r.low ELSE f[Step(r)]
    BY <1>6
  <2> HIDE DEF Right, Fold
  <2> QED
    BY <1>4, <1>6, <2>1
<1> DEFINE l == acc.low
           c == acc.carry
<1>8. l \in 0 .. FullBase - 1 /\ c \in Nat /\ Total(acc) \in Nat /\ Total(acc) = l + c * FoldC
  BY <1>2
<1>9. (~(Total(acc) < FullBase)) => Total(acc) - FullBase + FoldC < FullBase
  BY <1>2
<1> HIDE DEF l, c
<1>10. l + FullBase * c = Total(acc) + FieldMod * c /\ FieldMod * c \in Nat
  <2>1. (FieldMod + FoldC) * c = FieldMod * c + c * FoldC
    BY <1>1, <1>8
  <2>2. FieldMod * c \in Nat /\ c * FoldC \in Nat
    BY <1>1, <1>8
  <2> HIDE DEF Total
  <2> QED
    BY <1>1, <1>8, <2>1, <2>2
<1> DEFINE n == Total(acc)
<1>11. n \in Nat /\ Right(acc) = IF c = 0 THEN l ELSE IF n < FullBase THEN n ELSE n - FullBase + FoldC
  BY <1>8 DEF l, c
<1>12. /\ c = 0 => n = l
       /\ (~(n < FullBase)) => n - FullBase + FoldC < FullBase
  <2>1. c = 0 => c * FoldC = 0
    BY <1>1
  <2> HIDE DEF Total
  <2> QED
    BY <1>8, <1>9, <2>1
<1>13. l + FullBase * c = n + FieldMod * c
  BY <1>10
<1> HIDE DEF n, Right
<1>14. CASE c = 0 \/ n < FullBase
  <2>1. Right(acc) = n /\ n \in 0 .. FullBase - 1
    BY <1>1, <1>8, <1>11, <1>12, <1>14
  <2>2. Same(FieldMod, l + FullBase * c, n)
    BY <1>8, <1>13 DEF Same
  <2> QED
    BY <1>7, <2>1, <2>2 DEF l, c
<1>15. CASE c # 0 /\ ~(n < FullBase)
  <2> DEFINE e == n - FullBase + FoldC
  <2>1. Right(acc) = e /\ e \in 0 .. FullBase - 1
    BY <1>1, <1>11, <1>12, <1>15
  <2>2. n = e + FieldMod /\ e \in Int
    BY <1>1, <1>11
  <2> HIDE DEF e
  <2>3. l + FullBase * c = e + FieldMod * (c + 1)
    <3>1. FieldMod * (c + 1) = FieldMod * c + FieldMod
      BY <1>1, <1>8
    <3> QED
      BY <1>1, <1>10, <1>13, <2>2, <3>1
  <2>4. Same(FieldMod, l + FullBase * c, e)
    <3>1. c + 1 \in Int
      BY <1>8
    <3> QED
      BY <2>3, <3>1 DEF Same
  <2> QED
    BY <1>7, <2>1, <2>4 DEF l, c
<1> QED
  BY <1>14, <1>15

\* Four limbs make a number.
LEMMA NumberFits ==
  ASSUME NEW p \in 0 .. LimbBase - 1, NEW q \in 0 .. LimbBase - 1,
         NEW r \in 0 .. LimbBase - 1, NEW s \in 0 .. LimbBase - 1
  PROVE  /\ p + LimbBase * (q + LimbBase * (r + LimbBase * s)) \in 0 .. FullBase - 1
         /\ p + q * Place(1) + r * Place(2) + s * Place(3)
              = p + LimbBase * (q + LimbBase * (r + LimbBase * s))
<1> DEFINE b == LimbBase
           m2 == b * b
           m3 == b * m2
           m4 == b * m3
<1>1. /\ b \in Nat /\ p \in Nat /\ q \in Nat /\ r \in Nat /\ s \in Nat
      /\ p + 1 <= b /\ q + 1 <= b /\ r + 1 <= b /\ s + 1 <= b
  BY FieldSizes
<1>2. FullBase = m4
  <2>1. FullBase = (b * b) * (b * b)
    BY FieldSizes
  <2> QED
    BY <1>1, <2>1
<1>3. p + q * Place(1) + r * Place(2) + s * Place(3) = p + b * (q + b * (r + b * s))
  <2>1. q * Place(1) = q * b /\ r * Place(2) = r * (b * b) /\ s * Place(3) = s * (b * b * b)
    BY Places
  <2>2. p + q * b + r * (b * b) + s * (b * b * b) = p + b * (q + b * (r + b * s))
    BY <1>1
  <2> QED
    BY <2>1, <2>2
<1>4. ASSUME NEW x \in Nat, NEW y \in Nat, NEW m \in Nat, y + 1 <= m, x + 1 <= b
      PROVE  x + b * y \in Nat /\ b * m \in Nat /\ (x + b * y) + 1 <= b * m
  <2>1. b * (y + 1) <= b * m /\ b * (y + 1) = b * y + b
    BY <1>1, <1>4
  <2>2. b * y \in Nat /\ b * m \in Nat
    BY <1>1, <1>4
  <2> QED
    BY <1>1, <1>4, <2>1, <2>2
<1> DEFINE z == r + b * s
           y == q + b * z
           x == p + b * y
<1> HIDE DEF b
<1>5. z \in Nat /\ m2 \in Nat /\ z + 1 <= m2
  BY <1>1, <1>4
<1> HIDE DEF z, m2
<1>6. y \in Nat /\ m3 \in Nat /\ y + 1 <= m3
  BY <1>1, <1>4, <1>5
<1> HIDE DEF y, m3
<1>7. x \in Nat /\ m4 \in Nat /\ x + 1 <= m4
  BY <1>1, <1>4, <1>6
<1> HIDE DEF x, m4
<1>8. x \in 0 .. FullBase - 1
  BY <1>2, <1>7
<1> QED
  BY <1>3, <1>8 DEF x, y, z, b

\* The two halves of eight limbs.
LEMMA HalvesFit ==
  ASSUME NEW l \in [1 .. 8 -> 0 .. LimbBase - 1]
  PROVE  /\ l[1] + LimbBase * (l[2] + LimbBase * (l[3] + LimbBase * l[4])) \in 0 .. FullBase - 1
         /\ l[1] + l[2] * Place(1) + l[3] * Place(2) + l[4] * Place(3)
              = l[1] + LimbBase * (l[2] + LimbBase * (l[3] + LimbBase * l[4]))
         /\ l[5] + LimbBase * (l[6] + LimbBase * (l[7] + LimbBase * l[8])) \in 0 .. FullBase - 1
<1> DEFINE p == l[1]
           q == l[2]
           r == l[3]
           s == l[4]
           t == l[5]
           u == l[6]
           v == l[7]
           w == l[8]
<1>1. /\ p \in 0 .. LimbBase - 1 /\ q \in 0 .. LimbBase - 1
      /\ r \in 0 .. LimbBase - 1 /\ s \in 0 .. LimbBase - 1
      /\ t \in 0 .. LimbBase - 1 /\ u \in 0 .. LimbBase - 1
      /\ v \in 0 .. LimbBase - 1 /\ w \in 0 .. LimbBase - 1
  OBVIOUS
<1> HIDE DEF p, q, r, s, t, u, v, w
<1>2. /\ p + LimbBase * (q + LimbBase * (r + LimbBase * s)) \in 0 .. FullBase - 1
      /\ p + q * Place(1) + r * Place(2) + s * Place(3)
           = p + LimbBase * (q + LimbBase * (r + LimbBase * s))
  BY <1>1, NumberFits
<1>3. t + LimbBase * (u + LimbBase * (v + LimbBase * w)) \in 0 .. FullBase - 1
  BY <1>1, NumberFits
<1> QED
  BY <1>2, <1>3 DEF p, q, r, s, t, u, v, w

\* felt_reduce_512: reduced, and what the eight limbs are.
LEMMA Reduce512Is ==
  ASSUME NEW l \in [1 .. 8 -> 0 .. LimbBase - 1]
  PROVE  LET low == l[1] + LimbBase * (l[2] + LimbBase * (l[3] + LimbBase * l[4]))
             high == l[5] + LimbBase * (l[6] + LimbBase * (l[7] + LimbBase * l[8]))
         IN Reduce512(l) \in Elements /\ Same(FieldMod, low + FullBase * high, Reduce512(l))
<1> DEFINE b == LimbBase
           low == l[1] + b * (l[2] + b * (l[3] + b * l[4]))
           high == l[5] + b * (l[6] + b * (l[7] + b * l[8]))
           start == l[1] + l[2] * Place(1) + l[3] * Place(2) + l[4] * Place(3)
           base == [low |-> start, carry |-> 0]
           order == <<0, 1, 2, 3>>
           F == [p \in (1 .. 4) \X Folded |-> FoldLimb(p[2], l[5 + order[p[1]]], order[p[1]])]
           Fold(g) == [s \in SUBSET DOMAIN order |->
                         IF s = {} THEN base
                         ELSE FoldLimb(g[s \ {Max(s)}], l[5 + order[Max(s)]], order[Max(s)])]
<1>1. /\ b \in Nat /\ FullBase \in Nat /\ FoldC \in Nat /\ FoldC < b
      /\ \A i \in 1 .. 8 : l[i] \in 0 .. LimbBase - 1 /\ l[i] \in Nat
  BY FieldSizes
<1>2. DOMAIN order = 1 .. 4 /\ 4 \in Nat /\ \A k \in 1 .. 4 : order[k] = k - 1 /\ order[k] \in 0 .. 3
  OBVIOUS
<1>3. low \in 0 .. FullBase - 1 /\ start = low
  BY HalvesFit
<1>4. high \in 0 .. FullBase - 1
  BY HalvesFit
<1>5. base \in Folded
  <2> HIDE DEF low, start
  <2>1. 0 \in 0 .. LimbBase - 1
    BY FieldSizes
  <2> QED
    BY <1>3, <2>1 DEF Folded
<1>6. ASSUME NEW acc \in Folded, NEW k \in 1 .. 4
      PROVE  FoldLimb(acc, l[5 + order[k]], order[k]) \in Folded
  <2>1. 5 + order[k] \in 1 .. 8 /\ order[k] \in 0 .. 3
    BY <1>2
  <2> HIDE DEF order
  <2>2. l[5 + order[k]] \in 0 .. LimbBase - 1
    BY <1>1, <2>1
  <2> QED
    BY <2>1, <2>2, FoldLimbIs
<1> HIDE DEF order, base
<1>7. \E g : g = Fold(g)
  <2>1. F \in [(1 .. 4) \X Folded -> Folded]
    <3> SUFFICES ASSUME NEW p \in (1 .. 4) \X Folded
                 PROVE  FoldLimb(p[2], l[5 + order[p[1]]], order[p[1]]) \in Folded
      OBVIOUS
    <3>1. p[2] \in Folded /\ p[1] \in 1 .. 4
      OBVIOUS
    <3> QED
      BY <1>6, <3>1
  <2>2. PICK g \in [SUBSET (1 .. 4) -> Folded] : IsFold(g, 4, base, F)
    <3> HIDE DEF F
    <3> QED
      BY <1>2, <1>5, <2>1, FoldExists
  <2>3. ASSUME NEW s \in SUBSET (1 .. 4), s # {}
        PROVE  <<Max(s), g[s \ {Max(s)}]>> \in (1 .. 4) \X Folded
    <3>1. Max(s) \in 1 .. 4
      BY <1>2, <2>3, MaxIn
    <3> QED
      BY <2>2, <3>1
  <2>4. g = Fold(g)
    <3>1. g = [s \in SUBSET (1 .. 4) |-> g[s]]
      BY <2>2
    <3>2. \A s \in SUBSET (1 .. 4) :
            g[s] = IF s = {} THEN base
                   ELSE FoldLimb(g[s \ {Max(s)}], l[5 + order[Max(s)]], order[Max(s)])
      BY <2>2, <2>3 DEF IsFold
    <3> QED
      BY <1>2, <3>1, <3>2
  <2> QED
    BY <2>4
<1>8. PICK g : g = Fold(g) /\ Reduce512(l) = ReduceOnce(ReduceOnce(Refold(g[1 .. 4])))
  <2>1. Reduce512(l) = ReduceOnce(ReduceOnce(Refold((CHOOSE g : g = Fold(g))[DOMAIN order])))
    BY DEF Reduce512, FoldLeft, MapThenFoldSet, order, base
  <2> HIDE DEF Fold
  <2> QED
    BY <1>2, <1>7, <2>1
<1> DEFINE g0 == base
           g1 == FoldLimb(g0, l[5], 0)
           g2 == FoldLimb(g1, l[6], 1)
           g3 == FoldLimb(g2, l[7], 2)
           g4 == FoldLimb(g3, l[8], 3)
<1>9. g[1 .. 4] = g4
  <2>1. ASSUME NEW k \in 1 .. 4
        PROVE  g[1 .. k] = FoldLimb(g[1 .. (k - 1)], l[5 + (k - 1)], k - 1)
    <3>1. 1 .. k \in SUBSET DOMAIN order /\ k \in Nat \ {0}
      BY <1>2
    <3>2. Max(1 .. k) = k /\ (1 .. k) \ {Max(1 .. k)} = 1 .. (k - 1) /\ 1 .. k # {}
      BY <3>1, MaxOfPrefix
    <3>3. g[1 .. k] = FoldLimb(g[1 .. (k - 1)], l[5 + order[k]], order[k])
      BY <1>8, <3>1, <3>2
    <3> QED
      BY <1>2, <3>3
  <2>2. g[1 .. 0] = base
    <3>1. 1 .. 0 = {}
      OBVIOUS
    <3> QED
      BY <1>8, <3>1
  <2>3. g[1 .. 1] = FoldLimb(g[1 .. 0], l[5], 0)
    BY <2>1, 1 - 1 = 0, 5 + 0 = 5, 1 \in 1 .. 4
  <2>4. g[1 .. 2] = FoldLimb(g[1 .. 1], l[6], 1)
    BY <2>1, 2 - 1 = 1, 5 + 1 = 6, 2 \in 1 .. 4
  <2>5. g[1 .. 3] = FoldLimb(g[1 .. 2], l[7], 2)
    BY <2>1, 3 - 1 = 2, 5 + 2 = 7, 3 \in 1 .. 4
  <2>6. g[1 .. 4] = FoldLimb(g[1 .. 3], l[8], 3)
    BY <2>1, 4 - 1 = 3, 5 + 3 = 8, 4 \in 1 .. 4
  <2> QED
    BY <2>2, <2>3, <2>4, <2>5, <2>6
<1> HIDE DEF Fold, F
\* What each high limb folds to, and the sums.
<1> DEFINE f1 == l[5] * FoldC * Place(0)
           f2 == l[6] * FoldC * Place(1)
           f3 == l[7] * FoldC * Place(2)
           f4 == l[8] * FoldC * Place(3)
<1>10. f1 \in Nat /\ f2 \in Nat /\ f3 \in Nat /\ f4 \in Nat /\ f1 + f2 + f3 + f4 = FoldC * high
  <2>1. l[5] \in Nat /\ l[6] \in Nat /\ l[7] \in Nat /\ l[8] \in Nat
    BY <1>1
  <2>2. /\ f1 = l[5] * FoldC * 1 /\ f2 = l[6] * FoldC * b /\ f3 = l[7] * FoldC * (b * b)
        /\ f4 = l[8] * FoldC * (b * b * b)
    BY Places
  <2>3. /\ l[5] * FoldC \in Nat /\ l[6] * FoldC \in Nat /\ l[7] * FoldC \in Nat /\ l[8] * FoldC \in Nat
        /\ b * b \in Nat /\ b * b * b \in Nat
    BY <1>1, <2>1
  <2>4. /\ l[5] * FoldC * 1 \in Nat /\ l[6] * FoldC * b \in Nat
        /\ l[7] * FoldC * (b * b) \in Nat /\ l[8] * FoldC * (b * b * b) \in Nat
    <3> DEFINE u == l[5] * FoldC
               v == l[6] * FoldC
               w == l[7] * FoldC
               x == l[8] * FoldC
               s == b * b
               t == b * b * b
    <3>1. u \in Nat /\ v \in Nat /\ w \in Nat /\ x \in Nat /\ s \in Nat /\ t \in Nat
      BY <2>3
    <3> HIDE DEF u, v, w, x, s, t
    <3>2. u * 1 \in Nat /\ v * b \in Nat /\ w * s \in Nat /\ x * t \in Nat
      BY <1>1, <3>1
    <3> QED
      BY <3>2 DEF u, v, w, x, s, t
  <2>5. l[5] * FoldC * 1 + l[6] * FoldC * b + l[7] * FoldC * (b * b) + l[8] * FoldC * (b * b * b)
          = FoldC * (l[5] + b * (l[6] + b * (l[7] + b * l[8])))
    BY <1>1, <2>1
  <2> QED
    BY <2>2, <2>4, <2>5
<1> DEFINE c == FoldC * high
<1>11. c \in Nat /\ low + c < FullBase * b
  <2> DEFINE f == FullBase
  <2>1. high \in Nat /\ low \in Nat /\ high + 1 <= f /\ low + 1 <= f /\ f \in Nat
    BY <1>1, <1>3, <1>4
  <2> HIDE DEF high, low, f
  <2>2. FoldC * high \in Nat /\ FoldC * high <= (b - 1) * high
    BY <1>1, <2>1
  <2>3. (b - 1) * (high + 1) <= (b - 1) * f /\ (b - 1) * (high + 1) = (b - 1) * high + (b - 1)
    BY <1>1, <2>1
  <2>4. (b - 1) * f = f * b - f /\ f * b \in Nat /\ (b - 1) * high \in Nat
    BY <1>1, <2>1
  <2> QED
    BY <1>1, <2>1, <2>2, <2>3, <2>4 DEF f
<1> DEFINE Amount(r) == r.low + FullBase * r.carry
<1>12. ASSUME NEW acc \in Folded, NEW hi \in 0 .. LimbBase - 1, NEW i \in 0 .. 3,
              Amount(acc) + hi * FoldC * Place(i) < FullBase * b
       PROVE  /\ FoldLimb(acc, hi, i) \in Folded
              /\ Amount(FoldLimb(acc, hi, i)) = Amount(acc) + hi * FoldC * Place(i)
  BY <1>12, FoldLimbIs
<1>13. g0 \in Folded /\ Amount(g0) = low
  <2>1. base.low = start /\ base.carry = 0
    BY DEF base
  <2>2. FullBase * 0 = 0 /\ low + 0 = low
    BY <1>1, <1>3
  <2> HIDE DEF low, start
  <2> QED
    BY <1>3, <1>5, <2>1, <2>2
<1>14. low \in Nat
  BY <1>1, <1>3
<1> HIDE DEF g0, Amount, f1, f2, f3, f4, c, low, high
<1>15. g1 \in Folded /\ Amount(g1) = low + f1
  BY <1>1, <1>10, <1>11, <1>12, <1>13, <1>14 DEF f1, c
<1> HIDE DEF g1
<1>16. g2 \in Folded /\ Amount(g2) = low + f1 + f2
  BY <1>1, <1>10, <1>11, <1>12, <1>14, <1>15 DEF f2, c
<1> HIDE DEF g2
<1>17. g3 \in Folded /\ Amount(g3) = low + f1 + f2 + f3
  BY <1>1, <1>10, <1>11, <1>12, <1>14, <1>16 DEF f3, c
<1> HIDE DEF g3
<1>18. g4 \in Folded /\ Amount(g4) = low + f1 + f2 + f3 + f4
  BY <1>1, <1>10, <1>11, <1>12, <1>14, <1>17 DEF f4, c
<1> HIDE DEF g4
<1>19. Amount(g4) = low + c
  BY <1>10, <1>11, <1>14, <1>18 DEF c
<1>20. Refold(g4) \in 0 .. FullBase - 1 /\ Same(FieldMod, low + c, Refold(g4))
  BY <1>18, <1>19, RefoldIs DEF Amount
<1> DEFINE z == Refold(g4)
           y == ReduceOnce(z)
<1>21. y \in Elements /\ (y = z \/ y = z - FieldMod)
  BY <1>20, ReduceOnceIs
<1>22. z \in Int
  BY <1>1, <1>20
<1> HIDE DEF z, y
<1>23. ReduceOnce(y) = y
  <2>1. y \in 0 .. FullBase - 1 /\ y < FieldMod
    BY <1>21, FieldSizes DEF Elements
  <2> QED
    BY <2>1, ReduceOnceIs
<1>24. Reduce512(l) = y
  BY <1>8, <1>9, <1>23 DEF y, z
<1>25. Same(FieldMod, z, y)
  <2>1. FieldMod \in Nat /\ y \in Int
    BY <1>21, FieldSizes DEF Elements
  <2>2. z = y + FieldMod * 0 \/ z = y + FieldMod * 1
    BY <1>21, <1>22, <2>1
  <2> QED
    BY <2>2 DEF Same
<1>26. Same(FieldMod, low + FullBase * high, low + c)
  <2>1. high \in Int
    BY <1>1, <1>4 DEF high
  <2>2. FullBase * high = FieldMod * high + FoldC * high
    <3>1. FullBase = FieldMod + FoldC /\ FieldMod \in Nat
      BY FieldSizes
    <3> QED
      BY <1>1, <2>1, <3>1
  <2>3. FieldMod * high \in Int
    BY <2>1, FieldSizes
  <2>4. low + FullBase * high = (low + c) + FieldMod * high
    BY <1>11, <1>14, <2>2, <2>3 DEF c
  <2> QED
    BY <2>1, <2>4 DEF Same
<1>27. FieldMod \in Nat \ {0} /\ y \in Int /\ low + c \in Int /\ low + FullBase * high \in Int
  <2>1. high \in Int
    BY <1>1, <1>4 DEF high
  <2>2. FullBase * high \in Int
    BY <1>1, <2>1
  <2> QED
    BY <1>11, <1>14, <1>21, <2>2, FieldSizes DEF Elements
<1>28. Same(FieldMod, low + c, z)
  BY <1>20 DEF z
<1>29. Same(FieldMod, low + c, y)
  BY <1>22, <1>25, <1>27, <1>28, SameTrans
<1>30. Same(FieldMod, low + FullBase * high, y)
  BY <1>26, <1>27, <1>29, SameTrans
<1> QED
  BY <1>21, <1>24, <1>30 DEF low, high

\* felt_mod_mul is the product of the field.
LEMMA ModMulIs ==
  ASSUME NEW a \in Elements, NEW b \in Elements
  PROVE  ModMul(a, b) \in Elements /\ ModMul(a, b) = (a * b) % FieldMod
<1>1. a \in 0 .. FullBase - 1 /\ b \in 0 .. FullBase - 1 /\ a * b \in Int
  BY FieldSizes DEF Elements
<1>2. PICK l \in [1 .. 8 -> 0 .. LimbBase - 1] :
        /\ Comba(a, b) = l
        /\ a * b = l[1] + LimbBase * (l[2] + LimbBase * (l[3] + LimbBase * (l[4] + LimbBase * (l[5]
                     + LimbBase * (l[6] + LimbBase * (l[7] + LimbBase * l[8]))))))
  BY <1>1, CombaIs
<1> DEFINE r == Reduce512(l)
           low == l[1] + LimbBase * (l[2] + LimbBase * (l[3] + LimbBase * l[4]))
           high == l[5] + LimbBase * (l[6] + LimbBase * (l[7] + LimbBase * l[8]))
<1>3. ModMul(a, b) = r
  BY <1>2 DEF ModMul
<1>4. r \in Elements /\ Same(FieldMod, low + FullBase * high, r)
  BY Reduce512Is
<1>5. a * b = low + FullBase * high
  <2>1. /\ LimbBase \in Nat /\ l[1] \in Nat /\ l[2] \in Nat /\ l[3] \in Nat /\ l[4] \in Nat
        /\ high \in Nat
    <3>1. LimbBase \in Nat /\ FullBase \in Nat /\ \A i \in 1 .. 8 : l[i] \in 0 .. LimbBase - 1
      BY FieldSizes
    <3>2. high \in 0 .. FullBase - 1
      BY HalvesFit
    <3> HIDE DEF high
    <3> QED
      BY <3>1, <3>2
  <2>2. a * b = l[1] + LimbBase * (l[2] + LimbBase * (l[3] + LimbBase * (l[4] + LimbBase * high)))
    BY <1>2
  <2> HIDE DEF high
  <2>3. FullBase = LimbBase * LimbBase * LimbBase * LimbBase
    BY DEF FullBase
  <2> QED
    BY <2>1, <2>2, <2>3
<1> HIDE DEF r, low, high
<1>6. Same(FieldMod, a * b, r) /\ r \in 0 .. FieldMod - 1
  BY <1>4, <1>5 DEF Elements
<1> DEFINE n == a * b
<1>7. n \in Int /\ Same(FieldMod, n, r)
  BY <1>1, <1>6
<1> HIDE DEF n
<1>8. n % FieldMod = r
  BY <1>6, <1>7, FieldSizes, ModIs
<1> QED
  BY <1>3, <1>4, <1>8 DEF n

\* The arithmetic of the kernels is that of the field, for whatever limbs.
THEOREM FieldIsExact ==
  ASSUME NEW a \in Elements, NEW b \in Elements
  PROVE  FieldExact(a, b)
<1>1. a \in 0 .. FullBase - 1 /\ a \in Nat /\ a < FieldMod
  BY FieldSizes DEF Elements
<1>2. (2 * ModHalf(a)) % FieldMod = a
  <2>1. a % 2 \in {0, 1}
    BY <1>1
  <2> DEFINE n == 2 * ModHalf(a)
  <2>2. n = a \/ n = a + FieldMod
    BY <1>1, <2>1, ModHalfIs
  <2> HIDE DEF n
  <2>3. FieldMod \in Nat \ {0}
    BY FieldSizes
  <2>4. n = a + FieldMod * 0 \/ n = a + FieldMod * 1
    BY <1>1, <2>2, <2>3
  <2>5. a \in Int /\ n \in Int /\ a \in 0 .. FieldMod - 1
    BY <1>1, <2>2, <2>3
  <2>6. Same(FieldMod, n, a)
    <3>1. n = a + FieldMod * 0 \/ n = a + FieldMod * 1
      BY <2>4
    <3>2. 0 \in Int /\ 1 \in Int
      OBVIOUS
    <3> QED
      BY <3>1, <3>2 DEF Same
  <2>7. n % FieldMod = a
    BY <2>3, <2>5, <2>6, ModIs
  <2> QED
    BY <2>7 DEF n
<1>3. ModHalf(a) \in Elements
  BY <1>1, ModHalfIs
<1> QED
  BY <1>2, <1>3, ModAddIs, ModSubIs, ModMulIs, ModInvIs DEF FieldExact

\* The operands a run tries are reduced, whatever the limbs they are made of.
LEMMA EdgesAreReduced == EdgeElements \subseteq Elements
<1>1. FieldMod \in Nat /\ 3 <= FieldMod
  BY FieldSizes
<1>2. FieldMod \div 2 \in Elements /\ FieldMod \div 2 + 1 \in Elements
  BY <1>1 DEF Elements
<1> QED
  BY <1>2 DEF EdgeElements

\* Whatever reduced elements a kernel computes with, every sum, difference,
\* product, half and inverse of theirs is the one of the field, and reduced.
THEOREM ElementsAreExact == AlgorithmsSpec => []ElementsExact
<1> DEFINE Given == given.kind = "elements" => given.a \in Elements /\ given.b \in Elements
<1>1. AlgorithmsInit => Given
  BY DEF AlgorithmsInit, NothingGiven
<1>2. Given /\ [AlgorithmsNext]_<<vars, walkVars, given>> => Given'
  <2> SUFFICES ASSUME Given, [AlgorithmsNext]_<<vars, walkVars, given>> PROVE Given'
    OBVIOUS
  <2>1. ASSUME NEW a \in EdgeElements, NEW b \in EdgeElements, Computes(a, b)
        PROVE  Given'
    BY <2>1, EdgesAreReduced DEF Computes
  <2>2. ASSUME NEW memory, NEW more, Tunes(memory, more)
        PROVE  Given'
    BY <2>2 DEF Tunes
  <2>3. given' = given => Given'
    OBVIOUS
  <2> QED
    BY <2>1, <2>2, <2>3 DEF AlgorithmsNext, Walks
<1>3. Given => ElementsExact
  BY FieldIsExact DEF ElementsExact
<1> QED
  BY <1>1, <1>2, <1>3, PTL DEF AlgorithmsSpec

-----------------------------------------------------------------------------
(* Scalars.                                                                *)

\* Facts about the sizes.
LEMMA WalkSizes ==
  /\ ByteBase \in Nat /\ ByteBase > 1 /\ ScalarBytes \in Nat \ {0} /\ IsPowers(DigitPower, ByteBase, ScalarBytes)
  /\ WordBase \in Nat /\ WordBase > 1
  /\ \A i \in 0 .. Words : WordPower(i) \in Nat \ {0} /\ i * WordBytes \in 0 .. ScalarBytes
  /\ WordPower(0) = 1 /\ \A i \in 0 .. Words - 1 : WordPower(i + 1) = WordBase * WordPower(i)
<1>1. Words \in Nat \ {0} /\ WordBytes \in Nat \ {0} /\ ByteBits \in Nat \ {0}
  BY WalkAssumption
<1>2. ByteBase \in Nat /\ ByteBase > 1
  <2>1. IsPowers(Powers(2, ByteBits), 2, ByteBits)
    BY <1>1, PowersArePowers
  <2> DEFINE p == Powers(2, ByteBits)
  <2> HIDE DEF p
  <2>2. p \in [0 .. ByteBits -> Nat] /\ p[ByteBits] = 2 * p[ByteBits - 1] /\ ByteBits - 1 \in 0 .. ByteBits
    BY <1>1, <2>1 DEF IsPowers, p
  <2>3. p[ByteBits - 1] \in Nat \ {0}
    BY <1>1, <2>1, <2>2, PowersPositive DEF p
  <2> QED
    BY <2>2, <2>3 DEF ByteBase, p
<1>3. ScalarBytes \in Nat \ {0}
  BY <1>1 DEF ScalarBytes
<1>4. IsPowers(DigitPower, ByteBase, ScalarBytes)
  BY <1>2, <1>3, PowersArePowers DEF DigitPower
<1>5. \A i \in 0 .. Words : i * WordBytes \in 0 .. ScalarBytes
  <2> SUFFICES ASSUME NEW i \in 0 .. Words PROVE i * WordBytes \in 0 .. ScalarBytes
    OBVIOUS
  <2>1. PICK d \in Nat : Words = i + d
    BY <1>1, Words - i \in Nat /\ Words = i + (Words - i)
  <2>2. ScalarBytes = i * WordBytes + d * WordBytes /\ i * WordBytes \in Nat /\ d * WordBytes \in Nat
    BY <1>1, <2>1 DEF ScalarBytes
  <2> QED
    BY <1>3, <2>2
<1>6. \A i \in 0 .. Words : WordPower(i) \in Nat \ {0}
  BY <1>2, <1>3, <1>4, <1>5, PowersPositive DEF WordPower
<1>7. WordPower(0) = 1
  BY <1>1, <1>4 DEF WordPower, IsPowers
<1>8. \A i \in 0 .. Words - 1 : WordPower(i + 1) = WordBase * WordPower(i)
  <2> SUFFICES ASSUME NEW i \in 0 .. Words - 1 PROVE WordPower(i + 1) = WordBase * WordPower(i)
    OBVIOUS
  <2>1. i + 1 \in 0 .. Words /\ i \in 0 .. Words /\ 1 \in 0 .. Words
    BY <1>1
  <2>2. 1 * WordBytes \in 0 .. ScalarBytes /\ i * WordBytes \in 0 .. ScalarBytes
        /\ (i + 1) * WordBytes \in 0 .. ScalarBytes
    BY <1>5, <2>1
  <2>3. (i + 1) * WordBytes = 1 * WordBytes + i * WordBytes
    BY <1>1
  <2> DEFINE j == 1 * WordBytes
             k == i * WordBytes
  <2> HIDE DEF j, k
  <2>4. j \in 0 .. ScalarBytes /\ k \in 0 .. ScalarBytes /\ j + k \in 0 .. ScalarBytes
    BY <2>2, <2>3 DEF j, k
  <2>5. DigitPower[j + k] = DigitPower[j] * DigitPower[k]
    BY <1>2, <1>3, <1>4, <2>4, PowersAdd
  <2> QED
    BY <2>3, <2>5 DEF j, k, WordPower, WordBase
<1>9. WordBase \in Nat /\ WordBase > 1
  <2>1. WordBytes \in 1 .. ScalarBytes /\ 1 * WordBytes = WordBytes
    BY <1>1, <1>5, 1 \in 0 .. Words
  <2>2. DigitPower[WordBytes] = ByteBase * DigitPower[WordBytes - 1] /\ WordBytes - 1 \in 0 .. ScalarBytes
    BY <1>1, <1>3, <1>4, <2>1 DEF IsPowers
  <2>3. DigitPower[WordBytes - 1] \in Nat \ {0}
    BY <1>2, <1>3, <1>4, <2>2, PowersPositive
  <2> DEFINE d == DigitPower[WordBytes - 1]
  <2>4. WordBase = ByteBase * d
    BY <2>1, <2>2 DEF WordBase, WordPower
  <2> HIDE DEF d
  <2>5. d \in Nat \ {0}
    BY <2>3 DEF d
  <2>6. ByteBase * d \in Nat /\ ByteBase * d >= ByteBase
    BY <1>2, <2>5
  <2> QED
    BY <1>2, <2>4, <2>6
<1> QED
  BY <1>2, <1>3, <1>4, <1>5, <1>6, <1>7, <1>8, <1>9

\* One more word of a number.
LEMMA WordSplits ==
  ASSUME NEW s \in Nat, NEW P \in Nat \ {0}, NEW B \in Nat \ {0}
  PROVE  /\ (s \div P) % B \in 0 .. B - 1 /\ s % P \in 0 .. P - 1
         /\ s % (B * P) = (s % P) + ((s \div P) % B) * P
<1> DEFINE q == s \div P
           r == s % P
<1>1. q \in Nat /\ r \in Nat /\ r < P /\ s = P * q + r
  BY DivMod
<1> HIDE DEF q, r
<1> DEFINE t == q \div B
           w == q % B
<1>2. t \in Nat /\ w \in Nat /\ w < B /\ q = B * t + w
  BY <1>1, DivMod
<1> HIDE DEF t, w
<1>3. s = (B * P) * t + (r + w * P)
  <2>1. P * (B * t + w) + r = (B * P) * t + (r + w * P)
    BY <1>1, <1>2
  <2> QED
    BY <1>1, <1>2, <2>1
<1>4. B * P \in Nat \ {0} /\ r + w * P \in Nat /\ r + w * P < B * P
  <2>1. (w + 1) * P <= B * P /\ (w + 1) * P = w * P + P /\ w * P \in Nat /\ B * P \in Nat
    <3>1. PICK d \in Nat : B = (w + 1) + d
      BY <1>2, B - (w + 1) \in Nat /\ B = (w + 1) + (B - (w + 1))
    <3>2. B * P = (w + 1) * P + d * P /\ d * P \in Nat
      BY <1>2, <3>1
    <3>3. (w + 1) * P = w * P + P /\ w * P \in Nat
      BY <1>2
    <3> QED
      BY <3>2, <3>3
  <2> QED
    BY <1>1, <1>2, <2>1
<1> DEFINE M == B * P
           v == r + w * P
<1>5. s % M = v
  <2> HIDE DEF M, v
  <2>1. M \in Nat \ {0} /\ t \in Nat /\ v \in Nat /\ v < M /\ s = M * t + v
    BY <1>2, <1>3, <1>4 DEF M, v
  <2> QED
    BY <2>1, DivModIs
<1> QED
  BY <1>1, <1>2, <1>5 DEF q, r, t, w

\* A word and a carry.
LEMMA CarryIs ==
  ASSUME NEW B \in Nat, B > 1, NEW w \in 0 .. B - 1, NEW c \in {0, 1}
  PROVE  LET word == (w + c) % B
             carry == IF c = 1 /\ word = 0 THEN 1 ELSE 0
         IN word \in 0 .. B - 1 /\ word + carry * B = w + c
<1>1. CASE w + c < B
  <2>1. (w + c) % B = w + c
    BY <1>1, SmallIs
  <2>2. c = 1 => w + c # 0
    OBVIOUS
  <2> QED
    BY <1>1, <2>1, <2>2
<1>2. CASE ~(w + c < B)
  <2>1. c = 1 /\ w + c = B
    BY <1>2
  <2>2. B * 1 + 0 = B /\ 1 \in Nat /\ 0 \in Nat /\ B \in Nat \ {0} /\ 0 < B
    OBVIOUS
  <2>3. (B * 1 + 0) % B = 0
    BY <2>2, DivModIs
  <2> QED
    BY <2>1, <2>2, <2>3
<1> QED
  BY <1>1, <1>2

\* The words of a seed with their carries are the sum, cut to the words.
LEMMA WithCarriesIs ==
  ASSUME NEW s \in AllSeeds, NEW n \in 0 .. WordBase - 1
  PROVE  WithCarries(s, n) = (s + n) % WordPower(Words)
<1> DEFINE low == (WordOf(s, 0) + n) % WordBase
           base == [value |-> low, carry |-> IF low < n THEN 1 ELSE 0]
           last == Words - 1
           order == [i \in 1 .. Words - 1 |-> i]
           V == [value : Nat, carry : {0, 1}]
           Carried(acc, i) ==
             LET word == (WordOf(s, i) + acc.carry) % WordBase IN
             [value |-> acc.value + word * WordPower(i),
              carry |-> IF acc.carry = 1 /\ word = 0 THEN 1 ELSE 0]
           F == [p \in (1 .. last) \X V |-> Carried(p[2], p[1])]
           Fold(g) == [t \in SUBSET DOMAIN order |->
                         IF t = {} THEN base ELSE Carried(g[t \ {Max(t)}], order[Max(t)])]
           Totals(acc, k) ==
             /\ acc \in V /\ acc.value < WordPower(k + 1)
             /\ acc.value + acc.carry * WordPower(k + 1) = (s % WordPower(k + 1)) + n
<1>1. /\ Words \in Nat \ {0} /\ last \in Nat /\ WordBase \in Nat /\ WordBase > 1 /\ s \in Nat /\ n \in Nat
      /\ n < WordBase /\ s < WordPower(Words) /\ WordPower(Words) \in Nat \ {0}
  <2>1. Words \in Nat \ {0} /\ Words \in 0 .. Words
    BY WalkAssumption
  <2>2. WordPower(Words) \in Nat \ {0}
    BY <2>1, WalkSizes
  <2> QED
    BY <2>1, <2>2, WalkSizes DEF AllSeeds
<1>2. DOMAIN order = 1 .. last /\ \A k \in 1 .. last : order[k] = k
  OBVIOUS
<1>3. Totals(base, 0)
  <2>1. WordPower(0) = 1 /\ WordPower(1) = WordBase
    BY WalkSizes DEF WordBase
  <2> DEFINE w == s % WordBase
  <2>2. WordOf(s, 0) = w /\ w \in 0 .. WordBase - 1
    <3>1. s \div 1 = s
      BY <1>1
    <3> QED
      BY <1>1, <2>1, <3>1 DEF WordOf
  <2> HIDE DEF w
  <2>3. low \in 0 .. WordBase - 1 /\ (low < n => w + n = low + WordBase) /\ (~(low < n) => w + n = low)
    <3>1. CASE w + n < WordBase
      <4> DEFINE sum == w + n
      <4>1. (w + n) % WordBase = w + n
        <5>1. sum \in Nat /\ sum < WordBase
          BY <1>1, <2>2, <3>1
        <5> HIDE DEF sum
        <5>2. sum % WordBase = sum
          BY <1>1, <5>1, SmallIs
        <5> QED
          BY <5>2 DEF sum
      <4> QED
        BY <1>1, <2>2, <3>1, <4>1
    <3>2. CASE ~(w + n < WordBase)
      <4> DEFINE r == w + n - WordBase
      <4>1. r \in Nat /\ r < WordBase /\ r < n /\ w + n = WordBase * 1 + r /\ 1 \in Nat /\ WordBase \in Nat \ {0}
        BY <1>1, <2>2, <3>2
      <4> HIDE DEF r
      <4>2. (WordBase * 1 + r) % WordBase = r
        BY <4>1, DivModIs
      <4>3. low = r
        BY <2>2, <4>1, <4>2
      <4> QED
        BY <1>1, <2>2, <4>1, <4>3
    <3> QED
      BY <3>1, <3>2
  <2> HIDE DEF low
  <2>4. base.value = low /\ base.carry = (IF low < n THEN 1 ELSE 0) /\ base \in V
    BY <1>1, <2>3
  <2> HIDE DEF base, V
  <2>5. base.value + base.carry * WordBase = w + n
    BY <1>1, <2>2, <2>3, <2>4
  <2> QED
    BY <1>1, <2>1, <2>3, <2>4, <2>5 DEF w
<1>4. ASSUME NEW acc \in V, NEW k \in 1 .. last
      PROVE  /\ Carried(acc, k) \in V
             /\ Totals(acc, k - 1) => Totals(Carried(acc, k), k)
  <2> DEFINE P == WordPower(k)
             w == WordOf(s, k)
             c == acc.carry
             v == acc.value
             word == (w + c) % WordBase
             carry == IF c = 1 /\ word = 0 THEN 1 ELSE 0
             r == s % P
  <2>1. k \in 0 .. Words /\ k + 1 \in 0 .. Words /\ k \in 0 .. Words - 1
    BY <1>1
  <2>2. P \in Nat \ {0} /\ WordPower(k + 1) = WordBase * P /\ WordPower((k - 1) + 1) = P
    <3>1. (k - 1) + 1 = k
      OBVIOUS
    <3> QED
      BY <2>1, <3>1, WalkSizes
  <2> HIDE DEF P
  <2>3. w \in 0 .. WordBase - 1 /\ r \in 0 .. P - 1 /\ s % (WordBase * P) = r + w * P
    <3>1. WordBase \in Nat \ {0}
      BY <1>1
    <3>2. /\ (s \div P) % WordBase \in 0 .. WordBase - 1 /\ s % P \in 0 .. P - 1
          /\ s % (WordBase * P) = (s % P) + ((s \div P) % WordBase) * P
      BY <1>1, <2>2, <3>1, WordSplits
    <3>3. w = (s \div P) % WordBase
      BY DEF WordOf, P
    <3> QED
      BY <3>2, <3>3
  <2>4. c \in {0, 1} /\ v \in Nat
    OBVIOUS
  <2> HIDE DEF w, c, v, r
  <2>5. word \in 0 .. WordBase - 1 /\ word + carry * WordBase = w + c
    BY <1>1, <2>3, <2>4, CarryIs
  <2>6. carry \in {0, 1}
    OBVIOUS
  <2>7. Carried(acc, k) = [value |-> v + word * P, carry |-> carry]
    BY DEF w, c, v, P
  <2> HIDE DEF word, carry
  <2>8. word \in Nat /\ word * P \in Nat /\ v + word * P \in Nat
    BY <2>2, <2>4, <2>5
  <2>9. Carried(acc, k) \in V
    BY <2>6, <2>7, <2>8
  <2>10. ASSUME v < P, v + c * P = r + n
         PROVE  /\ v + word * P < WordBase * P
                /\ (v + word * P) + carry * (WordBase * P) = (r + w * P) + n
    <3>1. PICK d \in Nat : WordBase = (word + 1) + d
      BY <1>1, <2>5, WordBase - (word + 1) \in Nat /\ WordBase = (word + 1) + (WordBase - (word + 1))
    <3>2. WordBase * P = (word + 1) * P + d * P /\ d * P \in Nat /\ (word + 1) * P = word * P + P
      BY <2>2, <2>8, <3>1
    <3>3. v + word * P < WordBase * P
      BY <2>2, <2>4, <2>8, <2>10, <3>2
    <3>4. (word + carry * WordBase) * P = (w + c) * P
      BY <2>5
    <3>5. (word + carry * WordBase) * P = word * P + carry * (WordBase * P)
      BY <1>1, <2>2, <2>6, <2>8
    <3>6. (w + c) * P = w * P + c * P /\ w * P \in Nat /\ c * P \in Nat
      BY <2>2, <2>3, <2>4
    <3>7. carry * (WordBase * P) \in Nat
      BY <1>1, <2>2, <2>6
    <3> QED
      BY <1>1, <2>3, <2>4, <2>8, <2>10, <3>3, <3>4, <3>5, <3>6, <3>7
  <2> QED
    <3> SUFFICES ASSUME Totals(acc, k - 1) PROVE Totals(Carried(acc, k), k)
      BY <2>9
    <3>1. v < P /\ v + c * P = r + n
      BY <2>2 DEF v, c, r, P
    <3>2. /\ v + word * P < WordBase * P
          /\ (v + word * P) + carry * (WordBase * P) = (s % (WordBase * P)) + n
      BY <2>3, <2>10, <3>1
    <3> DEFINE new == Carried(acc, k)
    <3>3. new.value = v + word * P /\ new.carry = carry /\ new \in V
      BY <2>7, <2>9
    <3> HIDE DEF new, V
    <3> QED
      BY <2>2, <3>2, <3>3 DEF new
<1> HIDE DEF Carried, Totals, order, base
<1>5. base \in V
  BY <1>3 DEF Totals
<1>6. \E g : g = Fold(g)
  <2>1. F \in [(1 .. last) \X V -> V]
    <3> SUFFICES ASSUME NEW p \in (1 .. last) \X V PROVE Carried(p[2], p[1]) \in V
      OBVIOUS
    <3>1. p[2] \in V /\ p[1] \in 1 .. last
      OBVIOUS
    <3> HIDE DEF V, last
    <3> QED
      BY <1>4, <3>1
  <2>2. PICK g \in [SUBSET (1 .. last) -> V] : IsFold(g, last, base, F)
    <3> HIDE DEF F, V, last
    <3> QED
      BY <1>1, <1>5, <2>1, FoldExists
  <2> HIDE DEF V, last
  <2>3. ASSUME NEW t \in SUBSET (1 .. last), t # {}
        PROVE  <<Max(t), g[t \ {Max(t)}]>> \in (1 .. last) \X V
    <3>1. Max(t) \in 1 .. last
      BY <1>1, <2>3, MaxIn
    <3> QED
      BY <2>2, <3>1
  <2>4. g = Fold(g)
    <3>1. g = [t \in SUBSET (1 .. last) |-> g[t]]
      BY <2>2
    <3>2. \A t \in SUBSET (1 .. last) :
            g[t] = IF t = {} THEN base ELSE Carried(g[t \ {Max(t)}], order[Max(t)])
      <4> SUFFICES ASSUME NEW t \in SUBSET (1 .. last)
                   PROVE  g[t] = IF t = {} THEN base ELSE Carried(g[t \ {Max(t)}], order[Max(t)])
        OBVIOUS
      <4>1. CASE t = {}
        BY <2>2, <4>1 DEF IsFold
      <4>2. CASE t # {}
        <5>1. Max(t) \in 1 .. last
          BY <1>1, <4>2, MaxIn
        <5>2. g[t] = F[<<Max(t), g[t \ {Max(t)}]>>]
          BY <2>2, <4>2 DEF IsFold
        <5>3. g[t] = Carried(g[t \ {Max(t)}], Max(t))
          BY <2>3, <4>2, <5>2
        <5> QED
          BY <1>2, <4>2, <5>1, <5>3
      <4> QED
        BY <4>1, <4>2
    <3> QED
      BY <1>2, <3>1, <3>2
  <2> QED
    BY <2>4
<1>7. PICK g : g = Fold(g) /\ WithCarries(s, n) = g[1 .. last].value
  <2>1. WithCarries(s, n) = (CHOOSE g : g = Fold(g))[DOMAIN order].value
    BY DEF WithCarries, FoldLeft, MapThenFoldSet, order, base, Carried
  <2> HIDE DEF Fold
  <2> QED
    BY <1>2, <1>6, <2>1
<1> HIDE DEF F, V
<1> DEFINE Reached == {k \in 0 .. last : Totals(g[1 .. k], k)}
<1>8. 0 \in Reached
  <2>1. 1 .. 0 = {} /\ {} \in SUBSET DOMAIN order
    OBVIOUS
  <2>2. g[1 .. 0] = base
    BY <1>7, <2>1
  <2> QED
    BY <1>1, <1>3, <2>2
<1>9. ASSUME NEW k \in 1 .. last, k - 1 \in Reached
      PROVE  k \in Reached
  <2>1. 1 .. k \in SUBSET DOMAIN order /\ k \in Nat \ {0}
    BY <1>1, <1>2
  <2>2. Max(1 .. k) = k /\ (1 .. k) \ {Max(1 .. k)} = 1 .. (k - 1) /\ 1 .. k # {}
    BY <2>1, MaxOfPrefix
  <2>3. g[1 .. k] = Carried(g[1 .. (k - 1)], order[k])
    BY <1>7, <2>1, <2>2
  <2>4. Totals(g[1 .. (k - 1)], k - 1)
    BY <1>9
  <2>5. g[1 .. (k - 1)] \in V
    BY <2>4 DEF Totals
  <2> QED
    BY <1>2, <1>4, <2>3, <2>4, <2>5
<1>10. Totals(g[1 .. last], last)
  <2>1. last \in Reached
    <3> HIDE DEF Reached, last
    <3> QED
      BY <1>1, <1>8, <1>9, Upto
  <2> QED
    BY <2>1
<1> DEFINE acc == g[1 .. last]
           W == WordPower(Words)
<1>11. acc \in V /\ acc.value < W /\ acc.value + acc.carry * W = s + n
  <2>1. last + 1 = Words
    BY <1>1
  <2>2. s % W = s
    BY <1>1, SmallIs
  <2> QED
    BY <1>10, <2>1, <2>2 DEF Totals
<1>12. acc.value \in Nat /\ acc.carry \in Nat
  BY <1>11 DEF V
<1> DEFINE v == acc.value
           c == acc.carry
<1>13. WithCarries(s, n) = v
  BY <1>7
<1> HIDE DEF v, c, W
<1>14. v \in Nat /\ c \in Nat /\ v < W /\ W * c + v = s + n /\ W \in Nat \ {0}
  BY <1>1, <1>11, <1>12 DEF v, c, W
<1>15. (s + n) % W = v
  BY <1>14, DivModIs
<1> QED
  BY <1>13, <1>15 DEF W

-----------------------------------------------------------------------------
(* The field of the points.                                                *)

\* The numbers of the field, and the one that a number is in it.
Residues == 0 .. Prime - 1
Residue(n) == n % Prime

\* Every number is the same as one of the field.
LEMMA ResidueIn ==
  ASSUME NEW n \in Int
  PROVE  /\ Prime \in Nat \ {0} /\ Prime > 2 /\ Residue(n) \in Residues /\ Residue(n) \in Int
         /\ Same(Prime, n, Residue(n))
<1>1. Prime \in Nat \ {0} /\ Prime > 2
  BY OrderAssumption
<1>2. Residue(n) \in 0 .. Prime - 1 /\ Same(Prime, n, Residue(n))
  BY <1>1, ModInt DEF Residue
<1> QED
  BY <1>1, <1>2 DEF Residues

\* A number of the field is the one that it is.
LEMMA ResidueOf ==
  ASSUME NEW a \in Residues
  PROVE  Residue(a) = a /\ a \in Int
<1>1. Prime \in Nat \ {0} /\ a \in Nat /\ a < Prime
  BY OrderAssumption DEF Residues
<1> QED
  BY <1>1, SmallIs DEF Residue

\* Numbers are equal in the field when they differ by a multiple of the prime.
LEMMA ResidueSame ==
  ASSUME NEW x \in Int, NEW y \in Int
  PROVE  Residue(x) = Residue(y) <=> Same(Prime, x, y)
<1>1. Prime \in Nat \ {0}
  BY OrderAssumption
<1> QED
  BY <1>1, SameMod DEF Residue

\* The operations of the field are those of the integers.
LEMMA ResidueOps ==
  ASSUME NEW x \in Int, NEW y \in Int
  PROVE  /\ Plus(Residue(x), Residue(y)) = Residue(x + y)
         /\ Minus(Residue(x), Residue(y)) = Residue(x - y)
         /\ Mul(Residue(x), Residue(y)) = Residue(x * y)
         /\ Sqr(Residue(x)) = Residue(x * x)
<1> DEFINE a == Residue(x)
           b == Residue(y)
<1>1. /\ Prime \in Nat \ {0} /\ a \in Int /\ b \in Int /\ Same(Prime, x, a) /\ Same(Prime, y, b)
  BY ResidueIn
<1> HIDE DEF a, b
<1>2. /\ Same(Prime, x + y, a + b) /\ Same(Prime, x - y, a - b) /\ Same(Prime, x * y, a * b)
      /\ Same(Prime, x * x, a * a)
  BY <1>1, SameSum, SameProduct
<1>3. /\ x + y \in Int /\ a + b \in Int /\ x - y \in Int /\ a - b \in Int
      /\ x * y \in Int /\ a * b \in Int /\ x * x \in Int /\ a * a \in Int
  BY <1>1
<1>4. Residue(x + y) = Residue(a + b) /\ Residue(x - y) = Residue(a - b)
  BY <1>2, <1>3, ResidueSame
<1>5. Residue(x * y) = Residue(a * b) /\ Residue(x * x) = Residue(a * a)
  BY <1>2, <1>3, ResidueSame
<1> QED
  BY <1>4, <1>5 DEF Plus, Minus, Mul, Sqr, Residue, a, b

\* Multiples of the residues of a, below the prime.
LEMMA InverseExists ==
  ASSUME NEW a \in 1 .. Prime - 1
  PROVE  \E i \in 1 .. Prime - 1 : Mul(a, i) = 1
<1> DEFINE S == {d \in 1 .. Prime - 1 : \E k \in Int : Same(Prime, a * k, d)}
<1>1. Prime \in Nat \ {0} /\ Prime > 2 /\ a \in Int /\ \A d \in 2 .. Prime - 1 : Prime % d # 0
  BY OrderAssumption
<1>2. a \in S
  <2>1. a * 1 = a /\ 1 \in Int
    BY <1>1
  <2>2. Same(Prime, a * 1, a)
    BY <1>1, <2>1, SameRefl
  <2> QED
    BY <2>1, <2>2
<1>3. PICK m \in S : \A d \in S : m <= d
  <2>1. S \subseteq 1 .. Prime - 1
    OBVIOUS
  <2> HIDE DEF S
  <2>2. S \subseteq Nat /\ S # {}
    BY <1>1, <1>2, <2>1
  <2> QED
    BY <2>2, Least
<1>4. PICK k \in Int : Same(Prime, a * k, m)
  BY <1>3
<1>5. m \in 1 .. Prime - 1 /\ m \in Nat \ {0}
  BY <1>3
<1>6. m = 1
  <2> SUFFICES ASSUME m # 1 PROVE FALSE
    OBVIOUS
  <2> DEFINE q == Prime \div m
             r == Prime % m
  <2>1. q \in Nat /\ r \in Nat /\ r < m /\ Prime = m * q + r
    BY <1>1, <1>5, DivMod
  <2>2. r # 0
    <3>1. m \in 2 .. Prime - 1
      BY <1>1, <1>5
    <3> QED
      BY <1>1, <3>1
  <2> HIDE DEF q, r
  <2> DEFINE n == 0 - q
  <2>3. n \in Int /\ a * k \in Int /\ m \in Int /\ m * n \in Int
    BY <1>1, <1>5, <2>1
  <2>4. Same(Prime, (a * k) * n, m * n)
    <3> HIDE DEF n
    <3>1. Same(Prime, n, n)
      BY <1>1, <2>3, SameRefl
    <3> QED
      BY <1>1, <1>4, <2>3, <3>1, SameProduct
  <2>5. m * n = r + Prime * (-1)
    <3>1. m * (0 - q) = 0 - m * q /\ m * q \in Nat
      BY <1>5, <2>1
    <3> QED
      BY <1>1, <2>1, <3>1
  <2>6. Same(Prime, m * n, r)
    BY <2>5, -1 \in Int DEF Same
  <2>7. (a * k) * n = a * (k * n) /\ k * n \in Int /\ (a * k) * n \in Int
    BY <1>1, <2>1
  <2> HIDE DEF n
  <2>8. Same(Prime, a * (k * n), r)
    <3>1. r \in Int /\ a * (k * n) \in Int
      BY <2>1, <2>7
    <3> QED
      BY <1>1, <2>3, <2>4, <2>6, <2>7, <3>1, SameTrans
  <2>9. r \in S
    <3>1. r \in 1 .. Prime - 1
      BY <1>1, <1>5, <2>1, <2>2
    <3> QED
      BY <2>7, <2>8, <3>1
  <2> HIDE DEF S
  <2> QED
    BY <1>3, <1>5, <2>1, <2>9
<1> DEFINE i == k % Prime
<1>7. i \in 0 .. Prime - 1 /\ i \in Int /\ Same(Prime, k, i)
  <2> HIDE DEF S
  <2>1. i \in 0 .. Prime - 1 /\ Same(Prime, k, i)
    BY <1>1, ModInt
  <2> QED
    BY <1>1, <2>1
<1> HIDE DEF i
<1>8. Same(Prime, a * i, 1)
  <2>1. a * k \in Int /\ a * i \in Int /\ 1 \in Int
    BY <1>1, <1>7
  <2>2. Same(Prime, a, a) /\ Same(Prime, i, k)
    BY <1>1, <1>7, SameRefl, SameSym
  <2>3. Same(Prime, a * i, a * k)
    BY <1>1, <1>7, <2>2, SameProduct
  <2>4. Same(Prime, a * k, 1)
    BY <1>4, <1>6
  <2> QED
    BY <1>1, <2>1, <2>3, <2>4, SameTrans
<1>9. (a * i) % Prime = 1
  <2>1. a * i \in Int /\ 1 \in 0 .. Prime - 1
    BY <1>1, <1>7
  <2> QED
    BY <1>1, <1>8, <2>1, ModIs
<1>10. i # 0
  <2>1. a * 0 = 0 /\ 0 % Prime = 0
    BY <1>1
  <2> QED
    BY <1>9, <2>1
<1>11. i \in 1 .. Prime - 1
  BY <1>1, <1>7, <1>10
<1> QED
  BY <1>9, <1>11 DEF Mul

\* felt_mod_inv, as the points use it.
LEMMA InvIs ==
  ASSUME NEW a \in Residues
  PROVE  Inv(a) \in Residues /\ (a = 0 => Inv(a) = 0) /\ (a # 0 => Mul(a, Inv(a)) = 1)
<1>1. Inv(a) = IF a = 0 THEN 0 ELSE CHOOSE i \in 1 .. Prime - 1 : Mul(a, i) = 1
  BY DEF Inv, Inverses, Residues
<1>2. CASE a = 0
  BY <1>1, <1>2 DEF Residues
<1>3. CASE a # 0
  <2>1. a \in 1 .. Prime - 1
    BY <1>3, OrderAssumption DEF Residues
  <2>2. Inv(a) \in 1 .. Prime - 1 /\ Mul(a, Inv(a)) = 1
    BY <1>1, <1>3, <2>1, InverseExists
  <2> QED
    BY <1>3, <2>2, OrderAssumption DEF Residues
<1> QED
  BY <1>2, <1>3

\* A factor that is not 0 can be divided by.
LEMMA Cancels ==
  ASSUME NEW c \in Int, NEW x \in Int, NEW y \in Int,
         Residue(c) # 0, Residue(c * x) = Residue(c * y)
  PROVE  Residue(x) = Residue(y)
<1> DEFINE a == Residue(c)
           i == Inv(a)
<1>1. a \in Residues /\ a # 0
  BY ResidueIn
<1>2. i \in Residues /\ i \in Int /\ Residue(i) = i /\ Mul(a, i) = 1
  BY <1>1, InvIs, ResidueOf
<1> HIDE DEF i
<1>3. Residue(c * i) = 1
  BY <1>2, ResidueOps
<1> HIDE DEF a
<1>4. ASSUME NEW z \in Int
      PROVE  Residue(i * (c * z)) = Residue(z)
  <2>1. i * (c * z) = (c * i) * z /\ c * i \in Int
    BY <1>2
  <2>2. Residue((c * i) * z) = Mul(1, Residue(z))
    BY <1>3, <2>1, ResidueOps
  <2>3. Residue(1) = 1 /\ 1 \in Int
    <3>1. 1 \in Residues
      BY OrderAssumption DEF Residues
    <3> QED
      BY <3>1, ResidueOf
  <2>4. Mul(1, Residue(z)) = Residue(1 * z) /\ 1 * z = z
    BY <2>3, ResidueOps
  <2> QED
    BY <2>1, <2>2, <2>4
<1>5. c * x \in Int /\ c * y \in Int
  OBVIOUS
<1>6. Residue(i * (c * x)) = Mul(i, Residue(c * x)) /\ Residue(i * (c * y)) = Mul(i, Residue(c * y))
  BY <1>2, <1>5, ResidueOps
<1> QED
  BY <1>4, <1>6

\* Products of numbers that are not 0 are not 0.
LEMMA NonZero ==
  ASSUME NEW x \in Int, NEW y \in Int, Residue(x) # 0, Residue(y) # 0
  PROVE  Residue(x * y) # 0
<1>1. Residue(0) = 0 /\ 0 \in Int /\ x * 0 = 0
  <2>1. 0 \in Residues
    BY OrderAssumption DEF Residues
  <2> QED
    BY <2>1, ResidueOf
<1> QED
  BY <1>1, Cancels

-----------------------------------------------------------------------------
(* The group.                                                              *)

\* The table of the multiples exists, so that its definition can be unfolded.
LEMMA MultiplesStart == Multiples[0] = Infinity /\ Multiples[1] = Generator
<1> DEFINE Half(g, n) == g[n \div 2]
           Step(g, n) == IF n = 0 THEN Infinity
                         ELSE IF n % 2 = 1 THEN Sum(Sum(Half(g, n), Half(g, n)), Generator)
                         ELSE Sum(Half(g, n), Half(g, n))
           Solves(g, k) == g = [n \in 0 .. k |-> Step(g, n)]
           last == Order - 1
           Solved == {k \in 0 .. last : \E g : Solves(g, k)}
           Table(g) == [n \in 0 .. last |-> Step(g, n)]
<1>1. last \in Nat /\ 1 <= last
  BY OrderAssumption, WalkAssumption
<1>2. 0 \in Solved
  <2> DEFINE g == [n \in 0 .. 0 |-> Infinity]
  <2>1. DOMAIN g = 0 .. 0 /\ \A n \in 0 .. 0 : n = 0 /\ g[n] = Infinity
    OBVIOUS
  <2> HIDE DEF g
  <2>2. Solves(g, 0)
    <3>1. g = [n \in 0 .. 0 |-> Infinity]
      BY DEF g
    <3> QED
      BY <2>1, <3>1
  <2>3. \E h : Solves(h, 0)
    BY <2>2
  <2> HIDE DEF Solves
  <2> QED
    BY <1>1, <2>3
<1>3. ASSUME NEW k \in 1 .. last, k - 1 \in Solved
      PROVE  k \in Solved
  <2> HIDE DEF last
  <2>1. PICK g : Solves(g, k - 1)
    BY <1>3
  <2> DEFINE h == [n \in 0 .. k |-> IF n = k THEN Step(g, k) ELSE g[n]]
  <2>2. h = [n \in 0 .. k |-> h[n]] /\ h[k] = Step(g, k) /\ \A n \in 0 .. k - 1 : h[n] = g[n]
    BY <1>1
  <2>3. \A n \in 1 .. k : n \div 2 \in 0 .. n - 1 /\ n \div 2 \in 0 .. k - 1
    BY <1>1
  <2> HIDE DEF h, Step
  <2>4. ASSUME NEW n \in 0 .. k
        PROVE  h[n] = Step(h, n)
    <3>1. n = 0 \/ h[n \div 2] = g[n \div 2]
      <4>1. n = 0 \/ n \in 1 .. k
        BY <1>1
      <4> QED
        BY <2>2, <2>3, <4>1
    <3>2. Step(h, n) = Step(g, n)
      BY <3>1 DEF Step
    <3>3. CASE n = k
      BY <2>2, <3>2, <3>3
    <3>4. CASE n # k
      <4>1. n \in 0 .. k - 1
        BY <1>1, <3>4
      <4>2. g[n] = Step(g, n)
        BY <2>1, <4>1
      <4> QED
        BY <2>2, <3>2, <4>1, <4>2
    <3> QED
      BY <3>3, <3>4
  <2>5. Solves(h, k)
    BY <2>2, <2>4
  <2>6. \E f : Solves(f, k)
    BY <2>5
  <2> HIDE DEF Solves
  <2> QED
    BY <1>1, <2>6
<1>4. PICK g : Solves(g, last)
  <2>1. last \in Solved
    <3> HIDE DEF Solved, last
    <3> QED
      BY <1>1, <1>2, <1>3, Upto
  <2> HIDE DEF Solves
  <2> QED
    BY <2>1
<1>5. g = Table(g)
  <2> HIDE DEF Step
  <2> QED
    BY <1>4
<1>6. Multiples = (CHOOSE f : f = Table(f))
  BY DEF Multiples
<1>7. Multiples = Table(Multiples)
  <2> HIDE DEF Table
  <2> QED
    BY <1>5, <1>6
<1>8. Multiples[0] = Infinity
  <2>1. Table(Multiples)[0] = Infinity
    BY <1>1
  <2> QED
    BY <1>7, <2>1
<1>9. Multiples[1] = Sum(Sum(Infinity, Infinity), Generator)
  <2>1. 1 \div 2 = 0 /\ 1 % 2 = 1 /\ 1 # 0 /\ 1 \in 0 .. last
    BY <1>1
  <2>2. Table(Multiples)[1] = Step(Multiples, 1)
    BY <2>1
  <2>3. Step(Multiples, 1) = Sum(Sum(Multiples[0], Multiples[0]), Generator)
    BY <2>1
  <2> HIDE DEF Table, Step
  <2> QED
    BY <1>7, <1>8, <2>2, <2>3
<1>10. Sum(Sum(Infinity, Infinity), Generator) = Generator
  BY DEF Sum
<1> QED
  BY <1>8, <1>9, <1>10

\* Multiples are those of the remainder by the order.
LEMMA MultipleIs ==
  /\ Order \in Nat \ {0} /\ Order > 1 /\ Order % 2 = 1
  /\ Multiple(0) = Infinity /\ Multiple(1) = Generator
  /\ \A n \in Nat : /\ n % Order \in 0 .. Order - 1 /\ Multiple(n) = Multiple(n % Order)
                    /\ (n % Order = 0) <=> Multiple(n) = Infinity
                    /\ n % Order # 0 => OnCurve(Multiple(n))
<1>1. Order \in Nat \ {0} /\ Order > 1 /\ Order % 2 = 1
  BY OrderAssumption, WalkAssumption
<1>2. \A n \in 0 .. Order - 1 : n % Order = n /\ Multiple(n) = Multiples[n]
  <2> SUFFICES ASSUME NEW n \in 0 .. Order - 1 PROVE n % Order = n
    BY DEF Multiple
  <2> QED
    BY <1>1, SmallIs
<1>3. Multiple(0) = Infinity /\ Multiple(1) = Generator
  BY <1>1, <1>2, MultiplesStart
<1>4. ASSUME NEW n \in Nat
      PROVE  /\ n % Order \in 0 .. Order - 1 /\ Multiple(n) = Multiple(n % Order)
             /\ (n % Order = 0) <=> Multiple(n) = Infinity
             /\ n % Order # 0 => OnCurve(Multiple(n))
  <2> DEFINE r == n % Order
  <2>1. r \in 0 .. Order - 1
    BY <1>1
  <2>2. Multiple(n) = Multiple(r)
    BY <1>2, <2>1 DEF Multiple
  <2> HIDE DEF r
  <2>3. r = 0 \/ r \in 1 .. Order - 1
    BY <1>1, <2>1
  <2> QED
    BY <1>3, <2>1, <2>2, <2>3, GroupAssumption DEF r
<1> QED
  BY <1>1, <1>3, <1>4

\* Remainders of sums.
LEMMA RemainderSum ==
  ASSUME NEW n \in Nat, NEW m \in Nat
  PROVE  ((n % Order) + m) % Order = (n + m) % Order
<1>1. Order \in Nat \ {0}
  BY MultipleIs
<1> DEFINE q == n \div Order
           r == n % Order
<1>2. q \in Nat /\ r \in Nat /\ n = Order * q + r
  BY <1>1, DivMod
<1> HIDE DEF q, r
<1>3. n + m = Order * q + (r + m) /\ r + m \in Nat
  BY <1>1, <1>2
<1> DEFINE a == r + m
<1> HIDE DEF a
<1>4. (Order * q + a) % Order = a % Order
  BY <1>1, <1>2, <1>3, ModMultiple DEF a
<1> QED
  BY <1>3, <1>4 DEF a, r

\* What the group law is assumed for.
LEMMA AddendsAre ==
  /\ \A m \in Addends : m \in Nat
  /\ 1 \in Addends /\ WalkLanes \in Addends /\ Privates \subseteq Addends
  /\ \A byte \in Bytes, v \in 1 .. ByteBase - 1 : v * DigitPower[byte] \in Addends
<1>1. \A byte \in Bytes : byte \in 0 .. ScalarBytes /\ DigitPower[byte] \in Nat
  BY WalkSizes DEF Bytes, IsPowers
<1>2. \A byte \in Bytes, v \in 1 .. ByteBase - 1 : v * DigitPower[byte] \in Addends /\ v * DigitPower[byte] \in Nat
  <2> SUFFICES ASSUME NEW byte \in Bytes, NEW v \in 1 .. ByteBase - 1
               PROVE  v * DigitPower[byte] \in Addends /\ v * DigitPower[byte] \in Nat
    OBVIOUS
  <2>1. v * DigitPower[byte] \in Nat
    BY <1>1, WalkSizes
  <2> QED
    BY <2>1 DEF Addends
<1>3. 1 \in Addends
  <2>1. 0 \in Bytes /\ 1 \in 1 .. ByteBase - 1 /\ DigitPower[0] = 1
    BY WalkSizes DEF Bytes, IsPowers
  <2>2. 1 * DigitPower[0] = 1
    BY <2>1
  <2> QED
    BY <1>2, <2>1, <2>2
<1>4. Privates \subseteq Nat /\ WalkLanes \in Nat
  BY WalkAssumption
<1>5. \A m \in Addends : m \in Nat
  <2> SUFFICES ASSUME NEW m \in Addends PROVE m \in Nat
    OBVIOUS
  <2>1. \/ \E byte \in Bytes, v \in 1 .. ByteBase - 1 : m = v * DigitPower[byte]
        \/ m \in Privates \/ m = WalkLanes
    BY DEF Addends
  <2> QED
    BY <1>2, <1>4, <2>1
<1>6. WalkLanes \in Addends /\ Privates \subseteq Addends
  BY DEF Addends
<1> QED
  BY <1>2, <1>3, <1>5, <1>6

\* What is added to any multiple.
LEMMA SumIs ==
  ASSUME NEW n \in Nat, NEW m \in Addends
  PROVE  Sum(Multiple(n), Multiple(m)) = Multiple(n + m)
<1> DEFINE r == n % Order
<1>1. r \in 0 .. Order - 1 /\ Multiple(n) = Multiple(r) /\ m \in Nat /\ r \in Nat
  <2>1. Order \in Nat /\ n % Order \in 0 .. Order - 1 /\ Multiple(n) = Multiple(n % Order)
    BY MultipleIs
  <2>2. m \in Nat
    BY AddendsAre
  <2> QED
    BY <2>1, <2>2
<1>2. (r + m) % Order = (n + m) % Order
  BY <1>1, RemainderSum
<1>3. Multiple(r + m) = Multiple(n + m)
  BY <1>2 DEF Multiple
<1> HIDE DEF r
<1>4. Sum(Multiple(r), Multiple(m)) = Multiple(r + m)
  BY <1>1, GroupAssumption
<1> QED
  BY <1>1, <1>3, <1>4

\* Different multiples are different points.
LEMMA MultiplesDiffer ==
  ASSUME NEW a \in 0 .. Order - 1, NEW b \in 0 .. Order - 1, a < b
  PROVE  Multiple(a) # Multiple(b)
<1> SUFFICES ASSUME Multiple(a) = Multiple(b) PROVE FALSE
  OBVIOUS
<1>1. Order \in Nat \ {0} /\ a \in Nat /\ b \in Nat
  BY MultipleIs
<1> DEFINE Good == {k \in Nat : Multiple(a + k) = Multiple(b + k)}
<1>2. 0 \in Good
  BY <1>1
<1>3. ASSUME NEW k \in Nat, k \in Good
      PROVE  k + 1 \in Good
  <2>1. Multiple(a + k) = Multiple(b + k) /\ a + k \in Nat /\ b + k \in Nat
    BY <1>1, <1>3
  <2>2. /\ Sum(Multiple(a + k), Multiple(1)) = Multiple((a + k) + 1)
        /\ Sum(Multiple(b + k), Multiple(1)) = Multiple((b + k) + 1)
    BY <2>1, AddendsAre, SumIs
  <2>3. (a + k) + 1 = a + (k + 1) /\ (b + k) + 1 = b + (k + 1)
    BY <1>1
  <2> QED
    BY <2>1, <2>2, <2>3
<1> DEFINE k == Order - b
<1>4. k \in Good
  <2>1. k \in Nat
    BY <1>1
  <2> HIDE DEF Good, k
  <2> QED
    BY <1>2, <1>3, <2>1, Induction
<1>5. b + k = Order /\ a + k \in Nat /\ a + k > 0 /\ a + k < Order
  BY <1>1
<1>6. Multiple(a + k) = Multiple(b + k)
  BY <1>4
<1>7. Order % Order = 0
  <2>1. Order = Order * 1 + 0 /\ 1 \in Nat /\ 0 \in Nat /\ 0 < Order
    BY <1>1
  <2>2. (Order * 1 + 0) % Order = 0
    BY <1>1, <2>1, DivModIs
  <2> QED
    BY <2>1, <2>2
<1>8. (a + k) % Order = a + k
  <2> DEFINE n == a + k
  <2>1. n \in Nat /\ n < Order
    BY <1>5
  <2> HIDE DEF n
  <2>2. n % Order = n
    BY <1>1, <2>1, SmallIs
  <2> QED
    BY <2>2 DEF n
<1>9. Multiple(Order) = Infinity
  BY <1>1, <1>7, MultipleIs
<1> HIDE DEF k
<1>10. Multiple(a + k) # Infinity
  <2>1. (a + k) % Order # 0
    BY <1>5, <1>8
  <2> QED
    BY <1>5, <2>1, MultipleIs
<1> QED
  BY <1>5, <1>6, <1>9, <1>10

\* Equal points are multiples by the same scalar.
LEMMA MultiplesAreOne ==
  ASSUME NEW n \in Nat, NEW m \in Nat, Multiple(n) = Multiple(m)
  PROVE  n % Order = m % Order
<1> DEFINE a == n % Order
           b == m % Order
<1>1. /\ a \in 0 .. Order - 1 /\ b \in 0 .. Order - 1
      /\ Multiple(n) = Multiple(a) /\ Multiple(m) = Multiple(b) /\ Order \in Nat
  BY MultipleIs
<1> HIDE DEF a, b
<1>2. ~(a < b) /\ ~(b < a)
  BY <1>1, MultiplesDiffer
<1>3. a = b
  BY <1>1, <1>2
<1> QED
  BY <1>3 DEF a, b

\* The coordinates of a multiple.
LEMMA Coordinates ==
  ASSUME NEW n \in Nat, n % Order # 0
  PROVE  /\ Multiple(n)[1] \in Residues /\ Multiple(n)[2] \in Residues
         /\ Multiple(n) = <<Multiple(n)[1], Multiple(n)[2]>> /\ Multiple(n) # Infinity
         /\ OnCurve(Multiple(n))
<1>1. OnCurve(Multiple(n)) /\ Multiple(n) # Infinity
  BY MultipleIs
<1>2. Multiple(n) \in (0 .. Prime - 1) \X (0 .. Prime - 1)
  BY <1>1 DEF OnCurve
<1> DEFINE p == Multiple(n)
<1> HIDE DEF p
<1>3. p \in (0 .. Prime - 1) \X (0 .. Prime - 1)
  BY <1>2 DEF p
<1>4. p[1] \in 0 .. Prime - 1 /\ p[2] \in 0 .. Prime - 1 /\ p = <<p[1], p[2]>>
  BY <1>3
<1> QED
  BY <1>1, <1>4 DEF p, Residues

\* 0 and 1 are numbers of the field.
LEMMA ZeroResidue == Residue(0) = 0 /\ 0 \in Residues /\ Residue(1) = 1 /\ 1 \in Residues
<1>1. 0 \in Residues /\ 1 \in Residues
  BY OrderAssumption DEF Residues
<1> QED
  BY <1>1, ResidueOf

\* Numbers whose difference is 0 are the same.
LEMMA ZeroDifference ==
  ASSUME NEW x \in Int, NEW y \in Int
  PROVE  Residue(x - y) = 0 <=> Residue(x) = Residue(y)
<1>1. x - y \in Int /\ (x - y) + y = x /\ y - y = 0 /\ 0 + y = y
  OBVIOUS
<1>2. Residue((x - y) + y) = Plus(Residue(x - y), Residue(y)) /\ Residue(0 + y) = Plus(Residue(0), Residue(y))
  BY <1>1, ResidueOps
<1>3. Residue(x - y) = Minus(Residue(x), Residue(y)) /\ Residue(y - y) = Minus(Residue(y), Residue(y))
  BY ResidueOps
<1> QED
  BY <1>1, <1>2, <1>3, ZeroResidue

\* Points with one abscissa are equal or opposite.
LEMMA SameAbscissa ==
  ASSUME NEW a \in Nat, NEW b \in Addends, a % Order # 0, b % Order # 0,
         Multiple(a)[1] = Multiple(b)[1]
  PROVE  a % Order = b % Order \/ (a + b) % Order = 0
<1>1. b \in Nat /\ a + b \in Nat
  BY AddendsAre
<1> DEFINE A == Multiple(a)
           B == Multiple(b)
           x == A[1]
           s == A[2]
           t == B[2]
<1>2. /\ x \in Residues /\ s \in Residues /\ t \in Residues /\ A = <<x, s>> /\ B = <<x, t>>
      /\ OnCurve(A) /\ OnCurve(B) /\ A # Infinity /\ B # Infinity
  BY <1>1, Coordinates
<1>3. Sum(A, B) = Multiple(a + b)
  BY SumIs
<1>4. A = B => a % Order = b % Order
  BY <1>1, MultiplesAreOne
<1>5. Multiple(a + b) = Infinity => (a + b) % Order = 0
  BY <1>1, MultipleIs
<1> HIDE DEF A, B, x, s, t
<1> DEFINE c == Mul(x, Sqr(x))
<1>6. Minus(Sqr(s), c) = Minus(Sqr(t), c)
  <2>1. A[1] = x /\ A[2] = s /\ B[1] = x /\ B[2] = t
    BY <1>2
  <2> QED
    BY <1>2, <2>1 DEF OnCurve
<1>7. x \in Int /\ s \in Int /\ t \in Int /\ Residue(x) = x /\ Residue(s) = s /\ Residue(t) = t
  BY <1>2, ResidueOf
<1> DEFINE k == x * (x * x)
<1>8. k \in Int /\ c = Residue(k)
  BY <1>7, ResidueOps
<1>9. Sqr(s) = Residue(s * s) /\ Sqr(t) = Residue(t * t) /\ s * s \in Int /\ t * t \in Int
  BY <1>7, ResidueOps
<1> HIDE DEF k, c
<1>10. Residue(s * s - k) = Residue(t * t - k)
  BY <1>6, <1>8, <1>9, ResidueOps
<1>11. Residue((s * s - k) - (t * t - k)) = 0
  <2>1. s * s - k \in Int /\ t * t - k \in Int
    BY <1>8, <1>9
  <2> QED
    BY <1>10, <2>1, ZeroDifference
<1>12. (s * s - k) - (t * t - k) = (s - t) * (s + t)
  BY <1>7, <1>8
<1>13. s - t \in Int /\ s + t \in Int
  BY <1>7
<1>14. Residue(s - t) = 0 \/ Residue(s + t) = 0
  BY <1>11, <1>12, <1>13, NonZero
<1>15. Residue(s - t) = 0 => A = B
  BY <1>2, <1>7, ZeroDifference
<1>16. Residue(s + t) = 0 => Sum(A, B) = Infinity
  BY <1>2 DEF Sum, Residue
<1> QED
  BY <1>3, <1>4, <1>5, <1>14, <1>15, <1>16

\* A sum of different points that are not opposite, by the chord.
LEMMA ChordIs ==
  ASSUME NEW a \in Nat, NEW b \in Addends, a % Order # 0, b % Order # 0,
         a % Order # b % Order, (a + b) % Order # 0
  PROVE  LET A == Multiple(a)
             B == Multiple(b)
         IN /\ A[1] # B[1]
            /\ Multiple(a + b) = Chord(Mul(Minus(B[2], A[2]), Inv(Minus(B[1], A[1]))), A[1], A[2], B[1])
<1>1. b \in Nat /\ Multiple(a)[1] # Multiple(b)[1]
  BY AddendsAre, SameAbscissa
<1>2. Multiple(a) # Infinity /\ Multiple(b) # Infinity
  BY <1>1, Coordinates
<1>3. Sum(Multiple(a), Multiple(b)) = Multiple(a + b)
  BY SumIs
<1>4. Sum(Multiple(a), Multiple(b)) = PointAdd(Multiple(a), Multiple(b))
  BY <1>1, <1>2 DEF Sum
<1> QED
  BY <1>1, <1>2, <1>3, <1>4 DEF PointAdd

\* point_add adds, unless the points are opposite.
LEMMA PointAddIs ==
  ASSUME NEW a \in Nat, NEW b \in Addends, (a + b) % Order # 0
  PROVE  PointAdd(Multiple(a), Multiple(b)) = Multiple(a + b)
<1>1. Sum(Multiple(a), Multiple(b)) = Multiple(a + b) /\ a + b \in Nat
  BY SumIs, AddendsAre
<1>2. Multiple(a + b) # Infinity
  BY <1>1, MultipleIs
<1>3. CASE Multiple(a) = Infinity \/ Multiple(b) = Infinity
  BY <1>1, <1>3 DEF Sum, PointAdd
<1>4. CASE Multiple(a) # Infinity /\ Multiple(b) # Infinity
  BY <1>1, <1>2, <1>4 DEF Sum
<1> QED
  BY <1>3, <1>4

\* point_double_affine doubles.
LEMMA DoublingIs ==
  ASSUME NEW b \in Addends, b % Order # 0, (b + b) % Order # 0
  PROVE  DoubleAffine(Multiple(b)) = Multiple(b + b)
<1>1. b \in Nat /\ Multiple(b) # Infinity
  BY AddendsAre, Coordinates
<1>2. PointAdd(Multiple(b), Multiple(b)) = Multiple(b + b)
  BY <1>1, PointAddIs
<1> QED
  BY <1>1, <1>2 DEF PointAdd

-----------------------------------------------------------------------------
(* Jacobian coordinates.                                                   *)

\* A Jacobian point stands for the affine one.
Represents(j, p) ==
  \E w \in Int : /\ Residue(w) # 0 /\ j.z = Residue(w)
                 /\ j.x = Residue(p[1] * (w * w)) /\ j.y = Residue(p[2] * (w * (w * w)))

\* jac_from_affine
LEMMA LiftedRepresents ==
  ASSUME NEW p, p[1] \in Residues, p[2] \in Residues
  PROVE  Represents([x |-> p[1], y |-> p[2], z |-> 1], p)
<1>1. /\ p[1] \in Int /\ p[2] \in Int /\ Residue(p[1]) = p[1] /\ Residue(p[2]) = p[2]
  BY ResidueOf
<1>2. p[1] * (1 * 1) = p[1] /\ p[2] * (1 * (1 * 1)) = p[2] /\ 1 \in Int
  BY <1>1
<1> QED
  BY <1>1, <1>2, ZeroResidue DEF Represents

\* What replaces a factor by one that is the same in the field.
LEMMA SameFactor ==
  ASSUME NEW x \in Int, NEW y \in Int, NEW z \in Int, Residue(x) = Residue(y)
  PROVE  Residue(x * z) = Residue(y * z)
<1>1. Residue(x * z) = Mul(Residue(x), Residue(z)) /\ Residue(y * z) = Mul(Residue(y), Residue(z))
  BY ResidueOps
<1> QED
  BY <1>1

\* The slope of a chord times the difference of the abscissas is that of the
\* ordinates.
LEMMA SlopeIs ==
  ASSUME NEW rise \in Residues, NEW run \in Residues, run # 0
  PROVE  LET s == Mul(rise, Inv(run)) IN s \in Residues /\ s \in Int /\ Residue(s * run) = rise
<1> DEFINE i == Inv(run)
           s == Mul(rise, i)
<1>1. i \in Residues /\ Mul(run, i) = 1
  BY InvIs
<1> HIDE DEF i
<1>2. /\ i \in Int /\ Residue(i) = i /\ run \in Int /\ Residue(run) = run
      /\ rise \in Int /\ Residue(rise) = rise
  BY <1>1, ResidueOf
<1>3. s = Residue(rise * i) /\ rise * i \in Int
  BY <1>2, ResidueOps
<1>4. s \in Residues /\ s \in Int
  BY <1>3, ResidueIn
<1>5. Residue(s) = Residue(rise * i)
  BY <1>3, <1>4, ResidueOf
<1> HIDE DEF s
<1>6. Residue(s * run) = Residue((rise * i) * run)
  BY <1>2, <1>3, <1>4, <1>5, SameFactor
<1>7. (rise * i) * run = (run * i) * rise /\ run * i \in Int
  BY <1>2
<1>8. Residue(run * i) = Residue(1) /\ 1 \in Int /\ 1 * rise = rise
  BY <1>1, <1>2, ResidueOps, ZeroResidue
<1>9. Residue((run * i) * rise) = Residue(1 * rise)
  BY <1>2, <1>7, <1>8, SameFactor
<1>10. Residue(s * run) = rise
  BY <1>2, <1>6, <1>7, <1>8, <1>9
<1> QED
  BY <1>4, <1>10 DEF s, i

\* jac_add_affine adds, where the abscissas differ.
LEMMA JacAddIs ==
  ASSUME NEW j, NEW p, p[1] \in Residues, p[2] \in Residues, Represents(j, p),
         NEW a, a[1] \in Residues, a[2] \in Residues, a[1] # p[1]
  PROVE  Represents(JacAdd(j, a),
                    Chord(Mul(Minus(a[2], p[2]), Inv(Minus(a[1], p[1]))), p[1], p[2], a[1]))
<1> DEFINE X == p[1]
           Y == p[2]
           U == a[1]
           V == a[2]
           d == Minus(U, X)
           rise == Minus(V, Y)
           s == Mul(rise, Inv(d))
           sum == Chord(s, X, Y, U)
<1>1. /\ X \in Int /\ Y \in Int /\ U \in Int /\ V \in Int
      /\ Residue(X) = X /\ Residue(Y) = Y /\ Residue(U) = U /\ Residue(V) = V
  BY ResidueOf
<1>2. PICK w \in Int : /\ Residue(w) # 0 /\ j.z = Residue(w)
                       /\ j.x = Residue(X * (w * w)) /\ j.y = Residue(Y * (w * (w * w)))
  BY DEF Represents
<1> HIDE DEF X, Y, U, V
<1>3. d = Residue(U - X) /\ U - X \in Int /\ rise = Residue(V - Y) /\ V - Y \in Int
  BY <1>1, ResidueOps
<1>4. d \in Residues /\ d \in Int /\ Residue(d) = d /\ rise \in Residues /\ rise \in Int
  BY <1>3, ResidueIn, ResidueOf
<1>5. d # 0
  <2>1. U # X
    BY DEF U, X
  <2> QED
    BY <1>1, <1>3, <2>1, ZeroDifference
<1> HIDE DEF d, rise
<1>6. s \in Residues /\ s \in Int /\ Residue(s * d) = rise /\ s * d \in Int
  <2>1. s \in Residues /\ s \in Int /\ Residue(s * d) = rise
    BY <1>4, <1>5, SlopeIs
  <2> HIDE DEF s
  <2> QED
    BY <1>4, <2>1
<1>7. Residue(s) = s
  BY <1>6, ResidueOf
<1> HIDE DEF s
\* The sum of the points.
<1> DEFINE x3 == s * s - X - X - d
           y3 == (X - x3) * s - Y
<1>8. x3 \in Int /\ y3 \in Int
  BY <1>1, <1>4, <1>6
<1>9. sum = <<Residue(x3), Residue(y3)>>
  <2>1. Minus(Minus(Sqr(s), X), U) = Residue((s * s - X) - U)
    <3>1. s * s \in Int /\ s * s - X \in Int
      BY <1>1, <1>6
    <3> QED
      BY <1>1, <1>6, <1>7, <3>1, ResidueOps
  <2>2. Residue((s * s - X) - U) = Residue(x3)
    <3>1. (s * s - X) - U = (s * s - X - X) - (U - X) /\ s * s - X - X \in Int
      BY <1>1, <1>6
    <3>2. Residue((s * s - X - X) - (U - X)) = Minus(Residue(s * s - X - X), Residue(U - X))
      BY <1>3, <3>1, ResidueOps
    <3>3. Residue((s * s - X - X) - d) = Minus(Residue(s * s - X - X), Residue(d))
      BY <1>4, <3>1, ResidueOps
    <3> QED
      BY <1>3, <1>4, <3>1, <3>2, <3>3
  <2> HIDE DEF x3
  <2>3. Minus(X, Residue(x3)) = Residue(X - x3) /\ X - x3 \in Int
    BY <1>1, <1>8, ResidueOps
  <2>4. Mul(Residue(X - x3), s) = Residue((X - x3) * s) /\ (X - x3) * s \in Int
    <3> DEFINE e == X - x3
    <3>1. e \in Int /\ e * s \in Int
      BY <1>6, <2>3
    <3> HIDE DEF e
    <3>2. Mul(Residue(e), Residue(s)) = Residue(e * s)
      BY <1>6, <3>1, ResidueOps
    <3> QED
      BY <1>7, <3>1, <3>2 DEF e
  <2>5. Minus(Residue((X - x3) * s), Y) = Residue((X - x3) * s - Y)
    BY <1>1, <2>4, ResidueOps
  <2> QED
    BY <2>1, <2>2, <2>3, <2>4, <2>5 DEF Chord
<1> HIDE DEF x3, y3, sum
<1>10. sum[1] = Residue(x3) /\ sum[2] = Residue(y3)
  BY <1>9
\* The sum of the Jacobian points.
<1> DEFINE t == (w * (w * w)) * d
           ww == w * w
           zz == Sqr(j.z)
           h == Minus(Mul(U, zz), j.x)
           r == Minus(Mul(Mul(V, j.z), zz), j.y)
           v == Mul(j.x, Sqr(h))
           jx == Minus(Minus(Minus(Sqr(r), Mul(h, Sqr(h))), v), v)
           jy == Minus(Mul(r, Minus(v, jx)), Mul(j.y, Mul(h, Sqr(h))))
<1>11. JacAdd(j, a) = [x |-> jx, y |-> jy, z |-> Mul(j.z, h)]
  BY DEF JacAdd, U, V
<1>12. ww \in Int /\ w * ww \in Int /\ t \in Int
  BY <1>2, <1>4
<1>13. zz = Residue(ww)
  BY <1>2, ResidueOps
<1>14. h = Residue(d * ww)
  <2>1. Mul(U, zz) = Residue(U * ww) /\ U * ww \in Int /\ X * ww \in Int
    BY <1>1, <1>12, <1>13, ResidueOps
  <2>2. Minus(Residue(U * ww), Residue(X * ww)) = Residue(U * ww - X * ww)
    BY <2>1, ResidueOps
  <2> HIDE DEF ww
  <2>3. U * ww - X * ww = (U - X) * ww
    BY <1>1, <1>12
  <2>4. Residue((U - X) * ww) = Residue(d * ww)
    BY <1>3, <1>4, <1>12, SameFactor
  <2>5. j.x = Residue(X * ww)
    BY <1>2 DEF ww
  <2> QED
    BY <2>1, <2>2, <2>3, <2>4, <2>5
<1>15. r = Residue(s * t)
  <2> DEFINE www == w * ww
  <2>1. Mul(V, j.z) = Residue(V * w) /\ V * w \in Int
    BY <1>1, <1>2, ResidueOps
  <2>2. Mul(Residue(V * w), zz) = Residue((V * w) * ww)
    BY <1>12, <1>13, <2>1, ResidueOps
  <2>3. j.y = Residue(Y * www)
    BY <1>2
  <2>4. t = www * d
    OBVIOUS
  <2>5. (V * w) * ww = V * www
    <3> HIDE DEF ww
    <3> QED
      BY <1>1, <1>2, <1>12
  <2>6. www \in Int
    BY <1>12
  <2> HIDE DEF www, t, ww
  <2>7. V * www \in Int /\ Y * www \in Int /\ V * www - Y * www = (V - Y) * www
    BY <1>1, <2>6
  <2>8. Minus(Residue(V * www), Residue(Y * www)) = Residue((V - Y) * www)
    BY <2>7, ResidueOps
  <2>9. Residue((V - Y) * www) = Residue((s * d) * www)
    <3>1. Residue(V - Y) = Residue(s * d)
      BY <1>3, <1>6
    <3> QED
      BY <1>3, <1>6, <2>6, <3>1, SameFactor
  <2>10. (s * d) * www = s * (www * d)
    BY <1>4, <1>6, <2>6
  <2> QED
    BY <2>1, <2>2, <2>3, <2>4, <2>5, <2>8, <2>9, <2>10
<1> DEFINE H == d * ww
           tt == t * t
<1>16. H \in Int /\ H * H \in Int /\ H * (H * H) \in Int /\ tt \in Int
  BY <1>4, <1>12
<1>17. Sqr(h) = Residue(H * H) /\ Mul(h, Sqr(h)) = Residue(H * (H * H))
  <2>1. h = Residue(H)
    BY <1>14
  <2> HIDE DEF H, h
  <2>2. Sqr(h) = Residue(H * H)
    BY <1>16, <2>1, ResidueOps
  <2> QED
    BY <1>16, <2>1, <2>2, ResidueOps
<1>18. H * (H * H) = d * tt /\ (X * ww) * (H * H) = X * tt
  <2>1. tt = d * d * (w * w * w * w * w * w)
    BY <1>2, <1>4
  <2>2. H * (H * H) = d * (d * d * (w * w * w * w * w * w))
    BY <1>2, <1>4
  <2>3. (X * ww) * (H * H) = X * (d * d * (w * w * w * w * w * w))
    BY <1>1, <1>2, <1>4
  <2> QED
    BY <2>1, <2>2, <2>3
<1>19. v = Residue(X * tt)
  <2>1. X * ww \in Int /\ j.x = Residue(X * ww)
    BY <1>1, <1>2, <1>12
  <2>2. Mul(Residue(X * ww), Residue(H * H)) = Residue((X * ww) * (H * H))
    BY <1>16, <2>1, ResidueOps
  <2> QED
    BY <1>17, <1>18, <2>1, <2>2
<1>20. (Y * (w * ww)) * (H * (H * H)) = Y * (t * tt)
  <2>1. t * tt = d * d * d * (w * w * w * w * w * w * w * w * w)
    BY <1>2, <1>4
  <2>2. (Y * (w * ww)) * (H * (H * H)) = Y * (d * d * d * (w * w * w * w * w * w * w * w * w))
    BY <1>1, <1>2, <1>4
  <2> QED
    BY <2>1, <2>2
<1>21. Mul(j.y, Mul(h, Sqr(h))) = Residue(Y * (t * tt))
  <2>1. Y * (w * ww) \in Int /\ j.y = Residue(Y * (w * ww))
    BY <1>1, <1>2, <1>12
  <2>2. Mul(Residue(Y * (w * ww)), Residue(H * (H * H))) = Residue((Y * (w * ww)) * (H * (H * H)))
    BY <1>16, <2>1, ResidueOps
  <2> QED
    BY <1>17, <1>20, <2>1, <2>2
<1>22. Mul(j.z, h) = Residue(t)
  <2>1. Mul(Residue(w), Residue(H)) = Residue(w * H)
    BY <1>2, <1>16, ResidueOps
  <2>2. w * H = t
    BY <1>2, <1>4
  <2> QED
    BY <1>2, <1>14, <2>1, <2>2
<1>23. Residue(t) # 0
  <2>1. Residue(w * w) # 0 /\ w * w \in Int
    BY <1>2, NonZero
  <2>2. Residue(w * (w * w)) # 0 /\ w * (w * w) \in Int
    BY <1>2, <2>1, NonZero
  <2> QED
    BY <1>4, <1>5, <2>2, NonZero
<1>24. Mul(h, Sqr(h)) = Residue(d * tt)
  BY <1>17, <1>18
<1> HIDE DEF h, r, v, t
<1>25. /\ tt \in Int /\ X * tt \in Int /\ d * tt \in Int /\ s * t \in Int /\ t * tt \in Int
       /\ (s * t) * (s * t) \in Int
  BY <1>1, <1>4, <1>6, <1>12
<1>26. jx = Residue(x3 * tt)
  <2>1. Sqr(r) = Residue((s * t) * (s * t))
    BY <1>15, <1>25, ResidueOps
  <2> DEFINE e1 == (s * t) * (s * t)
             e2 == d * tt
             e3 == X * tt
  <2>2. e1 \in Int /\ e2 \in Int /\ e3 \in Int /\ e1 - e2 \in Int /\ e1 - e2 - e3 \in Int
    BY <1>25
  <2>3. x3 * tt = e1 - e2 - e3 - e3
    BY <1>1, <1>4, <1>6, <1>12 DEF x3
  <2>4. Sqr(r) = Residue(e1) /\ Mul(h, Sqr(h)) = Residue(e2) /\ v = Residue(e3)
    BY <1>19, <1>24, <2>1
  <2> HIDE DEF e1, e2, e3
  <2>5. Minus(Residue(e1), Residue(e2)) = Residue(e1 - e2)
    BY <2>2, ResidueOps
  <2>6. Minus(Residue(e1 - e2), Residue(e3)) = Residue(e1 - e2 - e3)
    BY <2>2, ResidueOps
  <2>7. Minus(Residue(e1 - e2 - e3), Residue(e3)) = Residue(e1 - e2 - e3 - e3)
    BY <2>2, ResidueOps
  <2> QED
    BY <2>3, <2>4, <2>5, <2>6, <2>7
<1> HIDE DEF jx
<1>27. jy = Residue(y3 * (t * tt))
  <2> DEFINE e1 == X * tt
             e2 == x3 * tt
             e3 == Y * (t * tt)
  <2>1. e1 \in Int /\ e2 \in Int /\ e3 \in Int /\ e1 - e2 \in Int /\ (s * t) * (e1 - e2) \in Int
    BY <1>1, <1>8, <1>25
  <2>2. y3 * (t * tt) = (s * t) * (e1 - e2) - e3
    BY <1>1, <1>6, <1>8, <1>12 DEF y3
  <2>3. v = Residue(e1) /\ jx = Residue(e2) /\ Mul(j.y, Mul(h, Sqr(h))) = Residue(e3)
    BY <1>19, <1>21, <1>26
  <2> HIDE DEF e1, e2, e3
  <2>4. Minus(Residue(e1), Residue(e2)) = Residue(e1 - e2)
    BY <2>1, ResidueOps
  <2>5. Mul(r, Residue(e1 - e2)) = Residue((s * t) * (e1 - e2))
    BY <1>15, <1>25, <2>1, ResidueOps
  <2>6. Minus(Residue((s * t) * (e1 - e2)), Residue(e3)) = Residue((s * t) * (e1 - e2) - e3)
    BY <2>1, ResidueOps
  <2> QED
    BY <2>2, <2>3, <2>4, <2>5, <2>6
<1> HIDE DEF jy
<1>28. Residue(x3 * tt) = Residue(sum[1] * (t * t))
  <2>1. sum[1] \in Int /\ Residue(sum[1]) = Residue(x3)
    BY <1>8, <1>10, ResidueIn, ResidueOf
  <2> QED
    BY <1>8, <1>25, <2>1, SameFactor
<1>29. Residue(y3 * (t * tt)) = Residue(sum[2] * (t * (t * t)))
  <2>1. sum[2] \in Int /\ Residue(sum[2]) = Residue(y3)
    BY <1>8, <1>10, ResidueIn, ResidueOf
  <2> QED
    BY <1>8, <1>25, <2>1, SameFactor
<1>30. Represents(JacAdd(j, a), sum)
  <2> DEFINE k == JacAdd(j, a)
  <2>1. k.x = jx /\ k.y = jy /\ k.z = Mul(j.z, h)
    BY <1>11 DEF h
  <2> HIDE DEF k
  <2> QED
    BY <1>12, <1>22, <1>23, <1>26, <1>27, <1>28, <1>29, <2>1 DEF Represents, k
<1> QED
  BY <1>30 DEF sum, s, rise, d, X, Y, U, V

-----------------------------------------------------------------------------
(* The table of the terms.                                                 *)

\* What the terms of a scalar are below.
LEMMA TermsAreSmall ==
  /\ Order \in Nat /\ Order < WordPower(Words) /\ WordPower(Words) = DigitPower[ScalarBytes]
  /\ WordPower(Words) < 2 * Order
  /\ \A k \in 0 .. ScalarBytes - 1 : DigitPower[k] \in Nat \ {0} /\ DigitPower[k] < Order
  /\ \A byte \in Bytes, v \in 1 .. ByteBase - 1 :
       v * DigitPower[byte] \in Nat \ {0} /\ v * DigitPower[byte] < Order
<1> DEFINE D == DigitPower[ScalarBytes - 1]
           W == WordPower(Words)
           B == ByteBase
<1>1. B \in Nat /\ B > 1 /\ ScalarBytes \in Nat \ {0} /\ IsPowers(DigitPower, B, ScalarBytes)
  BY WalkSizes
<1>2. W = DigitPower[ScalarBytes]
  BY DEF WordPower, ScalarBytes
<1>3. ScalarBytes - 1 \in 0 .. ScalarBytes /\ ScalarBytes \in 1 .. ScalarBytes
  BY <1>1
<1>4. D \in Nat \ {0} /\ W = B * D
  <2>1. DigitPower[ScalarBytes] = B * DigitPower[ScalarBytes - 1]
    BY <1>1, <1>3 DEF IsPowers
  <2>2. D \in Nat \ {0}
    BY <1>1, <1>3, PowersPositive
  <2> QED
    BY <1>2, <2>1, <2>2
<1>5. Order \in Nat /\ Order < W /\ B * (W - Order) < W
  BY OrderAssumption
<1>6. ASSUME NEW k \in 0 .. ScalarBytes - 1
      PROVE  DigitPower[k] \in Nat \ {0} /\ DigitPower[k] <= D
  <2>1. k \in 0 .. ScalarBytes /\ k <= ScalarBytes - 1
    BY <1>1
  <2>2. DigitPower[k] \in Nat \ {0}
    BY <1>1, <2>1, PowersPositive
  <2>3. DigitPower[k] <= D
    BY <1>1, <1>3, <2>1, PowersGrow
  <2> QED
    BY <2>2, <2>3
<1> HIDE DEF D, W, B
<1>7. (B - 1) * D < Order
  <2>1. PICK e \in Nat : W = Order + e
    BY <1>4, <1>5, W - Order \in Nat /\ W = Order + (W - Order)
  <2>2. B * e < B * D /\ e < D
    <3>1. B * e < B * D
      BY <1>4, <1>5, <2>1
    <3>2. ~(D <= e)
      <4> SUFFICES ASSUME D <= e PROVE FALSE
        OBVIOUS
      <4>1. B * D <= B * e
        BY <1>1, <1>4
      <4> QED
        BY <1>1, <1>4, <3>1, <4>1
    <3> QED
      BY <1>4, <3>1, <3>2
  <2>3. (B - 1) * D = B * D - D /\ B * D \in Nat
    BY <1>1, <1>4
  <2> QED
    BY <1>4, <1>5, <2>1, <2>2, <2>3
<1>8. ASSUME NEW v \in 1 .. B - 1, NEW d \in Nat \ {0}, d <= D
      PROVE  v * d \in Nat \ {0} /\ v * d < Order
  <2>1. v * d <= v * D /\ v * D <= (B - 1) * D
    BY <1>1, <1>4, <1>8
  <2>2. v * d \in Nat \ {0} /\ v * D \in Nat /\ (B - 1) * D \in Nat
    BY <1>1, <1>4, <1>8
  <2> QED
    BY <1>5, <1>7, <2>1, <2>2
<1>9. ASSUME NEW k \in 0 .. ScalarBytes - 1
      PROVE  DigitPower[k] < Order
  <2>1. 1 \in 1 .. B - 1 /\ 1 * DigitPower[k] = DigitPower[k]
    BY <1>1, <1>6
  <2>2. DigitPower[k] \in Nat \ {0} /\ DigitPower[k] <= D
    BY <1>6
  <2> DEFINE d == DigitPower[k]
  <2> HIDE DEF d
  <2>3. 1 * d < Order
    BY <1>8, <2>1, <2>2 DEF d
  <2> QED
    BY <2>1, <2>3 DEF d
<1>10. W < 2 * Order
  <2>1. D <= (B - 1) * D /\ (B - 1) * D = B * D - D /\ B * D \in Nat
    BY <1>1, <1>4
  <2> QED
    BY <1>4, <1>5, <1>7, <2>1
<1>11. ASSUME NEW byte \in Bytes, NEW v \in 1 .. B - 1
       PROVE  v * DigitPower[byte] \in Nat \ {0} /\ v * DigitPower[byte] < Order
  <2>1. DigitPower[byte] \in Nat \ {0} /\ DigitPower[byte] <= D
    BY <1>6 DEF Bytes
  <2> QED
    BY <1>8, <2>1
<1> QED
  BY <1>2, <1>5, <1>6, <1>9, <1>10, <1>11 DEF W, B

\* Below the order, a number is its own remainder.
LEMMA BelowOrder ==
  ASSUME NEW n \in Nat, n < Order
  PROVE  n % Order = n
  BY MultipleIs, SmallIs

\* Powers do not depend on the length of the table.
LEMMA PowersAreOne ==
  ASSUME NEW base \in Nat, NEW n \in Nat, NEW m \in Nat, NEW p, NEW q,
         IsPowers(p, base, n), IsPowers(q, base, m), NEW k \in 0 .. n, k <= m
  PROVE  p[k] = q[k]
<1> DEFINE Good == {j \in 0 .. k : p[j] = q[j]}
<1>1. 0 \in Good
  BY DEF IsPowers
<1>2. ASSUME NEW j \in 1 .. k, j - 1 \in Good
      PROVE  j \in Good
  <2>1. p[j] = base * p[j - 1] /\ q[j] = base * q[j - 1]
    BY DEF IsPowers
  <2> QED
    BY <1>2, <2>1
<1>3. k \in Good
  <2> HIDE DEF Good
  <2> QED
    BY <1>1, <1>2, Upto
<1> QED
  BY <1>3

\* Powers of two, for each bit of a scalar.
BitPower == Powers(2, ScalarBytes * ByteBits)

LEMMA BitPowers ==
  /\ ByteBits \in Nat \ {0} /\ ScalarBytes * ByteBits \in Nat /\ IsPowers(BitPower, 2, ScalarBytes * ByteBits)
  /\ \A q \in 0 .. ScalarBytes : q * ByteBits \in 0 .. ScalarBytes * ByteBits /\ BitPower[q * ByteBits] = DigitPower[q]
<1> DEFINE n == ScalarBytes * ByteBits
<1>1. ByteBits \in Nat \ {0} /\ ScalarBytes \in Nat \ {0}
  BY WalkAssumption, WalkSizes
<1>2. n \in Nat /\ ByteBits <= n
  BY <1>1
<1>3. IsPowers(BitPower, 2, n)
  BY <1>2, PowersArePowers DEF BitPower
<1>4. BitPower[ByteBits] = ByteBase
  <2>1. IsPowers(Powers(2, ByteBits), 2, ByteBits)
    BY <1>1, PowersArePowers
  <2> HIDE DEF n
  <2>2. Powers(2, ByteBits)[ByteBits] = BitPower[ByteBits]
    BY <1>1, <1>2, <1>3, <2>1, PowersAreOne
  <2> QED
    BY <2>2 DEF ByteBase
<1>5. ASSUME NEW q \in 0 .. ScalarBytes
      PROVE  q * ByteBits \in 0 .. n
  <2>1. PICK d \in Nat : ScalarBytes = q + d
    BY <1>1, ScalarBytes - q \in Nat /\ ScalarBytes = q + (ScalarBytes - q)
  <2>2. n = q * ByteBits + d * ByteBits /\ q * ByteBits \in Nat /\ d * ByteBits \in Nat
    BY <1>1, <2>1
  <2> QED
    BY <1>2, <2>2
<1> HIDE DEF n
<1> DEFINE Good == {q \in 0 .. ScalarBytes : BitPower[q * ByteBits] = DigitPower[q]}
<1>6. 0 \in Good
  <2>1. 0 * ByteBits = 0 /\ BitPower[0] = 1 /\ DigitPower[0] = 1
    BY <1>1, <1>3, WalkSizes DEF IsPowers
  <2> QED
    BY <1>1, <2>1
<1>7. ASSUME NEW q \in 1 .. ScalarBytes, q - 1 \in Good
      PROVE  q \in Good
  <2> DEFINE a == (q - 1) * ByteBits
  <2>1. a \in 0 .. n /\ q * ByteBits = a + ByteBits /\ q * ByteBits \in 0 .. n /\ ByteBits \in 0 .. n
    BY <1>1, <1>2, <1>5
  <2>2. BitPower[a] = DigitPower[q - 1]
    BY <1>7
  <2> HIDE DEF a
  <2>3. BitPower[a + ByteBits] = BitPower[a] * BitPower[ByteBits]
    BY <1>2, <1>3, <2>1, PowersAdd
  <2>4. DigitPower[q] = ByteBase * DigitPower[q - 1] /\ DigitPower[q - 1] \in Nat
    BY <1>1, WalkSizes DEF IsPowers
  <2>5. ByteBase \in Nat
    BY WalkSizes
  <2> QED
    BY <1>4, <2>1, <2>2, <2>3, <2>4, <2>5
<1>8. ASSUME NEW q \in 0 .. ScalarBytes
      PROVE  q \in Good
  <2> HIDE DEF Good
  <2>1. \A k \in 1 .. q : k - 1 \in Good => k \in Good
    BY <1>1, <1>7
  <2> QED
    BY <1>6, <2>1, Upto
<1> QED
  BY <1>1, <1>2, <1>3, <1>5, <1>8 DEF n

\* Below a digit of the table, every power of two is added to itself.
LEMMA BitsAreAddends ==
  ASSUME NEW byte \in Bytes, NEW k \in 0 .. byte * ByteBits, k < byte * ByteBits
  PROVE  /\ BitPower[k] \in Addends /\ BitPower[k] \in Nat \ {0}
         /\ BitPower[k + 1] = BitPower[k] + BitPower[k] /\ BitPower[k + 1] < Order
<1> DEFINE n == ScalarBytes * ByteBits
           q == k \div ByteBits
           r == k % ByteBits
<1>1. /\ byte \in 0 .. ScalarBytes /\ byte \in 0 .. ScalarBytes - 1 /\ byte * ByteBits \in 0 .. n /\ n \in Nat
      /\ ByteBits \in Nat \ {0} /\ k \in Nat
  <2>1. byte \in 0 .. ScalarBytes - 1 /\ ScalarBytes \in Nat
    BY WalkSizes DEF Bytes
  <2> QED
    BY <2>1, BitPowers
<1>2. q \in Nat /\ r \in Nat /\ r < ByteBits /\ k = ByteBits * q + r
  BY <1>1, DivMod
<1> HIDE DEF q, r
<1>3. q < byte
  <2> SUFFICES ASSUME byte <= q PROVE FALSE
    BY <1>1, <1>2
  <2>1. byte * ByteBits <= q * ByteBits /\ q * ByteBits = ByteBits * q
    BY <1>1, <1>2
  <2>2. ByteBits * q \in Nat /\ byte * ByteBits \in Nat
    BY <1>1, <1>2
  <2> QED
    BY <1>1, <1>2, <2>1, <2>2
<1>4. q \in Bytes /\ q \in 0 .. ScalarBytes
  <2>1. byte \in 0 .. ScalarBytes - 1 /\ ScalarBytes \in Nat /\ q \in Nat /\ q < byte
    BY <1>1, <1>2, <1>3, WalkSizes
  <2>2. q \in 0 .. ScalarBytes - 1 /\ q \in 0 .. ScalarBytes
    BY <2>1
  <2> QED
    BY <2>2 DEF Bytes
<1>5. /\ k \in 0 .. n /\ k + 1 \in 1 .. n /\ k + 1 <= byte * ByteBits /\ q * ByteBits \in 0 .. n
      /\ r \in 0 .. n /\ k = q * ByteBits + r
  <2>1. q * ByteBits = ByteBits * q /\ q * ByteBits \in Nat
    BY <1>1, <1>2
  <2> QED
    BY <1>1, <1>2, <2>1
<1>6. IsPowers(BitPower, 2, n) /\ BitPower[q * ByteBits] = DigitPower[q] /\ BitPower[byte * ByteBits] = DigitPower[byte]
  BY <1>1, <1>4, BitPowers
<1> HIDE DEF n
<1>7. BitPower[k] = BitPower[r] * DigitPower[q]
  <2> DEFINE a == q * ByteBits
  <2>1. a \in 0 .. n /\ a + r <= n /\ BitPower[a] = DigitPower[q] /\ k = a + r
    BY <1>1, <1>5, <1>6
  <2> HIDE DEF a
  <2>2. BitPower[a + r] = BitPower[a] * BitPower[r]
    BY <1>1, <1>5, <1>6, <2>1, PowersAdd
  <2>3. DigitPower[q] \in Nat /\ BitPower[r] \in Nat
    BY <1>4, <1>5, <1>6, WalkSizes DEF IsPowers
  <2> QED
    BY <2>1, <2>2, <2>3
<1>8. BitPower[r] \in 1 .. ByteBase - 1
  <2>1. BitPower[r] \in Nat \ {0} /\ BitPower[r + 1] = 2 * BitPower[r]
    <3>1. r + 1 \in 1 .. n /\ (r + 1) - 1 = r
      BY <1>1, <1>2, <1>5
    <3>2. BitPower[r + 1] = 2 * BitPower[r]
      BY <1>6, <3>1 DEF IsPowers
    <3> QED
      BY <1>1, <1>5, <1>6, <3>2, PowersPositive
  <2>2. BitPower[r + 1] <= BitPower[ByteBits]
    <3>1. r + 1 \in 0 .. n /\ ByteBits \in 0 .. n /\ r + 1 <= ByteBits
      <4>1. 1 \in 0 .. ScalarBytes /\ 1 * ByteBits = ByteBits
        BY <1>1, WalkSizes
      <4>2. ByteBits \in 0 .. n
        BY <4>1, BitPowers DEF n
      <4> QED
        BY <1>1, <1>2, <4>2
    <3> QED
      BY <1>1, <1>6, <3>1, PowersGrow
  <2>3. BitPower[ByteBits] = ByteBase
    <3>1. 1 \in 0 .. ScalarBytes /\ 1 * ByteBits = ByteBits
      BY <1>1, WalkSizes
    <3>2. BitPower[1 * ByteBits] = DigitPower[1]
      BY <3>1, BitPowers
    <3>3. DigitPower[1] = ByteBase * DigitPower[1 - 1] /\ 1 - 1 = 0 /\ DigitPower[0] = 1
      BY WalkSizes DEF IsPowers
    <3>4. ByteBase * 1 = ByteBase
      BY WalkSizes
    <3> QED
      BY <3>1, <3>2, <3>3, <3>4
  <2>4. ByteBase \in Nat
    BY WalkSizes
  <2> QED
    BY <2>1, <2>2, <2>3, <2>4
<1>9. BitPower[k] \in Addends
  BY <1>4, <1>7, <1>8, AddendsAre
<1>10. BitPower[k] \in Nat \ {0}
  BY <1>5, <1>1, <1>6, PowersPositive
<1>11. BitPower[k + 1] = BitPower[k] + BitPower[k]
  <2>1. k + 1 \in 1 .. n /\ (k + 1) - 1 = k
    BY <1>1, <1>5
  <2>2. BitPower[k + 1] = 2 * BitPower[(k + 1) - 1]
    BY <1>6, <2>1 DEF IsPowers
  <2> QED
    BY <1>10, <2>1, <2>2
<1>12. BitPower[k + 1] < Order
  <2> DEFINE b == byte * ByteBits
  <2>1. b \in 0 .. n /\ k + 1 \in 0 .. n /\ k + 1 <= b /\ BitPower[b] = DigitPower[byte]
    BY <1>1, <1>5, <1>6 DEF n
  <2> HIDE DEF b
  <2>2. BitPower[k + 1] <= BitPower[b]
    BY <1>1, <1>6, <2>1, PowersGrow
  <2>3. DigitPower[byte] \in Nat /\ DigitPower[byte] < Order /\ Order \in Nat
    BY <1>1, TermsAreSmall
  <2>4. BitPower[k + 1] \in Nat
    BY <1>10, <1>11
  <2> QED
    BY <2>1, <2>2, <2>3, <2>4
<1> QED
  BY <1>9, <1>10, <1>11, <1>12

\* The doublings of the generator, up to a byte.
LEMMA DoubledIs ==
  ASSUME NEW byte \in Bytes, NEW doubled,
         doubled = (CHOOSE g : g = [k \in 0 .. byte * ByteBits |->
                                      IF k = 0 THEN Generator ELSE DoubleAffine(g[k - 1])])
  PROVE  doubled[byte * ByteBits] = Multiple(DigitPower[byte])
<1> DEFINE n == byte * ByteBits
           Table(g) == [k \in 0 .. n |-> IF k = 0 THEN Generator ELSE DoubleAffine(g[k - 1])]
           h == [k \in 0 .. n |-> Multiple(BitPower[k])]
<1>1. n \in Nat /\ BitPower[n] = DigitPower[byte]
  <2>1. byte \in 0 .. ScalarBytes /\ byte \in Nat
    BY WalkSizes DEF Bytes
  <2> QED
    BY <2>1, BitPowers
<1>2. BitPower[0] = 1 /\ Multiple(BitPower[0]) = Generator
  BY BitPowers, MultipleIs DEF IsPowers
<1>3. \A k \in 1 .. n : DoubleAffine(Multiple(BitPower[k - 1])) = Multiple(BitPower[k])
  <2> SUFFICES ASSUME NEW k \in 1 .. n
               PROVE  DoubleAffine(Multiple(BitPower[k - 1])) = Multiple(BitPower[k])
    OBVIOUS
  <2>1. k - 1 \in 0 .. n /\ k - 1 < n /\ (k - 1) + 1 = k
    BY <1>1
  <2> DEFINE b == BitPower[k - 1]
  <2>2. /\ b \in Addends /\ b \in Nat \ {0} /\ BitPower[(k - 1) + 1] = b + b /\ BitPower[(k - 1) + 1] < Order
    BY <2>1, BitsAreAddends
  <2>3. BitPower[k] = b + b /\ b + b < Order
    BY <2>1, <2>2
  <2> HIDE DEF b
  <2>4. b < Order /\ b + b \in Nat /\ b # 0 /\ b + b # 0
    BY <2>2, <2>3, MultipleIs
  <2>5. b % Order = b /\ (b + b) % Order = b + b
    BY <2>2, <2>3, <2>4, BelowOrder
  <2>6. DoubleAffine(Multiple(b)) = Multiple(b + b)
    BY <2>2, <2>4, <2>5, DoublingIs
  <2> QED
    BY <2>3, <2>6 DEF b
<1>4. h = Table(h)
  <2> HIDE DEF n
  <2>1. ASSUME NEW k \in 0 .. n
        PROVE  h[k] = IF k = 0 THEN Generator ELSE DoubleAffine(h[k - 1])
    <3>1. k = 0 \/ (k \in 1 .. n /\ k - 1 \in 0 .. n)
      BY <1>1
    <3> QED
      BY <1>2, <1>3, <3>1
  <2>2. h = [k \in 0 .. n |-> h[k]]
    OBVIOUS
  <2> HIDE DEF h
  <2> QED
    BY <2>1, <2>2
<1>5. doubled = Table(doubled)
  <2>1. doubled = (CHOOSE g : g = Table(g))
    OBVIOUS
  <2> HIDE DEF Table, h
  <2> QED
    BY <1>4, <2>1
<1> DEFINE Good == {k \in 0 .. n : doubled[k] = Multiple(BitPower[k])}
<1> HIDE DEF n
<1>6. 0 \in Good
  <2>1. 0 \in 0 .. n
    BY <1>1
  <2>2. Table(doubled)[0] = Generator
    BY <2>1
  <2>3. doubled[0] = Generator
    <3> HIDE DEF Table
    <3> QED
      BY <1>5, <2>2
  <2> QED
    BY <1>2, <2>1, <2>3
<1>7. ASSUME NEW k \in 1 .. n, k - 1 \in Good
      PROVE  k \in Good
  <2>1. k \in 0 .. n /\ k # 0
    BY <1>1
  <2>2. Table(doubled)[k] = DoubleAffine(doubled[k - 1])
    BY <2>1
  <2> HIDE DEF Table
  <2> QED
    BY <1>3, <1>5, <1>7, <2>1, <2>2
<1>8. n \in Good
  <2> HIDE DEF Good
  <2> QED
    BY <1>1, <1>6, <1>7, Upto
<1> QED
  BY <1>1, <1>8 DEF n

\* The additions of that multiple.
LEMMA AddedIs ==
  ASSUME NEW byte \in Bytes, NEW multiple,
         multiple = (CHOOSE g : g = [v \in 0 .. ByteBase - 1 |->
                       IF v = 0 THEN Infinity ELSE PointAdd(g[v - 1], Multiple(DigitPower[byte]))]),
         NEW v \in 1 .. ByteBase - 1
  PROVE  multiple[v] = Multiple(v * DigitPower[byte])
<1> DEFINE last == ByteBase - 1
           d == DigitPower[byte]
           Table(g) == [k \in 0 .. last |-> IF k = 0 THEN Infinity ELSE PointAdd(g[k - 1], Multiple(d))]
           h == [k \in 0 .. last |-> Multiple(k * d)]
<1>1. last \in Nat /\ v \in 1 .. last /\ d \in Nat \ {0} /\ d \in Addends
  <2>1. 1 \in 1 .. ByteBase - 1 /\ ByteBase \in Nat
    BY WalkSizes
  <2>2. 1 * d \in Nat \ {0} /\ 1 * d \in Addends
    BY <2>1, TermsAreSmall, AddendsAre
  <2>3. d \in Nat
    BY WalkSizes DEF Bytes, IsPowers
  <2> HIDE DEF d
  <2> QED
    BY <2>1, <2>2, <2>3
<1>2. \A k \in 1 .. last : k * d \in Nat \ {0} /\ k * d < Order
  BY TermsAreSmall
<1> HIDE DEF last, d
<1>3. Multiple(0 * d) = Infinity
  BY <1>1, MultipleIs
<1>4. \A k \in 1 .. last : PointAdd(Multiple((k - 1) * d), Multiple(d)) = Multiple(k * d)
  <2> SUFFICES ASSUME NEW k \in 1 .. last
               PROVE  PointAdd(Multiple((k - 1) * d), Multiple(d)) = Multiple(k * d)
    OBVIOUS
  <2> DEFINE a == (k - 1) * d
  <2>1. a \in Nat /\ a + d = k * d
    BY <1>1
  <2> HIDE DEF a
  <2>2. (a + d) % Order = a + d /\ a + d # 0
    BY <1>2, <2>1, BelowOrder
  <2>3. PointAdd(Multiple(a), Multiple(d)) = Multiple(a + d)
    BY <1>1, <2>1, <2>2, PointAddIs
  <2> QED
    BY <2>1, <2>3 DEF a
<1>5. h = Table(h)
  <2>1. ASSUME NEW k \in 0 .. last
        PROVE  h[k] = IF k = 0 THEN Infinity ELSE PointAdd(h[k - 1], Multiple(d))
    <3>1. k = 0 \/ (k \in 1 .. last /\ k - 1 \in 0 .. last)
      BY <1>1
    <3> QED
      BY <1>3, <1>4, <3>1
  <2>2. h = [k \in 0 .. last |-> h[k]]
    OBVIOUS
  <2> HIDE DEF h
  <2> QED
    BY <2>1, <2>2
<1>6. multiple = Table(multiple)
  <2>1. multiple = (CHOOSE g : g = Table(g))
    BY DEF last, d
  <2> HIDE DEF Table, h
  <2> QED
    BY <1>5, <2>1
<1> DEFINE Good == {k \in 0 .. last : multiple[k] = Multiple(k * d)}
<1>7. 0 \in Good
  <2>1. 0 \in 0 .. last
    BY <1>1
  <2>2. Table(multiple)[0] = Infinity
    BY <2>1
  <2>3. multiple[0] = Infinity
    <3> HIDE DEF Table
    <3> QED
      BY <1>6, <2>2
  <2> QED
    BY <1>3, <2>1, <2>3
<1>8. ASSUME NEW k \in 1 .. last, k - 1 \in Good
      PROVE  k \in Good
  <2>1. k \in 0 .. last /\ k # 0
    BY <1>1
  <2>2. Table(multiple)[k] = PointAdd(multiple[k - 1], Multiple(d))
    BY <2>1
  <2> HIDE DEF Table
  <2> QED
    BY <1>4, <1>6, <1>8, <2>1, <2>2
<1>9. ASSUME NEW k \in 0 .. last
      PROVE  k \in Good
  <2>1. \A i \in 1 .. k : i - 1 \in Good => i \in Good
    BY <1>1, <1>8
  <2> HIDE DEF Good
  <2> QED
    BY <1>1, <1>7, <2>1, Upto
<1>10. v \in Good
  <2>1. v \in 0 .. last
    BY <1>1
  <2> HIDE DEF Good
  <2> QED
    BY <1>9, <2>1
<1> QED
  BY <1>10 DEF d

\* pv_build_precomp builds the table of the multiples of each digit.
LEMMA PrecompIs ==
  ASSUME NEW byte \in Bytes, NEW v \in 1 .. ByteBase - 1
  PROVE  Precomp[byte][v] = Multiple(v * DigitPower[byte])
<1> DEFINE doubled == CHOOSE g : g = [k \in 0 .. byte * ByteBits |->
                                        IF k = 0 THEN Generator ELSE DoubleAffine(g[k - 1])]
           multiple == CHOOSE g : g = [k \in 0 .. ByteBase - 1 |->
                         IF k = 0 THEN Infinity ELSE PointAdd(g[k - 1], doubled[byte * ByteBits])]
<1>1. Precomp[byte] = [k \in 1 .. ByteBase - 1 |-> multiple[k]]
  BY DEF Precomp
<1>2. doubled[byte * ByteBits] = Multiple(DigitPower[byte])
  <2> DEFINE f == doubled
  <2>1. f = (CHOOSE g : g = [k \in 0 .. byte * ByteBits |->
                               IF k = 0 THEN Generator ELSE DoubleAffine(g[k - 1])])
    OBVIOUS
  <2> HIDE DEF f
  <2> QED
    BY <2>1, DoubledIs DEF f
<1> HIDE DEF doubled
<1>3. multiple = (CHOOSE g : g = [k \in 0 .. ByteBase - 1 |->
                   IF k = 0 THEN Infinity ELSE PointAdd(g[k - 1], Multiple(DigitPower[byte]))])
  BY <1>2
<1> HIDE DEF multiple
<1>4. multiple[v] = Multiple(v * DigitPower[byte])
  BY <1>3, AddedIs
<1> QED
  BY <1>1, <1>4

-----------------------------------------------------------------------------
(* Scalar multiplication.                                                  *)

\* The operations return residues.
LEMMA OpsClose ==
  ASSUME NEW a \in Int, NEW b \in Int
  PROVE  Plus(a, b) \in Residues /\ Minus(a, b) \in Residues /\ Mul(a, b) \in Residues /\ Sqr(a) \in Residues
<1>1. a + b \in Int /\ a - b \in Int /\ a * b \in Int /\ a * a \in Int
  OBVIOUS
<1>2. \A n \in Int : Residue(n) \in Residues
  BY ResidueIn
<1> QED
  BY <1>1, <1>2 DEF Plus, Minus, Mul, Sqr, Residue

\* Numbers of the field are integers.
LEMMA ResiduesAreInts == Residues \subseteq Int
  BY OrderAssumption DEF Residues

\* Points have coordinates in the field: those of chords do,
LEMMA ChordCloses ==
  ASSUME NEW slope \in Residues, NEW x \in Residues, NEW y \in Residues, NEW x2 \in Residues
  PROVE  Chord(slope, x, y, x2) \in Residues \X Residues
<1> DEFINE x3 == Minus(Minus(Sqr(slope), x), x2)
<1>1. x3 \in Residues
  BY OpsClose, ResiduesAreInts
<1> HIDE DEF x3
<1>2. Minus(x, x3) \in Residues
  BY <1>1, OpsClose, ResiduesAreInts
<1>3. Mul(Minus(x, x3), slope) \in Residues
  BY <1>2, OpsClose, ResiduesAreInts
<1>4. Minus(Mul(Minus(x, x3), slope), y) \in Residues
  BY <1>3, OpsClose, ResiduesAreInts
<1> QED
  BY <1>1, <1>4 DEF Chord, x3

\* and those of sums.
LEMMA PointAddCloses ==
  ASSUME NEW a \in Residues \X Residues, NEW b \in Residues \X Residues
  PROVE  PointAdd(a, b) \in Residues \X Residues
<1>1. a[1] \in Residues /\ a[2] \in Residues /\ b[1] \in Residues /\ b[2] \in Residues
  OBVIOUS
<1> HIDE DEF Residues
<1>2. DoubleAffine(a) \in Residues \X Residues
  <2>1. a[1] \in Int /\ a[2] \in Int
    <3>1. \A r \in Residues : r \in Int
      BY ResiduesAreInts
    <3> QED
      BY <1>1, <3>1, Zenon
  <2>7. 3 \in Int
    OBVIOUS
  <2>5. Plus(a[2], a[2]) \in Residues
    BY <2>1, OpsClose
  <2>6. Sqr(a[1]) \in Residues
    BY <2>1, OpsClose
  <2>2. Inv(Plus(a[2], a[2])) \in Residues /\ Mul(3, Sqr(a[1])) \in Residues
    BY <2>5, <2>6, <2>7, InvIs, OpsClose, ResiduesAreInts
  <2>3. Mul(Mul(3, Sqr(a[1])), Inv(Plus(a[2], a[2]))) \in Residues
    BY <2>2, OpsClose, ResiduesAreInts
  <2> QED
    BY <1>1, <2>3, ChordCloses DEF DoubleAffine
<1>3. Chord(Mul(Minus(b[2], a[2]), Inv(Minus(b[1], a[1]))), a[1], a[2], b[1]) \in Residues \X Residues
  <2>1. Minus(b[2], a[2]) \in Residues /\ Minus(b[1], a[1]) \in Residues
    BY <1>1, OpsClose, ResiduesAreInts
  <2>2. Inv(Minus(b[1], a[1])) \in Residues
    BY <2>1, InvIs
  <2>3. Mul(Minus(b[2], a[2]), Inv(Minus(b[1], a[1]))) \in Residues
    BY <2>1, <2>2, OpsClose, ResiduesAreInts
  <2> QED
    BY <1>1, <2>3, ChordCloses
<1> QED
  BY <1>2, <1>3 DEF PointAdd

\* Multiples are pairs of residues.
LEMMA MultiplesClose ==
  ASSUME NEW n \in Nat
  PROVE  Multiple(n) \in Residues \X Residues
<1>1. CASE n % Order = 0
  <2>1. Multiple(n) = <<0, 0>>
    BY <1>1, MultipleIs DEF Infinity
  <2> QED
    BY <2>1, ZeroResidue
<1>2. CASE n % Order # 0
  BY <1>2, MultipleIs DEF OnCurve, Residues
<1> QED
  BY <1>1, <1>2

\* What each digit adds.
LEMMA TermIs ==
  ASSUME NEW s \in Nat, NEW k \in 1 .. ScalarBytes
  PROVE  LET v == Digit(s, k - 1)
             P == DigitPower[k - 1]
         IN /\ k - 1 \in Bytes /\ Lowest[k] = k - 1
            /\ v \in 0 .. ByteBase - 1 /\ P \in Nat \ {0} /\ v * P \in Nat
            /\ s % P \in 0 .. P - 1 /\ s % DigitPower[k] = (s % P) + v * P
            /\ v # 0 => /\ Term(s, k - 1) = Multiple(v * P) /\ v * P \in Addends
                        /\ P <= v * P /\ v * P < Order
<1> DEFINE v == Digit(s, k - 1)
           P == DigitPower[k - 1]
<1>1. /\ ScalarBytes \in Nat /\ ByteBase \in Nat \ {0} /\ k - 1 \in Bytes /\ k - 1 \in 0 .. ScalarBytes
      /\ IsPowers(DigitPower, ByteBase, ScalarBytes)
  BY WalkSizes DEF Bytes
<1>2. P \in Nat \ {0} /\ DigitPower[k] = ByteBase * P
  <2>1. P \in Nat \ {0}
    BY <1>1, PowersPositive, WalkSizes
  <2>2. DigitPower[k] = ByteBase * P
    BY <1>1 DEF IsPowers
  <2> QED
    BY <2>1, <2>2
<1>3. Lowest[k] = k - 1
  BY DEF Lowest
<1>4. v = (s \div P) % ByteBase
  BY DEF Digit
<1> HIDE DEF v, P
<1>5. v \in 0 .. ByteBase - 1 /\ s % P \in 0 .. P - 1 /\ s % (ByteBase * P) = (s % P) + v * P
  BY <1>1, <1>2, <1>4, WordSplits
<1>6. v * P \in Nat
  BY <1>1, <1>2, <1>5
<1>7. ASSUME v # 0
      PROVE  Term(s, k - 1) = Multiple(v * P) /\ v * P \in Addends /\ P <= v * P /\ v * P < Order
  <2>1. v \in 1 .. ByteBase - 1
    BY <1>1, <1>5, <1>7
  <2>2. Term(s, k - 1) = Precomp[k - 1][v]
    BY DEF Term, v
  <2>3. Precomp[k - 1][v] = Multiple(v * P)
    BY <1>1, <2>1, PrecompIs DEF P
  <2>4. v * P \in Addends /\ v * P < Order
    BY <1>1, <2>1, AddendsAre, TermsAreSmall DEF P
  <2>5. P <= v * P
    <3>1. v - 1 \in Nat /\ (v - 1) * P \in Nat /\ v * P = (v - 1) * P + P
      BY <1>1, <1>2, <2>1
    <3> QED
      BY <1>2, <3>1
  <2> QED
    BY <2>2, <2>3, <2>4, <2>5
<1> QED
  BY <1>1, <1>2, <1>3, <1>5, <1>6, <1>7 DEF v, P

\* pv_scalar_times_g multiplies, below the order.
LEMMA TimesGIs ==
  ASSUME NEW s \in 0 .. Order - 1
  PROVE  TimesG(s) = Multiple(s)
<1> DEFINE V == Residues \X Residues
           n == ScalarBytes
           Step(sum, byte) == IF Digit(s, byte) = 0 THEN sum ELSE PointAdd(sum, Term(s, byte))
           F == [p \in (1 .. n) \X V |-> Step(p[2], p[1] - 1)]
           Fold(g) == [t \in SUBSET DOMAIN Lowest |->
                         IF t = {} THEN Infinity ELSE Step(g[t \ {Max(t)}], Lowest[Max(t)])]
<1>1. /\ n \in Nat /\ Order \in Nat /\ s \in Nat /\ s < Order /\ DOMAIN Lowest = 1 .. n
      /\ IsPowers(DigitPower, ByteBase, n)
  BY WalkSizes, MultipleIs DEF Lowest
<1>2. Infinity \in V
  BY ZeroResidue DEF Infinity
<1>3. ASSUME NEW sum \in V, NEW k \in 1 .. n
      PROVE  Step(sum, k - 1) \in V
  <2>1. CASE Digit(s, k - 1) = 0
    BY <2>1
  <2>2. CASE Digit(s, k - 1) # 0
    <3> DEFINE m == Digit(s, k - 1) * DigitPower[k - 1]
    <3>1. Term(s, k - 1) = Multiple(m) /\ m \in Nat
      BY <1>1, <2>2, TermIs
    <3> HIDE DEF m
    <3>2. Multiple(m) \in Residues \X Residues
      BY <3>1, MultiplesClose
    <3>3. PointAdd(sum, Term(s, k - 1)) \in V
      BY <3>1, <3>2, PointAddCloses
    <3> QED
      BY <2>2, <3>3
  <2> QED
    BY <2>1, <2>2
<1>4. ASSUME NEW k \in 1 .. n
      PROVE  Step(Multiple(s % DigitPower[k - 1]), k - 1) = Multiple(s % DigitPower[k])
  <2> DEFINE P == DigitPower[k - 1]
             v == Digit(s, k - 1)
             a == s % P
             b == v * P
  <2>1. /\ P \in Nat \ {0} /\ v \in 0 .. ByteBase - 1 /\ a \in 0 .. P - 1 /\ b \in Nat
        /\ s % DigitPower[k] = a + b
        /\ v # 0 => Term(s, k - 1) = Multiple(b) /\ b \in Addends /\ P <= b /\ b < Order
    BY <1>1, TermIs
  <2>2. DigitPower[k] \in Nat \ {0}
    BY <1>1, PowersPositive, WalkSizes
  <2>3. s % DigitPower[k] <= s
    <3> DEFINE q == DigitPower[k]
               t == s \div q
               r == s % q
    <3>1. q \in Nat \ {0} /\ s \in Nat
      BY <1>1, <2>2
    <3> HIDE DEF q
    <3>2. t \in Nat /\ r \in Nat /\ s = q * t + r
      BY <3>1, DivMod
    <3> HIDE DEF t, r
    <3>3. q * t \in Nat
      BY <3>1, <3>2
    <3>4. r <= s
      BY <3>2, <3>3
    <3> QED
      BY <3>4 DEF q, r
  <2>4. v = 0 => b = 0
    BY <2>1
  <2> HIDE DEF a, b, v
  <2>5. CASE v = 0
    <3>1. a + b = a
      BY <2>1, <2>4, <2>5
    <3> QED
      BY <2>1, <2>5, <3>1 DEF v, a
  <2>6. CASE v # 0
    <3>1. a \in Nat /\ a + b \in Nat /\ a + b < Order /\ a + b # 0
      BY <1>1, <2>1, <2>3, <2>6
    <3>2. (a + b) % Order # 0
      <4> DEFINE c == a + b
      <4>1. c \in Nat /\ c < Order /\ c # 0
        BY <3>1
      <4> HIDE DEF c
      <4>2. c % Order = c
        BY <4>1, BelowOrder
      <4> QED
        BY <4>1, <4>2 DEF c
    <3>3. PointAdd(Multiple(a), Multiple(b)) = Multiple(a + b)
      BY <2>1, <2>6, <3>1, <3>2, PointAddIs
    <3> QED
      BY <2>1, <2>6, <3>3 DEF v, a
  <2> QED
    BY <2>5, <2>6
<1> HIDE DEF Step
<1>5. \E g : g = Fold(g)
  <2>1. F \in [(1 .. n) \X V -> V]
    <3> SUFFICES ASSUME NEW p \in (1 .. n) \X V PROVE Step(p[2], p[1] - 1) \in V
      OBVIOUS
    <3>1. p[2] \in V /\ p[1] \in 1 .. n
      OBVIOUS
    <3> HIDE DEF V, n
    <3> QED
      BY <1>3, <3>1
  <2>2. PICK g \in [SUBSET (1 .. n) -> V] : IsFold(g, n, Infinity, F)
    <3> HIDE DEF F, V, n
    <3> QED
      BY <1>1, <1>2, <2>1, FoldExists
  <2> HIDE DEF V, n
  <2>3. ASSUME NEW t \in SUBSET (1 .. n), t # {}
        PROVE  <<Max(t), g[t \ {Max(t)}]>> \in (1 .. n) \X V
    <3>1. Max(t) \in 1 .. n
      BY <1>1, <2>3, MaxIn
    <3> QED
      BY <2>2, <3>1
  <2>4. g = Fold(g)
    <3>1. g = [t \in SUBSET (1 .. n) |-> g[t]]
      BY <2>2
    <3>2. \A t \in SUBSET (1 .. n) :
            g[t] = IF t = {} THEN Infinity ELSE Step(g[t \ {Max(t)}], Lowest[Max(t)])
      <4> SUFFICES ASSUME NEW t \in SUBSET (1 .. n)
                   PROVE  g[t] = IF t = {} THEN Infinity ELSE Step(g[t \ {Max(t)}], Lowest[Max(t)])
        OBVIOUS
      <4>1. CASE t = {}
        BY <2>2, <4>1 DEF IsFold
      <4>2. CASE t # {}
        <5>1. Max(t) \in 1 .. n
          BY <1>1, <4>2, MaxIn
        <5>2. g[t] = F[<<Max(t), g[t \ {Max(t)}]>>]
          BY <2>2, <4>2 DEF IsFold
        <5>3. g[t] = Step(g[t \ {Max(t)}], Max(t) - 1)
          BY <2>3, <4>2, <5>2
        <5>4. Lowest[Max(t)] = Max(t) - 1
          BY <5>1 DEF Lowest, n
        <5> QED
          BY <4>2, <5>3, <5>4
      <4> QED
        BY <4>1, <4>2
    <3> QED
      BY <1>1, <3>1, <3>2
  <2> QED
    BY <2>4
<1>6. PICK g : g = Fold(g) /\ TimesG(s) = g[1 .. n]
  <2>1. TimesG(s) = (CHOOSE g : g = Fold(g))[DOMAIN Lowest]
    BY DEF TimesG, FoldLeft, MapThenFoldSet, Step
  <2> HIDE DEF Fold
  <2> QED
    BY <1>1, <1>5, <2>1
<1> HIDE DEF F, V, n
<1> DEFINE Reached == {k \in 0 .. n : g[1 .. k] = Multiple(s % DigitPower[k])}
<1>7. 0 \in Reached
  <2>1. 1 .. 0 = {} /\ {} \in SUBSET DOMAIN Lowest
    OBVIOUS
  <2>2. g[1 .. 0] = Infinity
    BY <1>6, <2>1
  <2>3. DigitPower[0] = 1 /\ s % 1 = 0
    BY <1>1 DEF IsPowers
  <2>4. g[1 .. 0] = Multiple(s % DigitPower[0])
    BY <2>2, <2>3, MultipleIs
  <2>5. 0 \in 0 .. n
    BY <1>1
  <2> QED
    BY <2>4, <2>5
<1>8. ASSUME NEW k \in 1 .. n, k - 1 \in Reached
      PROVE  k \in Reached
  <2>1. 1 .. k \in SUBSET DOMAIN Lowest /\ k \in Nat \ {0}
    BY <1>1
  <2>2. Max(1 .. k) = k /\ (1 .. k) \ {Max(1 .. k)} = 1 .. (k - 1) /\ 1 .. k # {}
    BY <2>1, MaxOfPrefix
  <2>3. g[1 .. k] = Step(g[1 .. (k - 1)], Lowest[k])
    BY <1>6, <2>1, <2>2
  <2>4. Lowest[k] = k - 1
    BY DEF Lowest, n
  <2>5. g[1 .. (k - 1)] = Multiple(s % DigitPower[k - 1])
    BY <1>8
  <2> QED
    BY <1>1, <1>4, <2>3, <2>4, <2>5
<1>9. g[1 .. n] = Multiple(s % DigitPower[n])
  <2>1. n \in Reached
    <3> HIDE DEF Reached
    <3> QED
      BY <1>1, <1>7, <1>8, Upto
  <2> QED
    BY <2>1
<1>10. s % DigitPower[n] = s
  <2> DEFINE W == DigitPower[n]
  <2>1. W \in Nat \ {0} /\ s < W
    <3>1. W = WordPower(Words) /\ Order < WordPower(Words) /\ W \in Nat
      BY <1>1, TermsAreSmall DEF n, IsPowers
    <3> QED
      BY <1>1, <3>1
  <2> HIDE DEF W
  <2>2. s % W = s
    BY <1>1, <2>1, SmallIs
  <2> QED
    BY <2>2 DEF W
<1> QED
  BY <1>6, <1>9, <1>10

\* jac_add_affine returns residues.
LEMMA JacAddCloses ==
  ASSUME NEW j \in [x : Residues, y : Residues, z : Residues], NEW a \in Residues \X Residues
  PROVE  JacAdd(j, a) \in [x : Residues, y : Residues, z : Residues]
<1> DEFINE zz == Sqr(j.z)
           h == Minus(Mul(a[1], zz), j.x)
           r == Minus(Mul(Mul(a[2], j.z), zz), j.y)
           v == Mul(j.x, Sqr(h))
           hhh == Mul(h, Sqr(h))
           x3 == Minus(Minus(Minus(Sqr(r), hhh), v), v)
           y3 == Minus(Mul(r, Minus(v, x3)), Mul(j.y, hhh))
<1>1. j.x \in Residues /\ j.y \in Residues /\ j.z \in Residues /\ a[1] \in Residues /\ a[2] \in Residues
  OBVIOUS
<1>2. \A n \in Residues : n \in Int
  BY ResiduesAreInts
<1>3. \A m \in Residues, n \in Residues :
        Minus(m, n) \in Residues /\ Mul(m, n) \in Residues /\ Sqr(m) \in Residues
  BY <1>2, OpsClose
<1>4. zz \in Residues /\ Mul(a[2], j.z) \in Residues
  BY <1>1, <1>3
<1> HIDE DEF zz
<1>5. Mul(a[1], zz) \in Residues /\ Mul(Mul(a[2], j.z), zz) \in Residues
  BY <1>1, <1>3, <1>4
<1>6. h \in Residues /\ r \in Residues
  BY <1>1, <1>3, <1>5
<1> HIDE DEF h, r
<1>7. Sqr(h) \in Residues /\ Sqr(r) \in Residues
  BY <1>3, <1>6
<1>8. v \in Residues /\ hhh \in Residues
  BY <1>1, <1>3, <1>6, <1>7
<1> HIDE DEF v, hhh
<1>9. Minus(Sqr(r), hhh) \in Residues
  BY <1>3, <1>7, <1>8
<1>10. Minus(Minus(Sqr(r), hhh), v) \in Residues
  BY <1>3, <1>8, <1>9
<1>11. x3 \in Residues
  BY <1>3, <1>8, <1>10
<1> HIDE DEF x3
<1>12. Minus(v, x3) \in Residues /\ Mul(j.y, hhh) \in Residues
  BY <1>1, <1>3, <1>8, <1>11
<1>13. Mul(r, Minus(v, x3)) \in Residues
  BY <1>3, <1>6, <1>12
<1>14. y3 \in Residues /\ Mul(j.z, h) \in Residues
  BY <1>1, <1>3, <1>6, <1>12, <1>13
<1> HIDE DEF y3
<1>15. JacAdd(j, a) = [x |-> x3, y |-> y3, z |-> Mul(j.z, h)]
  BY DEF JacAdd, zz, h, r, v, hhh, x3, y3
<1> QED
  BY <1>11, <1>14, <1>15

\* One multiple is added to another, in Jacobian coordinates.
LEMMA JacSumIs ==
  ASSUME NEW j, NEW a \in Nat, NEW b \in Addends, Represents(j, Multiple(a)),
         a % Order # 0, b % Order # 0, a % Order # b % Order, (a + b) % Order # 0
  PROVE  Represents(JacAdd(j, Multiple(b)), Multiple(a + b))
<1> DEFINE A == Multiple(a)
           B == Multiple(b)
<1>1. b \in Nat
  BY AddendsAre
<1>2. A[1] \in Residues /\ A[2] \in Residues /\ B[1] \in Residues /\ B[2] \in Residues
  BY <1>1, Coordinates
<1>3. /\ A[1] # B[1]
      /\ Multiple(a + b) = Chord(Mul(Minus(B[2], A[2]), Inv(Minus(B[1], A[1]))), A[1], A[2], B[1])
  BY ChordIs
<1>4. Represents(j, A)
  OBVIOUS
<1> HIDE DEF A, B
<1>5. Represents(JacAdd(j, B), Chord(Mul(Minus(B[2], A[2]), Inv(Minus(B[1], A[1]))), A[1], A[2], B[1]))
  BY <1>2, <1>3, <1>4, JacAddIs
<1> QED
  BY <1>3, <1>5 DEF B

\* pv_scalar_times_g_jac multiplies, unless it comes to the order.
LEMMA TimesGJacIs ==
  ASSUME NEW s \in AllSeeds, s % Order # 0
  PROVE  TimesGJac(s) \in [x : Residues, y : Residues, z : Residues] /\ Represents(TimesGJac(s), Multiple(s))
<1> DEFINE J == [x : Residues, y : Residues, z : Residues]
           V == [initialised : BOOLEAN, sum : J]
           n == ScalarBytes
           base == [initialised |-> FALSE, sum |-> [x |-> 0, y |-> 0, z |-> 0]]
           AddTerm(acc, term) ==
             [initialised |-> TRUE,
              sum |-> IF acc.initialised THEN JacAdd(acc.sum, term)
                      ELSE [x |-> term[1], y |-> term[2], z |-> 1]]
           Step(acc, byte) == IF Digit(s, byte) = 0 THEN acc ELSE AddTerm(acc, Term(s, byte))
           F == [p \in (1 .. n) \X V |-> Step(p[2], p[1] - 1)]
           Fold(g) == [t \in SUBSET DOMAIN Lowest |->
                         IF t = {} THEN base ELSE Step(g[t \ {Max(t)}], Lowest[Max(t)])]
           AddedUp(acc, k) ==
             /\ acc \in V
             /\ acc.initialised <=> s % DigitPower[k] # 0
             /\ acc.initialised => Represents(acc.sum, Multiple(s % DigitPower[k]))
<1>1. /\ n \in Nat /\ Order \in Nat /\ s \in Nat /\ DOMAIN Lowest = 1 .. n
      /\ IsPowers(DigitPower, ByteBase, n) /\ ByteBase \in Nat
  BY WalkSizes, MultipleIs, TermsAreSmall DEF Lowest, AllSeeds
<1>2. s < DigitPower[n] /\ DigitPower[n] \in Nat \ {0} /\ s % DigitPower[n] = s
  <2> DEFINE W == DigitPower[n]
  <2>1. W \in Nat \ {0} /\ s < W
    <3>1. W = WordPower(Words) /\ W \in Nat \ {0}
      BY <1>1, TermsAreSmall, WalkSizes, PowersPositive DEF n
    <3>2. s \in 0 .. WordPower(Words) - 1
      BY DEF AllSeeds
    <3> HIDE DEF W
    <3> QED
      BY <1>1, <3>1, <3>2
  <2> HIDE DEF W
  <2>2. s % W = s
    BY <1>1, <2>1, SmallIs
  <2> QED
    BY <2>1, <2>2 DEF W
<1>3. base \in V /\ AddedUp(base, 0)
  <2>1. base \in V
    BY ZeroResidue
  <2>2. s % DigitPower[0] = 0
    BY <1>1 DEF IsPowers
  <2> QED
    BY <2>1, <2>2
<1>4. ASSUME NEW acc \in V, NEW k \in 1 .. n
      PROVE  Step(acc, k - 1) \in V /\ (AddedUp(acc, k - 1) => AddedUp(Step(acc, k - 1), k))
  <2> DEFINE P == DigitPower[k - 1]
             v == Digit(s, k - 1)
             a == s % P
             b == v * P
             new == Step(acc, k - 1)
             term == Term(s, k - 1)
  <2>1. /\ P \in Nat \ {0} /\ v \in 0 .. ByteBase - 1 /\ a \in 0 .. P - 1 /\ b \in Nat
        /\ s % DigitPower[k] = a + b
        /\ v # 0 => term = Multiple(b) /\ b \in Addends /\ P <= b /\ b < Order
    BY <1>1, TermIs
  <2>2. v = 0 => b = 0
    BY <2>1
  <2>3. P < Order
    <3>1. k - 1 \in 0 .. ScalarBytes - 1
      BY <1>1
    <3> QED
      BY <3>1, TermsAreSmall
  <2>4. (a + b) % Order # 0 \/ a + b = 0
    <3>1. CASE k = n
      BY <1>2, <2>1, <3>1
    <3>2. CASE k # n
      <4> DEFINE c == DigitPower[k]
      <4>1. k \in 0 .. ScalarBytes - 1
        BY <1>1, <3>2
      <4>2. c \in Nat \ {0} /\ c < Order
        BY <4>1, TermsAreSmall
      <4>3. s % c \in Nat /\ s % c < c
        <5> HIDE DEF c
        <5> QED
          BY <1>1, <4>2, DivMod
      <4>4. (s % c) % Order = s % c
        <5> DEFINE e == s % c
        <5>1. e \in Nat /\ e < Order
          BY <1>1, <4>2, <4>3
        <5> HIDE DEF e
        <5>2. e % Order = e
          BY <5>1, BelowOrder
        <5> QED
          BY <5>2 DEF e
      <4>5. s % c = a + b
        BY <2>1
      <4> QED
        BY <4>4, <4>5
    <3> QED
      BY <3>1, <3>2
  <2> HIDE DEF a, b, v, term
  <2>5. CASE v = 0
    <3>1. new = acc
      BY <2>5 DEF v
    <3>2. a + b = a
      BY <2>1, <2>2, <2>5
    <3> HIDE DEF new, V
    <3> QED
      BY <2>1, <3>1, <3>2 DEF a, new
  <2>6. CASE v # 0
    <3>1. new = AddTerm(acc, term)
      BY <2>6 DEF v, term
    <3>2. term = Multiple(b) /\ b \in Addends /\ P <= b /\ b < Order /\ b # 0
      BY <2>1, <2>6
    <3>3. term \in Residues \X Residues
      BY <2>1, <3>2, MultiplesClose
    <3>4. term[1] \in Residues /\ term[2] \in Residues
      BY <3>3
    <3>5. acc.initialised \in BOOLEAN /\ acc.sum \in J
      OBVIOUS
    <3>6. new.initialised = TRUE /\ new.sum = IF acc.initialised THEN JacAdd(acc.sum, term)
                                              ELSE [x |-> term[1], y |-> term[2], z |-> 1]
      BY <3>1
    <3>7. new.sum \in J
      <4>1. CASE acc.initialised
        BY <3>3, <3>5, <3>6, <4>1, JacAddCloses
      <4>2. CASE ~ acc.initialised
        <5>1. [x |-> term[1], y |-> term[2], z |-> 1] \in J
          BY <3>4, ZeroResidue
        <5> QED
          BY <3>6, <4>2, <5>1
      <4> QED
        BY <4>1, <4>2
    <3>8. new \in V
      BY <3>1, <3>6, <3>7
    <3>9. b % Order = b /\ a % Order = a /\ a \in Nat /\ a < P
      <4>1. a \in Nat /\ a < P /\ a < Order
        BY <1>1, <2>1, <2>3
      <4> QED
        BY <2>1, <3>2, <4>1, BelowOrder
    <3>10. a + b # 0 /\ (a + b) % Order # 0 /\ a # b
      BY <2>1, <2>4, <3>2, <3>9
    <3>11. ASSUME AddedUp(acc, k - 1)
           PROVE  Represents(new.sum, Multiple(a + b))
      <4>1. acc.initialised <=> a # 0
        BY <3>11 DEF a
      <4>2. CASE acc.initialised
        <5>1. Represents(acc.sum, Multiple(a))
          BY <3>11, <4>2 DEF a
        <5>2. Represents(JacAdd(acc.sum, Multiple(b)), Multiple(a + b))
          BY <3>2, <3>9, <3>10, <4>1, <4>2, <5>1, JacSumIs
        <5> QED
          BY <3>2, <3>6, <4>2, <5>2
      <4>3. CASE ~ acc.initialised
        <5>1. a + b = b
          BY <2>1, <4>1, <4>3
        <5>2. Represents([x |-> term[1], y |-> term[2], z |-> 1], term)
          BY <3>4, LiftedRepresents
        <5> QED
          BY <3>2, <3>6, <4>3, <5>1, <5>2
      <4> QED
        BY <4>2, <4>3
    <3> HIDE DEF new, V
    <3>12. AddedUp(acc, k - 1) => AddedUp(new, k)
      BY <2>1, <3>6, <3>8, <3>10, <3>11
    <3> QED
      BY <3>8, <3>12 DEF new
  <2> QED
    BY <2>5, <2>6
<1> HIDE DEF Step, AddedUp, base
<1>5. \E g : g = Fold(g)
  <2>1. F \in [(1 .. n) \X V -> V]
    <3> SUFFICES ASSUME NEW p \in (1 .. n) \X V PROVE Step(p[2], p[1] - 1) \in V
      OBVIOUS
    <3>1. p[2] \in V /\ p[1] \in 1 .. n
      OBVIOUS
    <3> HIDE DEF V, n
    <3> QED
      BY <1>4, <3>1
  <2>2. PICK g \in [SUBSET (1 .. n) -> V] : IsFold(g, n, base, F)
    <3> HIDE DEF F, V, n
    <3> QED
      BY <1>1, <1>3, <2>1, FoldExists
  <2> HIDE DEF V, n
  <2>3. ASSUME NEW t \in SUBSET (1 .. n), t # {}
        PROVE  <<Max(t), g[t \ {Max(t)}]>> \in (1 .. n) \X V
    <3>1. Max(t) \in 1 .. n
      BY <1>1, <2>3, MaxIn
    <3> QED
      BY <2>2, <3>1
  <2>4. g = Fold(g)
    <3>1. g = [t \in SUBSET (1 .. n) |-> g[t]]
      BY <2>2
    <3>2. \A t \in SUBSET (1 .. n) :
            g[t] = IF t = {} THEN base ELSE Step(g[t \ {Max(t)}], Lowest[Max(t)])
      <4> SUFFICES ASSUME NEW t \in SUBSET (1 .. n)
                   PROVE  g[t] = IF t = {} THEN base ELSE Step(g[t \ {Max(t)}], Lowest[Max(t)])
        OBVIOUS
      <4>1. CASE t = {}
        BY <2>2, <4>1 DEF IsFold
      <4>2. CASE t # {}
        <5>1. Max(t) \in 1 .. n
          BY <1>1, <4>2, MaxIn
        <5>2. g[t] = F[<<Max(t), g[t \ {Max(t)}]>>]
          BY <2>2, <4>2 DEF IsFold
        <5>3. g[t] = Step(g[t \ {Max(t)}], Max(t) - 1)
          BY <2>3, <4>2, <5>2
        <5>4. Lowest[Max(t)] = Max(t) - 1
          BY <5>1 DEF Lowest, n
        <5> QED
          BY <4>2, <5>3, <5>4
      <4> QED
        BY <4>1, <4>2
    <3> QED
      BY <1>1, <3>1, <3>2
  <2> QED
    BY <2>4
<1>6. PICK g : g = Fold(g) /\ TimesGJac(s) = g[1 .. n].sum
  <2>1. TimesGJac(s) = (CHOOSE g : g = Fold(g))[DOMAIN Lowest].sum
    BY DEF TimesGJac, FoldLeft, MapThenFoldSet, Step, base
  <2> HIDE DEF Fold
  <2> QED
    BY <1>1, <1>5, <2>1
<1> HIDE DEF F, V, n
<1> DEFINE Reached == {k \in 0 .. n : AddedUp(g[1 .. k], k)}
<1>7. 0 \in Reached
  <2>1. 1 .. 0 = {} /\ {} \in SUBSET DOMAIN Lowest
    OBVIOUS
  <2>2. g[1 .. 0] = base
    BY <1>6, <2>1
  <2>3. 0 \in 0 .. n
    BY <1>1
  <2> QED
    BY <1>3, <2>2, <2>3
<1>8. ASSUME NEW k \in 1 .. n, k - 1 \in Reached
      PROVE  k \in Reached
  <2>1. 1 .. k \in SUBSET DOMAIN Lowest /\ k \in Nat \ {0} /\ k \in 0 .. n
    BY <1>1
  <2>2. Max(1 .. k) = k /\ (1 .. k) \ {Max(1 .. k)} = 1 .. (k - 1) /\ 1 .. k # {}
    BY <2>1, MaxOfPrefix
  <2>3. g[1 .. k] = Step(g[1 .. (k - 1)], Lowest[k])
    BY <1>6, <2>1, <2>2
  <2>4. Lowest[k] = k - 1
    BY DEF Lowest, n
  <2>5. AddedUp(g[1 .. (k - 1)], k - 1)
    BY <1>8
  <2>6. g[1 .. (k - 1)] \in V
    BY <2>5 DEF AddedUp
  <2> QED
    BY <1>4, <2>1, <2>3, <2>4, <2>5, <2>6
<1>9. AddedUp(g[1 .. n], n)
  <2>1. n \in Reached
    <3> HIDE DEF Reached
    <3> QED
      BY <1>1, <1>7, <1>8, Upto
  <2> QED
    BY <2>1
<1>10. s # 0
  <2>1. 0 % Order = 0
    BY MultipleIs
  <2> QED
    BY <2>1
<1> DEFINE acc == g[1 .. n]
<1>11. acc \in V /\ (acc.initialised <=> s # 0) /\ (acc.initialised => Represents(acc.sum, Multiple(s)))
  BY <1>2, <1>9 DEF AddedUp
<1> HIDE DEF acc
<1>12. acc.sum \in J
  BY <1>11 DEF V
<1> QED
  BY <1>6, <1>10, <1>11, <1>12 DEF acc

-----------------------------------------------------------------------------
(* The inversions of a thread.                                             *)

\* The product of a sequence.
ProductOf(s) == FoldLeft(Mul, 1, s)

\* The products that a sequence comes to, one factor after the other.
Products(f, s, m) == f[0] = 1 /\ \A j \in 1 .. m : f[j] = Mul(f[j - 1], s[j])

\* The product of a sequence is the last of them.
LEMMA ProductIs ==
  ASSUME NEW m \in Nat, NEW s \in [1 .. m -> Residues]
  PROVE  \E f \in [0 .. m -> Residues] : Products(f, s, m) /\ ProductOf(s) = f[m]
<1> DEFINE V == Residues
           F == [p \in (1 .. m) \X V |-> Mul(p[2], s[p[1]])]
           Fold(g) == [t \in SUBSET DOMAIN s |-> IF t = {} THEN 1 ELSE Mul(g[t \ {Max(t)}], s[Max(t)])]
<1>1. DOMAIN s = 1 .. m /\ 1 \in V
  BY ZeroResidue
<1>2. PICK g \in [SUBSET (1 .. m) -> V] : IsFold(g, m, 1, F)
  <2>1. F \in [(1 .. m) \X V -> V]
    <3> SUFFICES ASSUME NEW p \in (1 .. m) \X V PROVE Mul(p[2], s[p[1]]) \in V
      OBVIOUS
    <3>1. p[2] \in V /\ s[p[1]] \in V
      OBVIOUS
    <3>2. p[2] \in Int /\ s[p[1]] \in Int
      BY <3>1, ResiduesAreInts
    <3> QED
      BY <3>2, OpsClose
  <2> HIDE DEF F, V
  <2> QED
    BY <1>1, <2>1, FoldExists
<1>3. ASSUME NEW t \in SUBSET (1 .. m), t # {}
      PROVE  g[t] = Mul(g[t \ {Max(t)}], s[Max(t)]) /\ Max(t) \in 1 .. m
  <2> HIDE DEF V
  <2>1. Max(t) \in 1 .. m
    BY <1>3, MaxIn
  <2>2. <<Max(t), g[t \ {Max(t)}]>> \in (1 .. m) \X V
    BY <1>2, <2>1
  <2>3. g[t] = F[<<Max(t), g[t \ {Max(t)}]>>]
    BY <1>2, <1>3 DEF IsFold
  <2> QED
    BY <2>1, <2>2, <2>3
<1>4. g = Fold(g)
  <2>1. g = [t \in SUBSET (1 .. m) |-> g[t]]
    BY <1>2
  <2>2. ASSUME NEW t \in SUBSET (1 .. m)
        PROVE  g[t] = IF t = {} THEN 1 ELSE Mul(g[t \ {Max(t)}], s[Max(t)])
    BY <1>2, <1>3 DEF IsFold
  <2> HIDE DEF V, F
  <2> QED
    BY <1>1, <2>1, <2>2
<1>5. PICK h : h = Fold(h) /\ ProductOf(s) = h[1 .. m]
  <2>1. ProductOf(s) = (CHOOSE h : h = Fold(h))[DOMAIN s]
    BY DEF ProductOf, FoldLeft, MapThenFoldSet
  <2> HIDE DEF Fold
  <2> QED
    BY <1>1, <1>4, <2>1
<1> DEFINE f == [k \in 0 .. m |-> h[1 .. k]]
<1>6. f[0] = 1
  <2>1. 1 .. 0 = {} /\ {} \in SUBSET DOMAIN s
    OBVIOUS
  <2>2. h[1 .. 0] = 1
    BY <1>5, <2>1
  <2> QED
    BY <2>2
<1>7. ASSUME NEW k \in 1 .. m
      PROVE  f[k] = Mul(f[k - 1], s[k])
  <2>1. 1 .. k \in SUBSET DOMAIN s /\ k \in Nat \ {0} /\ k \in 0 .. m /\ k - 1 \in 0 .. m
    BY <1>1
  <2>2. Max(1 .. k) = k /\ (1 .. k) \ {Max(1 .. k)} = 1 .. (k - 1) /\ 1 .. k # {}
    BY <2>1, MaxOfPrefix
  <2>3. h[1 .. k] = Mul(h[1 .. (k - 1)], s[k])
    BY <1>5, <2>1, <2>2
  <2> QED
    BY <2>1, <2>3
<1>8. f[m] = ProductOf(s)
  <2>1. m \in 0 .. m
    OBVIOUS
  <2> QED
    BY <1>5, <2>1
<1> DEFINE Good == {k \in 0 .. m : f[k] \in Residues}
<1>9. f = [k \in 0 .. m |-> f[k]]
  OBVIOUS
<1> HIDE DEF f
<1>10. 0 \in Good
  BY <1>6, ZeroResidue
<1>11. ASSUME NEW k \in 1 .. m, k - 1 \in Good
       PROVE  k \in Good
  <2>1. f[k - 1] \in Int /\ s[k] \in Int
    BY <1>11, ResiduesAreInts
  <2>2. f[k] \in Residues
    BY <1>7, <2>1, OpsClose
  <2> QED
    BY <2>2
<1>12. ASSUME NEW k \in 0 .. m
       PROVE  f[k] \in Residues
  <2>1. \A i \in 1 .. k : i - 1 \in Good => i \in Good
    BY <1>11
  <2>2. k \in Good
    <3> HIDE DEF Good
    <3> QED
      BY <1>10, <2>1, Upto
  <2> QED
    BY <2>2
<1>13. f \in [0 .. m -> Residues]
  BY <1>9, <1>12
<1> QED
  BY <1>6, <1>7, <1>8, <1>13 DEF Products

\* Products of residues.
LEMMA MulIs ==
  ASSUME NEW a \in Residues, NEW b \in Residues, NEW c \in Residues
  PROVE  /\ Mul(a, b) \in Residues /\ Mul(a, b) = Residue(a * b)
         /\ Mul(Mul(a, b), c) = Mul(a, Mul(b, c)) /\ Mul(a, b) = Mul(b, a)
         /\ Mul(a, 1) = a /\ (a # 0 /\ b # 0 => Mul(a, b) # 0)
<1>1. /\ a \in Int /\ b \in Int /\ c \in Int /\ Residue(a) = a /\ Residue(b) = b /\ Residue(c) = c
  BY ResidueOf
<1>2. a * b \in Int /\ b * c \in Int /\ b * a = a * b /\ (a * b) * c = a * (b * c) /\ a * 1 = a
  BY <1>1
<1>3. Mul(a, b) = Residue(a * b) /\ Mul(b, c) = Residue(b * c) /\ Mul(b, a) = Residue(b * a)
  BY <1>1, ResidueOps
<1>4. Mul(Residue(a * b), c) = Residue((a * b) * c) /\ Mul(a, Residue(b * c)) = Residue(a * (b * c))
  <2> DEFINE e == a * b
             f == b * c
  <2>1. e \in Int /\ f \in Int
    BY <1>2
  <2> HIDE DEF e, f
  <2>2. Mul(Residue(e), Residue(c)) = Residue(e * c)
    BY <1>1, <2>1, ResidueOps
  <2>3. Mul(Residue(a), Residue(f)) = Residue(a * f)
    BY <1>1, <2>1, ResidueOps
  <2> QED
    BY <1>1, <2>2, <2>3 DEF e, f
<1>5. Mul(a, 1) = Residue(a * 1)
  BY <1>1, ResidueOps, ZeroResidue
<1>6. a # 0 /\ b # 0 => Residue(a * b) # 0
  BY <1>1, NonZero
<1>7. Mul(a, b) \in Residues
  BY <1>1, OpsClose
<1> QED
  BY <1>1, <1>2, <1>3, <1>4, <1>5, <1>6, <1>7

\* A sequence without its k-th factor.
Splits(m, s, k, before, after) ==
  /\ m \in Nat /\ k \in 1 .. m /\ s \in [1 .. m -> Residues]
  /\ before \in [1 .. k - 1 -> Residues] /\ \A j \in 1 .. k - 1 : before[j] = s[j]
  /\ after \in [1 .. m - k -> Residues] /\ \A j \in 1 .. m - k : after[j] = s[k + j]

\* A product that leaves no factor out is that of what is before one of them,
\* of that one, and of what is after it.
LEMMA ProductSplits ==
  ASSUME NEW m, NEW s, NEW k, NEW before, NEW after, Splits(m, s, k, before, after)
  PROVE  LET all == ProductOf(s)
             b == ProductOf(before)
             a == ProductOf(after)
         IN /\ all \in Residues /\ b \in Residues /\ a \in Residues
            /\ all = Mul(Mul(b, s[k]), a)
            /\ (\A j \in 1 .. m : s[j] # 0) => all # 0
<1> USE DEF Splits
<1>1. k - 1 \in Nat /\ m - k \in Nat /\ k \in Nat
  OBVIOUS
<1>2. PICK f \in [0 .. m -> Residues] : Products(f, s, m) /\ ProductOf(s) = f[m]
  BY ProductIs
<1>3. PICK g \in [0 .. k - 1 -> Residues] : Products(g, before, k - 1) /\ ProductOf(before) = g[k - 1]
  <2> DEFINE n == k - 1
  <2> HIDE DEF n
  <2>1. \E g \in [0 .. n -> Residues] : Products(g, before, n) /\ ProductOf(before) = g[n]
    BY <1>1, ProductIs DEF n
  <2> QED
    BY <2>1 DEF n
<1>4. PICK h \in [0 .. m - k -> Residues] : Products(h, after, m - k) /\ ProductOf(after) = h[m - k]
  <2> DEFINE n == m - k
  <2> HIDE DEF n
  <2>1. \E e \in [0 .. n -> Residues] : Products(e, after, n) /\ ProductOf(after) = e[n]
    BY <1>1, ProductIs DEF n
  <2> QED
    BY <2>1 DEF n
<1> DEFINE n == m - k
           Starts == {j \in 0 .. k - 1 : f[j] = g[j]}
           Continues == {j \in 0 .. n : f[k + j] = Mul(f[k], h[j])}
           Good == {j \in 0 .. m : f[j] # 0}
<1>5. f[k - 1] = g[k - 1]
  <2>1. 0 \in Starts
    BY <1>1, <1>2, <1>3 DEF Products
  <2>2. ASSUME NEW j \in 1 .. k - 1, j - 1 \in Starts
        PROVE  j \in Starts
    <3>1. j \in 1 .. m
      OBVIOUS
    <3>2. f[j] = Mul(f[j - 1], s[j])
      BY <1>2, <3>1 DEF Products
    <3>3. g[j] = Mul(g[j - 1], before[j])
      BY <1>3 DEF Products
    <3> QED
      BY <2>2, <3>2, <3>3
  <2>3. k - 1 \in Starts
    <3> HIDE DEF Starts
    <3> QED
      BY <1>1, <2>1, <2>2, Upto
  <2> QED
    BY <2>3
<1>6. f[k] = Mul(f[k - 1], s[k])
  BY <1>2 DEF Products
<1>7. n \in Nat /\ k + n = m
  BY <1>1
<1>8. h \in [0 .. n -> Residues] /\ Products(h, after, n) /\ ProductOf(after) = h[n]
  BY <1>4
<1>9. \A j \in 1 .. n : after[j] = s[k + j] /\ k + j \in 1 .. m /\ k + (j - 1) = (k + j) - 1 /\ k + (j - 1) \in 0 .. m
  BY <1>1
<1> HIDE DEF n
<1>10. f[m] = Mul(f[k], h[n])
  <2>1. f[k] \in Residues
    BY <1>1, <1>2
  <2>2. 0 \in Continues
    <3>1. h[0] = 1
      BY <1>8 DEF Products
    <3>2. k + 0 = k /\ 0 \in 0 .. n
      BY <1>1, <1>7
    <3>3. Mul(f[k], 1) = f[k]
      BY <2>1, MulIs
    <3> QED
      BY <3>1, <3>2, <3>3
  <2>3. ASSUME NEW j \in 1 .. n, j - 1 \in Continues
        PROVE  j \in Continues
    <3>1. j \in 0 .. n /\ j - 1 \in 0 .. n
      BY <1>7
    <3>2. f[k + j] = Mul(f[(k + j) - 1], s[k + j])
      BY <1>2, <1>9 DEF Products
    <3>3. f[k + (j - 1)] = Mul(f[k], h[j - 1])
      BY <2>3
    <3>4. h[j] = Mul(h[j - 1], after[j])
      BY <1>8 DEF Products
    <3>5. h[j - 1] \in Residues /\ s[k + j] \in Residues
      BY <1>8, <1>9, <3>1
    <3>6. Mul(Mul(f[k], h[j - 1]), s[k + j]) = Mul(f[k], Mul(h[j - 1], s[k + j]))
      <4> DEFINE x == f[k]
                 y == h[j - 1]
                 z == s[k + j]
      <4>1. x \in Residues /\ y \in Residues /\ z \in Residues
        BY <2>1, <3>5
      <4> HIDE DEF x, y, z
      <4>2. Mul(Mul(x, y), z) = Mul(x, Mul(y, z))
        BY <4>1, MulIs
      <4> QED
        BY <4>2 DEF x, y, z
    <3>7. f[k + j] = Mul(f[k], h[j])
      BY <1>9, <3>2, <3>3, <3>4, <3>6
    <3> QED
      BY <3>1, <3>7
  <2>4. n \in Continues
    <3> HIDE DEF Continues
    <3> QED
      BY <1>7, <2>2, <2>3, Upto
  <2> QED
    BY <1>7, <2>4
<1>11. ASSUME \A j \in 1 .. m : s[j] # 0
       PROVE  f[m] # 0
  <2>1. 0 \in Good
    BY <1>2 DEF Products
  <2>2. ASSUME NEW j \in 1 .. m, j - 1 \in Good
        PROVE  j \in Good
    <3>1. f[j] = Mul(f[j - 1], s[j]) /\ f[j - 1] # 0
      BY <1>2, <2>2 DEF Products
    <3>2. f[j - 1] \in Residues /\ s[j] \in Residues /\ s[j] # 0
      BY <1>2, <1>11
    <3>3. f[j] # 0
      BY <3>1, <3>2, MulIs
    <3> QED
      BY <3>3
  <2>3. m \in Good
    <3> HIDE DEF Good
    <3> QED
      BY <2>1, <2>2, Upto
  <2> QED
    BY <2>3
<1>12. f[m] \in Residues /\ g[k - 1] \in Residues /\ h[n] \in Residues
  BY <1>1, <1>2, <1>3, <1>7, <1>8
<1> QED
  BY <1>2, <1>3, <1>5, <1>6, <1>8, <1>10, <1>11, <1>12

\* Lanes of a group are one stride apart.
LEMMA LanesAre ==
  /\ WalkLanes \in Nat \ {0} /\ GroupSize \in Nat \ {0} /\ Stride \in Nat \ {0}
  /\ \A id \in Lanes : /\ id \in Nat /\ id \div Stride + 1 \in 1 .. GroupSize
                       /\ (id % Stride) + ((id \div Stride + 1) - 1) * Stride = id
                       /\ \A k \in 1 .. GroupSize :
                            /\ (id % Stride) + (k - 1) * Stride \in Lanes
                            /\ ((id % Stride) + (k - 1) * Stride) % Stride = id % Stride
<1>1. WalkLanes \in Nat \ {0} /\ GroupSize \in Nat \ {0} /\ WalkLanes % GroupSize = 0
  BY WalkAssumption
<1>2. Stride \in Nat /\ WalkLanes = GroupSize * Stride
  <2>1. /\ WalkLanes \div GroupSize \in Nat
        /\ WalkLanes = GroupSize * (WalkLanes \div GroupSize) + (WalkLanes % GroupSize)
    BY <1>1, DivMod
  <2>2. Stride \in Nat /\ WalkLanes = GroupSize * Stride + (WalkLanes % GroupSize)
    BY <2>1 DEF Stride
  <2> QED
    BY <1>1, <2>2
<1>3. Stride \in Nat \ {0}
  <2>1. Stride # 0
    BY <1>1, <1>2
  <2> QED
    BY <1>2, <2>1
<1> SUFFICES ASSUME NEW id \in Lanes
             PROVE  /\ id \in Nat /\ id \div Stride + 1 \in 1 .. GroupSize
                    /\ (id % Stride) + ((id \div Stride + 1) - 1) * Stride = id
                    /\ \A k \in 1 .. GroupSize :
                         /\ (id % Stride) + (k - 1) * Stride \in Lanes
                         /\ ((id % Stride) + (k - 1) * Stride) % Stride = id % Stride
  BY <1>1, <1>3
<1> DEFINE S == Stride
           G == GroupSize
           q == id \div S
           r == id % S
<1>4. id \in Nat /\ id < G * S
  BY <1>1, <1>2 DEF Lanes
<1>5. S \in Nat \ {0} /\ G \in Nat \ {0} /\ Lanes = 0 .. G * S - 1
  BY <1>1, <1>2, <1>3 DEF Lanes
<1> HIDE DEF S, G
<1>6. q \in Nat /\ r \in Nat /\ r < S /\ id = S * q + r
  BY <1>4, <1>5, DivMod
<1> HIDE DEF q, r
<1>7. q < G
  <2> SUFFICES ASSUME G <= q PROVE FALSE
    BY <1>5, <1>6
  <2>1. G * S <= q * S /\ q * S = S * q
    BY <1>5, <1>6
  <2> QED
    BY <1>4, <1>5, <1>6, <2>1
<1>8. q + 1 \in 1 .. G /\ r + ((q + 1) - 1) * S = id
  BY <1>5, <1>6, <1>7
<1>9. ASSUME NEW k \in 1 .. G
      PROVE  r + (k - 1) * S \in Lanes /\ (r + (k - 1) * S) % S = r
  <2>1. PICK d \in Nat : G = k + d
    BY <1>5, G - k \in Nat /\ G = k + (G - k)
  <2>2. G * S = (k - 1) * S + S + d * S /\ d * S \in Nat /\ (k - 1) * S \in Nat /\ k - 1 \in Nat
    BY <1>5, <2>1
  <2>3. r + (k - 1) * S \in Lanes
    BY <1>5, <1>6, <2>2
  <2>4. r + (k - 1) * S = S * (k - 1) + r
    BY <1>5, <1>6
  <2>5. (S * (k - 1) + r) % S = r
    BY <1>5, <1>6, <2>2, DivModIs
  <2> QED
    BY <2>3, <2>4, <2>5
<1> QED
  BY <1>4, <1>8, <1>9 DEF q, r, S, G

\* A factor of a product is divided by with one inversion of the product.
LEMMA SharedInverse ==
  ASSUME NEW b \in Residues, NEW v \in Residues, NEW a \in Residues, NEW scale \in Residues,
         NEW all \in Residues, all = Mul(Mul(b, v), a)
  PROVE  LET r == Mul(Mul(Mul(Inv(all), scale), a), b)
         IN r \in Residues /\ (all # 0 => Mul(r, v) = scale)
<1> DEFINE i == Inv(all)
<1>1. i \in Residues /\ (all # 0 => Mul(all, i) = 1)
  BY InvIs
<1> HIDE DEF i
<1>2. /\ i \in Int /\ b \in Int /\ v \in Int /\ a \in Int /\ scale \in Int
      /\ Residue(i) = i /\ Residue(b) = b /\ Residue(v) = v /\ Residue(a) = a /\ Residue(scale) = scale
  BY <1>1, ResidueOf
<1>3. Mul(i, scale) = Residue(i * scale) /\ i * scale \in Int
  BY <1>2, ResidueOps
<1>4. Mul(Residue(i * scale), a) = Residue((i * scale) * a) /\ (i * scale) * a \in Int
  <2> DEFINE e == i * scale
  <2> HIDE DEF e
  <2>1. e \in Int /\ e * a \in Int
    BY <1>2, <1>3 DEF e
  <2>2. Mul(Residue(e), Residue(a)) = Residue(e * a)
    BY <1>2, <2>1, ResidueOps
  <2> QED
    BY <1>2, <2>1, <2>2 DEF e
<1>5. Mul(Residue((i * scale) * a), b) = Residue(((i * scale) * a) * b) /\ ((i * scale) * a) * b \in Int
  <2> DEFINE e == (i * scale) * a
  <2> HIDE DEF e
  <2>1. e \in Int /\ e * b \in Int
    BY <1>2, <1>4 DEF e
  <2>2. Mul(Residue(e), Residue(b)) = Residue(e * b)
    BY <1>2, <2>1, ResidueOps
  <2> QED
    BY <1>2, <2>1, <2>2 DEF e
<1> DEFINE t == ((i * scale) * a) * b
           p == (b * v) * a
<1>6. Mul(Residue(t), v) = Residue(t * v) /\ t * v \in Int /\ t \in Int
  <2>1. t \in Int
    BY <1>5
  <2> HIDE DEF t
  <2>2. Mul(Residue(t), Residue(v)) = Residue(t * v) /\ t * v \in Int
    BY <1>2, <2>1, ResidueOps
  <2> QED
    BY <1>2, <2>1, <2>2
<1>7. p \in Int /\ all = Residue(p)
  <2> DEFINE e == b * v
  <2>1. e \in Int /\ Mul(b, v) = Residue(e)
    BY <1>2, ResidueOps
  <2> HIDE DEF e
  <2>2. Mul(Residue(e), Residue(a)) = Residue(e * a) /\ e * a \in Int
    BY <1>2, <2>1, ResidueOps
  <2> QED
    BY <1>2, <2>1, <2>2 DEF e
<1>8. t * v = (p * i) * scale
  BY <1>2
<1>9. Residue(t) \in Residues
  BY <1>6, ResidueIn
<1> HIDE DEF t, p
<1>10. ASSUME all # 0
       PROVE  Residue(t * v) = scale
  <2>1. p * i \in Int /\ Residue(p * i) = Residue(1) /\ 1 \in Int /\ 1 * scale = scale
    <3>1. Mul(Residue(p), Residue(i)) = Residue(p * i)
      BY <1>2, <1>7, ResidueOps
    <3> QED
      BY <1>1, <1>2, <1>7, <1>10, <3>1, ZeroResidue
  <2>2. Residue((p * i) * scale) = Residue(1 * scale)
    <3> DEFINE e == p * i
    <3> HIDE DEF e
    <3>1. e \in Int /\ Residue(e) = Residue(1)
      BY <2>1 DEF e
    <3>2. Residue(e * scale) = Residue(1 * scale)
      BY <1>2, <2>1, <3>1, SameFactor
    <3> QED
      BY <3>2 DEF e
  <2> QED
    BY <1>2, <1>8, <2>1, <2>2
<1> QED
  BY <1>3, <1>4, <1>5, <1>6, <1>9, <1>10 DEF i, t

\* pv_batched_invert and pv_iterate_inverse divide by every lane of a group of
\* which none is 0.
LEMMA GroupInverseIs ==
  ASSUME NEW v, NEW scale \in Residues, NEW id \in Lanes,
         \A other \in Lanes : other % Stride = id % Stride => v[other] \in Residues /\ v[other] # 0
  PROVE  /\ GroupInverse(v, scale)[id] \in Residues
         /\ Mul(GroupInverse(v, scale)[id], v[id]) = scale
<1> DEFINE G == GroupSize
           r == id % Stride
           k == id \div Stride + 1
           group == [j \in 1 .. G |-> v[r + (j - 1) * Stride]]
           before == SubSeq(group, 1, k - 1)
           after == SubSeq(group, k + 1, G)
           all == ProductOf(group)
           b == ProductOf(before)
           a == ProductOf(after)
<1>1. /\ G \in Nat \ {0} /\ k \in 1 .. G /\ r + (k - 1) * Stride = id
      /\ \A j \in 1 .. G : r + (j - 1) * Stride \in Lanes /\ (r + (j - 1) * Stride) % Stride = r
  BY LanesAre
<1>2. GroupInverse(v, scale)[id] = Mul(Mul(Mul(Inv(all), scale), a), b)
  BY DEF GroupInverse, ProductOf
<1>3. r = id % Stride
  OBVIOUS
<1> HIDE DEF r, k, G
<1>4. group \in [1 .. G -> Residues] /\ group[k] = v[id]
  <2>1. \A j \in 1 .. G : v[r + (j - 1) * Stride] \in Residues
    BY <1>1, <1>3
  <2>2. group[k] = v[r + (k - 1) * Stride]
    BY <1>1
  <2> QED
    BY <1>1, <2>1, <2>2
<1>5. \A j \in 1 .. G : group[j] # 0
  BY <1>1, <1>3
<1> HIDE DEF group
<1>6. group \in Seq(Residues) /\ Len(group) = G
  BY <1>1, <1>4
<1>7. before \in [1 .. k - 1 -> Residues] /\ \A j \in 1 .. k - 1 : before[j] = group[j]
  <2>1. before \in Seq(Residues) /\ Len(before) = k - 1 /\ \A j \in 1 .. k - 1 : before[j] = group[j]
    BY <1>1, <1>6
  <2> HIDE DEF before
  <2>2. before \in [1 .. Len(before) -> Residues]
    BY <2>1
  <2> QED
    BY <2>1, <2>2
<1>8. after \in [1 .. G - k -> Residues] /\ \A j \in 1 .. G - k : after[j] = group[k + j]
  <2>1. after \in Seq(Residues) /\ Len(after) = G - k /\ \A j \in 1 .. G - k : after[j] = group[k + j]
    BY <1>1, <1>6
  <2> HIDE DEF after
  <2>2. after \in [1 .. Len(after) -> Residues]
    BY <2>1
  <2> QED
    BY <2>1, <2>2
<1> HIDE DEF before, after
<1>9. /\ all \in Residues /\ b \in Residues /\ a \in Residues /\ all = Mul(Mul(b, group[k]), a)
      /\ (\A j \in 1 .. G : group[j] # 0) => all # 0
  <2>1. G \in Nat /\ k \in 1 .. G /\ group \in [1 .. G -> Residues]
    BY <1>1, <1>4
  <2>2. /\ before \in [1 .. k - 1 -> Residues] /\ \A j \in 1 .. k - 1 : before[j] = group[j]
        /\ after \in [1 .. G - k -> Residues] /\ \A j \in 1 .. G - k : after[j] = group[k + j]
    BY <1>7, <1>8
  <2>3. Splits(G, group, k, before, after)
    BY <2>1, <2>2 DEF Splits
  <2> QED
    BY <2>3, ProductSplits
<1> DEFINE w == v[id]
<1>10. w \in Residues /\ all = Mul(Mul(b, w), a)
  BY <1>4, <1>9
<1> HIDE DEF all, a, b, w
<1> DEFINE e == Mul(Mul(Mul(Inv(all), scale), a), b)
<1>11. e \in Residues /\ (all # 0 => Mul(e, w) = scale)
  BY <1>9, <1>10, SharedInverse
<1> HIDE DEF e
<1> QED
  BY <1>2, <1>5, <1>9, <1>11 DEF w, e

-----------------------------------------------------------------------------
(* The lanes.                                                              *)

\* A factor that is 1 in the field.
LEMMA UnitFactor ==
  ASSUME NEW u \in Int, Residue(u) = 1, NEW c \in Int
  PROVE  Residue(u * c) = Residue(c)
<1>1. Residue(u) = Residue(1) /\ 1 \in Int /\ 1 * c = c
  BY ZeroResidue
<1> QED
  BY <1>1, SameFactor

\* pv_iterate_init_finalize gets the affine point from the Jacobian one.
LEMMA FinalizedIs ==
  ASSUME NEW j, NEW p, p[1] \in Residues, p[2] \in Residues, Represents(j, p),
         NEW zInv \in Residues, Mul(zInv, j.z) = 1
  PROVE  Mul(j.x, Sqr(zInv)) = p[1] /\ Mul(j.y, Mul(Sqr(zInv), zInv)) = p[2]
<1> DEFINE X == p[1]
           Y == p[2]
           i == zInv
<1>1. /\ X \in Int /\ Y \in Int /\ i \in Int /\ Residue(X) = X /\ Residue(Y) = Y /\ Residue(i) = i
  BY ResidueOf
<1>2. PICK w \in Int : /\ j.z = Residue(w) /\ j.x = Residue(X * (w * w)) /\ j.y = Residue(Y * (w * (w * w)))
  BY DEF Represents
<1>3. Mul(i, Residue(w)) = 1
  BY <1>2
<1>4. Sqr(zInv) = Sqr(i) /\ Mul(Sqr(zInv), zInv) = Mul(Sqr(i), i)
  OBVIOUS
<1> HIDE DEF X, Y, i
<1> DEFINE u == i * w
           ii == i * i
           iii == ii * i
           x == X * (w * w)
           y == Y * (w * (w * w))
<1>5. u \in Int /\ ii \in Int /\ iii \in Int /\ x \in Int /\ y \in Int
  BY <1>1, <1>2
<1>6. Residue(u) = 1
  BY <1>1, <1>2, <1>3, ResidueOps
<1>7. Sqr(i) = Residue(ii)
  BY <1>1, ResidueOps
<1>8. x * ii = u * (u * X) /\ y * iii = u * (u * (u * Y))
  <2>1. x * ii = u * (u * X)
    BY <1>1, <1>2
  <2>2. y * iii = u * (u * (u * Y))
    BY <1>1, <1>2
  <2> QED
    BY <2>1, <2>2
<1> HIDE DEF u, x, y, iii
<1>9. Mul(Residue(ii), i) = Residue(iii)
  <2> HIDE DEF ii
  <2>1. Mul(Residue(ii), Residue(i)) = Residue(ii * i)
    BY <1>1, <1>5, ResidueOps
  <2> QED
    BY <1>1, <2>1 DEF iii
<1> HIDE DEF ii
<1>10. Mul(Residue(x), Residue(ii)) = Residue(x * ii) /\ Mul(Residue(y), Residue(iii)) = Residue(y * iii)
  BY <1>5, ResidueOps
<1>11. \A c \in Int : u * c \in Int /\ Residue(u * c) = Residue(c)
  BY <1>5, <1>6, UnitFactor
<1>12. Residue(x * ii) = X /\ Residue(y * iii) = Y
  <2>1. Residue(u * (u * X)) = X
    BY <1>1, <1>11
  <2>2. Residue(u * (u * (u * Y))) = Y
    <3>1. u * Y \in Int /\ u * (u * Y) \in Int
      BY <1>1, <1>11
    <3> QED
      BY <1>1, <1>11, <3>1
  <2> QED
    BY <1>8, <2>1, <2>2
<1> QED
  BY <1>2, <1>4, <1>7, <1>9, <1>10, <1>12 DEF x, y, X, Y

\* pv_iterate_step gets the slope of the chord from the one to the opposite
\* of the step point.
LEMMA SlopeFollows ==
  ASSUME NEW x \in Residues, NEW y \in Residues, NEW u \in Residues, NEW v \in Residues, u # x,
         NEW lambda \in Residues, Mul(lambda, Minus(u, x)) = Plus(v, y),
         NEW factor \in Residues, Mul(factor, Minus(u, x)) = Plus(v, v)
  PROVE  /\ Minus(factor, lambda) = Mul(Minus(v, y), Inv(Minus(u, x)))
         /\ Minus(factor, lambda) \in Residues
         /\ Residue(Minus(factor, lambda) * (u - x)) = Residue(v - y)
<1> DEFINE l == Minus(factor, lambda)
           d == Minus(u, x)
           rise == Minus(v, y)
           s == Mul(rise, Inv(d))
<1>1. /\ x \in Int /\ y \in Int /\ u \in Int /\ v \in Int /\ lambda \in Int /\ factor \in Int
      /\ Residue(x) = x /\ Residue(y) = y /\ Residue(u) = u /\ Residue(v) = v
      /\ Residue(lambda) = lambda /\ Residue(factor) = factor
  BY ResidueOf
<1>2. d = Residue(u - x) /\ u - x \in Int /\ rise = Residue(v - y) /\ v - y \in Int
      /\ l = Residue(factor - lambda) /\ factor - lambda \in Int
      /\ Plus(v, y) = Residue(v + y) /\ Plus(v, v) = Residue(v + v) /\ v + y \in Int /\ v + v \in Int
  BY <1>1, ResidueOps
<1>3. /\ d \in Residues /\ d \in Int /\ Residue(d) = d /\ rise \in Residues
      /\ l \in Residues /\ l \in Int /\ Residue(l) = l
  BY <1>2, ResidueIn, ResidueOf
<1>4. d # 0
  BY <1>1, <1>2, ZeroDifference
<1>5. Mul(lambda, d) = Plus(v, y) /\ Mul(factor, d) = Plus(v, v)
  OBVIOUS
<1> HIDE DEF d, rise, l
<1>6. s \in Residues /\ s \in Int /\ Residue(s * d) = rise
  BY <1>3, <1>4, SlopeIs
<1>7. Residue(s) = s
  BY <1>6, ResidueOf
<1> HIDE DEF s
<1>8. Residue(lambda * d) = Residue(v + y) /\ Residue(factor * d) = Residue(v + v)
      /\ lambda * d \in Int /\ factor * d \in Int
  <2>1. Mul(Residue(lambda), Residue(d)) = Residue(lambda * d) /\ Mul(Residue(factor), Residue(d)) = Residue(factor * d)
    BY <1>1, <1>3, ResidueOps
  <2>2. lambda * d \in Int /\ factor * d \in Int
    BY <1>1, <1>3
  <2> QED
    BY <1>1, <1>2, <1>3, <1>5, <2>1, <2>2
<1>9. Residue(l * d) = Residue(v - y)
  <2>1. Residue(l * d) = Residue((factor - lambda) * d)
    BY <1>2, <1>3, SameFactor
  <2>2. (factor - lambda) * d = factor * d - lambda * d
    BY <1>1, <1>3
  <2> DEFINE e == factor * d
             f == lambda * d
             m == v + v
             n == v + y
  <2>3. e \in Int /\ f \in Int /\ m \in Int /\ n \in Int /\ Residue(e) = Residue(m) /\ Residue(f) = Residue(n)
    BY <1>2, <1>8
  <2>4. m - n = v - y
    BY <1>1
  <2> HIDE DEF e, f, m, n
  <2>5. Residue(e - f) = Minus(Residue(e), Residue(f)) /\ Residue(m - n) = Minus(Residue(m), Residue(n))
    BY <2>3, ResidueOps
  <2>6. Residue(e - f) = Residue(v - y)
    BY <2>3, <2>4, <2>5
  <2> QED
    BY <2>1, <2>2, <2>6 DEF e, f
<1>10. l = s
  <2>1. Residue(d * l) = Residue(d * s)
    <3>1. d * l = l * d /\ d * s = s * d
      BY <1>3, <1>6
    <3> QED
      BY <1>2, <1>6, <1>9, <3>1
  <2>2. Residue(l) = Residue(s)
    BY <1>3, <1>4, <1>6, <2>1, Cancels
  <2> QED
    BY <1>3, <1>7, <2>2
<1>11. Residue(l * (u - x)) = Residue(v - y)
  <2>1. Residue(u - x) = Residue(d)
    BY <1>2, <1>3
  <2>2. Residue((u - x) * l) = Residue(d * l)
    BY <1>2, <1>3, <2>1, SameFactor
  <2>3. (u - x) * l = l * (u - x) /\ d * l = l * d
    BY <1>1, <1>3
  <2> QED
    BY <1>9, <2>2, <2>3
<1> QED
  BY <1>3, <1>10, <1>11 DEF l, s, d, rise

\* Then it gets the sum.
LEMMA SteppedIs ==
  ASSUME NEW x \in Residues, NEW y \in Residues, NEW u \in Residues, NEW v \in Residues,
         NEW l \in Residues, Residue(l * (u - x)) = Residue(v - y)
  PROVE  LET x3 == Minus(Minus(Sqr(l), u), x)
             d == Minus(u, x3)
             y3 == Minus(Mul(l, d), v)
         IN /\ <<x3, y3>> = Chord(l, x, y, u)
            /\ Mul(l, d) = Plus(v, y3)
<1>1. /\ x \in Int /\ y \in Int /\ u \in Int /\ v \in Int /\ l \in Int
      /\ Residue(x) = x /\ Residue(y) = y /\ Residue(u) = u /\ Residue(v) = v /\ Residue(l) = l
  BY ResidueOf
<1> DEFINE a == l * l - u - x
           x3 == Minus(Minus(Sqr(l), u), x)
           d == Minus(u, x3)
           y3 == Minus(Mul(l, d), v)
<1>2. a \in Int /\ x3 = Residue(a) /\ Minus(Minus(Sqr(l), x), u) = Residue(a)
  <2> DEFINE e == l * l
  <2>1. e \in Int /\ Sqr(l) = Residue(e)
    BY <1>1, ResidueOps
  <2>2. a = e - u - x
    OBVIOUS
  <2> HIDE DEF e, a
  <2>3. e - u \in Int /\ e - x \in Int /\ (e - u) - x = a /\ (e - x) - u = a /\ a \in Int
    BY <1>1, <2>1, <2>2
  <2>4. Minus(Residue(e), Residue(u)) = Residue(e - u) /\ Minus(Residue(e), Residue(x)) = Residue(e - x)
    BY <1>1, <2>1, ResidueOps
  <2>5. Minus(Residue(e - u), Residue(x)) = Residue((e - u) - x)
    BY <1>1, <2>3, ResidueOps
  <2>6. Minus(Residue(e - x), Residue(u)) = Residue((e - x) - u)
    BY <1>1, <2>3, ResidueOps
  <2> QED
    BY <1>1, <2>1, <2>3, <2>4, <2>5, <2>6
<1> HIDE DEF a
<1>3. d = Residue(u - a) /\ u - a \in Int /\ Minus(x, x3) = Residue(x - a) /\ x - a \in Int
  BY <1>1, <1>2, ResidueOps
<1>4. Mul(l, d) = Residue(l * (u - a)) /\ l * (u - a) \in Int
  <2> DEFINE e == u - a
  <2> HIDE DEF e, d
  <2>1. e \in Int /\ d = Residue(e)
    BY <1>3 DEF e
  <2>2. Mul(Residue(l), Residue(e)) = Residue(l * e) /\ l * e \in Int
    BY <1>1, <2>1, ResidueOps
  <2> QED
    BY <1>1, <2>1, <2>2 DEF e
<1>5. Mul(Minus(x, x3), l) = Residue((x - a) * l) /\ (x - a) * l \in Int
  <2> DEFINE e == x - a
  <2> HIDE DEF e, x3
  <2>1. e \in Int /\ Minus(x, x3) = Residue(e)
    BY <1>3 DEF e
  <2>2. Mul(Residue(e), Residue(l)) = Residue(e * l) /\ e * l \in Int
    BY <1>1, <2>1, ResidueOps
  <2> QED
    BY <1>1, <2>1, <2>2 DEF e
<1> HIDE DEF x3, d
<1> DEFINE m == l * (u - a)
           n == (x - a) * l
           k == l * (u - x) - (v - y)
<1>6. m \in Int /\ n \in Int /\ k \in Int /\ m - v = (n - y) + k /\ n - y \in Int /\ m - v \in Int
  BY <1>1, <1>2
<1>7. Residue(k) = 0
  <2>1. l * (u - x) \in Int /\ v - y \in Int
    BY <1>1
  <2> QED
    BY <2>1, ZeroDifference
<1> HIDE DEF k
<1>8. Residue(m - v) = Residue(n - y)
  <2>1. (n - y) + 0 = n - y /\ 0 \in Int
    BY <1>6
  <2> DEFINE e == n - y
  <2>2. e \in Int /\ k \in Int /\ m - v = e + k /\ e + 0 = e
    BY <1>6, <2>1
  <2> HIDE DEF e
  <2>3. Residue(e + k) = Plus(Residue(e), Residue(k)) /\ Residue(e + 0) = Plus(Residue(e), Residue(0))
    BY <2>1, <2>2, ResidueOps
  <2>4. Residue(m - v) = Residue(e)
    BY <1>7, <2>2, <2>3, ZeroResidue
  <2> QED
    BY <2>4 DEF e
<1>9. y3 = Residue(m - v) /\ Minus(Mul(Minus(x, x3), l), y) = Residue(n - y)
  <2> HIDE DEF m, n
  <2>1. Minus(Residue(m), Residue(v)) = Residue(m - v) /\ Minus(Residue(n), Residue(y)) = Residue(n - y)
    BY <1>1, <1>6, ResidueOps
  <2> QED
    BY <1>1, <1>4, <1>5, <2>1 DEF m, n
<1>10. Mul(l, d) = Plus(v, y3)
  <2> HIDE DEF m, y3
  <2>1. Plus(Residue(v), Residue(m - v)) = Residue(v + (m - v)) /\ v + (m - v) = m
    BY <1>1, <1>6, ResidueOps
  <2>2. Mul(l, d) = Residue(m)
    BY <1>4 DEF m
  <2> QED
    BY <1>1, <1>9, <2>1, <2>2
<1>11. Chord(l, x, y, u) = <<x3, y3>>
  <2>1. x3 = Minus(Minus(Sqr(l), x), u)
    BY <1>2
  <2>2. y3 = Minus(Mul(Minus(x, x3), l), y)
    BY <1>8, <1>9
  <2> HIDE DEF y3
  <2> QED
    BY <2>1, <2>2 DEF Chord
<1> QED
  BY <1>10, <1>11 DEF x3, d

-----------------------------------------------------------------------------
(* The walk.                                                               *)

\* A lane holds a multiple of the generator, and the slope between the
\* opposite of it and the step point.
LaneHolds(lane, n) ==
  LET p == Multiple(n)
      s == Multiple(WalkLanes)
  IN /\ n % Order # 0
     /\ lane.hash = p /\ lane.x = p[1] /\ lane.inv = Minus(s[1], p[1]) /\ lane.lambda \in Residues
     /\ lane.inv # 0 => Mul(lane.lambda, lane.inv) = Plus(s[2], p[2])

\* The lanes that share an inversion with this one are no exceptions, and their
\* scalars fit the words.
Regular(id) ==
  \A other \in Lanes : other % Stride = id % Stride =>
    ~ Exceptional(other, round) /\ walk.seed + other < WordPower(Words)

\* What is true of the walk in every state.
WalkInv ==
  walk # NoWalk =>
    /\ walk.private \in Privates /\ walk.seed \in Seeds /\ round \in 0 .. MaxRounds
    /\ step = Multiple(WalkLanes)
    /\ \A id \in Lanes : Regular(id) => LaneHolds(lanes[id], Scalar(id, round))

\* Facts about what a walk starts from.
LEMMA WalkFacts ==
  /\ WalkLanes \in Nat \ {0} /\ WalkLanes \in Addends /\ WalkLanes % Order = WalkLanes /\ WalkLanes < Order
  /\ Order \in Nat \ {0} /\ WordBase \in Nat /\ MaxRounds \in Nat /\ WalkLanes * (MaxRounds + 1) <= WordBase
  /\ WordPower(Words) \in Nat \ {0}
  /\ \A id \in Lanes : id \in Nat /\ id < WalkLanes /\ id \in 0 .. WordBase - 1
  /\ \A private \in Privates :
       private \in Nat /\ private # 0 /\ private % Order = private /\ private \in Addends /\ private \in 0 .. Order - 1
  /\ \A seed \in Seeds : seed \in Nat /\ seed \in AllSeeds
<1>1. WalkLanes \in Nat \ {0} /\ WalkLanes \in Addends /\ WalkLanes < Order /\ Order \in Nat \ {0}
  BY WalkAssumption, OrderAssumption, AddendsAre, MultipleIs
<1>2. WalkLanes % Order = WalkLanes
  BY <1>1, BelowOrder
<1>3. WordBase \in Nat /\ MaxRounds \in Nat /\ WalkLanes * (MaxRounds + 1) <= WordBase
  BY WalkAssumption, WalkSizes
<1>4. WordPower(Words) \in Nat \ {0}
  BY TermsAreSmall, WalkSizes, PowersPositive, WalkAssumption DEF WordPower
<1>5. ASSUME NEW id \in Lanes
      PROVE  id \in Nat /\ id < WalkLanes /\ id \in 0 .. WordBase - 1
  <2>1. id \in Nat /\ id < WalkLanes
    BY <1>1 DEF Lanes
  <2>2. WalkLanes <= WalkLanes * (MaxRounds + 1)
    <3>1. WalkLanes * (MaxRounds + 1) = WalkLanes * MaxRounds + WalkLanes /\ WalkLanes * MaxRounds \in Nat
      BY <1>1, <1>3
    <3> QED
      BY <1>1, <3>1
  <2>3. WalkLanes * (MaxRounds + 1) \in Nat
    BY <1>1, <1>3
  <2> QED
    BY <1>1, <1>3, <2>1, <2>2, <2>3
<1>6. ASSUME NEW private \in Privates
      PROVE  /\ private \in Nat /\ private # 0 /\ private % Order = private /\ private \in Addends
             /\ private \in 0 .. Order - 1
  <2>1. private \in 1 .. Order - 1 /\ private \in Addends
    BY WalkAssumption, AddendsAre
  <2>2. private \in Nat /\ private # 0 /\ private < Order
    BY <1>1, <2>1
  <2> QED
    BY <1>1, <2>1, <2>2, BelowOrder
<1>7. ASSUME NEW seed \in Seeds
      PROVE  seed \in Nat /\ seed \in AllSeeds
  <2>1. seed \in AllSeeds
    BY WalkAssumption
  <2> QED
    BY <2>1 DEF AllSeeds
<1> QED
  BY <1>1, <1>2, <1>3, <1>4, <1>5, <1>6, <1>7

\* A point of the first round, in Jacobian coordinates.
LEMMA LaunchedIs ==
  ASSUME NEW private \in Privates, NEW seed \in Seeds, NEW id \in Lanes,
         seed + id < WordPower(Words), (seed + id) % Order # 0, (seed + id) % Order # private,
         (((seed + id) % Order) + private) % Order # 0
  PROVE  LET n == private + seed + id
         IN /\ n \in Nat /\ n % Order # 0
            /\ Represents(JacAdd(TimesGJac(LaneScalar(seed, id)), TimesG(private)), Multiple(n))
<1> DEFINE s == seed + id
<1>1. /\ seed \in Nat /\ seed \in AllSeeds /\ id \in Nat /\ id \in 0 .. WordBase - 1 /\ private \in Nat
      /\ private % Order = private /\ private # 0 /\ private \in Addends /\ private \in 0 .. Order - 1
      /\ WordPower(Words) \in Nat \ {0}
  BY WalkFacts
<1>2. s \in Nat /\ s \in AllSeeds /\ private + seed + id = s + private
  BY <1>1 DEF AllSeeds
<1>3. LaneScalar(seed, id) = s
  <2>1. WithCarries(seed, id) = s % WordPower(Words)
    BY <1>1, WithCarriesIs
  <2> DEFINE W == WordPower(Words)
  <2>2. W \in Nat \ {0} /\ s < W
    BY <1>1
  <2> HIDE DEF W, s
  <2>3. s % W = s
    BY <1>2, <2>2, SmallIs
  <2> QED
    BY <2>1, <2>3 DEF LaneScalar, W
<1>4. TimesG(private) = Multiple(private)
  BY <1>1, TimesGIs
<1>5. s % Order # 0 /\ s % Order # private /\ ((s % Order) + private) % Order # 0
  OBVIOUS
<1> HIDE DEF s
<1>6. Represents(TimesGJac(s), Multiple(s))
  BY <1>2, <1>5, TimesGJacIs
<1>7. (s + private) % Order # 0
  BY <1>1, <1>2, <1>5, RemainderSum
<1>8. Represents(JacAdd(TimesGJac(s), Multiple(private)), Multiple(s + private))
  BY <1>1, <1>2, <1>5, <1>6, <1>7, JacSumIs
<1>9. s + private \in Nat
  BY <1>1, <1>2
<1> QED
  BY <1>2, <1>3, <1>4, <1>7, <1>8, <1>9

\* z of a Jacobian point that stands for one.
LEMMA RepresentsZ ==
  ASSUME NEW j, NEW p, Represents(j, p)
  PROVE  j.z \in Residues /\ j.z # 0
<1>1. PICK w \in Int : Residue(w) # 0 /\ j.z = Residue(w)
  BY DEF Represents
<1> QED
  BY <1>1, ResidueIn

\* The step point.
LEMMA StepPoint ==
  /\ Multiple(WalkLanes)[1] \in Residues /\ Multiple(WalkLanes)[2] \in Residues
  /\ TimesG(WalkLanes) = Multiple(WalkLanes)
<1>1. WalkLanes \in Nat /\ WalkLanes % Order # 0 /\ WalkLanes \in 0 .. Order - 1
  BY WalkFacts
<1> QED
  BY <1>1, Coordinates, TimesGIs

\* The kernels of the first round leave the points in their lanes.
LEMMA FirstRound ==
  ASSUME NEW points, NEW n, NEW id \in Lanes,
         \A other \in Lanes : other % Stride = id % Stride =>
           /\ n[other] \in Nat /\ n[other] % Order # 0
           /\ Represents(points[other], Multiple(n[other]))
  PROVE  LaneHolds(FinalizedLane(points[id], GroupInverse([i \in Lanes |-> points[i].z], 1)[id],
                                 Multiple(WalkLanes)),
                   n[id])
<1> DEFINE j == points[id]
           z == [i \in Lanes |-> points[i].z]
           zInv == GroupInverse(z, 1)[id]
           p == Multiple(n[id])
           s == Multiple(WalkLanes)
           lane == FinalizedLane(j, zInv, s)
<1>1. n[id] \in Nat /\ n[id] % Order # 0 /\ Represents(j, p)
  OBVIOUS
<1>2. /\ p[1] \in Residues /\ p[2] \in Residues /\ p = <<p[1], p[2]>>
      /\ s[1] \in Residues /\ s[2] \in Residues
  BY <1>1, Coordinates, StepPoint
<1>3. zInv \in Residues /\ Mul(zInv, z[id]) = 1
  <2>1. \A other \in Lanes : other % Stride = id % Stride => z[other] \in Residues /\ z[other] # 0
    BY RepresentsZ
  <2>2. 1 \in Residues
    BY ZeroResidue
  <2> HIDE DEF z
  <2> QED
    BY <2>1, <2>2, GroupInverseIs
<1>4. Mul(zInv, j.z) = 1
  BY <1>3
<1> HIDE DEF z, zInv, j, p, s
<1>5. Mul(j.x, Sqr(zInv)) = p[1] /\ Mul(j.y, Mul(Sqr(zInv), zInv)) = p[2]
  BY <1>1, <1>2, <1>3, <1>4, FinalizedIs
<1> DEFINE delta == Minus(s[1], p[1])
           rise == Plus(s[2], p[2])
<1>6. lane = [x |-> p[1], lambda |-> Mul(rise, Inv(delta)), inv |-> delta, hash |-> p]
  BY <1>2, <1>5 DEF FinalizedLane
<1>7. delta \in Residues /\ delta \in Int /\ rise \in Residues /\ rise \in Int
  <2>1. delta \in Residues /\ rise \in Residues
    BY <1>2, OpsClose, ResiduesAreInts
  <2> QED
    BY <2>1, ResiduesAreInts
<1> HIDE DEF delta, rise
<1>8. Mul(rise, Inv(delta)) \in Residues
  <2>1. Inv(delta) \in Int
    BY <1>7, InvIs, ResiduesAreInts
  <2> QED
    BY <1>7, <2>1, OpsClose
<1>9. delta # 0 => Mul(Mul(rise, Inv(delta)), delta) = rise
  <2> SUFFICES ASSUME delta # 0 PROVE Mul(Mul(rise, Inv(delta)), delta) = rise
    OBVIOUS
  <2> DEFINE l == Mul(rise, Inv(delta))
  <2>1. l \in Residues /\ l \in Int /\ Residue(l * delta) = rise
    BY <1>7, SlopeIs
  <2> HIDE DEF l
  <2>2. Residue(l) = l /\ Residue(delta) = delta
    BY <1>7, <2>1, ResidueOf
  <2>3. Mul(Residue(l), Residue(delta)) = Residue(l * delta)
    BY <1>7, <2>1, ResidueOps
  <2> QED
    BY <2>1, <2>2, <2>3 DEF l
<1> HIDE DEF lane
<1>10. /\ lane.hash = p /\ lane.x = p[1] /\ lane.inv = delta /\ lane.lambda = Mul(rise, Inv(delta))
  BY <1>6
<1>11. LaneHolds(lane, n[id])
  BY <1>1, <1>8, <1>9, <1>10 DEF LaneHolds, p, s, delta, rise
<1> QED
  BY <1>11 DEF lane, j, zInv, z, s

\* The kernels of the next rounds add the step point to them.
LEMMA NextRound ==
  ASSUME NEW n, NEW id \in Lanes, step = Multiple(WalkLanes), (n[id] + WalkLanes) % Order # 0,
         \A other \in Lanes : other % Stride = id % Stride =>
           /\ n[other] \in 0 .. Order - 1 /\ n[other] # WalkLanes /\ n[other] # Order - WalkLanes
           /\ LaneHolds(lanes[other], n[other])
  PROVE  LaneHolds(SteppedLane(lanes[id],
                     GroupInverse([i \in Lanes |-> lanes[i].inv], Plus(step[2], step[2]))[id]),
                   n[id] + WalkLanes)
<1> DEFINE v == [i \in Lanes |-> lanes[i].inv]
           s == Multiple(WalkLanes)
           scale == Plus(s[2], s[2])
           factor == GroupInverse(v, scale)[id]
           p == Multiple(n[id])
           q == Multiple(n[id] + WalkLanes)
           lane == lanes[id]
           new == SteppedLane(lane, factor)
<1>1. /\ WalkLanes \in Nat \ {0} /\ WalkLanes \in Addends /\ WalkLanes % Order = WalkLanes /\ WalkLanes < Order
      /\ Order \in Nat \ {0} /\ s[1] \in Residues /\ s[2] \in Residues
  BY WalkFacts, StepPoint
<1>2. ASSUME NEW other \in Lanes, other % Stride = id % Stride
      PROVE  /\ n[other] \in Nat /\ n[other] % Order = n[other] /\ n[other] # 0
             /\ Multiple(n[other])[1] # s[1]
             /\ v[other] = Minus(s[1], Multiple(n[other])[1]) /\ v[other] \in Residues /\ v[other] # 0
  <2> DEFINE m == n[other]
  <2>1. m \in 0 .. Order - 1 /\ m # WalkLanes /\ m # Order - WalkLanes /\ LaneHolds(lanes[other], m)
    BY <1>2
  <2>2. v[other] = lanes[other].inv
    OBVIOUS
  <2> HIDE DEF m, v
  <2>3. m \in Nat /\ m < Order
    BY <1>1, <2>1
  <2>4. m % Order = m /\ m # 0
    BY <2>1, <2>3, BelowOrder DEF LaneHolds
  <2>5. (m + WalkLanes) % Order # 0
    <3> DEFINE sum == m + WalkLanes
    <3>1. sum \in Nat /\ sum # 0 /\ sum # Order /\ sum < Order + Order
      BY <1>1, <2>1, <2>3
    <3> SUFFICES sum % Order # 0
      OBVIOUS
    <3> HIDE DEF sum
    <3>2. CASE sum < Order
      BY <3>1, <3>2, BelowOrder
    <3>3. CASE ~(sum < Order)
      <4> DEFINE d == sum - Order
      <4>1. d \in Nat /\ d < Order /\ d # 0 /\ sum = Order * 1 + d /\ 1 \in Nat
        BY <1>1, <3>1, <3>3
      <4> HIDE DEF d
      <4>2. (Order * 1 + d) % Order = d
        BY <1>1, <4>1, DivModIs
      <4> QED
        BY <4>1, <4>2
    <3> QED
      BY <3>2, <3>3
  <2>6. Multiple(m)[1] # s[1]
    BY <1>1, <2>1, <2>3, <2>4, <2>5, SameAbscissa
  <2>7. v[other] = Minus(s[1], Multiple(m)[1])
    BY <2>1, <2>2 DEF LaneHolds
  <2>8. Multiple(m)[1] \in Residues
    BY <2>3, <2>4, Coordinates
  <2> DEFINE x == Multiple(m)[1]
             u == s[1]
  <2> HIDE DEF x, s, u
  <2>9. Minus(u, x) \in Residues /\ Minus(u, x) # 0
    <3>1. x \in Residues /\ u \in Residues /\ x # u
      BY <1>1, <2>6, <2>8 DEF x, u
    <3>2. x \in Int /\ u \in Int /\ Residue(x) = x /\ Residue(u) = u
      BY <3>1, ResidueOf
    <3>3. Minus(u, x) = Residue(u - x)
      BY <3>2, ResidueOps
    <3> QED
      BY <3>1, <3>2, <3>3, ZeroDifference, OpsClose
  <2> QED
    BY <2>3, <2>4, <2>6, <2>7, <2>9 DEF m, x, u
<1>3. /\ n[id] \in Nat /\ n[id] % Order = n[id] /\ n[id] # 0 /\ p[1] # s[1]
      /\ v[id] = Minus(s[1], p[1]) /\ v[id] # 0
      /\ n[id] # WalkLanes /\ LaneHolds(lane, n[id])
  BY <1>2
<1>4. factor \in Residues /\ Mul(factor, v[id]) = scale
  <2>1. \A other \in Lanes : other % Stride = id % Stride => v[other] \in Residues /\ v[other] # 0
    BY <1>2
  <2>2. scale \in Residues
    BY <1>1, OpsClose, ResiduesAreInts
  <2> HIDE DEF v, scale
  <2> QED
    BY <2>1, <2>2, GroupInverseIs
<1>5. v[id] = lane.inv
  OBVIOUS
<1>6. SteppedLane(lanes[id], GroupInverse([i \in Lanes |-> lanes[i].inv], Plus(step[2], step[2]))[id]) = new
  OBVIOUS
<1> HIDE DEF v, factor, lane
<1>7. /\ lane.lambda \in Residues /\ lane.x = p[1] /\ lane.inv = Minus(s[1], p[1])
      /\ Mul(lane.lambda, Minus(s[1], p[1])) = Plus(s[2], p[2])
  BY <1>3, <1>5 DEF LaneHolds
<1>8. p[1] \in Residues /\ p[2] \in Residues
  BY <1>3, Coordinates
<1>9. q = Chord(Mul(Minus(s[2], p[2]), Inv(Minus(s[1], p[1]))), p[1], p[2], s[1])
  BY <1>1, <1>3, ChordIs
<1>10. n[id] + WalkLanes \in Nat /\ (n[id] + WalkLanes) % Order # 0
  BY <1>1, <1>3
<1>11. q[1] \in Residues /\ q[2] \in Residues /\ q = <<q[1], q[2]>>
  BY <1>10, Coordinates
<1> DEFINE x == p[1]
           y == p[2]
           u == s[1]
           w == s[2]
           lambda == lane.lambda
           l == Minus(factor, lambda)
<1>12. /\ x \in Residues /\ y \in Residues /\ u \in Residues /\ w \in Residues /\ u # x
       /\ lambda \in Residues /\ Mul(lambda, Minus(u, x)) = Plus(w, y)
       /\ factor \in Residues /\ Mul(factor, Minus(u, x)) = Plus(w, w)
  BY <1>1, <1>3, <1>4, <1>7, <1>8
<1>13. new = [x |-> Minus(Minus(Sqr(l), u), x), lambda |-> l, inv |-> Minus(u, Minus(Minus(Sqr(l), u), x)),
              hash |-> <<Minus(Minus(Sqr(l), u), x),
                         Minus(Mul(l, Minus(u, Minus(Minus(Sqr(l), u), x))), w)>>]
  BY <1>7 DEF SteppedLane
<1>14. q = Chord(Mul(Minus(w, y), Inv(Minus(u, x))), x, y, u)
  BY <1>9
<1>15. q[1] \in Residues /\ q[2] \in Residues /\ q = <<q[1], q[2]>> /\ s[1] = u /\ s[2] = w
  BY <1>11
<1> HIDE DEF x, y, u, w, lambda, q, new, s
<1>16. /\ l = Mul(Minus(w, y), Inv(Minus(u, x))) /\ l \in Residues
       /\ Residue(l * (u - x)) = Residue(w - y)
  BY <1>12, SlopeFollows
<1> HIDE DEF l
<1> DEFINE x3 == Minus(Minus(Sqr(l), u), x)
           d == Minus(u, x3)
           y3 == Minus(Mul(l, d), w)
<1>17. <<x3, y3>> = Chord(l, x, y, u) /\ Mul(l, d) = Plus(w, y3)
  BY <1>12, <1>16, SteppedIs
<1>18. new = [x |-> x3, lambda |-> l, inv |-> d, hash |-> <<x3, y3>>]
  BY <1>13
<1>19. d = Minus(u, x3)
  OBVIOUS
<1> HIDE DEF x3, d, y3
<1>20. q = <<x3, y3>> /\ q[1] = x3 /\ q[2] = y3
  BY <1>14, <1>16, <1>17
<1>21. new.hash = q /\ new.x = q[1] /\ new.inv = Minus(s[1], q[1]) /\ new.lambda = l
       /\ Mul(new.lambda, new.inv) = Plus(s[2], q[2])
  BY <1>15, <1>17, <1>18, <1>19, <1>20
<1>22. LaneHolds(new, n[id] + WalkLanes)
  BY <1>10, <1>16, <1>21 DEF LaneHolds, q, s
<1> QED
  BY <1>6, <1>22

\* Scalars are below the order, and one step apart from round to round.
LEMMA ScalarIs ==
  ASSUME walk.private \in Nat, walk.seed \in Nat, round \in Nat, NEW id \in Nat
  PROVE  /\ Scalar(id, round) \in 0 .. Order - 1
         /\ Scalar(id, 0) = (walk.private + walk.seed + id) % Order
         /\ Scalar(id, round + 1) = (Scalar(id, round) + WalkLanes) % Order
<1>1. WalkLanes \in Nat /\ Order \in Nat \ {0}
  BY WalkFacts
<1> DEFINE a == walk.private + walk.seed + id
           b == a + round * WalkLanes
<1>2. a \in Nat /\ b \in Nat
  BY <1>1
<1>3. a + 0 * WalkLanes = a /\ a + (round + 1) * WalkLanes = b + WalkLanes
  BY <1>1, <1>2
<1>4. /\ Scalar(id, 0) = (a + 0 * WalkLanes) % Order /\ Scalar(id, round) = b % Order
      /\ Scalar(id, round + 1) = (a + (round + 1) * WalkLanes) % Order
  BY DEF Scalar
<1> HIDE DEF a, b
<1>5. ((b % Order) + WalkLanes) % Order = (b + WalkLanes) % Order
  BY <1>1, <1>2, RemainderSum
<1>6. b % Order \in 0 .. Order - 1
  BY <1>2, MultipleIs
<1> QED
  BY <1>3, <1>4, <1>5, <1>6 DEF a

\* What a lane holds depends on the remainder of its scalar.
LEMMA HoldsRemainder ==
  ASSUME NEW lane, NEW n \in Nat, LaneHolds(lane, n)
  PROVE  LaneHolds(lane, n % Order)
<1> DEFINE r == n % Order
<1>1. r \in 0 .. Order - 1 /\ Multiple(n) = Multiple(r) /\ Order \in Nat
  BY MultipleIs
<1>2. r # 0
  BY DEF LaneHolds
<1>3. LaneHolds(lane, n)
  OBVIOUS
<1> HIDE DEF r
<1>4. r % Order = r
  <2>1. r \in Nat /\ r < Order
    BY <1>1
  <2> QED
    BY <2>1, BelowOrder
<1>5. LaneHolds(lane, r)
  BY <1>1, <1>2, <1>3, <1>4 DEF LaneHolds
<1> QED
  BY <1>5 DEF r

\* A launch.
LEMMA LaunchKeeps ==
  ASSUME NEW private \in Privates, NEW seed \in Seeds, LaunchWalk(private, seed)
  PROVE  WalkInv'
<1> DEFINE points == [id \in Lanes |-> JacAdd(TimesGJac(LaneScalar(seed, id)), TimesG(private))]
           z == [id \in Lanes |-> points[id].z]
           n == [id \in Lanes |-> private + seed + id]
<1>1. /\ walk' = [private |-> private, seed |-> seed] /\ round' = 0 /\ step' = TimesG(WalkLanes)
      /\ lanes' = [id \in Lanes |-> FinalizedLane(points[id], GroupInverse(z, 1)[id], TimesG(WalkLanes))]
  BY DEF LaunchWalk
<1>2. walk'.private = private /\ walk'.seed = seed
  BY <1>1
<1>3. MaxRounds \in Nat /\ private \in Nat /\ seed \in Nat /\ 0 \in 0 .. MaxRounds
  BY WalkFacts
<1>4. step' = Multiple(WalkLanes)
  BY <1>1, StepPoint
<1>5. ASSUME NEW id \in Lanes, Regular(id)'
      PROVE  LaneHolds(lanes[id], Scalar(id, round))'
  <2>1. ASSUME NEW other \in Lanes, other % Stride = id % Stride
        PROVE  /\ n[other] \in Nat /\ n[other] % Order # 0
               /\ Represents(points[other], Multiple(n[other]))
    <3>1. ~ Exceptional(other, 0)' /\ seed + other < WordPower(Words)
      BY <1>1, <1>2, <1>5, <2>1 DEF Regular
    <3>2. /\ (seed + other) % Order # 0 /\ (seed + other) % Order # private
          /\ (((seed + other) % Order) + private) % Order # 0
      BY <1>2, <3>1 DEF Exceptional
    <3>3. n[other] = private + seed + other
      OBVIOUS
    <3>4. points[other] = JacAdd(TimesGJac(LaneScalar(seed, other)), TimesG(private))
      OBVIOUS
    <3> HIDE DEF n, points
    <3> QED
      BY <3>1, <3>2, <3>3, <3>4, LaunchedIs
  <2>2. lanes'[id] = FinalizedLane(points[id], GroupInverse(z, 1)[id], Multiple(WalkLanes))
    BY <1>1, StepPoint
  <2>3. n[id] = private + seed + id /\ n[id] \in Nat /\ id \in Nat
    BY <2>1, WalkFacts
  <2>4. z = [i \in Lanes |-> points[i].z]
    OBVIOUS
  <2> HIDE DEF n, points, z
  <2>5. LaneHolds(lanes'[id], n[id])
    BY <2>1, <2>2, <2>4, FirstRound
  <2>6. Scalar(id, round)' = n[id] % Order
    <3>1. 0 * WalkLanes = 0 /\ private + seed + id + 0 = private + seed + id
      BY <1>3, <2>3, WalkFacts
    <3> QED
      BY <1>1, <1>2, <2>3, <3>1 DEF Scalar
  <2>7. LaneHolds(lanes'[id], n[id] % Order)
    BY <2>3, <2>5, HoldsRemainder
  <2>8. LaneHolds(lanes[id], Scalar(id, round))' <=> LaneHolds(lanes'[id], Scalar(id, round)')
    BY DEF LaneHolds
  <2> QED
    BY <2>6, <2>7, <2>8
<1> QED
  BY <1>1, <1>2, <1>3, <1>4, <1>5 DEF WalkInv

\* A round.
LEMMA WalkOnKeeps ==
  ASSUME WalkInv, WalkOn
  PROVE  WalkInv'
<1> DEFINE v == [i \in Lanes |-> lanes[i].inv]
           scale == Plus(step[2], step[2])
           n == [id \in Lanes |-> Scalar(id, round)]
<1>1. /\ walk # NoWalk /\ round < MaxRounds /\ walk' = walk /\ step' = step /\ round' = round + 1
      /\ lanes' = [id \in Lanes |-> SteppedLane(lanes[id], GroupInverse(v, scale)[id])]
  BY DEF WalkOn
<1>2. /\ walk.private \in Privates /\ walk.seed \in Seeds /\ round \in 0 .. MaxRounds
      /\ step = Multiple(WalkLanes)
      /\ \A id \in Lanes : Regular(id) => LaneHolds(lanes[id], Scalar(id, round))
  BY <1>1 DEF WalkInv
<1>3. walk.private \in Nat /\ walk.seed \in Nat /\ round \in Nat /\ MaxRounds \in Nat /\ round + 1 \in 0 .. MaxRounds
  <2>1. walk.private \in Nat /\ walk.seed \in Nat /\ MaxRounds \in Nat
    BY <1>2, WalkFacts
  <2> QED
    BY <1>1, <1>2, <2>1
<1>4. ASSUME NEW id \in Lanes, Regular(id)'
      PROVE  LaneHolds(lanes[id], Scalar(id, round))'
  <2>1. ASSUME NEW other \in Lanes, other % Stride = id % Stride
        PROVE  /\ ~ Exceptional(other, round) /\ walk.seed + other < WordPower(Words)
               /\ Scalar(other, round) # WalkLanes /\ Scalar(other, round) # Order - WalkLanes
               /\ Scalar(other, round + 1) # 0
    <3>1. ~ Exceptional(other, round + 1) /\ walk.seed + other < WordPower(Words)
      BY <1>1, <1>4, <2>1 DEF Regular, Exceptional, Scalar
    <3>2. round \in 0 .. (round + 1) - 1 /\ 0 .. round - 1 \subseteq 0 .. (round + 1) - 1
      BY <1>3
    <3> QED
      BY <3>1, <3>2 DEF Exceptional
  <2>2. ASSUME NEW other \in Lanes, other % Stride = id % Stride
        PROVE  /\ n[other] \in 0 .. Order - 1 /\ n[other] # WalkLanes /\ n[other] # Order - WalkLanes
               /\ LaneHolds(lanes[other], n[other])
    <3>1. Regular(other)
      BY <2>1, <2>2 DEF Regular
    <3>2. other \in Nat
      BY WalkFacts
    <3> QED
      BY <1>2, <1>3, <2>1, <2>2, <3>1, <3>2, ScalarIs
  <2>3. /\ n[id] = Scalar(id, round) /\ n[id] \in 0 .. Order - 1
        /\ Scalar(id, round + 1) = (n[id] + WalkLanes) % Order /\ Scalar(id, round + 1) # 0
    <3>1. id \in Nat
      BY WalkFacts
    <3> QED
      BY <1>3, <2>1, <3>1, ScalarIs
  <2>4. lanes'[id] = SteppedLane(lanes[id], GroupInverse([i \in Lanes |-> lanes[i].inv],
                                                         Plus(step[2], step[2]))[id])
    BY <1>1
  <2> HIDE DEF n
  <2>5. LaneHolds(lanes'[id], n[id] + WalkLanes)
    BY <1>2, <2>2, <2>3, <2>4, NextRound
  <2>6. n[id] + WalkLanes \in Nat
    BY <2>3, WalkFacts
  <2>7. LaneHolds(lanes'[id], (n[id] + WalkLanes) % Order)
    BY <2>5, <2>6, HoldsRemainder
  <2>8. Scalar(id, round)' = Scalar(id, round + 1)
    BY <1>1 DEF Scalar
  <2>9. LaneHolds(lanes[id], Scalar(id, round))' <=> LaneHolds(lanes'[id], Scalar(id, round)')
    BY DEF LaneHolds
  <2> QED
    BY <2>3, <2>7, <2>8, <2>9
<1> QED
  BY <1>1, <1>2, <1>3, <1>4 DEF WalkInv

\* No computation disturbs the walk.
LEMMA WalkKept == ASSUME WalkInv, [AlgorithmsNext]_<<vars, walkVars, given>> PROVE WalkInv'
<1>1. CASE \E private \in Privates, seed \in Seeds : Walks(private, seed)
  BY <1>1, LaunchKeeps DEF Walks
<1>2. CASE WalkOn
  BY <1>2, WalkOnKeeps
<1>3. CASE UNCHANGED walkVars
  BY <1>3 DEF WalkInv, walkVars, Regular, LaneHolds, Exceptional, Scalar
<1>4. UNCHANGED <<vars, walkVars, given>> => UNCHANGED walkVars
  OBVIOUS
<1> QED
  BY <1>1, <1>2, <1>3, <1>4 DEF AlgorithmsNext, Computes, Tunes

\* WalkInv holds in every behaviour.
LEMMA WalkHolds == AlgorithmsSpec => []WalkInv
<1>1. AlgorithmsInit => WalkInv
  BY DEF AlgorithmsInit, WalkInit, WalkInv
<1>2. WalkInv /\ [AlgorithmsNext]_<<vars, walkVars, given>> => WalkInv'
  BY WalkKept
<1> QED
  BY <1>1, <1>2, PTL DEF AlgorithmsSpec

\* An offset and the private key give the scalar of the lane, and it the point
\* that the lane has hashed.
LEMMA WalkOpens == ASSUME WalkInv PROVE OffsetOpensAddress
<1> SUFFICES ASSUME walk # NoWalk, NEW id \in Lanes, ~ Spoilt(id),
                    walk.seed + (round * WalkLanes + id) < Order
             PROVE  LET key == ComposePrivateKey(walk.private, FormatOffset(walk.seed, round * WalkLanes + id))
                    IN key # 0 /\ lanes[id].hash = Multiple(key)
  BY DEF OffsetOpensAddress
<1>1. /\ walk.private \in Privates /\ walk.seed \in Seeds /\ round \in 0 .. MaxRounds
      /\ \A i \in Lanes : Regular(i) => LaneHolds(lanes[i], Scalar(i, round))
  BY DEF WalkInv
<1>2. /\ walk.private \in Nat /\ walk.private # 0 /\ walk.seed \in Nat /\ walk.seed \in AllSeeds
      /\ MaxRounds \in Nat /\ round \in Nat /\ round <= MaxRounds
      /\ WalkLanes \in Nat \ {0} /\ WordBase \in Nat /\ WalkLanes * (MaxRounds + 1) <= WordBase
      /\ id \in Nat /\ id < WalkLanes /\ Order \in Nat \ {0} /\ WordPower(Words) \in Nat \ {0}
  <2>1. MaxRounds \in Nat
    BY WalkFacts
  <2> QED
    BY <1>1, <2>1, WalkFacts
<1> DEFINE attempt == round * WalkLanes + id
           key == (walk.private + (walk.seed + attempt)) % Order
<1>3. attempt \in 0 .. WordBase - 1
  <2>1. PICK d \in Nat : MaxRounds = round + d
    BY <1>2, MaxRounds - round \in Nat /\ MaxRounds = round + (MaxRounds - round)
  <2>2. /\ WalkLanes * (MaxRounds + 1) = round * WalkLanes + WalkLanes + d * WalkLanes
        /\ d * WalkLanes \in Nat /\ round * WalkLanes \in Nat
    BY <1>2, <2>1
  <2> QED
    BY <1>2, <2>2
<1>4. Order < WordPower(Words) /\ Order + WalkLanes <= WordPower(Words) + 1
  BY OrderAssumption
<1>5. round * WalkLanes \in Nat /\ walk.seed + attempt < Order
  BY <1>2
<1>6. Regular(id)
  <2> SUFFICES ASSUME NEW other \in Lanes, other % Stride = id % Stride
               PROVE  ~ Exceptional(other, round) /\ walk.seed + other < WordPower(Words)
    BY DEF Regular
  <2>1. ~ Exceptional(other, round)
    BY DEF Spoilt
  <2>2. other \in Nat /\ other < WalkLanes
    BY WalkFacts
  <2>3. walk.seed + other < WordPower(Words)
    BY <1>2, <1>4, <1>5, <2>2
  <2> QED
    BY <2>1, <2>3
<1>7. LaneHolds(lanes[id], Scalar(id, round))
  BY <1>1, <1>6
<1>8. Scalar(id, round) = key
  <2>1. walk.private + walk.seed + id + round * WalkLanes = walk.private + (walk.seed + attempt)
    BY <1>2, <1>5
  <2> QED
    BY <2>1 DEF Scalar
<1> HIDE DEF attempt
<1> DEFINE sum == walk.seed + attempt
<1>9. FormatOffset(walk.seed, attempt) = sum
  <2>1. WithCarries(walk.seed, attempt) = (walk.seed + attempt) % WordPower(Words)
    BY <1>2, <1>3, WithCarriesIs
  <2> DEFINE W == WordPower(Words)
  <2>2. W \in Nat \ {0} /\ sum \in Nat /\ sum < W
    BY <1>2, <1>3, <1>4, <1>5
  <2> HIDE DEF W, sum
  <2>3. sum % W = sum
    BY <2>2, SmallIs
  <2> QED
    BY <2>1, <2>3 DEF FormatOffset, W, sum
<1>10. ComposePrivateKey(walk.private, sum) = key
  <2>1. walk.private # 0 /\ ~(sum >= Order)
    BY <1>2, <1>3, <1>5
  <2> QED
    BY <2>1 DEF ComposePrivateKey
<1>11. key # 0 /\ lanes[id].hash = Multiple(key)
  <2>1. key \in 0 .. Order - 1 /\ 0 % Order = 0
    <3>1. walk.private + (walk.seed + attempt) \in Nat
      BY <1>2, <1>3
    <3> QED
      BY <3>1, MultipleIs
  <2> HIDE DEF key
  <2> QED
    BY <1>7, <1>8, <2>1 DEF LaneHolds
<1> QED
  BY <1>9, <1>10, <1>11 DEF attempt

\* The private key composed from the offset of a result is the scalar of the
\* point that the lane has hashed, in every round of every search, whatever the
\* seed, the lanes and the sizes of words and groups (format_offset, the
\* kernels, ComposePrivateKey).
THEOREM OffsetsOpen == AlgorithmsSpec => []OffsetOpensAddress
<1>1. WalkInv => OffsetOpensAddress
  BY WalkOpens
<1> QED
  BY <1>1, WalkHolds, PTL

=============================================================================
