--------------------------- MODULE BenchmarkProofs --------------------------
(***************************************************************************)
(* What is proved of Benchmark and of the cache it shares with searches.   *)
(***************************************************************************)
EXTENDS Benchmark, DataInduction, SequenceTheorems

-----------------------------------------------------------------------------
(* The cache.                                                              *)

\* A content whose entries can be looked up and changed.
IsContent(c) == c = [version |-> Current, entries |-> [k \in Keys |-> c.entries[k]]]

IsOnProcesses(f) == f = [p \in Processes |-> f[p]]

CacheShape ==
  /\ saving \in [Processes -> {"no", "reads", "truncates", "writes"}]
  /\ IsOnProcesses(key) /\ IsOnProcesses(tuned) /\ IsOnProcesses(cache) /\ IsOnProcesses(using)
  /\ \A p \in Processes : key[p] \in Keys /\ IsContent(cache[p])
  /\ expected = [k \in Keys |-> expected[k]]
  /\ (file # Torn /\ file.version = Current) => IsContent(file)
  /\ spoilt \in BOOLEAN

\* Until the benchmark is complete it saves nothing, and a search saves
\* nothing before it has resolved its parameters.
NothingToSave ==
  /\ stage # "complete" => saving[Bench] = "no"
  /\ \A p \in Others : using[p] = NotYet => saving[p] = "no"

Saved(p) == [params |-> tuned[p], version |-> Current]

Busy(p) == saving[p] \in {"truncates", "writes"}

\* While no two saves have overlapped, the only one under way writes what is
\* expected once it has ended.
OneSaves ==
  ~spoilt =>
    /\ \A p, q \in Processes : Busy(p) /\ Busy(q) => p = q
    /\ \A p \in Processes : Busy(p) => cache[p].entries = [expected EXCEPT ![key[p]] = Saved(p)]
    /\ (\A p \in Processes : saving[p] # "writes") => Loaded.entries = expected

QuietInv == CacheShape /\ NothingToSave /\ OneSaves

-----------------------------------------------------------------------------
(* The steps, by what they do to the cache.                                *)

\* A step leaves the cache alone, ends the benchmark, is one of a save, or
\* resolves the parameters of a search.
LEMMA CacheSteps ==
  ASSUME Next
  PROVE  \/ UNCHANGED cacheVars /\ (stage = "complete" => stage' = "complete")
         \/ stage \in {"measuring", "running"} /\ \E stop \in {"complete", "error"} : Ends(stop)
         \/ \E p \in Processes : Saves(p) /\ UNCHANGED stage
         \/ \E p \in Others, k \in Keys : Resolves(p, k) /\ stage = "complete" /\ UNCHANGED stage
<1>1. Bench \in Processes /\ Others \subseteq Processes
  BY BenchAssumption, ProcessesAssumption
<1>2. CASE Starts \/ StartsSample \/ SampleEnds \/ Selects \/ Measures \/ Cancels
  BY <1>2 DEF Starts, StartsSample, SampleEnds, Selects, Measures, Cancels, CacheUnchanged
<1>3. CASE \E g \in GPUs : GpuRuns(g) \/ Breaks(g) \/ FailsUnheard(g)
  BY <1>3 DEF GpuRuns, Reports, Progress, TellsError, Breaks, FailsUnheard, CacheUnchanged
<1>4. CASE RunEnds
  BY <1>4 DEF RunEnds
<1>5. CASE Saves(Bench) /\ UNCHANGED benchVars
  BY <1>1, <1>5 DEF benchVars
<1>6. CASE Interferes
  BY <1>1, <1>6 DEF Interferes, benchVars
<1> QED
  BY <1>2, <1>3, <1>4, <1>5, <1>6 DEF Next, BenchRuns

\* The cache that is read can be looked up and changed.
LEMMA LoadedIsContent ==
  ASSUME CacheShape
  PROVE  IsContent(Loaded) /\ (Loaded # Empty => Loaded = file /\ file # Torn)
BY DEF CacheShape, Loaded, IsContent, Empty

LEMMA WithEntryIsContent ==
  ASSUME NEW c, IsContent(c), NEW k \in Keys, NEW m
  PROVE  /\ IsContent(WithEntry(c, k, m))
         /\ WithEntry(c, k, m).entries
              = [c.entries EXCEPT ![k] = [params |-> m, version |-> Current]]
<1>1. c.entries = [j \in Keys |-> c.entries[j]]
  BY DEF IsContent
<1> DEFINE e == [c.entries EXCEPT ![k] = [params |-> m, version |-> Current]]
<1>2. e = [j \in Keys |-> e[j]]
  BY <1>1
<1>3. WithEntry(c, k, m) = [version |-> Current, entries |-> e]
  BY <1>1 DEF WithEntry, IsContent
<1> QED
  BY <1>2, <1>3 DEF IsContent

-----------------------------------------------------------------------------
(* QuietInv.                                                               *)

LEMMA QuietInit ==
  Init => QuietInv
<1> SUFFICES ASSUME Init PROVE QuietInv
  OBVIOUS
<1>1. Keys # {} /\ Torn.version # Current /\ Bench \in Processes
  BY StoredAssumption, BenchAssumption
<1>2. (CHOOSE k \in Keys : TRUE) \in Keys
  BY <1>1
<1>3. IsContent(Empty)
  BY DEF IsContent, Empty
<1>4. (file # Torn /\ file.version = Current) => IsContent(file)
  BY StoredAssumption DEF Init, CacheInit, IsContent
<1>5. expected = [k \in Keys |-> expected[k]] /\ Loaded.entries = expected
  <2>1. IsContent(Loaded) /\ expected = Loaded.entries
    BY <1>3, <1>4 DEF Init, CacheInit, Loaded
  <2> QED
    BY <2>1 DEF IsContent
<1>6. CacheShape
  BY <1>2, <1>3, <1>4, <1>5 DEF Init, CacheInit, CacheShape, IsOnProcesses
<1> QED
  BY <1>1, <1>5, <1>6, ProcessesAssumption
     DEF QuietInv, NothingToSave, OneSaves, Busy, Init, CacheInit

\* The end of the benchmark begins its save.
LEMMA QuietEnds ==
  ASSUME QuietInv, NEW stop, Ends(stop), stage \in {"measuring", "running"},
         stop \in {"complete", "error"}
  PROVE  QuietInv'
<1>1. Bench \in Processes /\ Bench \notin Others /\ saving[Bench] = "no"
  BY BenchAssumption DEF QuietInv, NothingToSave
<1>2. CacheShape'
  <2>1. saving' \in [Processes -> {"no", "reads", "truncates", "writes"}]
    BY <1>1 DEF QuietInv, CacheShape, Ends
  <2>2. PICK k \in Keys : key' = [key EXCEPT ![Bench] = k]
    BY DEF Ends
  <2>3. IsOnProcesses(key)' /\ \A p \in Processes : key'[p] \in Keys
    BY <1>1, <2>2 DEF QuietInv, CacheShape, IsOnProcesses
  <2>4. IsOnProcesses(tuned)'
    BY <1>1 DEF QuietInv, CacheShape, IsOnProcesses, Ends
  <2> QED
    BY <2>1, <2>3, <2>4 DEF QuietInv, CacheShape, IsOnProcesses, IsContent, Ends
<1>3. \A p \in Processes : Busy(p)' <=> Busy(p)
  BY <1>1 DEF QuietInv, CacheShape, Ends, Busy
<1>4. \A p \in Processes : Busy(p) => p # Bench /\ key'[p] = key[p] /\ Saved(p)' = Saved(p)
  BY <1>1 DEF QuietInv, CacheShape, Ends, Busy, IsOnProcesses, Saved
<1>5. NothingToSave'
  BY <1>1, ProcessesAssumption DEF QuietInv, CacheShape, NothingToSave, Ends, IsOnProcesses, SavedBy
<1>6. UNCHANGED <<cache, expected, spoilt, Loaded>>
        /\ \A p \in Processes : saving'[p] = "writes" <=> saving[p] = "writes"
  BY <1>1 DEF QuietInv, CacheShape, Ends, Loaded
<1>7. OneSaves'
  BY <1>3, <1>4, <1>6 DEF QuietInv, OneSaves
<1> QED
  BY <1>2, <1>5, <1>7 DEF QuietInv

\* A search takes its parameters from the cache, or begins its save.
LEMMA QuietResolves ==
  ASSUME QuietInv, NEW p \in Others, NEW k \in Keys, Resolves(p, k), UNCHANGED stage
  PROVE  QuietInv'
<1>1. p \in Processes /\ p # Bench /\ saving[p] = "no" /\ using[p] = NotYet
  BY BenchAssumption, ProcessesAssumption DEF QuietInv, NothingToSave, Resolves
<1>2. UNCHANGED <<file, cache, expected, spoilt, Loaded>>
  BY DEF Resolves, Loaded
<1>3. \A q \in Processes : q # p => key'[q] = key[q] /\ tuned'[q] = tuned[q]
                                     /\ saving'[q] = saving[q] /\ using'[q] = using[q]
  BY <1>1 DEF QuietInv, CacheShape, Resolves, IsOnProcesses, Uses
<1>4. saving'[p] \in {"no", "reads"} /\ using'[p] # NotYet
  <2>1. CASE \E m \in Params : Uses(p, "autotune", m) /\ saving' = [saving EXCEPT ![p] = "reads"]
    BY <1>1, <2>1 DEF QuietInv, CacheShape, IsOnProcesses, Uses, NotYet
  <2>2. CASE UNCHANGED saving /\ \E s \in {"cache", "known"}, m \in {Entry(k), NoParams} : Uses(p, s, m)
    BY <1>1, <2>2 DEF QuietInv, CacheShape, IsOnProcesses, Uses, NotYet
  <2> QED
    BY <2>1, <2>2 DEF Resolves
<1>5. CacheShape'
  <2>1. saving' \in [Processes -> {"no", "reads", "truncates", "writes"}]
    BY <1>1 DEF QuietInv, CacheShape, Resolves
  <2>2. IsOnProcesses(key)' /\ IsOnProcesses(tuned)' /\ IsOnProcesses(using)' /\ key'[p] = k
    BY <1>1 DEF QuietInv, CacheShape, IsOnProcesses, Resolves, Uses
  <2>3. \A q \in Processes : key'[q] \in Keys
    BY <1>3, <2>2 DEF QuietInv, CacheShape
  <2> QED
    BY <1>2, <2>1, <2>2, <2>3 DEF QuietInv, CacheShape, IsOnProcesses, IsContent
<1>6. NothingToSave'
  BY <1>1, <1>3, <1>4, ProcessesAssumption, BenchAssumption DEF QuietInv, NothingToSave
<1>7. \A q \in Processes : /\ Busy(q)' <=> Busy(q)
                           /\ Busy(q) => key'[q] = key[q] /\ Saved(q)' = Saved(q)
                           /\ saving'[q] = "writes" <=> saving[q] = "writes"
  BY <1>1, <1>3, <1>4 DEF Busy, Saved
<1>8. OneSaves'
  BY <1>2, <1>7 DEF QuietInv, OneSaves
<1> QED
  BY <1>5, <1>6, <1>8 DEF QuietInv

\* A save reads the cache: alone, or it spoils it.
LEMMA QuietReads ==
  ASSUME QuietInv, NEW p \in Processes, Reads(p), UNCHANGED stage
  PROVE  QuietInv'
<1>1. /\ saving[p] = "reads" /\ UNCHANGED <<file, key, tuned, using, expected, Loaded>>
      /\ saving'[p] # "reads" /\ saving'[p] # "writes"
      /\ saving' \in [Processes -> {"no", "reads", "truncates", "writes"}]
      /\ \A q \in Processes : q # p => saving'[q] = saving[q] /\ cache'[q] = cache[q]
  BY DEF QuietInv, CacheShape, Reads, Loaded, IsOnProcesses
<1>2. IsContent(Loaded)
  BY LoadedIsContent DEF QuietInv
<1>3. NothingToSave'
  BY <1>1, ProcessesAssumption, BenchAssumption DEF QuietInv, NothingToSave
<1>4. CASE UNCHANGED <<cache, spoilt>> /\ saving'[p] = "no"
  <2>1. CacheShape'
    BY <1>1, <1>4 DEF QuietInv, CacheShape, IsOnProcesses, IsContent
  <2>2. OneSaves'
    <3>1. \A q \in Processes : /\ Busy(q)' <=> Busy(q)
                               /\ saving'[q] = "writes" <=> saving[q] = "writes"
      BY <1>1, <1>4 DEF Busy
    <3> QED
      BY <1>1, <1>4, <3>1 DEF QuietInv, OneSaves, Saved
  <2> QED
    BY <1>3, <2>1, <2>2 DEF QuietInv
<1>5. CASE /\ cache' = [cache EXCEPT ![p] = WithEntry(Loaded, key[p], tuned[p])]
           /\ spoilt' = (spoilt \/ \E q \in Processes : saving[q] \in {"truncates", "writes"})
  <2>1. cache'[p] = WithEntry(Loaded, key[p], tuned[p]) /\ key[p] \in Keys
    BY <1>5 DEF QuietInv, CacheShape, IsOnProcesses
  <2>2. IsContent(cache'[p]) /\ cache'[p].entries = [Loaded.entries EXCEPT ![key[p]] = Saved(p)]
    BY <1>2, <2>1, WithEntryIsContent DEF Saved
  <2>3. CacheShape'
    <3>1. \A q \in Processes : IsContent(cache'[q])
      BY <1>1, <2>2 DEF QuietInv, CacheShape
    <3>2. IsOnProcesses(cache)' /\ spoilt' \in BOOLEAN
      BY <1>5 DEF QuietInv, CacheShape, IsOnProcesses
    <3> QED
      BY <1>1, <3>1, <3>2 DEF QuietInv, CacheShape, IsOnProcesses, IsContent
  <2>4. OneSaves'
    <3> SUFFICES ASSUME ~spoilt' PROVE OneSaves'
      BY DEF OneSaves
    <3>1. ~spoilt /\ \A q \in Processes : ~Busy(q)
      BY <1>5 DEF Busy, QuietInv, CacheShape
    <3>2. Loaded.entries = expected
      BY <3>1 DEF QuietInv, OneSaves, Busy
    <3>3. \A q \in Processes : Busy(q)' => q = p
      BY <1>1, <3>1 DEF Busy
    <3>4. UNCHANGED <<Saved(p), key[p], expected, Loaded>>
      BY <1>1 DEF Saved
    <3> QED
      BY <2>2, <3>2, <3>3, <3>4 DEF OneSaves
  <2> QED
    BY <1>3, <2>3, <2>4 DEF QuietInv
<1> QED
  BY <1>4, <1>5 DEF Reads, QuietInv, CacheShape

LEMMA QuietTruncates ==
  ASSUME QuietInv, NEW p \in Processes, Truncates(p), UNCHANGED stage
  PROVE  QuietInv'
<1>1. /\ saving[p] = "truncates" /\ UNCHANGED <<key, tuned, cache, using, expected, spoilt>>
      /\ saving'[p] \in {"no", "writes"} /\ (saving'[p] = "no" => UNCHANGED file)
      /\ file' \in {file, Torn}
      /\ saving' \in [Processes -> {"no", "reads", "truncates", "writes"}]
      /\ \A q \in Processes : q # p => saving'[q] = saving[q]
  BY DEF QuietInv, CacheShape, Truncates, historyVars
<1>2. CacheShape'
  BY <1>1, StoredAssumption DEF QuietInv, CacheShape, IsOnProcesses, IsContent
<1>3. NothingToSave'
  BY <1>1, ProcessesAssumption, BenchAssumption DEF QuietInv, NothingToSave
<1>4. OneSaves'
  <2> SUFFICES ASSUME ~spoilt PROVE OneSaves'
    BY <1>1 DEF OneSaves
  <2>1. \A q \in Processes : Busy(q)' => Busy(q)
    BY <1>1 DEF Busy
  <2>2. (\A q \in Processes : saving'[q] # "writes") =>
          UNCHANGED file /\ \A q \in Processes : saving[q] # "writes"
    BY <1>1
  <2>3. UNCHANGED file => UNCHANGED Loaded
    BY DEF Loaded
  <2> QED
    BY <1>1, <2>1, <2>2, <2>3 DEF QuietInv, OneSaves, Saved
<1> QED
  BY <1>2, <1>3, <1>4 DEF QuietInv

LEMMA QuietWrites ==
  ASSUME QuietInv, NEW p \in Processes, Writes(p), UNCHANGED stage
  PROVE  QuietInv'
<1>1. /\ saving[p] = "writes" /\ UNCHANGED <<key, tuned, cache, using>>
      /\ saving'[p] = "no" /\ Busy(p)
      /\ saving' \in [Processes -> {"no", "reads", "truncates", "writes"}]
      /\ \A q \in Processes : q # p => saving'[q] = saving[q]
  BY DEF QuietInv, CacheShape, Writes, Busy
<1>2. NothingToSave'
  BY <1>1, ProcessesAssumption, BenchAssumption DEF QuietInv, NothingToSave
<1>3. CASE file' = Torn /\ spoilt' = TRUE /\ UNCHANGED expected
  BY <1>1, <1>2, <1>3, StoredAssumption
     DEF QuietInv, CacheShape, IsOnProcesses, IsContent, OneSaves
<1>4. CASE /\ file' = cache[p] /\ UNCHANGED spoilt
           /\ expected' = [expected EXCEPT ![key[p]] = Saved(p)]
  <2>1. IsContent(file') /\ file'.version = Current /\ file' # Torn
    BY <1>4, StoredAssumption DEF QuietInv, CacheShape, IsContent
  <2>2. CacheShape'
    BY <1>1, <1>4, <2>1 DEF QuietInv, CacheShape, IsOnProcesses, IsContent
  <2>3. OneSaves'
    <3> SUFFICES ASSUME ~spoilt PROVE OneSaves'
      BY <1>4 DEF OneSaves
    <3>1. \A q \in Processes : Busy(q) => q = p
      BY <1>1 DEF QuietInv, OneSaves
    <3>2. \A q \in Processes : ~Busy(q)'
      BY <1>1, <3>1 DEF Busy
    <3>3. Loaded' = file' /\ file'.entries = expected'
      BY <1>1, <1>4, <2>1 DEF QuietInv, OneSaves, Loaded
    <3> QED
      BY <3>2, <3>3 DEF OneSaves
  <2> QED
    BY <1>2, <2>2, <2>3 DEF QuietInv
<1> QED
  BY <1>3, <1>4 DEF Writes, Saved

LEMMA QuietNext ==
  QuietInv /\ [Next]_vars => QuietInv'
<1> SUFFICES ASSUME QuietInv, [Next]_vars PROVE QuietInv'
  OBVIOUS
<1>1. CASE UNCHANGED cacheVars /\ (stage = "complete" => stage' = "complete")
  <2>1. UNCHANGED <<file, saving, key, tuned, cache, using, expected, spoilt>>
    BY <1>1 DEF cacheVars, saveVars, historyVars
  <2>2. CacheShape'
    BY <2>1 DEF QuietInv, CacheShape, IsOnProcesses, IsContent
  <2>3. NothingToSave'
    BY <1>1, <2>1 DEF QuietInv, NothingToSave
  <2>4. OneSaves'
    BY <2>1 DEF QuietInv, OneSaves, Busy, Saved, Loaded
  <2> QED
    BY <2>2, <2>3, <2>4 DEF QuietInv
<1>2. CASE UNCHANGED vars
  BY <1>1, <1>2 DEF vars, benchVars
<1>3. ASSUME NEW p \in Processes, Saves(p), UNCHANGED stage
      PROVE  QuietInv'
  BY <1>3, QuietReads, QuietTruncates, QuietWrites DEF Saves
<1> QED
  BY <1>1, <1>2, <1>3, CacheSteps, QuietEnds, QuietResolves

\* QuietCacheKeepsAll holds for any number of processes that share the file:
\* saveCUDAProfile loses an entry only with an overlap or a failed write.
THEOREM QuietKept ==
  Spec => []QuietCacheKeepsAll
<1>1. QuietInv => QuietCacheKeepsAll
  BY DEF QuietInv, OneSaves, QuietCacheKeepsAll
<1> QED
  BY <1>1, QuietInit, QuietNext, PTL DEF Spec

-----------------------------------------------------------------------------
(* CacheHoldsMeasured.                                                     *)

AreMeasured(c) ==
  \A k \in Keys : (c.entries[k].version = Current /\ c.entries[k].params # NoParams)
                    => <<k, c.entries[k].params>> \in measured

\* What is in the file, about to be written to it, or to be saved, was measured.
MeasuredInv ==
  /\ QuietInv
  /\ AreMeasured(Loaded)
  /\ \A p \in Processes : Busy(p) => AreMeasured(cache[p])
  /\ \A p \in Processes : saving[p] # "no" /\ tuned[p] # NoParams => <<key[p], tuned[p]>> \in measured
  /\ \A p \in Others : using[p].source = "cache" => <<key[p], using[p].params>> \in measured

LEMMA MeasuredInit ==
  Init => MeasuredInv
<1> SUFFICES ASSUME Init PROVE MeasuredInv
  OBVIOUS
<1>1. QuietInv /\ Loaded.entries = expected
  BY QuietInit DEF QuietInv, OneSaves, Init, CacheInit
<1>2. AreMeasured(Loaded)
  BY <1>1 DEF AreMeasured, Init, CacheInit
<1> QED
  BY <1>1, <1>2, ProcessesAssumption DEF MeasuredInv, Init, CacheInit, Busy, NotYet

LEMMA EntryOfMeasured ==
  ASSUME AreMeasured(Loaded), NEW k \in Keys, Entry(k) # NoParams
  PROVE  <<k, Entry(k)>> \in measured
BY DEF AreMeasured, Entry

LEMMA MeasuredEnds ==
  ASSUME MeasuredInv, NEW stop, Ends(stop), stage \in {"measuring", "running"}
  PROVE  /\ AreMeasured(Loaded)'
         /\ \A p \in Processes : Busy(p)' => AreMeasured(cache[p])'
         /\ \A p \in Processes : saving'[p] # "no" /\ tuned'[p] # NoParams
                                  => <<key'[p], tuned'[p]>> \in measured'
         /\ \A p \in Others : using'[p].source = "cache" => <<key'[p], using'[p].params>> \in measured'
<1>1. Bench \in Processes /\ Bench \notin Others /\ saving[Bench] = "no" /\ Others \subseteq Processes
  BY BenchAssumption, ProcessesAssumption DEF MeasuredInv, QuietInv, NothingToSave
<1>2. PICK k \in Keys :
        /\ key' = [key EXCEPT ![Bench] = k]
        /\ measured' = IF stop = "complete" THEN measured \cup {<<k, chosen.params>>} ELSE measured
  BY DEF Ends
<1>3. measured \subseteq measured' /\ UNCHANGED <<cache, Loaded, using>>
  BY <1>2 DEF Ends, Loaded
<1>4. \A p \in Processes : p # Bench => key'[p] = key[p] /\ tuned'[p] = tuned[p] /\ saving'[p] = saving[p]
  BY <1>1, <1>2 DEF Ends, MeasuredInv, QuietInv, CacheShape, IsOnProcesses
<1>5. saving'[Bench] # "no" => saving'[Bench] = "reads" /\ <<key'[Bench], tuned'[Bench]>> \in measured'
  BY <1>1, <1>2 DEF Ends, SavedBy, MeasuredInv, QuietInv, CacheShape, IsOnProcesses
<1>6. \A p \in Processes : Busy(p)' => Busy(p)
  BY <1>4, <1>5 DEF Busy
<1> QED
  BY <1>1, <1>3, <1>4, <1>5, <1>6 DEF MeasuredInv, AreMeasured

LEMMA MeasuredResolves ==
  ASSUME MeasuredInv, NEW p \in Others, NEW k \in Keys, Resolves(p, k)
  PROVE  /\ AreMeasured(Loaded)'
         /\ \A q \in Processes : Busy(q)' => AreMeasured(cache[q])'
         /\ \A q \in Processes : saving'[q] # "no" /\ tuned'[q] # NoParams
                                  => <<key'[q], tuned'[q]>> \in measured'
         /\ \A q \in Others : using'[q].source = "cache" => <<key'[q], using'[q].params>> \in measured'
<1>1. p \in Processes /\ saving[p] = "no" /\ Others \subseteq Processes
  BY ProcessesAssumption DEF MeasuredInv, QuietInv, NothingToSave, Resolves
<1>2. UNCHANGED <<cache, Loaded>> /\ measured \subseteq measured' /\ key'[p] = k
  BY <1>1 DEF Resolves, Loaded, MeasuredInv, QuietInv, CacheShape, IsOnProcesses
<1>3. \A q \in Processes : q # p => /\ key'[q] = key[q] /\ tuned'[q] = tuned[q]
                                    /\ saving'[q] = saving[q] /\ using'[q] = using[q]
  BY <1>1 DEF MeasuredInv, QuietInv, CacheShape, Resolves, IsOnProcesses, Uses
<1>4. CASE UNCHANGED saving /\ Entry(k) # NoParams /\ Uses(p, "cache", Entry(k))
  <2>1. using'[p] = [source |-> "cache", params |-> Entry(k)] /\ saving'[p] = "no"
    BY <1>1, <1>4 DEF Uses, MeasuredInv, QuietInv, CacheShape, IsOnProcesses
  <2>2. <<key'[p], using'[p].params>> \in measured'
    BY <1>2, <1>4, <2>1, EntryOfMeasured DEF MeasuredInv
  <2> QED
    BY <1>1, <1>2, <1>3, <2>1, <2>2 DEF MeasuredInv, AreMeasured, Busy
<1>5. CASE UNCHANGED saving /\ Uses(p, "known", NoParams)
  <2>1. using'[p].source = "known" /\ saving'[p] = "no"
    BY <1>1, <1>5 DEF Uses, MeasuredInv, QuietInv, CacheShape, IsOnProcesses
  <2> QED
    BY <1>1, <1>2, <1>3, <2>1 DEF MeasuredInv, AreMeasured, Busy
<1>6. CASE /\ saving' = [saving EXCEPT ![p] = "reads"]
           /\ \E m \in Params : /\ Uses(p, "autotune", m)
                                /\ tuned' = [tuned EXCEPT ![p] = m]
                                /\ measured' = measured \cup {<<k, m>>}
  <2>1. using'[p].source = "autotune" /\ saving'[p] = "reads" /\ <<key'[p], tuned'[p]>> \in measured'
    BY <1>1, <1>2, <1>6 DEF Uses, MeasuredInv, QuietInv, CacheShape, IsOnProcesses
  <2> QED
    BY <1>1, <1>2, <1>3, <2>1 DEF MeasuredInv, AreMeasured, Busy
<1> QED
  BY <1>4, <1>5, <1>6 DEF Resolves

LEMMA MeasuredSaves ==
  ASSUME MeasuredInv, NEW p \in Processes, Saves(p)
  PROVE  /\ AreMeasured(Loaded)'
         /\ \A q \in Processes : Busy(q)' => AreMeasured(cache[q])'
         /\ \A q \in Processes : saving'[q] # "no" /\ tuned'[q] # NoParams
                                  => <<key'[q], tuned'[q]>> \in measured'
         /\ \A q \in Others : using'[q].source = "cache" => <<key'[q], using'[q].params>> \in measured'
<1>1. /\ UNCHANGED <<key, tuned, using, measured>> /\ saving[p] # "no"
      /\ \A q \in Processes : q # p => saving'[q] = saving[q]
  BY DEF Saves, Reads, Truncates, Writes, historyVars, MeasuredInv, QuietInv, CacheShape
<1>2. /\ \A q \in Processes : saving'[q] # "no" /\ tuned'[q] # NoParams
                               => <<key'[q], tuned'[q]>> \in measured'
      /\ \A q \in Others : using'[q].source = "cache" => <<key'[q], using'[q].params>> \in measured'
  BY <1>1 DEF MeasuredInv
<1>3. CASE Reads(p)
  <2>1. UNCHANGED Loaded /\ \A q \in Processes : q # p => cache'[q] = cache[q]
    BY <1>3 DEF Reads, Loaded, MeasuredInv, QuietInv, CacheShape, IsOnProcesses
  <2>2. Busy(p)' => /\ tuned[p] # NoParams
                    /\ cache'[p] = WithEntry(Loaded, key[p], tuned[p])
    BY <1>3 DEF Reads, Busy, MeasuredInv, QuietInv, CacheShape, IsOnProcesses
  <2>3. Busy(p)' => AreMeasured(cache[p])'
    <3> SUFFICES ASSUME Busy(p)' PROVE AreMeasured(cache[p])'
      OBVIOUS
    <3>1. <<key[p], tuned[p]>> \in measured /\ key[p] \in Keys
      BY <1>1, <2>2 DEF MeasuredInv, QuietInv, CacheShape
    <3>2. cache'[p].entries = [Loaded.entries EXCEPT ![key[p]] = [params |-> tuned[p], version |-> Current]]
      BY <2>2, <3>1, LoadedIsContent, WithEntryIsContent DEF MeasuredInv, QuietInv
    <3>3. \A k \in Keys : k \in DOMAIN Loaded.entries
      BY LoadedIsContent DEF MeasuredInv, QuietInv, IsContent
    <3>4. \A k \in Keys : k # key[p] => cache'[p].entries[k] = Loaded.entries[k]
      BY <3>2, <3>3
    <3>5. cache'[p].entries[key[p]] = [params |-> tuned[p], version |-> Current]
      BY <3>1, <3>2, <3>3
    <3> QED
      BY <1>1, <3>1, <3>4, <3>5 DEF MeasuredInv, AreMeasured
  <2> QED
    BY <1>1, <1>2, <2>1, <2>3 DEF MeasuredInv, AreMeasured, Busy
<1>4. CASE Truncates(p)
  <2>1. UNCHANGED cache /\ file' \in {file, Torn} /\ Busy(p)
    BY <1>4 DEF Truncates, Busy
  <2>2. Loaded' \in {Loaded, Empty}
    BY <2>1 DEF Loaded
  <2>3. AreMeasured(Empty)
    BY DEF AreMeasured, Empty, Absent, NoParams
  <2> QED
    BY <1>1, <1>2, <2>1, <2>2, <2>3 DEF MeasuredInv, AreMeasured, Busy
<1>5. CASE Writes(p)
  <2>1. UNCHANGED cache /\ file' \in {cache[p], Torn} /\ Busy(p) /\ saving'[p] = "no"
    BY <1>5 DEF Writes, Busy, MeasuredInv, QuietInv, CacheShape
  <2>2. Loaded' \in {cache[p], Empty}
    BY <2>1 DEF Loaded
  <2>3. AreMeasured(Empty)
    BY DEF AreMeasured, Empty, Absent, NoParams
  <2> QED
    BY <1>1, <1>2, <2>1, <2>2, <2>3 DEF MeasuredInv, AreMeasured, Busy
<1> QED
  BY <1>3, <1>4, <1>5 DEF Saves

LEMMA MeasuredNext ==
  MeasuredInv /\ [Next]_vars => MeasuredInv'
<1> SUFFICES ASSUME MeasuredInv, [Next]_vars PROVE MeasuredInv'
  OBVIOUS
<1>1. QuietInv'
  BY QuietNext DEF MeasuredInv
<1>2. CASE UNCHANGED cacheVars
  BY <1>1, <1>2 DEF cacheVars, saveVars, historyVars, MeasuredInv, AreMeasured, Busy, Loaded
<1>3. CASE UNCHANGED vars
  BY <1>2, <1>3 DEF vars
<1> QED
  BY <1>1, <1>2, <1>3, CacheSteps, MeasuredEnds, MeasuredResolves, MeasuredSaves DEF MeasuredInv

\* CacheHoldsMeasured holds for any number of processes and keys: neither a
\* selection whose measurement failed nor a torn file gets into a search.
THEOREM CacheMeasured ==
  Spec => []CacheHoldsMeasured
<1>1. MeasuredInv => CacheHoldsMeasured
  BY EntryOfMeasured DEF MeasuredInv, CacheHoldsMeasured
<1> QED
  BY <1>1, MeasuredInit, MeasuredNext, PTL DEF Spec

-----------------------------------------------------------------------------
(* What the samples say: medianUint64 and topTuningParams.                 *)

\* Some of the rates are the greatest of them.
LEMMA Greatest ==
  ASSUME NEW rates \in Seq(Nat), NEW W \in SUBSET (1 .. Len(rates)), W # {}
  PROVE  \E m \in W : \A i \in W : rates[i] <= rates[m]
<1> DEFINE N == Len(rates)
           Has(k) == \E m \in W : m <= k /\ \A i \in W : i <= k => rates[i] <= rates[m]
           S == {k \in 0 .. N : (\E i \in W : i <= k) => Has(k)}
<1>1. N \in Nat /\ \A i \in W : i \in 1 .. N /\ rates[i] \in Nat
  OBVIOUS
<1>2. 0 \in S
  BY <1>1
<1>3. ASSUME NEW k \in 1 .. N, k - 1 \in S
      PROVE  k \in S
  <2>1. CASE k \notin W
    <3>1. \A i \in W : i <= k <=> i <= k - 1
      BY <1>1, <2>1
    <3>2. Has(k - 1) => Has(k)
      BY <3>1
    <3>3. (\E i \in W : i <= k) => Has(k - 1)
      BY <1>3, <3>1
    <3>4. k \in 0 .. N
      BY <1>1
    <3> HIDE DEF Has
    <3> QED
      BY <3>2, <3>3, <3>4
  <2>2. CASE k \in W /\ ~Has(k - 1)
    <3>1. \A i \in W : i <= k => i = k
      BY <1>1, <1>3, <2>2
    <3> QED
      BY <1>1, <2>2, <3>1
  <2>3. CASE k \in W /\ Has(k - 1)
    <3>1. PICK m \in W : m <= k - 1 /\ \A i \in W : i <= k - 1 => rates[i] <= rates[m]
      BY <2>3
    <3>2. CASE rates[k] <= rates[m]
      <4>1. \A i \in W : i <= k => rates[i] <= rates[m]
        BY <1>1, <3>1, <3>2
      <4> QED
        BY <1>1, <3>1, <4>1
    <3>3. CASE rates[m] <= rates[k]
      <4>1. \A i \in W : i <= k => rates[i] <= rates[k]
        BY <1>1, <3>1, <3>3
      <4> QED
        BY <1>1, <2>3, <4>1
    <3>4. rates[k] \in Nat /\ rates[m] \in Nat
      BY <1>1, <2>3
    <3>5. rates[k] <= rates[m] \/ rates[m] <= rates[k]
      BY <3>4
    <3> HIDE DEF S
    <3> QED
      BY <3>2, <3>3, <3>5
  <2> QED
    BY <2>1, <2>2, <2>3
<1>4. N \in S
  <2> HIDE DEF S
  <2> QED
    BY <1>1, <1>2, <1>3, Upto
<1>5. \E i \in W : i <= N
  <2>1. PICK i \in W : TRUE
    OBVIOUS
  <2>2. i \in 1 .. N
    BY <2>1
  <2> QED
    BY <2>1, <2>2
<1>6. PICK m \in W : \A i \in W : i <= N => rates[i] <= rates[m]
  BY <1>4, <1>5
<1> QED
  BY <1>1, <1>6

AtMost(rates, r) == {i \in DOMAIN rates : rates[i] <= r}
Under(rates, r) == {i \in DOMAIN rates : rates[i] < r}
Middle(rates) == (Len(rates) + 1) \div 2

\* There is a median: the least rate that enough of the others do not exceed.
LEMMA MedianIs ==
  ASSUME NEW rates \in Seq(Nat), rates # <<>>
  PROVE  /\ Median(rates) \in ToSet(rates) /\ Median(rates) \in Nat
         /\ Cardinality(Under(rates, Median(rates))) < Middle(rates)
<1> DEFINE N == Len(rates)
           G == {r \in ToSet(rates) : Middle(rates) <= Cardinality(AtMost(rates, r))}
<1>1. N \in Nat \ {0} /\ DOMAIN rates = 1 .. N /\ ToSet(rates) \subseteq Nat
  BY EmptySeq DEF ToSet
<1>2. Middle(rates) \in Nat /\ 1 <= Middle(rates) /\ Middle(rates) <= N
  BY <1>1 DEF Middle
<1>3. IsFiniteSet(1 .. N) /\ Cardinality(1 .. N) = N
  BY <1>1, FS_Interval
<1>4. \A r : /\ Under(rates, r) \subseteq 1 .. N /\ AtMost(rates, r) \subseteq 1 .. N
             /\ Cardinality(Under(rates, r)) \in Nat
  <2> TAKE r
  <2>1. Under(rates, r) \subseteq 1 .. N /\ AtMost(rates, r) \subseteq 1 .. N
    BY <1>1 DEF Under, AtMost
  <2> QED
    BY <1>3, <2>1, FS_Subset, FS_CardinalityType
<1>5. G # {}
  <2>1. PICK m \in 1 .. N : \A i \in 1 .. N : rates[i] <= rates[m]
    <3> DEFINE D == 1 .. N
    <3>1. D \in SUBSET (1 .. Len(rates)) /\ 1 \in D
      BY <1>1
    <3> HIDE DEF D
    <3>2. \E m \in D : \A i \in D : rates[i] <= rates[m]
      BY <3>1, Greatest
    <3> QED
      BY <3>2 DEF D
  <2>2. AtMost(rates, rates[m]) = 1 .. N /\ rates[m] \in ToSet(rates)
    BY <1>1, <2>1 DEF AtMost, ToSet
  <2>3. rates[m] \in G
    BY <1>2, <1>3, <2>2
  <2> QED
    BY <2>3
<1>6. PICK r \in G : \A s \in G : r <= s
  <2>1. G \subseteq Nat
    BY <1>1
  <2> HIDE DEF G
  <2> QED
    BY <1>5, <2>1, Least
<1>7. Cardinality(Under(rates, r)) < Middle(rates)
  <2> SUFFICES ASSUME ~(Cardinality(Under(rates, r)) < Middle(rates)) PROVE FALSE
    OBVIOUS
  <2> DEFINE W == Under(rates, r)
  <2>1. W \in SUBSET (1 .. N) /\ W # {}
    <3>1. W \in SUBSET (1 .. N) /\ Cardinality(W) \in Nat
      BY <1>4
    <3>2. Cardinality(W) # 0
      BY <1>2, <3>1
    <3> QED
      BY <3>1, <3>2, FS_EmptySet
  <2>2. PICK m \in W : \A i \in W : rates[i] <= rates[m]
    <3> HIDE DEF W
    <3> QED
      BY <2>1, Greatest
  <2>3. m \in 1 .. N /\ rates[m] < r /\ rates[m] \in Nat /\ r \in Nat /\ rates[m] \in ToSet(rates)
    BY <1>1, <2>2 DEF Under, ToSet
  <2>4. AtMost(rates, rates[m]) = Under(rates, r)
    BY <1>1, <2>2, <2>3 DEF AtMost, Under
  <2>5. rates[m] \in G
    BY <1>2, <1>4, <2>3, <2>4
  <2> QED
    BY <1>6, <2>3, <2>5
<1>8. \E s \in ToSet(rates) : /\ Cardinality({i \in DOMAIN rates : rates[i] < s}) < (Len(rates) + 1) \div 2
                              /\ (Len(rates) + 1) \div 2 <= Cardinality({i \in DOMAIN rates : rates[i] <= s})
  BY <1>7 DEF AtMost, Under, Middle
<1>9. /\ Median(rates) \in ToSet(rates)
      /\ Cardinality({i \in DOMAIN rates : rates[i] < Median(rates)}) < (Len(rates) + 1) \div 2
  BY <1>8 DEF Median
<1> QED
  BY <1>1, <1>9 DEF Under, Middle

\* At least half of the rates reach the median.
LEMMA HalfReachMedian ==
  ASSUME NEW rates \in Seq(Nat), rates # <<>>
  PROVE  2 * Cardinality({i \in DOMAIN rates : rates[i] >= Median(rates)}) >= Len(rates)
<1> DEFINE N == Len(rates)
           U == Under(rates, Median(rates))
           R == {i \in DOMAIN rates : rates[i] >= Median(rates)}
<1>1. N \in Nat /\ DOMAIN rates = 1 .. N /\ \A i \in 1 .. N : rates[i] \in Nat
  OBVIOUS
<1>2. Median(rates) \in Nat /\ Cardinality(U) < Middle(rates)
  BY MedianIs
<1>3. IsFiniteSet(1 .. N) /\ Cardinality(1 .. N) = N
  BY <1>1, FS_Interval
<1>4. R = (1 .. N) \ U /\ U \subseteq 1 .. N /\ (1 .. N) \cap U = U
  BY <1>1, <1>2 DEF Under
<1>5. Cardinality(R) = N - Cardinality(U) /\ Cardinality(U) \in Nat
  <2> HIDE DEF R, U, N
  <2>1. Cardinality((1 .. N) \ U) = Cardinality(1 .. N) - Cardinality((1 .. N) \cap U)
    BY <1>3, FS_Difference
  <2>2. IsFiniteSet(U)
    BY <1>3, <1>4, FS_Subset
  <2> QED
    BY <1>3, <1>4, <2>1, <2>2, FS_CardinalityType
<1>6. Middle(rates) \in Nat /\ 2 * Middle(rates) <= N + 1
  BY <1>1 DEF Middle
<1> QED
  <2> HIDE DEF R, U
  <2>1. 2 * Cardinality(R) >= N
    BY <1>1, <1>2, <1>5, <1>6
  <2> QED
    BY <2>1 DEF R

SamplesShape == samples \in [Params -> Seq(Nat)]

\* Rates all of which are lower have the lower median.
LEMMA LowerMedian ==
  ASSUME SamplesShape, NEW p \in Sampled(Params), NEW q \in Sampled(Params),
         \A i \in DOMAIN samples[p], j \in DOMAIN samples[q] : samples[p][i] < samples[q][j]
  PROVE  Median(samples[p]) < Median(samples[q])
<1>1. /\ samples[p] \in Seq(Nat) /\ samples[p] # <<>>
      /\ samples[q] \in Seq(Nat) /\ samples[q] # <<>>
  BY DEF SamplesShape, Sampled
<1>2. Median(samples[p]) \in ToSet(samples[p]) /\ Median(samples[q]) \in ToSet(samples[q])
  BY <1>1, MedianIs
<1> QED
  BY <1>2 DEF ToSet

LEMMA SampledFinite ==
  /\ Params \subseteq Nat /\ Sampled(Params) \subseteq Params /\ IsFiniteSet(Sampled(Params))
<1>1. IsFiniteSet(1 .. Candidates)
  BY BenchAssumption, FS_Interval
<1> QED
  BY <1>1, BenchAssumption, FS_Subset DEF Sampled

\* Who is before another has the lower rank.
LEMMA RankGrows ==
  ASSUME SamplesShape, NEW p \in Sampled(Params), NEW q \in Sampled(Params), Before(q, p)
  PROVE  Rank(q) < Rank(p)
<1> DEFINE B(x) == {y \in Sampled(Params) : Before(y, x)}
<1>1. \A x \in Sampled(Params) : Median(samples[x]) \in Nat /\ x \in Nat
  BY MedianIs, SampledFinite DEF SamplesShape, Sampled
<1>2. B(q) \subseteq B(p) /\ q \in B(p) /\ q \notin B(q)
  BY <1>1 DEF Before
<1>3. IsFiniteSet(B(p)) /\ IsFiniteSet(B(q))
  BY SampledFinite, FS_Subset
<1>4. Cardinality(B(q)) <= Cardinality(B(p)) /\ Cardinality(B(q)) # Cardinality(B(p))
  <2> HIDE DEF B
  <2> QED
    BY <1>2, <1>3, FS_Subset
<1>5. Cardinality(B(p)) \in Nat /\ Cardinality(B(q)) \in Nat
  BY <1>3, FS_CardinalityType
<1> QED
  BY <1>4, <1>5 DEF Rank

LEMMA RankInNat ==
  ASSUME NEW p
  PROVE  Rank(p) \in Nat
<1>1. IsFiniteSet({q \in Sampled(Params) : Before(q, p)})
  BY SampledFinite, FS_Subset
<1> QED
  BY <1>1, FS_CardinalityType DEF Rank

Best == {p \in Sampled(Params) : Rank(p) < Confirms}

\* topTuningParams is a sequence of the candidates of the lowest ranks.
LEMMA TopParamsAreBest ==
  ASSUME SamplesShape
  PROVE  TopParams \in Seq(Params) /\ ToSet(TopParams) = Best
<1> DEFINE c == Cardinality(Best)
           f == [p \in Best |-> Rank(p) + 1]
<1>1. IsFiniteSet(Best) /\ c \in Nat
  BY SampledFinite, FS_Subset, FS_CardinalityType DEF Best
<1>2. IsFiniteSet(1 .. c) /\ Cardinality(1 .. c) = c
  BY <1>1, FS_Interval
<1>3. \A p \in Best : Rank(p) \in Nat /\ Rank(p) < c
  <2> SUFFICES ASSUME NEW p \in Best PROVE Rank(p) \in Nat /\ Rank(p) < c
    OBVIOUS
  <2> DEFINE B == {q \in Sampled(Params) : Before(q, p)}
  <2>1. Median(samples[p]) \in Nat /\ p \in Nat /\ p \in Sampled(Params)
    BY MedianIs, SampledFinite DEF SamplesShape, Sampled, Best
  <2>2. p \notin B
    BY <2>1 DEF Before
  <2>3. B \subseteq Best \ {p}
    <3> SUFFICES ASSUME NEW q \in B PROVE q \in Best
      BY <2>2
    <3>1. Rank(q) < Rank(p) /\ Rank(q) \in Nat /\ Rank(p) \in Nat /\ Rank(p) < Confirms
      BY <2>1, RankGrows, RankInNat DEF Best
    <3> QED
      BY <3>1, BenchAssumption DEF Best
  <2>4. IsFiniteSet(Best \ {p}) /\ Cardinality(Best \ {p}) = c - 1
    BY <1>1, FS_RemoveElement
  <2>5. Cardinality(B) <= c - 1
    <3> HIDE DEF B
    <3> QED
      BY <2>3, <2>4, FS_Subset
  <2> QED
    BY <1>1, <2>5, RankInNat DEF Rank
<1>4. \A p, q \in Best : p # q => Rank(p) # Rank(q)
  <2> SUFFICES ASSUME NEW p \in Best, NEW q \in Best, p # q PROVE Rank(p) # Rank(q)
    OBVIOUS
  <2>1. /\ p \in Sampled(Params) /\ q \in Sampled(Params) /\ p \in Nat /\ q \in Nat
        /\ Median(samples[p]) \in Nat /\ Median(samples[q]) \in Nat
    BY MedianIs, SampledFinite DEF SamplesShape, Sampled, Best
  <2>2. Before(p, q) \/ Before(q, p)
    BY <2>1 DEF Before
  <2> QED
    BY <2>1, <2>2, RankGrows, RankInNat
<1>5. f \in Injection(Best, 1 .. c)
  <2>1. f \in [Best -> 1 .. c]
    BY <1>1, <1>3
  <2>2. \A p, q \in Best : f[p] = f[q] => p = q
    BY <1>3, <1>4
  <2> QED
    BY <2>1, <2>2 DEF Injection, IsInjective
<1>6. f \in Surjection(Best, 1 .. c)
  <2> HIDE DEF f
  <2> QED
    BY <1>2, <1>5, FS_Injection
<1>7. \A i \in 1 .. c : \E p \in Best : Rank(p) = i - 1
  <2> TAKE i \in 1 .. c
  <2>1. PICK p \in Best : f[p] = i
    <3> HIDE DEF f
    <3> QED
      BY <1>6 DEF Surjection
  <2>2. Rank(p) + 1 = i /\ Rank(p) \in Nat
    BY <1>3, <2>1
  <2> QED
    BY <2>2
<1>8. TopParams = [i \in 1 .. c |-> CHOOSE p \in Best : Rank(p) = i - 1]
  BY DEF TopParams, Best
<1>9. \A i \in 1 .. c : TopParams[i] \in Best /\ Rank(TopParams[i]) = i - 1
  BY <1>7, <1>8
<1>10. DOMAIN TopParams = 1 .. c /\ TopParams = [i \in 1 .. c |-> TopParams[i]]
  BY <1>8
<1>11. Best \subseteq Params
  BY DEF Best, Sampled
<1>12. TopParams \in Seq(Params)
  BY <1>1, <1>9, <1>10, <1>11
<1>13. \A p \in Best : Rank(p) + 1 \in 1 .. c /\ TopParams[Rank(p) + 1] = p
  BY <1>1, <1>3, <1>4, <1>9
<1> QED
  BY <1>9, <1>10, <1>12, <1>13 DEF ToSet

-----------------------------------------------------------------------------
(* The sample under way, and the next one.                                 *)

Rounds == {"none", "probe", "confirm"}

\* What runAutotuneSample knows of a sample.
IsSample(at) == at.round \in Rounds /\ at.index \in Nat /\ at.count \in Nat

SampleTypes ==
  /\ SamplesShape
  /\ IsSample(sample) /\ top \in Seq(Params)
  /\ stage = "running" => sample.round # "none"

\* Until the confirmations begin, the candidates are probed one by one: the
\* next ones have no sample, the others have one or were given up.
ProbesInOrder ==
  sample.round # "confirm" =>
    /\ sample.index \in (IF sample.round = "none" THEN {0} ELSE 1 .. Candidates)
    /\ sample.params = sample.index /\ confirmed = {}
    /\ \A p \in Params : /\ Len(samples[p]) <= 1
                         /\ (p > sample.index \/ (p = sample.index /\ stage = "running"))
                              => samples[p] = <<>>
    /\ \A s \in given : /\ s.round = "probe" /\ s.params <= sample.index
                        /\ stage = "running" => s.params # sample.index

\* The candidates that a confirmation was, is or will be made of.
Tried ==
  ToSet(top) \cup confirmed
    \cup {s.params : s \in {g \in given : g.round = "confirm"}}
    \cup (IF stage = "running" THEN {sample.params} ELSE {})

\* Those are the best of the probes: any with a faster probe is among them.
BestAreTried ==
  sample.round = "confirm" =>
    /\ sample.params \in Tried /\ Tried \subseteq Sampled(Params)
    /\ \A p \in Tried, q \in Sampled(Params) : samples[p][1] < samples[q][1] => q \in Tried

GivenUp ==
  \A s \in given : /\ s.round \in {"probe", "confirm"} /\ s.params \in Params
                   /\ s.round = "probe" => samples[s.params] = <<>>

StoodInv ==
  /\ SampleTypes /\ ProbesInOrder /\ BestAreTried /\ GivenUp /\ ChosenStoodTheTest
  /\ stage = "start" => source # "autotune"

LEMMA ThereAndBack ==
  ASSUME NEW S, NEW s \in Seq(S)
  PROVE  s \o Reverse(s) \in Seq(S) /\ ToSet(s \o Reverse(s)) = ToSet(s)
<1> DEFINE N == Len(s)
           r == Reverse(s)
           b == s \o Reverse(s)
<1>1. N \in Nat /\ DOMAIN s = 1 .. N
  OBVIOUS
<1>2. r \in Seq(S) /\ Len(r) = N /\ \A i \in 1 .. N : r[i] = s[N - i + 1]
  <2>1. r = [i \in 1 .. N |-> s[N - i + 1]]
    BY DEF Reverse
  <2>2. \A i \in 1 .. N : s[N - i + 1] \in S
    BY <1>1
  <2> QED
    BY <1>1, <2>1, <2>2
<1>3. b \in Seq(S) /\ Len(b) = N + N /\ \A i \in 1 .. N + N : b[i] = IF i <= N THEN s[i] ELSE r[i - N]
  <2> HIDE DEF r
  <2>1. /\ s \o r \in Seq(S) /\ Len(s \o r) = Len(s) + Len(r)
        /\ \A i \in 1 .. Len(s) + Len(r) : (s \o r)[i] = IF i <= Len(s) THEN s[i] ELSE r[i - Len(s)]
    <3>1. r \in Seq(S)
      BY <1>2
    <3> HIDE DEF b
    <3> QED
      BY ONLY <3>1, s \in Seq(S), ConcatProperties
  <2>2. b = s \o r
    BY DEF r
  <2> HIDE DEF b
  <2> QED
    BY <1>2, <2>1, <2>2
<1>4. \A i \in 1 .. N + N : b[i] \in ToSet(s)
  <2> SUFFICES ASSUME NEW i \in 1 .. N + N PROVE \E j \in 1 .. N : b[i] = s[j]
    BY <1>1 DEF ToSet
  <2>1. CASE i <= N
    BY <1>1, <1>3, <2>1
  <2>2. CASE ~(i <= N)
    <3>1. i - N \in 1 .. N /\ N - (i - N) + 1 \in 1 .. N
      BY <1>1, <2>2
    <3>2. b[i] = s[N - (i - N) + 1]
      BY <1>2, <1>3, <2>2, <3>1
    <3> QED
      BY <3>1, <3>2
  <2> QED
    BY <2>1, <2>2
<1>5. \A i \in 1 .. N : i \in 1 .. N + N /\ b[i] = s[i]
  BY <1>1, <1>3
<1>6. DOMAIN b = 1 .. N + N
  BY <1>1, <1>3
<1> HIDE DEF b
<1>7. ToSet(b) = ToSet(s)
  BY <1>1, <1>4, <1>5, <1>6 DEF ToSet
<1> QED
  BY <1>3, <1>7 DEF b

LEMMA HeadAndTail ==
  ASSUME NEW S, NEW s \in Seq(S), s # <<>>
  PROVE  /\ Head(s) \in S /\ Tail(s) \in Seq(S)
         /\ ToSet(s) = {Head(s)} \cup ToSet(Tail(s))
<1> DEFINE N == Len(s)
           t == Tail(s)
<1>1. N \in Nat \ {0} /\ DOMAIN s = 1 .. N /\ Head(s) = s[1]
  BY EmptySeq
<1>2. /\ Head(s) \in S /\ t \in Seq(S) /\ DOMAIN t = 1 .. N - 1
      /\ \A i \in 1 .. N - 1 : t[i] = s[i + 1]
  BY <1>1, HeadTailProperties
<1>3. \A i \in 1 .. N : i = 1 \/ (i - 1 \in 1 .. N - 1 /\ s[i] = t[i - 1])
  BY <1>1, <1>2
<1>4. \A i \in 1 .. N - 1 : i + 1 \in 1 .. N
  BY <1>1
<1>5. ToSet(s) = {s[i] : i \in 1 .. N} /\ ToSet(t) = {t[i] : i \in 1 .. N - 1}
  BY <1>1, <1>2 DEF ToSet
<1> HIDE DEF t, N
<1>6. ToSet(s) \subseteq {Head(s)} \cup ToSet(t)
  BY <1>1, <1>3, <1>5
<1>7. {Head(s)} \cup ToSet(t) \subseteq ToSet(s)
  <2>1. 1 \in 1 .. N
    BY <1>1
  <2> QED
    BY <1>1, <1>2, <1>4, <1>5, <2>1
<1> QED
  BY <1>2, <1>6, <1>7 DEF t

\* The next sample is the probe of the next candidate, or a confirmation: the
\* first is of the best of the probes.
LEMMA NextSampleIs ==
  ASSUME SampleTypes, NextSample.at # NoSample
  PROVE  \/ /\ sample.round # "confirm" /\ sample.index < Candidates
            /\ NextSample.at = [round |-> "probe", index |-> sample.index + 1,
                                count |-> Candidates, params |-> sample.index + 1]
            /\ NextSample.rest = top
         \/ \E todo \in Seq(Params) :
              /\ sample.round # "confirm" => ~(sample.index < Candidates)
              /\ todo # <<>>
              /\ ToSet(todo) = IF sample.round = "confirm" THEN ToSet(top) ELSE Best
              /\ NextSample.at = [round |-> "confirm",
                                  index |-> IF sample.round = "confirm" THEN sample.index + 1 ELSE 1,
                                  count |-> (IF sample.round = "confirm" THEN sample.index + 1 ELSE 1)
                                            - 1 + Len(todo),
                                  params |-> Head(todo)]
              /\ NextSample.rest = Tail(todo)
<1> DEFINE todo == IF sample.round = "confirm" THEN top ELSE TopParams \o Reverse(TopParams)
<1>1. CASE sample.round # "confirm" /\ sample.index < Candidates
  BY <1>1 DEF NextSample
<1>2. CASE ~(sample.round # "confirm" /\ sample.index < Candidates)
  <2>1. todo \in Seq(Params) /\ ToSet(todo) = IF sample.round = "confirm" THEN ToSet(top) ELSE Best
    BY TopParamsAreBest, ThereAndBack DEF SampleTypes
  <2>2. todo # <<>>
    BY <1>2 DEF NextSample
  <2>3. /\ NextSample.at = [round |-> "confirm",
                            index |-> IF sample.round = "confirm" THEN sample.index + 1 ELSE 1,
                            count |-> (IF sample.round = "confirm" THEN sample.index + 1 ELSE 1)
                                      - 1 + Len(todo),
                            params |-> Head(todo)]
        /\ NextSample.rest = Tail(todo)
    BY <1>2, <2>2 DEF NextSample
  <2> HIDE DEF todo
  <2> QED
    BY <1>2, <2>1, <2>2, <2>3
<1> QED
  BY <1>1, <1>2

LEMMA LastSample ==
  ASSUME NextSample.at = NoSample, sample.round = "confirm"
  PROVE  top = <<>>
BY DEF NextSample, NoSample

\* The next sample is the next one of its round, or of another round.
LEMMA NextIsSample ==
  ASSUME SampleTypes, NextSample.at # NoSample
  PROVE  /\ IsSample(NextSample.at) /\ NextSample.at.round # "none"
         /\ NextSample.at.round = sample.round => NextSample.at.index = sample.index + 1
         /\ NextSample.rest \in Seq(Params)
<1>1. sample.index \in Nat /\ Candidates \in Nat /\ top \in Seq(Params)
  BY BenchAssumption DEF SampleTypes, IsSample
<1>2. CASE /\ sample.round # "confirm" /\ sample.index < Candidates
           /\ NextSample.at = [round |-> "probe", index |-> sample.index + 1,
                               count |-> Candidates, params |-> sample.index + 1]
           /\ NextSample.rest = top
  BY <1>1, <1>2 DEF IsSample, Rounds
<1>3. ASSUME NEW todo \in Seq(Params), todo # <<>>,
             NextSample.at = [round |-> "confirm",
                              index |-> IF sample.round = "confirm" THEN sample.index + 1 ELSE 1,
                              count |-> (IF sample.round = "confirm" THEN sample.index + 1 ELSE 1)
                                        - 1 + Len(todo),
                              params |-> Head(todo)],
             NextSample.rest = Tail(todo)
      PROVE  /\ IsSample(NextSample.at) /\ NextSample.at.round # "none"
             /\ NextSample.at.round = sample.round => NextSample.at.index = sample.index + 1
             /\ NextSample.rest \in Seq(Params)
  BY <1>1, <1>3, HeadAndTail DEF IsSample, Rounds
<1> QED
  BY <1>2, <1>3, NextSampleIs

-----------------------------------------------------------------------------
(* What the steps do to the samples.                                       *)

\* The vars the samples depend on.
Testing == <<stage, source, sampleVars, chosen>>

\* A cuda.Run leaves them alone until it returns.
LEMMA GpusDo ==
  ASSUME \E g \in GPUs : GpuRuns(g) \/ Breaks(g) \/ FailsUnheard(g)
  PROVE  UNCHANGED Testing
BY DEF GpuRuns, Reports, Progress, TellsError, Breaks, FailsUnheard, Testing

\* A sample ends: it is given up, or taken.
LEMMA SampleIsOver ==
  ASSUME SampleEnds
  PROVE  /\ stage = "running" /\ stage' = "idle" /\ UNCHANGED <<source, sample, top, chosen>>
         /\ \/ given' = given \cup {sample} /\ UNCHANGED <<samples, confirmed>>
            \/ /\ UNCHANGED given
               /\ confirmed' = IF sample.round = "confirm" THEN confirmed \cup {sample.params} ELSE confirmed
               /\ \E rate \in Nat :
                    samples' = [samples EXCEPT ![sample.params] = Append(samples[sample.params], rate)]
BY BenchAssumption DEF SampleEnds, GivesUp, Takes

LEMMA TypesNext ==
  ASSUME SampleTypes, [Next]_vars, sample.params \in Params \/ stage # "running"
  PROVE  SampleTypes'
<1>1. CASE UNCHANGED Testing
  BY <1>1 DEF SampleTypes, SamplesShape, IsSample, Testing, sampleVars
<1>2. CASE Starts
  BY <1>2 DEF Starts, SampleTypes, SamplesShape, IsSample, sampleVars
<1>3. CASE StartsSample
  BY <1>3, NextIsSample DEF StartsSample, SampleTypes, SamplesShape, IsSample
<1>4. CASE SampleEnds
  <2>1. sample.params \in Params /\ samples \in [Params -> Seq(Nat)]
    BY <1>4 DEF SampleEnds, SampleTypes, SamplesShape
  <2>2. samples' \in [Params -> Seq(Nat)]
    <3>1. CASE UNCHANGED samples
      BY <2>1, <3>1
    <3>2. ASSUME NEW rate \in Nat,
                 samples' = [samples EXCEPT ![sample.params] = Append(samples[sample.params], rate)]
          PROVE  samples' \in [Params -> Seq(Nat)]
      <4>1. Append(samples[sample.params], rate) \in Seq(Nat)
        BY <2>1
      <4> QED
        BY <2>1, <3>2, <4>1
    <3> QED
      BY <1>4, <3>1, <3>2, SampleIsOver
  <2> QED
    BY <1>4, <2>2, SampleIsOver DEF SampleTypes, SamplesShape, IsSample
<1>5. CASE \E g \in GPUs : GpuRuns(g) \/ Breaks(g) \/ FailsUnheard(g)
  BY <1>1, <1>5, GpusDo
<1>6. CASE Selects
  BY <1>6 DEF Selects, SampleTypes, SamplesShape, IsSample, sampleVars
<1>7. CASE Measures \/ RunEnds
  <2>1. stage' # "running" /\ Forgets
    BY <1>7 DEF Measures, RunEnds, Ends
  <2>2. samples' \in [Params -> Seq(Nat)] /\ top' \in Seq(Params)
    BY <2>1 DEF Forgets
  <2> QED
    BY <2>1, <2>2 DEF Forgets, SampleTypes, SamplesShape, IsSample, NoSample, Rounds
<1>8. Cancels \/ Interferes \/ (Saves(Bench) /\ UNCHANGED benchVars) \/ UNCHANGED vars
         => UNCHANGED Testing
  BY DEF Cancels, Interferes, benchVars, vars, Testing
<1> QED
  BY <1>1, <1>2, <1>3, <1>4, <1>5, <1>6, <1>7, <1>8 DEF Next, BenchRuns

-----------------------------------------------------------------------------
(* ChosenStoodTheTest.                                                     *)

LEMMA StoodInit ==
  Init => StoodInv
<1> SUFFICES ASSUME Init PROVE StoodInv
  OBVIOUS
<1>1. SampleTypes
  <2>1. samples \in [Params -> Seq(Nat)]
    BY DEF Init
  <2> QED
    BY <2>1 DEF Init, SampleTypes, SamplesShape, IsSample, NoSample, Rounds
<1>2. ProbesInOrder
  BY EmptySeq DEF Init, ProbesInOrder, NoSample, NoParams
<1> QED
  BY <1>1, <1>2 DEF Init, StoodInv, BestAreTried, GivenUp, ChosenStoodTheTest, NoSample

\* The parameters of the sample under way are a candidate.
LEMMA UnderWay ==
  ASSUME StoodInv, stage = "running"
  PROVE  sample.params \in Params
<1>1. CASE sample.round = "confirm"
  BY <1>1 DEF StoodInv, BestAreTried, Sampled
<1>2. CASE sample.round # "confirm"
  BY <1>2, BenchAssumption DEF StoodInv, SampleTypes, ProbesInOrder
<1> QED
  BY <1>1, <1>2

\* The confirmations begin with the best of the probes.
LEMMA BestOfProbes ==
  ASSUME StoodInv, sample.round # "confirm", NEW p \in Best, NEW q \in Sampled(Params),
         samples[p][1] < samples[q][1]
  PROVE  q \in Best
<1>1. p \in Sampled(Params) /\ Rank(p) < Confirms
  BY DEF Best
<1>2. ASSUME NEW x \in Sampled(Params)
      PROVE  DOMAIN samples[x] = {1}
  <2>1. samples[x] \in Seq(Nat) /\ samples[x] # <<>> /\ Len(samples[x]) <= 1
    BY DEF StoodInv, SampleTypes, SamplesShape, ProbesInOrder, Sampled
  <2>2. Len(samples[x]) \in Nat \ {0}
    BY <2>1, EmptySeq
  <2>3. Len(samples[x]) = 1 /\ DOMAIN samples[x] = 1 .. Len(samples[x])
    <3> DEFINE l == Len(samples[x])
    <3>1. l \in Nat \ {0} /\ l <= 1 /\ DOMAIN samples[x] = 1 .. l
      BY <2>1, <2>2
    <3> HIDE DEF l
    <3>2. l = 1
      BY <3>1
    <3> QED
      BY <3>1, <3>2 DEF l
  <2>4. 1 .. 1 = {1}
    OBVIOUS
  <2> QED
    BY <2>3, <2>4
<1>3. Median(samples[p]) < Median(samples[q])
  BY <1>1, <1>2, LowerMedian DEF StoodInv, SampleTypes
<1>4. Median(samples[p]) \in Nat /\ Median(samples[q]) \in Nat
  BY <1>1, MedianIs DEF StoodInv, SampleTypes, SamplesShape, Sampled
<1>5. Before(q, p)
  BY <1>3, <1>4 DEF Before
<1>6. Rank(q) < Rank(p) /\ Rank(q) \in Nat /\ Rank(p) \in Nat
  BY <1>1, <1>5, RankGrows, RankInNat DEF StoodInv, SampleTypes
<1> QED
  BY <1>1, <1>6, BenchAssumption DEF Best

LEMMA StoodStartsSample ==
  ASSUME StoodInv, StartsSample
  PROVE  ProbesInOrder' /\ BestAreTried' /\ GivenUp' /\ ChosenStoodTheTest'
<1>1. /\ stage = "idle" /\ stage' = "running" /\ sample' = NextSample.at /\ top' = NextSample.rest
      /\ UNCHANGED <<samples, confirmed, given>>
  BY DEF StartsSample
<1>2. GivenUp' /\ ChosenStoodTheTest'
  BY <1>1 DEF StoodInv, GivenUp, ChosenStoodTheTest
<1>3. CASE /\ sample.round # "confirm" /\ sample.index < Candidates
           /\ sample' = [round |-> "probe", index |-> sample.index + 1,
                         count |-> Candidates, params |-> sample.index + 1]
  <2>1. sample.index \in Nat /\ Candidates \in Nat /\ Params = 1 .. Candidates
    BY BenchAssumption DEF StoodInv, SampleTypes, IsSample
  <2>2. sample'.round = "probe" /\ sample'.index = sample.index + 1 /\ sample'.params = sample.index + 1
    BY <1>3
  <2>3. \A p \in Params : p > sample'.index \/ p = sample'.index => p > sample.index
    BY <2>1, <2>2
  <2>4. \A s \in given : s.params \in Params /\ s.params <= sample.index => s.params <= sample'.index
                                                                          /\ s.params # sample'.index
    BY <2>1, <2>2
  <2>5. ProbesInOrder'
    <3>1. /\ confirmed' = {} /\ sample'.index \in 1 .. Candidates
          /\ sample'.params = sample'.index
      BY <1>1, <1>3, <2>1, <2>2 DEF StoodInv, ProbesInOrder
    <3>2. \A p \in Params : /\ Len(samples'[p]) <= 1
                            /\ p > sample'.index \/ p = sample'.index => samples'[p] = <<>>
      BY <1>1, <1>3, <2>3 DEF StoodInv, ProbesInOrder
    <3>3. \A s \in given' : /\ s.round = "probe" /\ s.params <= sample'.index
                            /\ s.params # sample'.index
      BY <1>1, <1>3, <2>4 DEF StoodInv, ProbesInOrder, GivenUp
    <3> QED
      BY <2>2, <3>1, <3>2, <3>3 DEF ProbesInOrder
  <2>6. BestAreTried'
    BY <2>2 DEF BestAreTried
  <2> QED
    BY <1>2, <2>5, <2>6
<1>4. ASSUME NEW todo \in Seq(Params), todo # <<>>,
             ToSet(todo) = IF sample.round = "confirm" THEN ToSet(top) ELSE Best,
             sample'.round = "confirm", sample'.params = Head(todo), top' = Tail(todo)
      PROVE  ProbesInOrder' /\ BestAreTried'
  <2>1. ProbesInOrder'
    BY <1>4 DEF ProbesInOrder
  <2>2. ToSet(todo) = {sample'.params} \cup ToSet(top')
    BY <1>4, HeadAndTail
  <2>3. Sampled(Params)' = Sampled(Params)
    BY <1>1 DEF Sampled
  <2>4. CASE sample.round = "confirm"
    <3>1. Tried' = Tried
      BY <1>1, <1>4, <2>2, <2>4 DEF Tried
    <3>2. sample'.params \in Tried'
      BY <1>1 DEF Tried
    <3> QED
      BY <1>1, <2>1, <2>3, <2>4, <3>1, <3>2 DEF StoodInv, BestAreTried
  <2>5. CASE sample.round # "confirm"
    <3>1. confirmed = {} /\ \A s \in given : s.round # "confirm"
      BY <2>5 DEF StoodInv, ProbesInOrder
    <3>2. Tried' = Best /\ sample'.params \in Tried'
      BY <1>1, <1>4, <2>2, <2>5, <3>1 DEF Tried
    <3>3. \A p \in Best, q \in Sampled(Params) : samples[p][1] < samples[q][1] => q \in Best
      BY <2>5, BestOfProbes
    <3>4. Best \subseteq Sampled(Params)
      BY DEF Best
    <3> QED
      BY <1>1, <2>1, <2>3, <3>2, <3>3, <3>4 DEF BestAreTried
  <2> QED
    BY <2>4, <2>5
<1>5. NextSample.at # NoSample /\ SampleTypes
  BY DEF StartsSample, StoodInv
<1>6. CASE \E todo \in Seq(Params) :
             /\ todo # <<>> /\ ToSet(todo) = IF sample.round = "confirm" THEN ToSet(top) ELSE Best
             /\ sample'.round = "confirm" /\ sample'.params = Head(todo) /\ top' = Tail(todo)
  BY <1>2, <1>4, <1>6
<1>7. \/ /\ sample.round # "confirm" /\ sample.index < Candidates
         /\ sample' = [round |-> "probe", index |-> sample.index + 1,
                       count |-> Candidates, params |-> sample.index + 1]
      \/ \E todo \in Seq(Params) :
           /\ todo # <<>> /\ ToSet(todo) = IF sample.round = "confirm" THEN ToSet(top) ELSE Best
           /\ sample'.round = "confirm" /\ sample'.params = Head(todo) /\ top' = Tail(todo)
  <2>1. CASE \E todo \in Seq(Params) :
               /\ sample.round # "confirm" => ~(sample.index < Candidates)
               /\ todo # <<>>
               /\ ToSet(todo) = IF sample.round = "confirm" THEN ToSet(top) ELSE Best
               /\ NextSample.at = [round |-> "confirm",
                                   index |-> IF sample.round = "confirm" THEN sample.index + 1 ELSE 1,
                                   count |-> (IF sample.round = "confirm" THEN sample.index + 1 ELSE 1)
                                             - 1 + Len(todo),
                                   params |-> Head(todo)]
               /\ NextSample.rest = Tail(todo)
    <3>1. PICK todo \in Seq(Params) :
            /\ todo # <<>>
            /\ ToSet(todo) = IF sample.round = "confirm" THEN ToSet(top) ELSE Best
            /\ sample'.round = "confirm" /\ sample'.params = Head(todo)
            /\ top' = Tail(todo)
      BY <1>1, <2>1
    <3> QED
      BY <3>1
  <2>2. CASE /\ sample.round # "confirm" /\ sample.index < Candidates
             /\ NextSample.at = [round |-> "probe", index |-> sample.index + 1,
                                 count |-> Candidates, params |-> sample.index + 1]
    BY <1>1, <2>2
  <2> QED
    BY <1>5, <2>1, <2>2, NextSampleIs
<1> QED
  BY <1>2, <1>3, <1>6, <1>7

\* A sample that is given up or fails.
LEMMA StoodGivesUp ==
  ASSUME StoodInv, stage = "running", stage' = "idle", given' = given \cup {sample},
         UNCHANGED <<sample, top, samples, confirmed>>
  PROVE  ProbesInOrder' /\ BestAreTried' /\ GivenUp' /\ ChosenStoodTheTest'
<1>1. sample.params \in Params /\ sample.round \in {"probe", "confirm"}
  BY UnderWay DEF StoodInv, SampleTypes, IsSample, Rounds
<1>2. GivenUp'
  <2>1. sample.round = "probe" => samples[sample.params] = <<>>
    BY <1>1 DEF StoodInv, ProbesInOrder
  <2> QED
    BY <1>1, <2>1 DEF StoodInv, GivenUp
<1>3. ProbesInOrder'
  <2>1. sample.round = "probe" => sample.params <= sample.index
    BY BenchAssumption DEF StoodInv, ProbesInOrder, SampleTypes, IsSample
  <2> QED
    BY <1>1, <2>1 DEF StoodInv, ProbesInOrder
<1>4. BestAreTried'
  <2>1. sample.round = "confirm" => Tried' = Tried
    BY DEF Tried
  <2>2. Sampled(Params)' = Sampled(Params)
    BY DEF Sampled
  <2> QED
    BY <2>1, <2>2 DEF StoodInv, BestAreTried
<1>5. ChosenStoodTheTest'
  BY DEF ChosenStoodTheTest
<1> QED
  BY <1>2, <1>3, <1>4, <1>5

\* A sample that is completed.
LEMMA StoodCompletes ==
  ASSUME StoodInv, stage = "running", stage' = "idle", UNCHANGED <<sample, top, given>>,
         confirmed' = IF sample.round = "confirm" THEN confirmed \cup {sample.params} ELSE confirmed,
         NEW rate \in Nat,
         samples' = [samples EXCEPT ![sample.params] = Append(samples[sample.params], rate)]
  PROVE  ProbesInOrder' /\ BestAreTried' /\ GivenUp' /\ ChosenStoodTheTest'
<1> DEFINE x == sample.params
<1>1. x \in Params /\ samples[x] \in Seq(Nat) /\ samples \in [Params -> Seq(Nat)]
  BY UnderWay DEF StoodInv, SampleTypes, SamplesShape
<1>2. /\ samples'[x] # <<>> /\ Len(samples'[x]) = Len(samples[x]) + 1
      /\ samples[x] # <<>> => samples'[x][1] = samples[x][1]
  <2> DEFINE s == samples[x]
  <2>1. samples'[x] = Append(s, rate) /\ s \in Seq(Nat)
    BY <1>1
  <2>2. s # <<>> => 1 \in 1 .. Len(s)
    BY <2>1, EmptySeq
  <2> HIDE DEF s
  <2>3. /\ Append(s, rate) # <<>> /\ Len(Append(s, rate)) = Len(s) + 1
        /\ \A i \in 1 .. Len(s) : Append(s, rate)[i] = s[i]
    BY <2>1, AppendProperties
  <2>4. samples'[x] # <<>> /\ Len(samples'[x]) = Len(s) + 1 /\ (s # <<>> => samples'[x][1] = s[1])
    BY <2>1, <2>2, <2>3
  <2> QED
    BY <2>4 DEF s
<1>3. \A p \in Params : p # x => samples'[p] = samples[p]
  BY <1>1
<1>4. ChosenStoodTheTest'
  BY DEF ChosenStoodTheTest
<1> HIDE DEF x
<1>5. CASE sample.round # "confirm"
  <2>1. samples[x] = <<>> /\ x = sample.index /\ x \in Nat
    BY <1>1, <1>5, BenchAssumption DEF StoodInv, ProbesInOrder, x
  <2>2. Len(samples'[x]) = 1 /\ \A s \in given : s.params # x
    BY <1>2, <1>5, <2>1 DEF StoodInv, ProbesInOrder
  <2>3. GivenUp'
    BY <1>3, <2>2 DEF StoodInv, GivenUp
  <2>4. ProbesInOrder'
    <3>1. \A p \in Params : Len(samples'[p]) <= 1 /\ (p > sample.index => samples'[p] = <<>>)
      BY <1>3, <1>5, <2>1, <2>2 DEF StoodInv, ProbesInOrder
    <3> QED
      BY <1>5, <3>1 DEF StoodInv, ProbesInOrder
  <2>5. BestAreTried'
    BY <1>5 DEF BestAreTried
  <2> QED
    BY <1>4, <2>3, <2>4, <2>5
<1>6. CASE sample.round = "confirm"
  <2>1. x \in Tried /\ x \in Sampled(Params) /\ samples[x] # <<>>
    BY <1>6 DEF StoodInv, BestAreTried, Sampled, x
  <2>2. GivenUp'
    BY <1>3, <2>1 DEF StoodInv, GivenUp
  <2>3. ProbesInOrder'
    BY <1>6 DEF ProbesInOrder
  <2>4. Sampled(Params)' = Sampled(Params)
    BY <1>2, <1>3, <2>1 DEF Sampled
  <2>5. \A p \in Sampled(Params) : samples'[p][1] = samples[p][1]
    BY <1>2, <1>3, <2>1 DEF Sampled
  <2>6. Tried' = Tried
    BY <1>6 DEF Tried, x
  <2>7. BestAreTried'
    BY <1>6, <2>1, <2>4, <2>5, <2>6 DEF StoodInv, BestAreTried, x
  <2> QED
    BY <1>4, <2>2, <2>3, <2>7
<1> QED
  BY <1>5, <1>6

\* What is selected stood the test.
LEMMA StoodSelects ==
  ASSUME StoodInv, Selects
  PROVE  ProbesInOrder' /\ BestAreTried' /\ GivenUp' /\ ChosenStoodTheTest'
<1>1. /\ stage = "idle" /\ stage' = "tuned" /\ NextSample.at = NoSample
      /\ UNCHANGED <<sample, top, samples, confirmed, given>>
  BY DEF Selects, sampleVars
<1>2. Sampled(Params)' = Sampled(Params) /\ Tried' = Tried
  BY <1>1 DEF Sampled, Tried
<1>3. ProbesInOrder' /\ BestAreTried' /\ GivenUp'
  BY <1>1, <1>2 DEF StoodInv, ProbesInOrder, BestAreTried, GivenUp
<1>4. CASE BestConfirmed = {} /\ source' = "default"
  BY <1>3, <1>4 DEF ChosenStoodTheTest
<1>5. ASSUME NEW p \in BestConfirmed, chosen' = [params |-> p, rate |-> Median(samples[p])]
      PROVE  ChosenStoodTheTest'
  <2> DEFINE S == IF confirmed = {} THEN Params ELSE confirmed
  <2>1. p \in Sampled(S) /\ \A q \in Sampled(S) : Median(samples[q]) <= Median(samples[p])
    BY <1>5 DEF BestConfirmed, BestOf
  <2>2. confirmed # {} => sample.round = "confirm" /\ confirmed \subseteq Tried /\ Tried \subseteq Sampled(Params)
    BY <1>1 DEF StoodInv, ProbesInOrder, BestAreTried, Tried
  <2>3. p \in S /\ samples[p] # <<>> /\ p \in Sampled(Params)
    BY <2>1, <2>2 DEF Sampled
  <2>4. \A s \in given : s.params = p => s.round = "confirm"
    <3> SUFFICES ASSUME NEW s \in given, s.params = p, s.round # "confirm" PROVE FALSE
      OBVIOUS
    <3>1. samples[s.params] = <<>>
      BY DEF StoodInv, GivenUp
    <3> QED
      BY <2>3, <3>1
  <2>5. ASSUME NEW q \in Sampled(Params),
               \A i \in DOMAIN samples[p], j \in DOMAIN samples[q] : samples[p][i] < samples[q][j]
        PROVE  \E s \in given : s.round = "confirm" /\ s.params = q
    <3>1. Median(samples[p]) < Median(samples[q])
      BY <2>3, <2>5, LowerMedian DEF StoodInv, SampleTypes
    <3>2. Median(samples[p]) \in Nat /\ Median(samples[q]) \in Nat
      BY <2>3, MedianIs DEF StoodInv, SampleTypes, SamplesShape, Sampled
    <3>3. q \notin Sampled(S)
      BY <2>1, <3>1, <3>2
    <3>4. confirmed # {} /\ q \notin confirmed
      BY <3>3 DEF Sampled
    <3>5. samples[p][1] < samples[q][1]
      <4>1. \A y \in Sampled(Params) : 1 \in DOMAIN samples[y]
        BY EmptySeq DEF StoodInv, SampleTypes, SamplesShape, Sampled
      <4> QED
        BY <2>3, <2>5, <4>1
    <3>6. q \in Tried
      BY <1>1, <2>2, <2>3, <3>4, <3>5 DEF StoodInv, BestAreTried
    <3>7. top = <<>>
      BY <1>1, <2>2, <3>4, LastSample
    <3>8. ToSet(top) = {}
      BY <3>7 DEF ToSet
    <3> QED
      BY <1>1, <3>4, <3>6, <3>8 DEF Tried
  <2>6. 2 * Cardinality({i \in DOMAIN samples[p] : samples[p][i] >= Median(samples[p])}) >= Len(samples[p])
    BY <2>3, HalfReachMedian DEF StoodInv, SampleTypes, SamplesShape, Sampled
  <2>7. chosen'.params = p /\ chosen'.rate = Median(samples[p])
    BY <1>5
  <2> QED
    BY <1>1, <1>2, <2>3, <2>4, <2>5, <2>6, <2>7 DEF ChosenStoodTheTest
<1> QED
  BY <1>3, <1>4, <1>5 DEF Selects

LEMMA StoodNext ==
  StoodInv /\ [Next]_vars => StoodInv'
<1> SUFFICES ASSUME StoodInv, [Next]_vars PROVE StoodInv'
  OBVIOUS
<1>1. SampleTypes'
  BY TypesNext, UnderWay DEF StoodInv
<1>2. (stage = "start" => source # "autotune")'
  <2>1. CASE \E g \in GPUs : GpuRuns(g) \/ Breaks(g) \/ FailsUnheard(g)
    BY <2>1, GpusDo DEF StoodInv, Testing
  <2> QED
    BY <2>1 DEF StoodInv, Next, BenchRuns, Starts, StartsSample, SampleEnds, Selects, Measures, RunEnds,
                Ends, Cancels, Interferes, benchVars, vars
<1> DEFINE Stood == ProbesInOrder /\ BestAreTried /\ GivenUp /\ ChosenStoodTheTest
<1> SUFFICES Stood'
  BY <1>1, <1>2 DEF StoodInv
<1>3. CASE UNCHANGED Testing
  <2>1. Sampled(Params)' = Sampled(Params) /\ Tried' = Tried
    BY <1>3 DEF Testing, sampleVars, Sampled, Tried
  <2>2. ChosenStoodTheTest'
    BY <1>3, <2>1 DEF StoodInv, ChosenStoodTheTest, Testing, sampleVars
  <2> QED
    BY <1>3, <2>1, <2>2 DEF StoodInv, ProbesInOrder, BestAreTried, GivenUp, Testing, sampleVars
<1>4. CASE Starts
  <2>1. /\ stage = "start" /\ stage' \in {"idle", "tuned"} /\ UNCHANGED sampleVars
        /\ stage' = "tuned" => source' # "autotune"
    BY <1>4 DEF Starts, StoodInv
  <2>2. Sampled(Params)' = Sampled(Params) /\ Tried' = Tried
    BY <2>1 DEF sampleVars, Sampled, Tried
  <2>3. ChosenStoodTheTest'
    BY <2>1 DEF ChosenStoodTheTest
  <2> QED
    BY <2>1, <2>2, <2>3 DEF StoodInv, ProbesInOrder, BestAreTried, GivenUp, sampleVars
<1>5. CASE StartsSample
  BY <1>5, StoodStartsSample
<1>6. CASE SampleEnds
  <2>1. stage = "running" /\ stage' = "idle" /\ UNCHANGED <<source, sample, top, chosen>>
    BY <1>6, SampleIsOver
  <2>2. CASE given' = given \cup {sample} /\ UNCHANGED <<samples, confirmed>>
    BY <2>1, <2>2, StoodGivesUp
  <2>3. ASSUME NEW rate \in Nat, UNCHANGED given,
               confirmed' = IF sample.round = "confirm" THEN confirmed \cup {sample.params} ELSE confirmed,
               samples' = [samples EXCEPT ![sample.params] = Append(samples[sample.params], rate)]
        PROVE  Stood'
    BY <2>1, <2>3, StoodCompletes
  <2> QED
    BY <1>6, <2>2, <2>3, SampleIsOver
<1>7. CASE \E g \in GPUs : GpuRuns(g) \/ Breaks(g) \/ FailsUnheard(g)
  BY <1>3, <1>7, GpusDo
<1>8. CASE Selects
  BY <1>8, StoodSelects
<1>9. CASE Measures \/ RunEnds
  <2>1. /\ sample' = NoSample /\ samples' = [p \in Params |-> <<>>] /\ confirmed' = {} /\ given' = {}
        /\ stage' \notin {"tuned", "running"}
    BY <1>9 DEF Measures, RunEnds, Ends, Forgets
  <2>2. ProbesInOrder'
    BY <2>1, EmptySeq DEF ProbesInOrder, NoSample, NoParams
  <2> QED
    BY <2>1, <2>2 DEF BestAreTried, GivenUp, ChosenStoodTheTest, NoSample
<1>10. Cancels \/ Interferes \/ (Saves(Bench) /\ UNCHANGED benchVars) \/ UNCHANGED vars
         => UNCHANGED Testing
  BY DEF Cancels, Interferes, benchVars, vars, Testing
<1> QED
  BY <1>3, <1>4, <1>5, <1>6, <1>7, <1>8, <1>9, <1>10 DEF Next, BenchRuns

\* ChosenStoodTheTest holds for any number of candidates and confirmations:
\* autotuneBenchmark selects the best of the candidates that no sample speaks
\* against.
THEOREM ChosenStood ==
  Spec => []ChosenStoodTheTest
<1>1. StoodInv => ChosenStoodTheTest
  BY DEF StoodInv
<1> QED
  BY <1>1, StoodInit, StoodNext, PTL DEF Spec

-----------------------------------------------------------------------------
(* BarFallsOnlyToLateProgress.                                             *)

States == {"none", "active", "sampled", "skipped", "selected", "default"}
Shown == States \ {"none"}
Statuses == {"starting", "benchmarking", "autotune", "sampled", "skipped", "selected", "default",
             "error", "complete"}

Panels ==
  [state : States, round : Rounds, index : Nat, total : Nat, tuned : Nat,
   status : Statuses, error : BOOLEAN]

IsReport(g) == gpu[g].state = "reporting"

GpusShape ==
  /\ \E count \in GpuCounts : gpu = [g \in 1 .. count |-> gpu[g]]
  /\ clock \in Nat /\ \A g \in GPUs : gpu[g].elapsed \in Nat
  /\ ~Running => \A g \in GPUs : gpu[g] = Searching

\* The panel shows the sample under way, or the one that ended last.
ShowsSample == panel.round = sample.round /\ panel.index = sample.index

\* The only GPU's clock, and its event before the callback, are not behind
\* what is shown.
InOrder ==
  /\ panel.tuned <= clock
  /\ \A g \in GPUs : IsReport(g) => panel.tuned <= gpu[g].elapsed /\ gpu[g].elapsed <= clock

PanelInv ==
  /\ SampleTypes /\ GpusShape /\ panel \in Panels
  /\ stage = "start" => panel.state = "none"
  /\ stage = "running" => panel.state = "active" /\ ShowsSample /\ (Several \/ InOrder)
  /\ (stage = "idle" /\ IsAutotuning(panel)) => panel.state # "active" /\ ShowsSample

LEMMA TunesPanel ==
  ASSUME NEW shown \in Panels, NEW state \in Shown,
         NEW at, IsSample(at), NEW elapsed \in Nat
  PROVE  /\ Tunes(shown, state, at, elapsed) \in Panels
         /\ Tunes(shown, state, at, elapsed).state = state
         /\ Tunes(shown, state, at, elapsed).round = at.round
         /\ Tunes(shown, state, at, elapsed).index = at.index
         /\ Tunes(shown, state, at, elapsed).tuned = elapsed
BY DEF Tunes, Panels, IsSample, Shown, States, Statuses

LEMMA ShownStates ==
  "active" \in Shown /\ "sampled" \in Shown /\ "skipped" \in Shown /\ "selected" \in Shown /\ "default" \in Shown
BY DEF Shown, States

LEMMA EventPanel ==
  ASSUME NEW shown \in Panels, NEW next \in {ShowsProgress(shown), ShowsError(shown)}
  PROVE  /\ next \in Panels /\ next.state = shown.state /\ next.round = shown.round
         /\ next.index = shown.index /\ next.tuned = shown.tuned
BY DEF ShowsProgress, ShowsError, Panels, Statuses

LEMMA NoSampleIsSample ==
  IsSample(NoSample)
BY DEF IsSample, NoSample, Rounds

LEMMA PanelInit ==
  Init => PanelInv
<1> SUFFICES ASSUME Init PROVE PanelInv
  OBVIOUS
<1>1. GpusShape
  BY DEF Init, GpusShape, Searching, GPUs
<1> QED
  BY <1>1, StoodInit DEF Init, StoodInv, PanelInv, Panels, States, Rounds, Statuses, IsAutotuning

\* One GPU is GPU 1.
LEMMA TheOnlyGpu ==
  ASSUME GpusShape, ~Several
  PROVE  GPUs = {1}
<1>1. PICK count \in GpuCounts : GPUs = 1 .. count
  BY DEF GpusShape, GPUs
<1>2. count \in Nat \ {0}
  BY BenchAssumption
<1>3. Cardinality(1 .. count) = count
  BY <1>2, FS_Interval
<1>4. count = 1
  BY <1>1, <1>2, <1>3 DEF Several
<1> QED
  BY <1>1, <1>4

\* One GPU changes what it is doing.
LEMMA SetsShape ==
  ASSUME GpusShape, Running, UNCHANGED stage, NEW g \in GPUs, NEW event, Sets(g, event),
         event.elapsed \in Nat, clock' \in Nat
  PROVE  /\ GpusShape' /\ GPUs' = GPUs /\ Several' = Several
         /\ gpu'[g] = event /\ \A x \in GPUs : x # g => gpu'[x] = gpu[x]
<1>1. PICK count \in GpuCounts : gpu = [x \in 1 .. count |-> gpu[x]]
  BY DEF GpusShape
<1>2. GPUs = 1 .. count /\ g \in 1 .. count
  BY <1>1 DEF GPUs
<1>3. /\ gpu' = [x \in 1 .. count |-> gpu'[x]] /\ gpu'[g] = event
      /\ \A x \in 1 .. count : x # g => gpu'[x] = gpu[x]
  BY <1>1, <1>2 DEF Sets
<1>4. GPUs' = GPUs
  BY <1>2, <1>3 DEF GPUs
<1>5. \A x \in GPUs : gpu'[x].elapsed \in Nat
  BY <1>2, <1>3 DEF GpusShape
<1> QED
  BY <1>2, <1>3, <1>4, <1>5 DEF GpusShape, Running, Several

LEMMA ReturnShape ==
  ASSUME GpusShape, RunReturns
  PROVE  GpusShape'
<1>1. PICK count \in GpuCounts : gpu = [x \in 1 .. count |-> gpu[x]]
  BY DEF GpusShape
<1>2. gpu' = [x \in 1 .. count |-> Searching] /\ clock' = 0
  BY <1>1 DEF RunReturns, GPUs
<1> QED
  BY <1>2 DEF GpusShape, GPUs, Searching

\* The shape stays when a cuda.Run begins or nothing of it changes.
LEMMA SameShape ==
  ASSUME GpusShape, UNCHANGED <<gpu, clock>>, Running' \/ UNCHANGED Running
  PROVE  GpusShape' /\ Several' = Several
BY DEF GpusShape, Several, GPUs

\* A step of a GPU or of its callback.
LEMMA PanelGpus ==
  ASSUME PanelInv, NEW g \in GPUs, GpuRuns(g) \/ Breaks(g) \/ FailsUnheard(g)
  PROVE  PanelInv'
<1>1. Running /\ UNCHANGED Testing
  BY GpusDo DEF GpuRuns, Reports, Progress, TellsError, Breaks, FailsUnheard, Speaks
<1>2. SampleTypes' /\ UNCHANGED <<stage, sample>>
  BY <1>1 DEF PanelInv, SampleTypes, SamplesShape, IsSample, Testing, sampleVars
<1>3. stage = "running" \/ stage = "measuring"
  BY <1>1 DEF Running
<1>4. ASSUME UNCHANGED stage, GpusShape', Several' = Several, panel' \in Panels,
             stage = "running" => panel'.state = "active" /\ panel'.round = sample.round
                                    /\ panel'.index = sample.index /\ (Several \/ InOrder')
      PROVE  PanelInv'
  BY <1>2, <1>3, <1>4 DEF PanelInv, ShowsSample
<1>5. CASE Reports(g)
  <2>1. /\ clock' \in Nat /\ clock' >= clock /\ (g = 1 => clock' > clock)
        /\ Sets(g, Reporting(clock')) /\ UNCHANGED <<stage, panel>>
    BY <1>5 DEF Reports, PanelInv, GpusShape
  <2>2. /\ GpusShape' /\ GPUs' = GPUs /\ Several' = Several
        /\ gpu'[g] = Reporting(clock') /\ \A x \in GPUs : x # g => gpu'[x] = gpu[x]
    BY <1>1, <2>1, SetsShape DEF PanelInv, Reporting
  <2>3. panel.tuned \in Nat /\ clock \in Nat
    BY DEF PanelInv, Panels, GpusShape
  <2>4. InOrder => InOrder'
    BY <2>1, <2>2, <2>3 DEF InOrder, IsReport, Reporting, PanelInv, GpusShape
  <2> QED
    BY <1>4, <2>1, <2>2, <2>4 DEF PanelInv, ShowsSample
<1>6. CASE Breaks(g) \/ FailsUnheard(g)
  <2>1. PICK event \in {Failing, Ended} : Sets(g, event) /\ UNCHANGED <<stage, panel, clock>>
    BY <1>6 DEF Breaks, FailsUnheard
  <2>2. clock \in Nat /\ event.elapsed \in Nat /\ event.state # "reporting"
    BY <2>1 DEF PanelInv, GpusShape, Failing, Ended
  <2>3. /\ GpusShape' /\ GPUs' = GPUs /\ Several' = Several
        /\ gpu'[g] = event /\ \A x \in GPUs : x # g => gpu'[x] = gpu[x]
    BY <1>1, <2>1, <2>2, SetsShape DEF PanelInv
  <2>4. InOrder => InOrder'
    BY <2>1, <2>2, <2>3 DEF InOrder, IsReport
  <2> QED
    BY <1>4, <2>1, <2>3, <2>4 DEF PanelInv, ShowsSample
<1>7. CASE TellsError(g)
  <2>1. Sets(g, Ended) /\ UNCHANGED <<stage, clock>> /\ panel' = ShowsError(panel)
    BY <1>7 DEF TellsError
  <2>2. clock \in Nat /\ Ended.elapsed \in Nat /\ Ended.state # "reporting"
    BY DEF PanelInv, GpusShape, Ended
  <2>3. /\ GpusShape' /\ GPUs' = GPUs /\ Several' = Several
        /\ gpu'[g] = Ended /\ \A x \in GPUs : x # g => gpu'[x] = gpu[x]
    BY <1>1, <2>1, <2>2, SetsShape DEF PanelInv
  <2>4. /\ panel' \in Panels /\ panel'.state = panel.state /\ panel'.round = panel.round
        /\ panel'.index = panel.index /\ panel'.tuned = panel.tuned
    BY <2>1, EventPanel DEF PanelInv
  <2>5. InOrder => InOrder'
    BY <2>1, <2>2, <2>3, <2>4 DEF InOrder, IsReport
  <2> QED
    BY <1>4, <2>1, <2>3, <2>4, <2>5 DEF PanelInv, ShowsSample
<1>8. CASE Progress(g)
  <2> DEFINE elapsed == gpu[g].elapsed
  <2>1. PICK event \in {Searching, Ended} : Sets(g, event)
    BY <1>8 DEF Progress
  <2>2. /\ UNCHANGED <<stage, clock>> /\ IsReport(g)
        /\ panel' = IF stage = "running" THEN Tunes(ShowsProgress(panel), "active", sample, elapsed)
                    ELSE ShowsProgress(panel)
    BY <1>8 DEF Progress, IsReport
  <2>3. clock \in Nat /\ elapsed \in Nat /\ event.elapsed \in Nat /\ event.state # "reporting"
    <3>1. clock \in Nat /\ elapsed \in Nat
      BY DEF PanelInv, GpusShape
    <3>2. event.elapsed \in Nat /\ event.state # "reporting"
      BY <2>1 DEF Searching, Ended
    <3> QED
      BY <3>1, <3>2
  <2>4. /\ GpusShape' /\ GPUs' = GPUs /\ Several' = Several
        /\ gpu'[g] = event /\ \A x \in GPUs : x # g => gpu'[x] = gpu[x]
    BY <1>1, <2>1, <2>2, <2>3, SetsShape DEF PanelInv
  <2>5. ShowsProgress(panel) \in Panels /\ IsSample(sample)
    BY EventPanel DEF PanelInv, SampleTypes
  <2> HIDE DEF elapsed
  <2>6. /\ panel' \in Panels
        /\ stage = "running" => /\ panel'.state = "active" /\ panel'.round = sample.round
                                /\ panel'.index = sample.index /\ panel'.tuned = elapsed
    <3>1. CASE stage = "running"
      <4> DEFINE base == ShowsProgress(panel)
      <4>1. base \in Panels /\ panel' = Tunes(base, "active", sample, elapsed)
        BY <2>2, <2>5, <3>1
      <4> HIDE DEF base
      <4>2. elapsed \in Nat /\ "active" \in Shown
        BY <2>3, ShownStates
      <4>3. /\ Tunes(base, "active", sample, elapsed) \in Panels
            /\ Tunes(base, "active", sample, elapsed).state = "active"
            /\ Tunes(base, "active", sample, elapsed).round = sample.round
            /\ Tunes(base, "active", sample, elapsed).index = sample.index
            /\ Tunes(base, "active", sample, elapsed).tuned = elapsed
        BY <2>5, <4>1, <4>2, TunesPanel
      <4> QED
        BY <4>1, <4>3
    <3>2. CASE stage # "running"
      BY <2>2, <2>5, <3>2
    <3> QED
      BY <3>1, <3>2
  <2>7. stage = "running" /\ ~Several => InOrder'
    <3> SUFFICES ASSUME stage = "running", ~Several PROVE InOrder'
      OBVIOUS
    <3>1. GPUs = {g}
      BY TheOnlyGpu DEF PanelInv
    <3>2. elapsed <= clock
      BY <2>2 DEF PanelInv, InOrder, elapsed
    <3> QED
      BY <2>2, <2>3, <2>4, <2>6, <3>1, <3>2 DEF InOrder, IsReport
  <2> QED
    BY <1>4, <2>2, <2>4, <2>6, <2>7
<1> QED
  BY <1>5, <1>6, <1>7, <1>8 DEF GpuRuns

LEMMA PanelNext ==
  StoodInv /\ PanelInv /\ [Next]_vars => PanelInv'
<1> SUFFICES ASSUME StoodInv, PanelInv, [Next]_vars PROVE PanelInv'
  OBVIOUS
<1>1. SampleTypes /\ SampleTypes' /\ panel \in Panels /\ GpusShape /\ IsSample(sample)
  BY StoodNext DEF StoodInv, PanelInv, SampleTypes
<1>2. CASE UNCHANGED <<stage, sample, gpu, clock, panel>>
  <2>1. GpusShape' /\ Several' = Several /\ (InOrder <=> InOrder')
    BY <1>1, <1>2 DEF GpusShape, GPUs, Several, Running, InOrder, IsReport
  <2> QED
    BY <1>1, <1>2, <2>1 DEF PanelInv, ShowsSample, IsAutotuning
<1>3. CASE Starts
  <2>1. /\ stage = "start" /\ stage' \in {"idle", "tuned"} /\ panel.state = "none" /\ UNCHANGED <<gpu, clock>>
        /\ UNCHANGED panel \/ (stage' = "tuned" /\ panel' = Tunes(panel, "default", NoSample, 0))
    BY <1>3 DEF Starts, PanelInv, runVars
  <2>2. panel' \in Panels
    BY <1>1, <2>1, TunesPanel, ShownStates, NoSampleIsSample
  <2>3. GpusShape'
    BY <1>1, <2>1, SameShape DEF Running
  <2> QED
    BY <1>1, <2>1, <2>2, <2>3 DEF PanelInv, IsAutotuning
<1>4. CASE StartsSample
  <2>1. /\ stage = "idle" /\ stage' = "running" /\ sample' = NextSample.at /\ UNCHANGED <<gpu, clock>>
        /\ panel' = Tunes(panel, "active", NextSample.at, 0) /\ IsSample(NextSample.at)
    BY <1>1, <1>4, NextIsSample DEF StartsSample, runVars
  <2>2. /\ panel' \in Panels /\ panel'.state = "active" /\ panel'.tuned = 0
        /\ panel'.round = NextSample.at.round /\ panel'.index = NextSample.at.index
    BY <1>1, <2>1, TunesPanel, ShownStates
  <2>3. GpusShape' /\ GPUs' = GPUs
    BY <1>1, <2>1, SameShape DEF Running, GPUs
  <2>4. \A g \in GPUs : gpu'[g] = Searching
    BY <1>1, <2>1 DEF GpusShape, Running
  <2>5. InOrder'
    BY <2>2, <2>3, <2>4 DEF InOrder, IsReport, Searching, GpusShape
  <2> QED
    BY <1>1, <2>1, <2>2, <2>3, <2>5 DEF PanelInv, ShowsSample
<1>5. CASE SampleEnds
  <2>1. PICK state \in {"skipped", "sampled"} : panel' = Tunes(panel, state, sample, 0)
    BY <1>5 DEF SampleEnds
  <2>2. stage' = "idle" /\ UNCHANGED sample /\ RunReturns
    BY <1>5 DEF SampleEnds
  <2>3. /\ panel' \in Panels /\ panel'.state = state
        /\ panel'.round = sample.round /\ panel'.index = sample.index
    BY <1>1, <2>1, TunesPanel, ShownStates
  <2>4. GpusShape'
    BY <1>1, <2>2, ReturnShape
  <2> QED
    BY <1>1, <2>1, <2>2, <2>3, <2>4 DEF PanelInv, ShowsSample
<1>6. CASE \E g \in GPUs : GpuRuns(g) \/ Breaks(g) \/ FailsUnheard(g)
  BY <1>6, PanelGpus
<1>7. CASE Selects
  <2>1. PICK state \in Shown : state \in {"selected", "default"} /\ panel' = Tunes(panel, state, NoSample, 0)
    BY <1>7, ShownStates DEF Selects
  <2>2. panel' \in Panels /\ stage = "idle" /\ stage' = "tuned" /\ UNCHANGED <<gpu, clock>>
    BY <1>1, <1>7, <2>1, TunesPanel, ShownStates, NoSampleIsSample DEF Selects, runVars
  <2>3. GpusShape'
    BY <1>1, <2>2, SameShape DEF Running
  <2> QED
    BY <1>1, <2>2, <2>3 DEF PanelInv
<1>8. CASE Measures
  <2>1. stage' = "measuring" /\ UNCHANGED <<panel, gpu, clock>>
    BY <1>8 DEF Measures, runVars
  <2>2. GpusShape'
    BY <1>1, <2>1, SameShape DEF Running
  <2> QED
    BY <1>1, <2>1, <2>2 DEF PanelInv
<1>9. CASE RunEnds
  <2>1. PICK stop \in {"complete", "error"} : Ends(stop)
    BY <1>9 DEF RunEnds
  <2>2. stage' \in {"complete", "failed"} /\ panel' \in Panels
    BY <1>1, <2>1 DEF Ends, Panels, Statuses, States
  <2>3. GpusShape'
    BY <1>1, <1>9, ReturnShape DEF RunEnds
  <2> QED
    BY <1>1, <2>2, <2>3 DEF PanelInv
<1>10. Cancels \/ Interferes \/ (Saves(Bench) /\ UNCHANGED benchVars) \/ UNCHANGED vars
         => UNCHANGED <<stage, sample, gpu, clock, panel>>
  BY DEF Cancels, Interferes, benchVars, vars, sampleVars, runVars
<1> QED
  BY <1>2, <1>3, <1>4, <1>5, <1>6, <1>7, <1>8, <1>9, <1>10 DEF Next, BenchRuns

\* The bar grows with the index, the state and the time shown.
LEMMA BarGrows ==
  ASSUME NEW a \in Panels, NEW b \in Panels,
         \/ b.index = a.index /\ b.tuned >= a.tuned /\ (a.state = "active" \/ a.state = b.state)
         \/ b.index = a.index /\ b.state \in {"sampled", "skipped"}
         \/ b.index = a.index + 1 /\ b.state = "active"
  PROVE  Bar(b) >= Bar(a)
<1> DEFINE Part(x) == IF x.state \in {"sampled", "skipped"} THEN Duration ELSE Capped(x.tuned)
<1>1. /\ a.index \in Nat /\ b.index \in Nat /\ a.tuned \in Nat /\ b.tuned \in Nat /\ Duration \in Nat
  BY BenchAssumption DEF Panels
<1>2. /\ Part(a) \in Nat /\ Part(b) \in Nat /\ Part(a) <= Duration
      /\ b.state \in {"sampled", "skipped"} => Part(b) = Duration
      /\ (b.tuned >= a.tuned /\ (a.state = "active" \/ a.state = b.state)) => Part(b) >= Part(a)
  BY <1>1 DEF Capped
<1>3. Bar(a) = (a.index - 1) * Duration + Part(a) /\ Bar(b) = (b.index - 1) * Duration + Part(b)
  BY DEF Bar
<1>4. (a.index + 1 - 1) * Duration = (a.index - 1) * Duration + Duration
  BY <1>1
<1>5. (a.index - 1) * Duration \in Int
  BY <1>1
<1> HIDE DEF Part
<1>6. CASE b.index = a.index
  BY <1>1, <1>2, <1>3, <1>5, <1>6
<1>7. CASE b.index = a.index + 1
  BY <1>1, <1>2, <1>3, <1>4, <1>5, <1>7
<1> QED
  BY <1>6, <1>7

LEMMA BarIsInt ==
  ASSUME NEW a \in Panels
  PROVE  Bar(a) \in Int
BY BenchAssumption DEF Bar, Capped, Panels

\* BarFallsOnlyToLateProgress holds for any number of candidates and GPUs and
\* any duration: updateTuning and progressRatio agree on what a sample that
\* was given up or failed counts, no event is delivered once cuda.Run has
\* returned, and only an event that waited for callbackMu takes the bar back.
THEOREM BarGoesOn ==
  Spec => BarFallsOnlyToLateProgress
<1> DEFINE Falls == /\ IsAutotuning(panel) /\ IsAutotuning(panel') /\ panel.round = panel'.round
                    /\ Bar(panel') < Bar(panel)
           Late == /\ Several /\ stage = "running" /\ UNCHANGED sample
                   /\ \E g \in GPUs : /\ gpu[g].state = "reporting" /\ gpu'[g].state # "reporting"
                                      /\ gpu[g].elapsed < panel.tuned /\ panel'.tuned = gpu[g].elapsed
<1>1. StoodInv /\ PanelInv /\ PanelInv' /\ [Next]_vars => (Falls => Late)
  <2> SUFFICES ASSUME StoodInv, PanelInv, PanelInv', [Next]_vars, Falls PROVE Late
    OBVIOUS
  <2> HIDE DEF Late
  <2>1. SampleTypes /\ panel \in Panels /\ panel' \in Panels /\ IsSample(sample)
    BY DEF StoodInv, PanelInv, SampleTypes
  <2>2. /\ Bar(panel) \in Int /\ Bar(panel') \in Int
        /\ ~(Bar(panel') >= Bar(panel))
    <3>1. Bar(panel) \in Int /\ Bar(panel') \in Int
      BY <2>1, BarIsInt
    <3> QED
      BY <3>1
  <2>3. CASE UNCHANGED panel
    BY <2>2, <2>3
  <2>4. CASE StartsSample
    <3>1. stage = "idle" /\ sample' = NextSample.at /\ stage' = "running" /\ NextSample.at # NoSample
      BY <2>4 DEF StartsSample
    <3>2. ShowsSample /\ ShowsSample' /\ panel'.state = "active"
      BY <3>1 DEF PanelInv
    <3>3. panel'.index = panel.index + 1
      BY <2>1, <3>1, <3>2, NextIsSample DEF ShowsSample
    <3> QED
      BY <2>1, <2>2, <3>2, <3>3, BarGrows
  <2>5. ASSUME NEW g \in GPUs, Progress(g)
        PROVE  Late
    <3> DEFINE elapsed == gpu[g].elapsed
    <3>1. /\ Running /\ IsReport(g) /\ UNCHANGED <<stage, sample>>
          /\ panel' = IF stage = "running" THEN Tunes(ShowsProgress(panel), "active", sample, elapsed)
                      ELSE ShowsProgress(panel)
      BY <2>5 DEF Progress, IsReport, sampleVars
    <3>2. ShowsProgress(panel) \in Panels /\ elapsed \in Nat
      BY <2>1, EventPanel DEF PanelInv, GpusShape
    <3>3. CASE stage # "running"
      <4>1. panel'.state = panel.state /\ panel'.index = panel.index /\ panel'.tuned = panel.tuned
        BY <2>1, <3>1, <3>3, EventPanel
      <4>2. panel.tuned \in Nat
        BY <2>1 DEF Panels
      <4> QED
        BY <2>1, <2>2, <4>1, <4>2, BarGrows
    <3>4. CASE stage = "running"
      <4>1. panel.state = "active" /\ ShowsSample /\ (Several \/ InOrder)
        BY <3>4 DEF PanelInv
      <4>2. /\ panel'.state = "active" /\ panel'.index = sample.index /\ panel'.tuned = elapsed
        <5> DEFINE base == ShowsProgress(panel)
        <5>1. base \in Panels /\ panel' = Tunes(base, "active", sample, elapsed)
          BY <3>1, <3>2, <3>4
        <5> HIDE DEF base, elapsed
        <5> QED
          BY <2>1, <3>2, <5>1, TunesPanel, ShownStates
      <4>3. panel.tuned \in Nat /\ ~(elapsed >= panel.tuned)
        BY <2>1, <2>2, <4>1, <4>2, BarGrows DEF ShowsSample, Panels
      <4>4. elapsed < panel.tuned
        BY <3>2, <4>3
      <4>5. Several
        BY <3>1, <3>2, <4>1, <4>3 DEF InOrder
      <4>6. gpu'[g].state # "reporting"
        <5>1. PICK event \in {Searching, Ended} : Sets(g, event)
          BY <2>5 DEF Progress
        <5>2. gpu'[g] = event
          BY <5>1 DEF Sets, PanelInv, GpusShape, GPUs
        <5> QED
          BY <5>1, <5>2 DEF Searching, Ended
      <4> QED
        BY <3>1, <3>4, <4>2, <4>4, <4>5, <4>6 DEF Late, IsReport
    <3> QED
      BY <3>3, <3>4
  <2>6. ASSUME NEW g \in GPUs, TellsError(g)
        PROVE  Late
    <3>1. panel' = ShowsError(panel)
      BY <2>6 DEF TellsError
    <3>2. panel'.state = panel.state /\ panel'.index = panel.index /\ panel'.tuned = panel.tuned
      BY <2>1, <3>1, EventPanel
    <3>3. panel.tuned \in Nat
      BY <2>1 DEF Panels
    <3> QED
      BY <2>1, <2>2, <3>2, <3>3, BarGrows
  <2>7. CASE SampleEnds
    <3>1. stage = "running" /\ stage' = "idle" /\ UNCHANGED sample
      BY <2>7 DEF SampleEnds
    <3>2. ShowsSample /\ ShowsSample' /\ panel'.state \in {"sampled", "skipped"}
      BY <3>1 DEF PanelInv, IsAutotuning
    <3> QED
      BY <2>1, <2>2, <3>1, <3>2, BarGrows DEF ShowsSample
  <2>8. CASE Starts
    BY <2>8 DEF Starts, PanelInv, IsAutotuning
  <2>9. CASE Selects
    <3>1. PICK state \in Shown : state \in {"selected", "default"} /\ panel' = Tunes(panel, state, NoSample, 0)
      BY <2>9, ShownStates DEF Selects
    <3>2. Tunes(panel, state, NoSample, 0).state = state
      BY <2>1, TunesPanel, ShownStates, NoSampleIsSample
    <3>3. panel'.state = state
      BY <3>1, <3>2
    <3> QED
      BY <3>1, <3>3 DEF IsAutotuning
  <2>10. CASE RunEnds
    <3>1. \E stop : Ends(stop)
      BY <2>10 DEF RunEnds
    <3>2. panel'.state = "none"
      BY <2>1, <3>1 DEF Ends, Panels
    <3> QED
      BY <3>2 DEF IsAutotuning
  <2>11. (\/ Measures \/ Cancels \/ Interferes \/ (Saves(Bench) /\ UNCHANGED benchVars) \/ UNCHANGED vars
          \/ \E g \in GPUs : Reports(g) \/ Breaks(g) \/ FailsUnheard(g))
           => UNCHANGED panel
    BY DEF Measures, Cancels, Interferes, Reports, Breaks, FailsUnheard, benchVars, vars
  <2> QED
    BY <2>3, <2>4, <2>5, <2>6, <2>7, <2>8, <2>9, <2>10, <2>11 DEF Next, BenchRuns, GpuRuns
<1>2. StoodInv /\ PanelInv /\ StoodInv' /\ PanelInv' /\ [Next]_vars => [Falls => Late]_vars
  BY <1>1
<1> QED
  BY <1>2, StoodInit, StoodNext, PanelInit, PanelNext, PTL DEF Spec, BarFallsOnlyToLateProgress
=============================================================================
