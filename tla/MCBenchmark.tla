---------------------------- MODULE MCBenchmark -----------------------------
(* A file of an earlier version, which is read like a missing one, and one  *)
(* with an entry.  A torn file comes of a write.                            *)
EXTENDS Benchmark
MCEntries == [k \in Keys |-> IF k = "k1" THEN [params |-> 1, version |-> Current] ELSE Absent]
MCStored ==
  {[version |-> Current, entries |-> MCEntries],
   [version |-> "v0", entries |-> [k \in Keys |-> [params |-> 2, version |-> "v0"]]]}
MCKeys == {"k1", "k2"}
MCParams == 1 .. Candidates
MCTorn == [version |-> "torn", entries |-> <<>>]
=============================================================================
