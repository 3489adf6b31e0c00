---------------------------- MODULE ProfileCache ----------------------------
(***************************************************************************)
(* The cache of tuned launch parameters (local/tune.go), one JSON file in  *)
(* the profiles directory.  A save reads it, changes one entry and writes  *)
(* it back: os.WriteFile truncates the file and then writes, without a     *)
(* lock.  The other processes are searches that resolve their parameters   *)
(* and save what they tuned.                                               *)
(*                                                                         *)
(* A content is Torn (no file, a truncated one, or no JSON), or a version  *)
(* and, for each key, the parameters and the version of its entry.         *)
(***************************************************************************)
EXTENDS Integers, FiniteSets, SequencesExt

CONSTANTS
  Processes,   (* that save to the cache                                    *)
  Others,      (* the searches among them                                   *)
  Keys,        (* cudaProfileKey of the devices                             *)
  Params,      (* the positive launch parameters                            *)
  Stored,      (* what the file may hold at first                           *)
  Torn         (* not a content                                             *)

ASSUME ProcessesAssumption == Others \subseteq Processes

NoParams == 0      \* no entry, or one without positive parameters
Absent == [params |-> NoParams, version |-> "none"]
Current == "cuda-v2"   \* cudaProfileVersion

\* A content of this version has an entry, or none, for every key.
ASSUME StoredAssumption ==
  /\ NoParams \notin Params /\ Keys # {} /\ Torn.version # Current
  /\ \A c \in Stored : c # Torn /\ c.version = Current =>
       c = [version |-> Current, entries |-> [k \in Keys |-> c.entries[k]]]

Empty == [version |-> Current, entries |-> [k \in Keys |-> Absent]]

VARIABLES
  file,      (* the content of the file                                     *)
  saving,    (* [p]: "no", "reads", "truncates" or "writes"                 *)
  key,       (* [p]: the key of its device                                  *)
  tuned,     (* [p]: what it saves                                          *)
  cache,     (* [p]: the cache it has read and changed                      *)
  using,     (* [p]: a search's parameters, and where they are from         *)
  measured,  (* history: the <<key, parameters>> that were ever measured    *)
  expected,  (* history: the entries, had every save that ended been atomic *)
  spoilt     (* history: a write failed, or two saves overlapped            *)

historyVars == <<measured, expected, spoilt>>
saveVars == <<saving, key, tuned, cache, historyVars>>
cacheVars == <<file, saveVars, using>>

NotYet == [source |-> "none", params |-> NoParams]

CacheInit ==
  /\ file \in Stored
  /\ saving = [p \in Processes |-> "no"] /\ key = [p \in Processes |-> CHOOSE k \in Keys : TRUE]
  /\ tuned = [p \in Processes |-> NoParams] /\ cache = [p \in Processes |-> Empty]
  /\ using = [p \in Processes |-> NotYet]
  /\ expected = (IF file = Torn THEN Empty.entries
                 ELSE IF file.version = Current THEN file.entries ELSE Empty.entries)
  /\ measured = {<<k, expected[k].params>> : k \in Keys} /\ spoilt = FALSE

\* loadCUDAProfileCache: what cannot be used is an empty cache.
Loaded == IF file = Torn THEN Empty ELSE IF file.version = Current THEN file ELSE Empty

\* loadCUDAProfileCacheEntry.
Entry(k) ==
  LET entry == Loaded.entries[k] IN
  IF entry.version # Current THEN NoParams ELSE entry.params

-----------------------------------------------------------------------------
(* resolveCUDAProfile of a search: the cache, else a built-in profile,     *)
(* else it tunes and saves.                                                *)

Uses(p, source, n) == using' = [using EXCEPT ![p] = [source |-> source, params |-> n]]

Resolves(p, k) ==
  /\ using[p] = NotYet /\ p \in Others
  /\ key' = [key EXCEPT ![p] = k]
  /\ UNCHANGED <<file, cache, expected, spoilt>>
  /\ \/ /\ IF Entry(k) # NoParams THEN Uses(p, "cache", Entry(k)) ELSE Uses(p, "known", NoParams)
        /\ UNCHANGED <<saving, tuned, measured>>
     \/ /\ Entry(k) = NoParams
        /\ \E n \in Params :
             /\ Uses(p, "autotune", n)
             /\ tuned' = [tuned EXCEPT ![p] = n]
             /\ measured' = measured \cup {<<k, n>>}
        /\ saving' = [saving EXCEPT ![p] = "reads"]

-----------------------------------------------------------------------------
(* saveCUDAProfile.                                                        *)

\* Mutant: the other entries are dropped.
WithEntry_Alone(content, k, n) ==
  [Empty EXCEPT !.entries[k] = [params |-> n, version |-> Current]]

WithEntry(content, k, n) ==
  [content EXCEPT !.entries[k] = [params |-> n, version |-> Current]]

\* Without positive parameters, or without a directory, nothing is saved.
Reads(p) ==
  /\ saving[p] = "reads"
  /\ \/ /\ tuned[p] # NoParams /\ saving' = [saving EXCEPT ![p] = "truncates"]
        /\ cache' = [cache EXCEPT ![p] = WithEntry(Loaded, key[p], tuned[p])]
        /\ spoilt' = (spoilt \/ \E q \in Processes : saving[q] \in {"truncates", "writes"})
     \/ saving' = [saving EXCEPT ![p] = "no"] /\ UNCHANGED <<cache, spoilt>>
  /\ UNCHANGED <<file, key, tuned, using, measured, expected>>

\* os.WriteFile opens the file, and may fail to.
Truncates(p) ==
  /\ saving[p] = "truncates"
  /\ \/ file' = Torn /\ saving' = [saving EXCEPT ![p] = "writes"]
     \/ saving' = [saving EXCEPT ![p] = "no"] /\ UNCHANGED file
  /\ UNCHANGED <<key, tuned, cache, using, historyVars>>

\* It writes from the first byte on.  A process may be killed before that; a
\* write that fails, or one over a longer text that another has written in
\* between, leaves no JSON.
Writes(p) ==
  /\ saving[p] = "writes"
  /\ saving' = [saving EXCEPT ![p] = "no"]
  /\ \/ /\ file' = cache[p] /\ UNCHANGED spoilt
        /\ expected' = [expected EXCEPT ![key[p]] = [params |-> tuned[p], version |-> Current]]
     \/ file' = Torn /\ spoilt' = TRUE /\ UNCHANGED expected
  /\ UNCHANGED <<key, tuned, cache, using, measured>>

Saves(p) == Reads(p) \/ Truncates(p) \/ Writes(p)

-----------------------------------------------------------------------------
(* Properties.                                                             *)

\* Without a lock an entry is lost only when two saves overlap or a write
\* fails: a file no process is about to write, or is writing, holds the last
\* saved parameters of every key, those of other devices included.
QuietCacheKeepsAll ==
  (~spoilt /\ \A p \in Processes : saving[p] # "writes")
    => Loaded.entries = expected
=============================================================================
