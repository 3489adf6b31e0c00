----------------------------- MODULE KeySearch -----------------------------
(***************************************************************************)
(* What one search on one GPU promises its caller, with the rounds, lanes, *)
(* kernels and buffers hidden: keys are tried one by one, a report names a *)
(* key that was tried, no tried key beats it, and it beats every report    *)
(* before it.  The comment at cuda/native/backend.cu:826 and the callback  *)
(* contract in cuda/native/provanity_cuda.h are what it abstracts.         *)
(***************************************************************************)
EXTENDS Integers, Sequences

CONSTANTS
  Key,      (* the keys there are, named by their distance from the seed *)
  Score     (* the scores an address can get: numbers, 0 for a miss      *)

VARIABLES
  tried,    (* <<key, score>> pairs                      *)
  reports,  (* <<key, score>> pairs, in order of report  *)
  over      (* the call has returned                     *)

vars == <<tried, reports, over>>

Init == tried = {} /\ reports = <<>> /\ over = FALSE

\* A key is tried once, and has one score.
Try(k, s) ==
  /\ ~over
  /\ \A p \in tried : p[1] # k
  /\ tried' = tried \cup {<<k, s>>}
  /\ UNCHANGED <<reports, over>>

\* The call may return with the report its caller stops it at.
Report(p) ==
  /\ ~over
  /\ p \in tried /\ p[2] > 0
  /\ \A q \in tried : q[2] <= p[2]
  /\ Len(reports) > 0 => reports[Len(reports)][2] < p[2]
  /\ reports' = Append(reports, p)
  /\ over' \in BOOLEAN
  /\ UNCHANGED tried

Finish == ~over /\ over' = TRUE /\ UNCHANGED <<tried, reports>>

Next ==
  \/ \E k \in Key, s \in Score : Try(k, s)
  \/ \E p \in tried : Report(p)
  \/ Finish

Spec == Init /\ [][Next]_vars
=============================================================================
