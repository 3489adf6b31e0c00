------------------------------ MODULE Algorithms ------------------------------
(***************************************************************************)
(* The computations of the program that no other part interleaves with,    *)
(* side by side: patterns and scores (Patterns), the field (Field), the    *)
(* walk of the lanes through the keys (KeyWalk) and the parameters tried   *)
(* by autotuning (TuneCandidates).  A behaviour is one computation.        *)
(***************************************************************************)
EXTENDS Patterns, Field, KeyWalk, TuneCandidates

CONSTANTS
  EdgeLimbs,   (* the limbs of the field elements to try                   *)
  Memories,    (* the memories of a GPU to try, in MiB                     *)
  Mores        (* and by how much more another one may have                *)

\* Memories are counted in bytes by an unsigned number.
ASSUME MemoriesAssumption == Memories \subseteq Nat /\ Mores \subseteq Nat

VARIABLE given   (* what the field or the tuner computes from              *)

NothingGiven == [kind |-> "nothing"]

AlgorithmsInit == Init /\ WalkInit /\ given = NothingGiven

Untouched == text = NoText /\ walk = NoWalk /\ given = NothingGiven

EdgeElements ==
  {a \in {b[1] + b[2] * Place(1) + b[3] * Place(2) + b[4] * Place(3) :
            b \in [1 .. 4 -> EdgeLimbs]} : a \in Elements}
  \cup {FieldMod \div 2, FieldMod \div 2 + 1}

\* A kernel computes with two field elements.
Computes(a, b) ==
  Untouched /\ given' = [kind |-> "elements", a |-> a, b |-> b] /\ UNCHANGED <<vars, walkVars>>

\* A device is tuned, and one with more memory.
Tunes(memory, more) ==
  /\ Untouched /\ given' = [kind |-> "memory", memory |-> memory, more |-> more]
  /\ UNCHANGED <<vars, walkVars>>

\* A search starts from a seed.
Walks(private, seed) == Untouched /\ LaunchWalk(private, seed) /\ UNCHANGED <<vars, given>>

AlgorithmsNext ==
  \/ walk = NoWalk /\ given = NothingGiven /\ Next /\ UNCHANGED <<walkVars, given>>
  \/ \E a, b \in EdgeElements : Computes(a, b)
  \/ \E memory \in Memories, more \in Mores : Tunes(memory, more)
  \/ \E private \in Privates, seed \in Seeds : Walks(private, seed)
  \/ WalkOn /\ UNCHANGED <<vars, given>>

AlgorithmsSpec == AlgorithmsInit /\ [][AlgorithmsNext]_<<vars, walkVars, given>>

-----------------------------------------------------------------------------
(* Properties.                                                             *)

\* The limbs of the kernels compute in the prime field (FieldExact).
ElementsExact == given.kind = "elements" => FieldExact(given.a, given.b)

\* Whatever a GPU's memory, autotuning only tries what can run on it
\* (CandidatesFit).
CandidatesCanRun == given.kind = "memory" => CandidatesFit(given.memory, given.more)
=============================================================================
