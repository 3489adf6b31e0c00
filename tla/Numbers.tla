------------------------------ MODULE Numbers -------------------------------
(***************************************************************************)
(* Powers, as a table: the provers know no exponentiation.                 *)
(***************************************************************************)
EXTENDS Integers

\* The powers of a base up to the n-th.
Powers(base, n) ==
  LET power[k \in 0 .. n] == IF k = 0 THEN 1 ELSE base * power[k - 1] IN power
=============================================================================
