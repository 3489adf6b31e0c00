-------------------------------- MODULE Field -------------------------------
(***************************************************************************)
(* The arithmetic of the kernels (cuda/native/field.cuh), modulo the       *)
(* pseudo-Mersenne prime  LimbBase^4 - FoldC  (2^256 - 2^32 - 977), on     *)
(* numbers of four limbs.  Sums and differences of four limbs with their   *)
(* carry chain are those of the numbers, cut to four limbs; products keep  *)
(* their columns and their folds, where a carry may get lost.              *)
(***************************************************************************)
EXTENDS Integers, SequencesExt

CONSTANTS
  LimbBase,  (* one more than the largest limb: 2^64                       *)
  FoldC      (* 2^32 + 977                                                 *)

\* What limb i counts, from 0 on.
Place(i) == <<1, LimbBase, LimbBase * LimbBase, LimbBase * LimbBase * LimbBase>>[i + 1]

FullBase == LimbBase * LimbBase * LimbBase * LimbBase
FieldMod == FullBase - FoldC   \* g_mod

\* The base is even; the modulus is an odd prime.
ASSUME FieldAssumption ==
  /\ LimbBase \in Nat \ {0} /\ LimbBase % 2 = 0 /\ FoldC \in 1 .. LimbBase - 1
  /\ FieldMod % 2 = 1 /\ \A d \in 2 .. FieldMod - 1 : FieldMod % d # 0

Limb(a, i) == (a \div Place(i)) % LimbBase

\* felt_add_raw, felt_sub_raw: four limbs and what is carried or borrowed.
AddRaw(a, b) == [v |-> (a + b) % FullBase, carry |-> (a + b) \div FullBase]
SubRaw(a, b) == [v |-> (a - b) % FullBase, borrow |-> a < b]

\* felt_fold_overflow: 2^256 is FoldC, again if that overflows.
FoldOverflow(a) ==
  LET fold[r \in 0 .. FullBase - 1] ==
        LET sum == AddRaw(r, FoldC) IN IF sum.carry = 1 THEN fold[sum.v] ELSE sum.v
  IN fold[a]

ReduceOnce(a) == IF SubRaw(a, FieldMod).borrow THEN a ELSE SubRaw(a, FieldMod).v

\* felt_normalize: eight times at most.
Normalized(a) == FoldLeft(LAMBDA r, i : ReduceOnce(r), a, [i \in 1 .. 8 |-> i])

ModAdd(a, b) ==
  LET sum == AddRaw(a, b) IN Normalized(IF sum.carry = 1 THEN FoldOverflow(sum.v) ELSE sum.v)

ModSub(a, b) ==
  LET difference == SubRaw(a, b) IN
  IF difference.borrow THEN AddRaw(difference.v, FieldMod).v ELSE difference.v

-----------------------------------------------------------------------------
(* Products.                                                               *)

\* felt_acc3: into the accumulator of a column, of three limbs.
Acc3(sum, product) == (sum + product) % (LimbBase * LimbBase * LimbBase)

\* felt_mul_512_comba: column by column.
Comba(a, b) ==
  LET P(i, j) == Limb(a, i) * Limb(b, j)
      Shifted(sum) == sum \div LimbBase
      s0 == Acc3(0, P(0, 0))
      s1 == Acc3(Acc3(Shifted(s0), P(0, 1)), P(1, 0))
      s2 == Acc3(Acc3(Acc3(Shifted(s1), P(0, 2)), P(1, 1)), P(2, 0))
      s3 == Acc3(Acc3(Acc3(Acc3(Shifted(s2), P(0, 3)), P(1, 2)), P(2, 1)), P(3, 0))
      s4 == Acc3(Acc3(Acc3(Shifted(s3), P(1, 3)), P(2, 2)), P(3, 1))
      s5 == Acc3(Acc3(Shifted(s4), P(2, 3)), P(3, 2))
      s6 == Acc3(Shifted(s5), P(3, 3))
  IN [i \in 1 .. 8 |-> <<s0, s1, s2, s3, s4, s5, s6, Shifted(s6)>>[i] % LimbBase]

\* What one high limb folds to, added from limb i on to eight limbs, the
\* lowest four of which are `low` and the fifth what was carried so far.
FoldLimb(acc, hi, i) ==
  LET sum == acc.low + FullBase * acc.carry + hi * FoldC * Place(i)
      propagated == sum \div (FullBase * FullBase)
      eight == sum % (FullBase * FullBase)
  IN [low |-> eight % FullBase, carry |-> (Limb(eight \div FullBase, 0) + propagated) % LimbBase]

\* Mutant: what the first fold carries out is dropped.
Refold_Dropped(acc) == acc.low

\* The second fold, until nothing is carried out.
Refold(acc) ==
  LET refold[r \in [low : 0 .. FullBase - 1, carry : 0 .. LimbBase - 1]] ==
        IF r.carry = 0 THEN r.low ELSE refold[FoldLimb([r EXCEPT !.carry = 0], r.carry, 0)]
  IN refold[acc]

\* felt_reduce_512
Reduce512(limbs) ==
  LET low == limbs[1] + limbs[2] * Place(1) + limbs[3] * Place(2) + limbs[4] * Place(3)
      folded == FoldLeft(LAMBDA acc, i : FoldLimb(acc, limbs[5 + i], i),
                         [low |-> low, carry |-> 0], <<0, 1, 2, 3>>)
  IN ReduceOnce(ReduceOnce(Refold(folded)))

ModMul(a, b) == Reduce512(Comba(a, b))
-----------------------------------------------------------------------------
(* Inverses.                                                               *)

\* felt_mod_half: the sum may have one bit more, which is shifted in.
ModHalf(a) ==
  LET sum == IF a % 2 = 1 THEN AddRaw(a, FieldMod) ELSE [v |-> a, carry |-> 0]
  IN sum.v \div 2 + sum.carry * (FullBase \div 2)

\* The loop of felt_mod_inv, where u = a * x and v = a * y: halved while even,
\* then the smaller one subtracted from the larger.
InvertOnce(s) ==
  IF s.u % 2 = 0 THEN [s EXCEPT !.u = @ \div 2, !.x = ModHalf(@)]
  ELSE IF s.v % 2 = 0 THEN [s EXCEPT !.v = @ \div 2, !.y = ModHalf(@)]
  ELSE IF s.u >= s.v THEN [s EXCEPT !.u = @ - s.v, !.x = ModSub(@, s.y)]
  ELSE [s EXCEPT !.v = @ - s.u, !.y = ModSub(@, s.x)]

\* felt_mod_inv: until one of them is 0.
ModInv(a) ==
  LET F == 0 .. FullBase - 1
      invert[s \in [u : F, v : F, x : F, y : F]] ==
        IF s.u = 0 THEN Normalized(s.y)
        ELSE IF s.v = 0 THEN Normalized(s.x)
        ELSE invert[InvertOnce(s)]
  IN IF a = 0 THEN 0 ELSE invert[[u |-> a, v |-> FieldMod, x |-> 1, y |-> 0]]

-----------------------------------------------------------------------------
(* Properties.                                                             *)

Elements == 0 .. FieldMod - 1

\* The limbs compute in the prime field: every result is the right one and
\* reduced, for reduced operands.
FieldExact(a, b) ==
  /\ ModAdd(a, b) = (a + b) % FieldMod
  /\ ModSub(a, b) = (a - b) % FieldMod
  /\ ModMul(a, b) = (a * b) % FieldMod
  /\ ModHalf(a) \in Elements /\ (2 * ModHalf(a)) % FieldMod = a
  /\ ModInv(a) \in Elements /\ (a # 0 => (a * ModInv(a)) % FieldMod = 1)
=============================================================================
