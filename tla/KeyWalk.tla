------------------------------ MODULE KeyWalk ------------------------------
(***************************************************************************)
(* How a lane of the kernels gets from the seed to the point it hashes in  *)
(* each round (cuda/native/kernels.cuh, point.cuh, secp256k1_tables), and  *)
(* how the host gets from the seed and the attempt number of a result to   *)
(* the private key (format_offset in backend.cu, crypto/splitkey.go).  The *)
(* field is that of Field, here as arithmetic modulo Prime; a hash is the  *)
(* point it is computed from.  Scalars are seeds of `Words` words of       *)
(* `WordBytes` digits each.                                                *)
(***************************************************************************)
EXTENDS Numbers, SequencesExt

CONSTANTS
  Prime, Order,      (* of the field and of the group                      *)
  Generator,         (* <<x, y>>, on  y^2 = x^3 + b                        *)
  Words,             (* of a seed: 4                                       *)
  WordBytes,         (* digits of a word: 8                                *)
  ByteBits,          (* of a digit: 8                                      *)
  WalkLanes,         (* lanes of a launch                                  *)
  GroupSize,         (* PV_INVERT_GROUP_SIZE: lanes a thread inverts       *)
  Privates, Seeds,   (* initial private keys and seeds to try              *)
  MaxRounds          (* bound: rounds after the first                      *)

ByteBase == Powers(2, ByteBits)[ByteBits]
ScalarBytes == Words * WordBytes
DigitPower == Powers(ByteBase, ScalarBytes)
WordPower(i) == DigitPower[i * WordBytes]
WordBase == WordPower(1)
AllSeeds == 0 .. WordPower(Words) - 1

ASSUME WalkAssumption ==
  /\ {Words, WordBytes, ByteBits, WalkLanes, GroupSize} \subseteq Nat \ {0} /\ MaxRounds \in Nat
  /\ WalkLanes % GroupSize = 0   \* provanity_cuda_run refuses other sizes
  /\ Privates \subseteq 1 .. Order - 1 /\ Seeds \subseteq AllSeeds
  /\ WalkLanes * (MaxRounds + 1) <= WordBase   \* attempt numbers are words

\* The field is of prime order; the order of the group is odd, below all that
\* the words can hold, and near to it.
ASSUME OrderAssumption ==
  /\ Prime \in Nat /\ Prime > 2 /\ \A d \in 2 .. Prime - 1 : Prime % d # 0
  /\ Order \in Nat /\ Order % 2 = 1 /\ WalkLanes < Order /\ Order < WordPower(Words)
  /\ ByteBase * (WordPower(Words) - Order) < WordPower(Words)
  /\ Order + WalkLanes <= WordPower(Words) + 1

VARIABLES
  walk,     (* what the run was started with: private key and seed          *)
  round,    (* the round whose hashes are held                              *)
  step,     (* g_iterate_step, the point added in each round                *)
  lanes     (* per lane: x, lambda and inv of the state, and the hash       *)

walkVars == <<walk, round, step, lanes>>

Lanes == 0 .. WalkLanes - 1
Stride == WalkLanes \div GroupSize

-----------------------------------------------------------------------------
(* Points: point.cuh has affine and Jacobian ones, none for infinity.      *)

Plus(a, b) == (a + b) % Prime
Minus(a, b) == (a - b) % Prime
Mul(a, b) == (a * b) % Prime
Sqr(a) == Mul(a, a)

\* What felt_mod_inv finds (FieldIsExact): 0 is returned for 0.
Inverses ==
  [a \in 0 .. Prime - 1 |-> IF a = 0 THEN 0 ELSE CHOOSE i \in 1 .. Prime - 1 : Mul(a, i) = 1]

Inv(a) == Inverses[a]

Infinity == <<0, 0>>

\* The third point of a line through <<x, y>> and one with abscissa x2.
Chord(slope, x, y, x2) ==
  LET x3 == Minus(Minus(Sqr(slope), x), x2) IN <<x3, Minus(Mul(Minus(x, x3), slope), y)>>

DoubleAffine(p) ==
  Chord(Mul(Mul(3, Sqr(p[1])), Inv(Plus(p[2], p[2]))), p[1], p[2], p[1])

\* point_add takes equal abscissas for equal points.
PointAdd(a, b) ==
  IF a = Infinity THEN b
  ELSE IF b = Infinity THEN a
  ELSE IF a[1] = b[1] THEN DoubleAffine(a)
  ELSE Chord(Mul(Minus(b[2], a[2]), Inv(Minus(b[1], a[1]))), a[1], a[2], b[1])

\* jac_add_affine leaves it to its callers that neither is infinite and that
\* they differ in x: otherwise h is 0, and so is z.
JacAdd(j, a) ==
  LET zz == Sqr(j.z)
      h == Minus(Mul(a[1], zz), j.x)
      r == Minus(Mul(Mul(a[2], j.z), zz), j.y)
      v == Mul(j.x, Sqr(h))
      x3 == Minus(Minus(Minus(Sqr(r), Mul(h, Sqr(h))), v), v)
  IN [x |-> x3, y |-> Minus(Mul(r, Minus(v, x3)), Mul(j.y, Mul(h, Sqr(h)))), z |-> Mul(j.z, h)]

-----------------------------------------------------------------------------
(* Multiples of the generator, from a table of those of each digit.        *)

Bytes == 0 .. ScalarBytes - 1
Lowest == [i \in 1 .. ScalarBytes |-> i - 1]   \* from the lowest byte on

Digit(scalar, byte) == (scalar \div DigitPower[byte]) % ByteBase

\* pv_build_precomp, one thread per digit.
Precomp ==
  [byte \in Bytes |->
    LET doubled[k \in 0 .. byte * ByteBits] ==
          IF k = 0 THEN Generator ELSE DoubleAffine(doubled[k - 1])
        multiple[v \in 0 .. ByteBase - 1] ==
          IF v = 0 THEN Infinity ELSE PointAdd(multiple[v - 1], doubled[byte * ByteBits])
    IN [v \in 1 .. ByteBase - 1 |-> multiple[v]]]

\* What a digit adds.
Term(scalar, byte) == Precomp[byte][Digit(scalar, byte)]

\* pv_scalar_times_g: the terms of the digits that are not 0.
TimesG(scalar) ==
  FoldLeft(LAMBDA sum, byte : IF Digit(scalar, byte) = 0 THEN sum
                              ELSE PointAdd(sum, Term(scalar, byte)),
           Infinity, Lowest)

\* pv_scalar_times_g_jac: the first one is lifted, not added.
TimesGJac(scalar) ==
  LET AddTerm(acc, term) ==
        [initialised |-> TRUE,
         sum |-> IF acc.initialised THEN JacAdd(acc.sum, term)
                 ELSE [x |-> term[1], y |-> term[2], z |-> 1]]
  IN FoldLeft(LAMBDA acc, byte : IF Digit(scalar, byte) = 0 THEN acc
                                 ELSE AddTerm(acc, Term(scalar, byte)),
              [initialised |-> FALSE, sum |-> [x |-> 0, y |-> 0, z |-> 0]], Lowest).sum

-----------------------------------------------------------------------------
(* Words.                                                                  *)

WordOf(s, i) == (s \div WordPower(i)) % WordBase

\* The words of a seed after n was added to the lowest one: each one carries
\* into the next as long as it comes out as 0, the lowest if it overflows.
WithCarries(s, n) ==
  LET low == (WordOf(s, 0) + n) % WordBase
      Carry(acc, i) ==
        LET word == (WordOf(s, i) + acc.carry) % WordBase IN
        [value |-> acc.value + word * WordPower(i),
         carry |-> IF acc.carry = 1 /\ word = 0 THEN 1 ELSE 0]
  IN FoldLeft(Carry, [value |-> low, carry |-> IF low < n THEN 1 ELSE 0],
              [i \in 1 .. Words - 1 |-> i]).value

\* Mutant: the carry does not go beyond the second word.
FormatOffset_OneCarry(seed, attempt) ==
  LET low == WordOf(seed, 0) + attempt
      second == WordOf(seed, 1) + (low \div WordBase)
  IN (low % WordBase) + (second % WordBase) * WordBase
       + (seed \div WordPower(2)) * WordPower(2)

\* format_offset, on the host.
FormatOffset(seed, attempt) == WithCarries(seed, attempt)

\* The scalar of a lane in pv_iterate_init_jac.
LaneScalar(seed, id) == WithCarries(seed, id)

\* ComposePrivateKey: 0 for a key it refuses.
ComposePrivateKey(private, offset) ==
  IF private = 0 \/ offset >= Order THEN 0 ELSE (private + offset) % Order

-----------------------------------------------------------------------------
(* Kernels.                                                                *)

\* pv_batched_invert, and pv_iterate_inverse with a numerator: the lanes of a
\* thread, one stride apart, share one inversion of their product, from which
\* each one takes those before it and those after it.
GroupInverse(v, scale) ==
  [id \in Lanes |->
    LET group == [k \in 1 .. GroupSize |-> v[(id % Stride) + (k - 1) * Stride]]
        Product(s) == FoldLeft(Mul, 1, s)
        k == id \div Stride + 1
    IN Mul(Mul(Mul(Inv(Product(group)), scale), Product(SubSeq(group, k + 1, GroupSize))),
           Product(SubSeq(group, 1, k - 1)))]

\* pv_iterate_init_finalize, from a Jacobian point and the inverse of its z.
FinalizedLane(point, zInv, stepPoint) ==
  LET x == Mul(point.x, Sqr(zInv))
      y == Mul(point.y, Mul(Sqr(zInv), zInv))
      delta == Minus(stepPoint[1], x)
  IN [x |-> x, lambda |-> Mul(Plus(stepPoint[2], y), Inv(delta)), inv |-> delta, hash |-> <<x, y>>]

\* pv_iterate_step: the slope follows from the last one, by the factor that
\* the inverse kernel left in the place of the difference.
SteppedLane(lane, factor) ==
  LET lambda == Minus(factor, lane.lambda)
      x == Minus(Minus(Sqr(lambda), step[1]), lane.x)
      delta == Minus(step[1], x)
  IN [x |-> x, lambda |-> lambda, inv |-> delta,
      hash |-> <<x, Minus(Mul(lambda, delta), step[2])>>]

-----------------------------------------------------------------------------
(* Behaviour.                                                              *)

NoWalk == [private |-> 0, seed |-> 0]

WalkInit == walk = NoWalk /\ round = 0 /\ step = Infinity /\ lanes = <<>>

\* launch_init: the step point, then the three kernels of the first round.
LaunchWalk(private, seed) ==
  LET stepPoint == TimesG(WalkLanes)
      base == TimesG(private)   \* the public key that the caller gives
      points == [id \in Lanes |-> JacAdd(TimesGJac(LaneScalar(seed, id)), base)]
      zInverses == GroupInverse([id \in Lanes |-> points[id].z], 1)
  IN /\ walk = NoWalk
     /\ walk' = [private |-> private, seed |-> seed] /\ round' = 0 /\ step' = stepPoint
     /\ lanes' = [id \in Lanes |-> FinalizedLane(points[id], zInverses[id], stepPoint)]

\* launch_round after the first one: the inverse kernel, then the step.
WalkOn ==
  LET factors == GroupInverse([id \in Lanes |-> lanes[id].inv], Plus(step[2], step[2])) IN
  /\ walk # NoWalk /\ round < MaxRounds
  /\ round' = round + 1
  /\ lanes' = [id \in Lanes |-> SteppedLane(lanes[id], factors[id])]
  /\ UNCHANGED <<walk, step>>

-----------------------------------------------------------------------------
(* Properties.                                                             *)

\* The group law, and the multiples of the generator by it.
Sum(p, q) ==
  IF Infinity \in {p, q} THEN IF p = Infinity THEN q ELSE p
  ELSE IF p[1] = q[1] /\ (p[2] + q[2]) % Prime = 0 THEN Infinity
  ELSE PointAdd(p, q)

Multiples[n \in 0 .. Order - 1] ==
  IF n = 0 THEN Infinity
  ELSE LET half == Multiples[n \div 2] IN
       IF n % 2 = 1 THEN Sum(Sum(half, half), Generator) ELSE Sum(half, half)

Multiple(n) == Multiples[n % Order]

\* What the kernels add to a multiple of the generator.
Addends ==
  {v * DigitPower[byte] : v \in 1 .. ByteBase - 1, byte \in Bytes} \cup Privates \cup {WalkLanes}

\* The points with the b of the generator in  y^2 = x^3 + b.
OnCurve(p) ==
  LET B(q) == Minus(Sqr(q[2]), Mul(q[1], Sqr(q[1])))
  IN p \in (0 .. Prime - 1) \X (0 .. Prime - 1) /\ B(p) = B(Generator)

\* The multiples of the generator up to the order are points of the curve, and
\* the group law adds them.
ASSUME GroupAssumption ==
  /\ \A n \in 1 .. Order - 1 : OnCurve(Multiple(n)) /\ Multiple(n) # Infinity
  /\ \A n \in 0 .. Order - 1, m \in Addends : Sum(Multiple(n), Multiple(m)) = Multiple(n + m)

\* The scalar of a lane's point in round r, if it went as intended.
Scalar(id, r) == (walk.private + walk.seed + id + r * WalkLanes) % Order

\* A lane that the formulas do not cover: in the first round its own point or
\* the sum is infinite or a doubling, in a later one it is the step point.
Exceptional(id, r) ==
  LET own == (walk.seed + id) % Order IN
  \/ own = 0 \/ own = walk.private \/ (own + walk.private) % Order = 0
  \/ \E k \in 0 .. r - 1 : Scalar(id, k) \in {WalkLanes, Order - WalkLanes} \/ Scalar(id, k + 1) = 0

\* A lane whose point was computed together with such a one.
Spoilt(id) == \E other \in Lanes : other % Stride = id % Stride /\ Exceptional(other, round)

\* The private key that the host makes from the offset of a result opens the
\* address that the kernel found: in every round, for every lane that no lane
\* of its inversion group has spoilt, as long as the offset is below the order.
OffsetOpensAddress ==
  walk # NoWalk =>
    \A id \in Lanes :
      LET attempt == round * WalkLanes + id
          key == ComposePrivateKey(walk.private, FormatOffset(walk.seed, attempt))
      IN (~ Spoilt(id) /\ walk.seed + attempt < Order) =>
           key # 0 /\ lanes[id].hash = Multiple(key)
=============================================================================
