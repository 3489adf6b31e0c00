---------------------------- MODULE MCAlgorithms ----------------------------
EXTENDS Algorithms

\* A checksum that now rises and now falls as far as it can between one
\* address and the next.
MCChecksum == [x \in 0 .. Space - 1 |-> IF x % 2 = 0 THEN Sums - 1 ELSE (x \div 2) % Sums]

\* On  y^2 = x^3 + 6.
MCGenerator == <<1, 707>>

\* Small and large seeds, and those whose words are about to overflow.
MCSeeds == (0 .. 24) \cup (236 .. 260) \cup (3980 .. 4095) \cup {64 * k + 13 : k \in 0 .. 63}

MCMemories == {16 * k : k \in 0 .. 3072} \cup {30719, 8191, 8193}
=============================================================================
