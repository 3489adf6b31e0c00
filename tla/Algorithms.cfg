\* Addresses of 3 nibbles, or of 3 bytes of 4 values each; base-3 texts of 7
\* characters.  The longest prefix leaves two characters, just more than the
\* checksum may move; the longest suffix just fits the word.
\* Field elements of four limbs of three bits each, at the edges.
\* A curve of prime order near 3 words of 4 bits, four lanes in two groups of
\* inversions, four rounds; seeds that carry through every word.
\* Memories of a GPU up to 48 GiB, every 16 MiB and around 30 GiB.
\* One computation, then the behaviour ends.
CONSTANTS
  HexLen = 3
  Base = 3
  Length = 7
  Tee = 1
  Byte = 4
  AddressBytes = 3
  SumBytes = 1
  Version = 3
  Checksum <- MCChecksum
  MaxPrefix = 4
  MaxSuffix = 3
  WordBits = 7
  LimbBase = 8
  FoldC = 3
  EdgeLimbs = {0, 1, 7}
  Prime = 3967
  Order = 4093
  Generator <- MCGenerator
  Words = 3
  WordBytes = 2
  ByteBits = 2
  WalkLanes = 4
  GroupSize = 2
  Privates = {1, 1000, 4092}
  Seeds <- MCSeeds
  MaxRounds = 3
  Memories <- MCMemories
  Mores = {0, 1, 256, 2048}
SPECIFICATION AlgorithmsSpec
CHECK_DEADLOCK FALSE
INVARIANTS
  ScoresAgree
  ParserIsExact
  ElementsExact
  OffsetOpensAddress
  CandidatesCanRun
