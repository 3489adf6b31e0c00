------------------------------ MODULE Patterns ------------------------------
(***************************************************************************)
(* A pattern on its way from what the user typed to the GPU and back:      *)
(* ParsePattern and ParseTronPattern (vanity/pattern.go), cudaConfig       *)
(* (local/cuda_config.go) with the Tron prefix ladder (crypto/tron.go),    *)
(* the scoring kernels (cuda/native/kernels.cuh), and the host's own       *)
(* score of the address they report (local/result.go).                     *)
(*                                                                         *)
(* Characters stand for their classes: "0" a digit, "a" and "A" letters of *)
(* both cases, "X" and "?" wildcards, "g" anything else.  A base58         *)
(* character is its index in the alphabet, BadDigit any other character.   *)
(* The sizes 58, 34, 256, 20, 4, 16, 8 and 64 bits are parameters.         *)
(***************************************************************************)
EXTENDS Numbers, FiniteSets, SequencesExt

CONSTANTS
  HexLen,         (* nibbles of an address: 40                             *)
  Base,           (* of base58                                             *)
  Length,         (* characters of a Tron address: 34                      *)
  Tee,            (* the index of T                                        *)
  Byte,           (* 256                                                   *)
  AddressBytes,   (* 20                                                    *)
  SumBytes,       (* 4, of the checksum                                    *)
  Version,        (* the byte before the address: 0x41                     *)
  Checksum,       (* of each address                                       *)
  MaxPrefix,      (* MaxTronConcretePos and TronMaxPrefixLevels: 16        *)
  MaxSuffix,      (* MaxTronSuffixLen and TronMaxSuffixLen: 8              *)
  WordBits        (* of the kernel's remainder: 64                         *)

PayloadBytes == 1 + AddressBytes + SumBytes
BasePower == Powers(Base, Length)
BytePower == Powers(Byte, PayloadBytes)

Space == BytePower[AddressBytes]   \* addresses
Sums == BytePower[SumBytes]        \* checksums
Word == Powers(2, WordBits)[WordBits]

ASSUME SizesAssumption ==
  /\ HexLen \in Nat /\ WordBits \in Nat /\ AddressBytes \in Nat /\ SumBytes \in Nat
  /\ Base \in Nat /\ Base > 1 /\ Tee \in 0 .. Base - 1
  /\ Byte \in Nat /\ Byte > 1 /\ Version \in 0 .. Byte - 1
  /\ MaxPrefix \in Nat /\ MaxSuffix \in Nat /\ Length \in Nat
  /\ MaxPrefix < Length /\ MaxSuffix <= Length

\* Every Tron address has Length characters, the first one T, and a prefix
\* leaves room for more than the checksum to vary; a remainder has room for
\* another byte.
ASSUME TronAssumption ==
  /\ Checksum \in [0 .. Space - 1 -> 0 .. Sums - 1]
  /\ Tee * BasePower[Length - 1] <= Version * Space * Sums
  /\ (Version + 1) * Space * Sums <= (Tee + 1) * BasePower[Length - 1]
  /\ 2 * Sums <= BasePower[Length - 1 - MaxPrefix]
  /\ BasePower[MaxSuffix] * Byte <= Word

VARIABLES
  stage,     (* "typed", "parsed", "configured", "scored", or "refused"     *)
  text,      (* what the user typed                                         *)
  pattern,   (* the vanity.Pattern made of it                               *)
  config,    (* the cuda.Config made of that                                *)
  address    (* an address the GPU comes to: its nibbles, or its number     *)

vars == <<stage, text, pattern, config, address>>

HexChars == {"0", "a", "A", "X", "?", "g"}
Nibbles  == {0, 10, 11}
BadDigit == -1
Digits   == 0 .. Base - 1
TextDigits == Digits \cup {BadDigit}

Kinds == {"pattern", "leading", "tron-prefix", "tron-suffix"}
NoText == [kind |-> "none", value |-> <<>>, count |-> 0]

Init ==
  /\ stage = "typed" /\ text = NoText /\ pattern = NoText
  /\ config = [mode |-> "none", target |-> <<>>, stop |-> 0] /\ address = <<>>

MaxOf(S) == CHOOSE k \in S : \A j \in S : j <= k

\* The length of the run that begins at 1.
Run(matching, n) == MaxOf({k \in 0 .. n : 1 .. k \subseteq matching})

-----------------------------------------------------------------------------
(* Tron addresses.                                                         *)

\* The number that n big-endian characters, or bytes, stand for.
Value(base, s) == FoldLeft(LAMBDA v, c : v * base + c, 0, s)
InBase(base, power, n, v) == [i \in 1 .. n |-> (v \div power[n - i]) % base]

\* version || address || checksum
Payload(x) == Version * Space * Sums + x * Sums + Checksum[x]

TronAddress(x) == InBase(Base, BasePower, Length, Payload(x))

\* The prefix filled up with one character.
Padded(prefix, c) == prefix \o [i \in 1 .. Length - Len(prefix) |-> c]

\* Mutant: the lower end of the range is forgotten.
Reachable_UpperEnd(prefix) == Value(Base, Padded(prefix, 0)) <= Payload(Space - 1)

\* tronPrefixReachable: what the prefix can be filled up to meets the range
\* of addresses.  Strings of one length compare as numbers do.
Reachable(prefix) ==
  /\ Value(Base, Padded(prefix, 0)) <= Payload(Space - 1)
  /\ Value(Base, Padded(prefix, Base - 1)) >= Payload(0)

\* tronLowerBound: the least element of `holds`, which with an x has all above
\* it; Space if it is empty.
LowerBound(holds) ==
  LET search[range \in (0 .. Space) \X (0 .. Space)] ==
        LET lo == range[1]
            hi == range[2]
            mid == (lo + hi) \div 2
        IN IF lo >= hi THEN lo
           ELSE IF mid \in holds THEN search[<<lo, mid>>] ELSE search[<<mid + 1, hi>>]
  IN search[<<0, Space>>]

\* The interval of addresses that carry a prefix; not ok when there is none.
AddressRange(prefix) ==
  LET Start(x) == Value(Base, SubSeq(TronAddress(x), 1, Len(prefix)))
      lo == LowerBound({x \in 0 .. Space - 1 : Start(x) >= Value(Base, prefix)})
      past == LowerBound({x \in 0 .. Space - 1 : Start(x) > Value(Base, prefix)})
  IN [ok |-> lo < Space /\ (lo < Space => Start(lo) = Value(Base, prefix)),
      lo |-> lo, hi |-> past - 1]

\* TronPrefixLadder: level k is for the first k characters after T.
Ladder(prefix) == [k \in 1 .. Len(prefix) - 1 |-> AddressRange(SubSeq(prefix, 1, k + 1))]

-----------------------------------------------------------------------------
(* Parsing.                                                                *)

Accept(kind, value, count) ==
  /\ pattern' = [kind |-> kind, value |-> value, count |-> count]
  /\ stage' = "parsed"

Refuse == stage' = "refused" /\ UNCHANGED pattern

Typed(kind, value, count) ==
  /\ stage = "typed"
  /\ text' = [kind |-> kind, value |-> value, count |-> count]
  /\ UNCHANGED <<config, address>>

\* Letters in lower case, every wildcard an X.
Normal(c) == IF c = "A" THEN "a" ELSE IF c = "?" THEN "X" ELSE c

Concrete(value) == {i \in DOMAIN value : value[i] # "X"}

ParsePattern(value) ==
  /\ Typed("pattern", value, 0)
  /\ IF Len(value) \in 1 .. HexLen /\ "g" \notin ToSet(value)
     THEN LET normal == [i \in DOMAIN value |-> Normal(value[i])]
          IN Accept("pattern", normal, Cardinality(Concrete(normal)))
     ELSE Refuse

ParseLeading(value, count) ==
  /\ Typed("leading", value, count)
  /\ IF Len(value) = 1 /\ value[1] \in {"0", "a", "A"} /\ count \in 1 .. HexLen
     THEN Accept("leading", <<Normal(value[1])>>, count)
     ELSE Refuse

\* The implicit T may be typed once.
Bare(value) == IF value # <<>> /\ Head(value) = Tee THEN Tail(value) ELSE value

WellFormed(value, max) == Len(value) \in 1 .. max /\ BadDigit \notin ToSet(value)

ParseTronPrefix(value) ==
  LET full == <<Tee>> \o Bare(value) IN
  /\ Typed("tron-prefix", value, 0)
  /\ IF WellFormed(Bare(value), MaxPrefix) /\ Reachable(full)
     THEN Accept("tron-prefix", full, Len(full) - 1)
     ELSE Refuse

ParseTronSuffix(value) ==
  /\ Typed("tron-suffix", value, 0)
  /\ IF WellFormed(value, MaxSuffix) THEN Accept("tron-suffix", value, Len(value)) ELSE Refuse

-----------------------------------------------------------------------------
(* cudaConfig.                                                             *)

Wildcard == 255

PatternNibble(c) == IF c = "0" THEN 0 ELSE IF c = "a" THEN 10 ELSE Wildcard

Configured(target) ==
  /\ stage' = "configured"
  /\ config' = [mode |-> pattern.kind, target |-> target, stop |-> pattern.count]

\* Mutant: the suffix is handed over first character first.
SuffixDigits_Forward(value) == value

\* Index 1 is the last character.
SuffixDigits(value) == Reverse(value)

\* The fixed-size pattern is wildcards beyond what was typed.
Configure ==
  /\ stage = "parsed"
  /\ \/ /\ pattern.kind = "pattern"
        /\ Configured([i \in 1 .. HexLen |->
             IF i <= Len(pattern.value) THEN PatternNibble(pattern.value[i]) ELSE Wildcard])
     \/ /\ pattern.kind = "leading"
        /\ Configured(<<PatternNibble(pattern.value[1])>>)
     \/ /\ pattern.kind = "tron-prefix"
        /\ LET ladder == Ladder(pattern.value) IN
           IF Len(ladder) \in 1 .. MaxPrefix /\ \A k \in DOMAIN ladder : ladder[k].ok
           THEN Configured(ladder)
           ELSE stage' = "refused" /\ UNCHANGED config
     \/ /\ pattern.kind = "tron-suffix"
        /\ Configured(SuffixDigits(pattern.value))
  /\ UNCHANGED <<text, pattern, address>>

-----------------------------------------------------------------------------
(* The scores.                                                             *)

\* pv_tron_prefix_depth: the deepest level that contains the address.
PrefixDepth(ladder, x) ==
  MaxOf({0} \cup {k \in DOMAIN ladder : ladder[k].lo <= x /\ x <= ladder[k].hi})

\* A number modulo mod, byte by byte in a word of WordBits bits.
Remainder(mod, bytes) ==
  FoldLeft(LAMBDA v, b : ((v * Byte + b) % Word) % mod, 0, bytes)

\* pv_tron_suffix_depth: the payload modulo Base^n, then its digits from the
\* last.
SuffixDepth(digits, x) ==
  LET n == Len(digits)
      r == Remainder(BasePower[n], InBase(Byte, BytePower, PayloadBytes, Payload(x)))
  IN Run({i \in 1 .. n : (r \div BasePower[i - 1]) % Base = digits[i]}, n)

\* What the kernel of the configured mode computes.
KernelScore ==
  LET want == config.target IN
  CASE config.mode = "pattern" ->
         Cardinality({i \in 1 .. HexLen : want[i] # Wildcard /\ address[i] = want[i]})
    [] config.mode = "leading" -> Run({i \in 1 .. HexLen : address[i] = want[1]}, HexLen)
    [] config.mode = "tron-prefix" -> PrefixDepth(want, address)
    [] config.mode = "tron-suffix" -> SuffixDepth(want, address)

HexText(n) == IF n = 0 THEN "0" ELSE IF n = 10 THEN "a" ELSE "b"

\* The matching characters of the suffix, counted from the end.
SuffixMatches(value, tron) ==
  {i \in 1 .. Len(value) : tron[Length + 1 - i] = value[Len(value) + 1 - i]}

\* The matching characters after the T.
PrefixMatches(value, tron) == {i \in 1 .. Len(value) - 1 : tron[i + 1] = value[i + 1]}

\* ScoreAddress, ScoreAddressHex
HostScore ==
  LET value == pattern.value
      n == Len(value)
  IN
  CASE pattern.kind = "pattern" ->
         Cardinality({i \in Concrete(value) : HexText(address[i]) = value[i]})
    [] pattern.kind = "leading" ->
         Run({i \in 1 .. HexLen : HexText(address[i]) = value[1]}, HexLen)
    [] pattern.kind = "tron-prefix" -> Run(PrefixMatches(value, TronAddress(address)), n - 1)
    [] pattern.kind = "tron-suffix" -> Run(SuffixMatches(value, TronAddress(address)), n)

\* MatchesAddress, MatchesAddressHex
Matches ==
  LET value == pattern.value IN
  CASE pattern.kind = "pattern" -> \A i \in Concrete(value) : HexText(address[i]) = value[i]
    [] pattern.kind = "leading" -> HostScore >= pattern.count
    [] pattern.kind = "tron-prefix" -> IsPrefix(value, TronAddress(address))
    [] pattern.kind = "tron-suffix" -> IsSuffix(value, TronAddress(address))

\* The search comes to an address.
Try ==
  /\ stage = "configured"
  /\ stage' = "scored"
  /\ \/ /\ pattern.kind \in {"pattern", "leading"}
        /\ address' \in [1 .. HexLen -> Nibbles]
     \/ /\ pattern.kind \in {"tron-prefix", "tron-suffix"}
        /\ address' \in 0 .. Space - 1
  /\ UNCHANGED <<text, pattern, config>>

Parse ==
  \/ \E value \in SeqOf(HexChars, HexLen + 1) : ParsePattern(value)
  \/ \E value \in SeqOf(HexChars, 2), count \in 0 .. HexLen + 1 : ParseLeading(value, count)
  \/ \E value \in SeqOf(TextDigits, MaxPrefix + 2) : ParseTronPrefix(value)
  \/ \E value \in SeqOf(TextDigits, MaxSuffix + 1) : ParseTronSuffix(value)

Next == Parse \/ Configure \/ Try

Spec == Init /\ [][Next]_vars

-----------------------------------------------------------------------------
(* Properties.                                                             *)

\* The kernel, which compares nibbles, address intervals or remainders, and
\* the host, which compares the printed address, give one score: the GPU's
\* best is the session's best.  An address matches exactly when that score
\* reaches the target, so the session may compare scores where the user meant
\* the pattern.
ScoresAgree ==
  stage = "scored" =>
    /\ KernelScore = HostScore
    /\ Matches <=> HostScore >= pattern.count

\* cudaConfig refuses no pattern that was accepted, every level of a prefix
\* the parser takes for reachable having an address; and of well-formed
\* prefixes the parser refuses exactly those that no address has.
ParserIsExact ==
  /\ stage = "refused" => pattern = NoText
  /\ text.kind = "tron-prefix" /\ WellFormed(Bare(text.value), MaxPrefix) =>
       ((stage # "refused") <=>
          \E x \in 0 .. Space - 1 : IsPrefix(<<Tee>> \o Bare(text.value), TronAddress(x)))
=============================================================================
