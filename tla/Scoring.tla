------------------------------ MODULE Scoring ------------------------------
(***************************************************************************)
(* How compatible two profiles are: the scorer of the app                  *)
(* (scoring/fast.ts), next to the Jaccard index of the one it replaced     *)
(* (scoring/compatibility.ts), which serves as its reference.              *)
(*                                                                         *)
(* A 32-bit number is a pair of 16-bit halves, the high one first.  The    *)
(* code computes with doubles and signed 32-bit numbers; nothing in it     *)
(* exceeds 2^53 and & | >>> take their operands modulo 2^32, so counting   *)
(* modulo 2^32 throughout gives the same bits.                             *)
(*                                                                         *)
(* Fractions are pairs <<n, d>> with d > 0.  The code's doubles may be off *)
(* in the last place, which can turn an exact half the other way when the  *)
(* total is rounded.                                                       *)
(***************************************************************************)
EXTENDS Integers, Sequences, FiniteSets

CONSTANTS
  Word,           \* words of at least three letters, in lower case
  Interest,       \* interests as users enter them, in lower case
  Words,          \* the words that normalizeTokens finds in an interest
  Bit,            \* hashToken(w) & 63
  FallbackTokens  \* how many raw interests the fallback compares: 16

ASSUME ScoringAssumption ==
  /\ Words \in [Interest -> SUBSET Word]
  /\ Bit \in [Word -> 0..63]
  /\ FallbackTokens \in Nat

-----------------------------------------------------------------------------
(***************************************************************************)
(* 32-bit numbers.                                                         *)
(***************************************************************************)
Half == 65536

PowersOfTwo ==
  <<1, 2, 4, 8, 16, 32, 64, 128, 256, 512, 1024, 2048, 4096, 8192, 16384, 32768>>

TwoTo(n) == PowersOfTwo[n + 1]

\* Bit k of a half, and the half that has the bits b[0] to b[15].
BitAt(x, k) == (x \div TwoTo(k)) % 2

Nibble(b, k) == b[k] + 2 * b[k + 1] + 4 * b[k + 2] + 8 * b[k + 3]

FromBits(b) ==
  Nibble(b, 0) + 16 * Nibble(b, 4) + 256 * Nibble(b, 8) + 4096 * Nibble(b, 12)

AndHalf(x, y) == FromBits([k \in 0..15 |-> BitAt(x, k) * BitAt(y, k)])

\* The | of a set of halves.
OrHalves(S) ==
  FromBits([k \in 0..15 |-> IF \E x \in S : BitAt(x, k) = 1 THEN 1 ELSE 0])

OneShifted(n) == IF n < 16 THEN <<0, TwoTo(n)>> ELSE <<TwoTo(n - 16), 0>>

And32(x, y) == <<AndHalf(x[1], y[1]), AndHalf(x[2], y[2])>>

\* The | of a set of numbers.
OrAll(S) == <<OrHalves({x[1] : x \in S}), OrHalves({x[2] : x \in S})>>

Or32(x, y) == OrAll({x, y})

ShiftRight(x, n) ==
  <<x[1] \div TwoTo(n), x[2] \div TwoTo(n) + (x[1] % TwoTo(n)) * TwoTo(16 - n)>>

Add32(x, y) ==
  <<(x[1] + y[1] + (x[2] + y[2]) \div Half) % Half, (x[2] + y[2]) % Half>>

Sub32(x, y) ==
  <<(x[1] - y[1] + (x[2] - y[2]) \div Half) % Half, (x[2] - y[2]) % Half>>

\* x * 0x01010101
TimesOnes(x) ==
  <<(x[1] * 257 + x[2] * 257 + (x[2] * 257) \div Half) % Half,
    (x[2] * 257) % Half>>

\* The same half twice: 0x55555555, 0x33333333, 0x0F0F0F0F.
Twice(half) == <<half, half>>

Popcount32(x) ==
  LET x1 == Sub32(x, And32(ShiftRight(x, 1), Twice(21845)))
      x2 == Add32(And32(x1, Twice(13107)), And32(ShiftRight(x1, 2), Twice(13107)))
  IN  TimesOnes(And32(Add32(x2, ShiftRight(x2, 4)), Twice(3855)))[1] \div 256

-----------------------------------------------------------------------------
(***************************************************************************)
(* Masks of 64 bits.                                                       *)
(***************************************************************************)
EmptyMask == [hi |-> <<0, 0>>, lo |-> <<0, 0>>]

\* Variant with a bug: the high half is shifted as far as the low one.
AddToMaskWraps(w) ==
  IF Bit[w] < 32
  THEN [EmptyMask EXCEPT !.lo = OneShifted(Bit[w])]
  ELSE [EmptyMask EXCEPT !.lo = OneShifted(Bit[w] - 32)]

\* What addToMask sets in a mask: the bit of one token.
AddToMask(w) ==
  IF Bit[w] < 32
  THEN [EmptyMask EXCEPT !.lo = OneShifted(Bit[w])]
  ELSE [EmptyMask EXCEPT !.hi = OneShifted(Bit[w] - 32)]

\* The loop ors the bits of the tokens together, in whatever order.
BuildMaskFromTokens(W) ==
  [hi |-> OrAll({AddToMask(w).hi : w \in W}), lo |-> OrAll({AddToMask(w).lo : w \in W})]

Popcount64(mask) == Popcount32(mask.hi) + Popcount32(mask.lo)

Ratio(n, d) == IF d = 0 THEN <<0, 1>> ELSE <<n, d>>

JaccardMask(a, b) ==
  Ratio(Popcount64([hi |-> And32(a.hi, b.hi), lo |-> And32(a.lo, b.lo)]),
        Popcount64([hi |-> Or32(a.hi, b.hi), lo |-> Or32(a.lo, b.lo)]))

\* compatibility.ts: the Jaccard index of two sets.
Jaccard(A, B) == Ratio(Cardinality(A \cap B), Cardinality(A \cup B))

-----------------------------------------------------------------------------
(***************************************************************************)
(* The score.                                                              *)
(***************************************************************************)
\* normalizeTokens of the joined list.
InterestWords(interests) == UNION {Words[interests[k]] : k \in 1..Len(interests)}

CompileProfile(p) ==
  [raw |-> p, interestMask |-> BuildMaskFromTokens(InterestWords(p.interests)),
   bioMask |-> BuildMaskFromTokens(p.bio)]

\* Variant with a bug: no upper limit.
ProximityUnclamped(rssi) == IF rssi <= -85 THEN 0 ELSE rssi + 85

\* In fortieths: -45 dBm and above is 40, -85 and below is 0.
NormalizeRssiToProximityScore(rssi) ==
  CASE rssi >= -45 -> 40 [] rssi <= -85 -> 0 [] OTHER -> rssi + 85

\* The first raw interests, for the fallback.
FirstInterests(p) ==
  {p.interests[k] : k \in {k \in 1..Len(p.interests) : k <= FallbackTokens}}

\* Variant with a bug: no fallback.
InterestSimilarityPlain(me, peer) == JaccardMask(me.interestMask, peer.interestMask)

\* The masks, or if they have nothing in common six tenths of the raw overlap.
InterestSimilarity(me, peer) ==
  LET i == JaccardMask(me.interestMask, peer.interestMask)
      raw == Jaccard(FirstInterests(me.raw), FirstInterests(peer.raw))
  IN  IF i[1] = 0 THEN <<6 * raw[1], 10 * raw[2]>> ELSE i

Distance(a, b) == IF a < b THEN b - a ELSE a - b

\* In tenths: 10 for the same age, 0 from ten years apart.
AgeCloseness(a, b) == IF Distance(a, b) < 10 THEN 10 - Distance(a, b) ELSE 0

GenderAllowed(me, peer) == me.gender = {} \/ peer.sex \in me.gender

\* Variant with a bug: the weights of age and interests are swapped.
WeightedSumSwapped(me, peer, p) ==
  LET i == InterestSimilarity(me, peer)
      b == JaccardMask(me.bioMask, peer.bioMask)
      fortieths == 160 * AgeCloseness(me.raw.age, peer.raw.age)
                     + (IF GenderAllowed(me.raw, peer.raw) THEN 600 ELSE 0)
                     + 15 * p
  IN  <<fortieths * i[2] * b[2] + 1000 * i[1] * b[2] + 200 * b[1] * i[2],
        40 * i[2] * b[2]>>

(***************************************************************************)
(* The weighted sum in hundredths: 25 for age, 15 for gender, 40 for       *)
(* interests, 5 for the bio, 15 for proximity; nothing from too far away   *)
(* (p < 0.05).                                                             *)
(***************************************************************************)
WeightedSum(me, peer, p) ==
  LET i == InterestSimilarity(me, peer)
      b == JaccardMask(me.bioMask, peer.bioMask)
      fortieths == 100 * AgeCloseness(me.raw.age, peer.raw.age)
                     + (IF GenderAllowed(me.raw, peer.raw) THEN 600 ELSE 0)
                     + 15 * p
  IN  <<fortieths * i[2] * b[2] + 1600 * i[1] * b[2] + 200 * b[1] * i[2],
        40 * i[2] * b[2]>>

\* Variant with a bug: the distance counts instead of the proximity.
FastCompatibilityScoreFar(me, peer, rssi) ==
  LET p == NormalizeRssiToProximityScore(rssi)
  IN  IF p < 2 THEN <<0, 1>> ELSE WeightedSum(me, peer, 40 - p)

FastCompatibilityScore(me, peer, rssi) ==
  LET p == NormalizeRssiToProximityScore(rssi)
  IN  IF p < 2 THEN <<0, 1>> ELSE WeightedSum(me, peer, p)

\* Math.round
Round(f) == (2 * f[1] + f[2]) \div (2 * f[2])

IsAdult(age) == age >= 18

\* The age safety check of checkCompatibility.
AgeIncompatible(a, b) == IsAdult(a) # IsAdult(b) /\ Distance(a, b) > 2

\* The compatibilityScore that checkCompatibility gives to an item, from the
\* user's compiled profile and the profile of the peer.
TotalScore(my, peer, rssi) ==
  IF AgeIncompatible(my.raw.age, peer.age)
  THEN 0
  ELSE Round(FastCompatibilityScore(my, CompileProfile(peer), rssi))
=============================================================================
