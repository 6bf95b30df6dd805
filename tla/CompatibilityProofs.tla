------------------------ MODULE CompatibilityProofs ------------------------
(***************************************************************************)
(* Theorems about the scorer and "Check Match", for all profiles, words,   *)
(* hashes and signal strengths.                                            *)
(*                                                                         *)
(* The argument goes from the bits up: a half is four nibbles; & works     *)
(* nibble by nibble; so Popcount32 adds up the ones of its eight nibbles;  *)
(* a mask is the set of the bits it has, & and | are intersection and      *)
(* union, and the count is the cardinality; so the masks compute the       *)
(* Jaccard index, which is a share; and the weighted sum of shares, rounded,*)
(* is a percentage that grows with the proximity.                          *)
(***************************************************************************)
EXTENDS Compatibility, FiniteSetTheorems, TLAPS

-----------------------------------------------------------------------------
(***************************************************************************)
(* Bits and nibbles of a half.                                             *)
(***************************************************************************)
Bits16 == [0..15 -> 0..1]

\* The half that consists of four nibbles, the lowest first.
Pack(n0, n1, n2, n3) == n0 + 16 * n1 + 256 * n2 + 4096 * n3

AreNibbles(n0, n1, n2, n3) ==
  /\ n0 \in Nat /\ n1 \in Nat /\ n2 \in Nat /\ n3 \in Nat
  /\ n0 < 16 /\ n1 < 16 /\ n2 < 16 /\ n3 < 16

LEMMA TwoToValues ==
  /\ TwoTo(0) = 1 /\ TwoTo(1) = 2 /\ TwoTo(2) = 4 /\ TwoTo(3) = 8
  /\ TwoTo(4) = 16 /\ TwoTo(5) = 32 /\ TwoTo(6) = 64 /\ TwoTo(7) = 128
  /\ TwoTo(8) = 256 /\ TwoTo(9) = 512 /\ TwoTo(10) = 1024 /\ TwoTo(11) = 2048
  /\ TwoTo(12) = 4096 /\ TwoTo(13) = 8192 /\ TwoTo(14) = 16384 /\ TwoTo(15) = 32768
  BY DEF TwoTo, PowersOfTwo

LEMMA DivideInSteps ==
  ASSUME NEW x \in Nat
  PROVE  /\ x \div 32 = (x \div 16) \div 2
         /\ x \div 64 = (x \div 16) \div 4
         /\ x \div 128 = (x \div 16) \div 8
         /\ x \div 512 = (x \div 256) \div 2
         /\ x \div 1024 = (x \div 256) \div 4
         /\ x \div 2048 = (x \div 256) \div 8
         /\ x \div 8192 = (x \div 4096) \div 2
         /\ x \div 16384 = (x \div 4096) \div 4
         /\ x \div 32768 = (x \div 4096) \div 8
  OBVIOUS

LEMMA LowNibble ==
  ASSUME NEW n, NEW q, NEW y, n \in Nat /\ n < 16 /\ q \in Nat /\ y = n + 16 * q
  PROVE  /\ y % 2 = n % 2
         /\ (y \div 2) % 2 = (n \div 2) % 2
         /\ (y \div 4) % 2 = (n \div 4) % 2
         /\ (y \div 8) % 2 = (n \div 8) % 2
  OBVIOUS

\* What BitAt divides by.
LEMMA BitAtValues ==
  ASSUME NEW x
  PROVE  /\ BitAt(x, 0) = (x \div 1) % 2 /\ BitAt(x, 1) = (x \div 2) % 2
         /\ BitAt(x, 2) = (x \div 4) % 2 /\ BitAt(x, 3) = (x \div 8) % 2
         /\ BitAt(x, 4) = (x \div 16) % 2 /\ BitAt(x, 5) = (x \div 32) % 2
         /\ BitAt(x, 6) = (x \div 64) % 2 /\ BitAt(x, 7) = (x \div 128) % 2
         /\ BitAt(x, 8) = (x \div 256) % 2 /\ BitAt(x, 9) = (x \div 512) % 2
         /\ BitAt(x, 10) = (x \div 1024) % 2 /\ BitAt(x, 11) = (x \div 2048) % 2
         /\ BitAt(x, 12) = (x \div 4096) % 2 /\ BitAt(x, 13) = (x \div 8192) % 2
         /\ BitAt(x, 14) = (x \div 16384) % 2 /\ BitAt(x, 15) = (x \div 32768) % 2
  BY TwoToValues DEF BitAt

\* The bits of a half are those of its nibbles.
LEMMA PackBits ==
  ASSUME NEW n0, NEW n1, NEW n2, NEW n3, NEW x,
         AreNibbles(n0, n1, n2, n3), x = Pack(n0, n1, n2, n3)
  PROVE  /\ BitAt(x, 0) = n0 % 2 /\ BitAt(x, 1) = (n0 \div 2) % 2
         /\ BitAt(x, 2) = (n0 \div 4) % 2 /\ BitAt(x, 3) = (n0 \div 8) % 2
         /\ BitAt(x, 4) = n1 % 2 /\ BitAt(x, 5) = (n1 \div 2) % 2
         /\ BitAt(x, 6) = (n1 \div 4) % 2 /\ BitAt(x, 7) = (n1 \div 8) % 2
         /\ BitAt(x, 8) = n2 % 2 /\ BitAt(x, 9) = (n2 \div 2) % 2
         /\ BitAt(x, 10) = (n2 \div 4) % 2 /\ BitAt(x, 11) = (n2 \div 8) % 2
         /\ BitAt(x, 12) = n3 % 2 /\ BitAt(x, 13) = (n3 \div 2) % 2
         /\ BitAt(x, 14) = (n3 \div 4) % 2 /\ BitAt(x, 15) = (n3 \div 8) % 2
<1>0. /\ n0 \in Nat /\ n1 \in Nat /\ n2 \in Nat /\ n3 \in Nat
      /\ n0 < 16 /\ n1 < 16 /\ n2 < 16 /\ n3 < 16
  BY DEF AreNibbles
<1>1. PICK q0 \in Nat : q0 = n1 + 16 * n2 + 256 * n3
  BY <1>0
<1>2. PICK q1 \in Nat : q1 = n2 + 16 * n3
  BY <1>0
<1>3. PICK q2 \in Nat, q3 \in Nat : q2 = n3 /\ q3 = 0
  BY <1>0
<1>4. PICK y1 \in Nat : y1 = n1 + 16 * q1
  BY <1>0, <1>2
<1>5. PICK y2 \in Nat : y2 = n2 + 16 * q2
  BY <1>0, <1>3
<1>6. PICK y3 \in Nat : y3 = n3 + 16 * q3
  BY <1>0, <1>3
<1>7. x \in Nat /\ x = n0 + 16 * q0 /\ x \div 1 = x
  BY <1>0, <1>1 DEF Pack
<1>8. x \div 16 = y1 /\ x \div 256 = y2 /\ x \div 4096 = y3
  BY <1>0, <1>2, <1>3, <1>4, <1>5, <1>6 DEF Pack
<1>9. /\ (x \div 1) % 2 = n0 % 2 /\ (x \div 2) % 2 = (n0 \div 2) % 2
      /\ (x \div 4) % 2 = (n0 \div 4) % 2 /\ (x \div 8) % 2 = (n0 \div 8) % 2
  BY <1>0, <1>7, LowNibble
<1>10. /\ y1 % 2 = n1 % 2 /\ (y1 \div 2) % 2 = (n1 \div 2) % 2
       /\ (y1 \div 4) % 2 = (n1 \div 4) % 2 /\ (y1 \div 8) % 2 = (n1 \div 8) % 2
  BY <1>0, <1>4, LowNibble
<1>11. /\ y2 % 2 = n2 % 2 /\ (y2 \div 2) % 2 = (n2 \div 2) % 2
       /\ (y2 \div 4) % 2 = (n2 \div 4) % 2 /\ (y2 \div 8) % 2 = (n2 \div 8) % 2
  BY <1>0, <1>5, LowNibble
<1>12. /\ y3 % 2 = n3 % 2 /\ (y3 \div 2) % 2 = (n3 \div 2) % 2
       /\ (y3 \div 4) % 2 = (n3 \div 4) % 2 /\ (y3 \div 8) % 2 = (n3 \div 8) % 2
  BY <1>0, <1>6, LowNibble
<1>13. /\ x \div 32 = y1 \div 2 /\ x \div 64 = y1 \div 4 /\ x \div 128 = y1 \div 8
       /\ x \div 512 = y2 \div 2 /\ x \div 1024 = y2 \div 4 /\ x \div 2048 = y2 \div 8
       /\ x \div 8192 = y3 \div 2 /\ x \div 16384 = y3 \div 4 /\ x \div 32768 = y3 \div 8
  BY <1>0, <1>7, <1>8, DivideInSteps
<1>14. /\ BitAt(x, 0) = n0 % 2 /\ BitAt(x, 1) = (n0 \div 2) % 2
       /\ BitAt(x, 2) = (n0 \div 4) % 2 /\ BitAt(x, 3) = (n0 \div 8) % 2
  BY <1>0, <1>9, BitAtValues
<1>15. /\ BitAt(x, 4) = n1 % 2 /\ BitAt(x, 5) = (n1 \div 2) % 2
       /\ BitAt(x, 6) = (n1 \div 4) % 2 /\ BitAt(x, 7) = (n1 \div 8) % 2
  BY <1>0, <1>8, <1>10, <1>13, BitAtValues
<1>16. /\ BitAt(x, 8) = n2 % 2 /\ BitAt(x, 9) = (n2 \div 2) % 2
       /\ BitAt(x, 10) = (n2 \div 4) % 2 /\ BitAt(x, 11) = (n2 \div 8) % 2
  BY <1>0, <1>8, <1>11, <1>13, BitAtValues
<1>17. /\ BitAt(x, 12) = n3 % 2 /\ BitAt(x, 13) = (n3 \div 2) % 2
       /\ BitAt(x, 14) = (n3 \div 4) % 2 /\ BitAt(x, 15) = (n3 \div 8) % 2
  BY <1>0, <1>8, <1>12, <1>13, BitAtValues
<1>18. QED
  BY <1>14, <1>15, <1>16, <1>17

LEMMA NibbleBits ==
  ASSUME NEW b \in Bits16, NEW k \in {0, 4, 8, 12}, NEW n, n = Nibble(b, k)
  PROVE  /\ n \in Nat /\ n < 16
         /\ n % 2 = b[k] /\ (n \div 2) % 2 = b[k + 1]
         /\ (n \div 4) % 2 = b[k + 2] /\ (n \div 8) % 2 = b[k + 3]
<1>1. PICK c0 \in 0..1, c1 \in 0..1, c2 \in 0..1, c3 \in 0..1 :
        c0 = b[k] /\ c1 = b[k + 1] /\ c2 = b[k + 2] /\ c3 = b[k + 3]
  BY DEF Bits16
<1>2. /\ c0 \in 0..1 /\ c1 \in 0..1 /\ c2 \in 0..1 /\ c3 \in 0..1
      /\ n = c0 + 2 * c1 + 4 * c2 + 8 * c3
  BY <1>1 DEF Nibble
<1>3. /\ n \in Nat /\ n < 16
      /\ n % 2 = c0 /\ (n \div 2) % 2 = c1 /\ (n \div 4) % 2 = c2 /\ (n \div 8) % 2 = c3
  BY <1>2
<1>4. QED
  BY <1>1, <1>3, Zenon

LEMMA FromBitsPacks ==
  ASSUME NEW b \in Bits16
  PROVE  FromBits(b) = Pack(Nibble(b, 0), Nibble(b, 4), Nibble(b, 8), Nibble(b, 12))
  BY DEF FromBits, Pack

LEMMA PackType ==
  ASSUME NEW n0, NEW n1, NEW n2, NEW n3, AreNibbles(n0, n1, n2, n3)
  PROVE  Pack(n0, n1, n2, n3) \in Nat /\ Pack(n0, n1, n2, n3) < 65536
  BY DEF Pack, AreNibbles

\* A half has the bits it was made of.
LEMMA BitsBack ==
  ASSUME NEW b \in Bits16
  PROVE  /\ FromBits(b) \in Nat /\ FromBits(b) < 65536
         /\ \A k \in 0..15 : BitAt(FromBits(b), k) = b[k]
<1>1. PICK n0 \in Nat : /\ n0 < 16 /\ n0 = Nibble(b, 0)
                          /\ n0 % 2 = b[0] /\ (n0 \div 2) % 2 = b[1]
                          /\ (n0 \div 4) % 2 = b[2] /\ (n0 \div 8) % 2 = b[3]
  BY NibbleBits
<1>2. PICK n1 \in Nat : /\ n1 < 16 /\ n1 = Nibble(b, 4)
                          /\ n1 % 2 = b[4] /\ (n1 \div 2) % 2 = b[5]
                          /\ (n1 \div 4) % 2 = b[6] /\ (n1 \div 8) % 2 = b[7]
  BY NibbleBits
<1>3. PICK n2 \in Nat : /\ n2 < 16 /\ n2 = Nibble(b, 8)
                          /\ n2 % 2 = b[8] /\ (n2 \div 2) % 2 = b[9]
                          /\ (n2 \div 4) % 2 = b[10] /\ (n2 \div 8) % 2 = b[11]
  BY NibbleBits
<1>4. PICK n3 \in Nat : /\ n3 < 16 /\ n3 = Nibble(b, 12)
                          /\ n3 % 2 = b[12] /\ (n3 \div 2) % 2 = b[13]
                          /\ (n3 \div 4) % 2 = b[14] /\ (n3 \div 8) % 2 = b[15]
  BY NibbleBits
<1>5. AreNibbles(n0, n1, n2, n3)
  BY <1>1, <1>2, <1>3, <1>4 DEF AreNibbles
<1>6. PICK x : x = FromBits(b) /\ x = Pack(n0, n1, n2, n3)
  BY <1>1, <1>2, <1>3, <1>4, FromBitsPacks
<1>7. x = Pack(n0, n1, n2, n3)
  BY <1>6
<1>8. x \in Nat /\ x < 65536
  BY <1>5, <1>7, PackType
<1>9. /\ BitAt(x, 0) = n0 % 2 /\ BitAt(x, 1) = (n0 \div 2) % 2
      /\ BitAt(x, 2) = (n0 \div 4) % 2 /\ BitAt(x, 3) = (n0 \div 8) % 2
      /\ BitAt(x, 4) = n1 % 2 /\ BitAt(x, 5) = (n1 \div 2) % 2
      /\ BitAt(x, 6) = (n1 \div 4) % 2 /\ BitAt(x, 7) = (n1 \div 8) % 2
      /\ BitAt(x, 8) = n2 % 2 /\ BitAt(x, 9) = (n2 \div 2) % 2
      /\ BitAt(x, 10) = (n2 \div 4) % 2 /\ BitAt(x, 11) = (n2 \div 8) % 2
      /\ BitAt(x, 12) = n3 % 2 /\ BitAt(x, 13) = (n3 \div 2) % 2
      /\ BitAt(x, 14) = (n3 \div 4) % 2 /\ BitAt(x, 15) = (n3 \div 8) % 2
  BY <1>5, <1>7, PackBits
<1>10. ASSUME NEW k \in 0..15 PROVE BitAt(x, k) = b[k]
  BY <1>1, <1>2, <1>3, <1>4, <1>9
<1>11. QED
  BY <1>6, <1>8, <1>10

-----------------------------------------------------------------------------
(***************************************************************************)
(* The & of two halves, nibble by nibble.                                  *)
(***************************************************************************)
And4(n, m) ==
  (n % 2) * (m % 2) + 2 * (((n \div 2) % 2) * ((m \div 2) % 2))
    + 4 * (((n \div 4) % 2) * ((m \div 4) % 2)) + 8 * (((n \div 8) % 2) * ((m \div 8) % 2))

LEMMA And4Values ==
  ASSUME NEW n \in Nat, n < 16
  PROVE  /\ And4(n, 5) = (n % 2) + 4 * ((n \div 4) % 2)
         /\ And4(n, 3) = n % 4
         /\ And4(n, 15) = n
         /\ And4(n, 0) = 0
  BY DEF And4

\* Nibble k of the & of two numbers.
AndNibble(x, y, k) ==
  BitAt(x, k) * BitAt(y, k) + 2 * (BitAt(x, k + 1) * BitAt(y, k + 1))
    + 4 * (BitAt(x, k + 2) * BitAt(y, k + 2)) + 8 * (BitAt(x, k + 3) * BitAt(y, k + 3))

LEMMA AndUnfolded ==
  ASSUME NEW x, NEW y
  PROVE  AndHalf(x, y) = Pack(AndNibble(x, y, 0), AndNibble(x, y, 4),
                              AndNibble(x, y, 8), AndNibble(x, y, 12))
<1> DEFINE f == [k \in 0..15 |-> BitAt(x, k) * BitAt(y, k)]
<1>1. \A k \in 0..15 : f[k] = BitAt(x, k) * BitAt(y, k)
  OBVIOUS
<1>2. AndHalf(x, y) = Pack(Nibble(f, 0), Nibble(f, 4), Nibble(f, 8), Nibble(f, 12))
  BY DEF AndHalf, FromBits, Pack
<1> HIDE DEF f
<1>3. /\ Nibble(f, 0) = AndNibble(x, y, 0) /\ Nibble(f, 4) = AndNibble(x, y, 4)
      /\ Nibble(f, 8) = AndNibble(x, y, 8) /\ Nibble(f, 12) = AndNibble(x, y, 12)
  BY <1>1 DEF Nibble, AndNibble
<1>4. QED
  BY <1>2, <1>3

LEMMA AndPacked ==
  ASSUME NEW n0, NEW n1, NEW n2, NEW n3, NEW m0, NEW m1, NEW m2, NEW m3,
         AreNibbles(n0, n1, n2, n3), AreNibbles(m0, m1, m2, m3)
  PROVE  AndHalf(Pack(n0, n1, n2, n3), Pack(m0, m1, m2, m3))
           = Pack(And4(n0, m0), And4(n1, m1), And4(n2, m2), And4(n3, m3))
<1>1. PICK x, y : x = Pack(n0, n1, n2, n3) /\ y = Pack(m0, m1, m2, m3)
  OBVIOUS
<1>2. /\ BitAt(x, 0) = n0 % 2 /\ BitAt(x, 1) = (n0 \div 2) % 2
      /\ BitAt(x, 2) = (n0 \div 4) % 2 /\ BitAt(x, 3) = (n0 \div 8) % 2
      /\ BitAt(x, 4) = n1 % 2 /\ BitAt(x, 5) = (n1 \div 2) % 2
      /\ BitAt(x, 6) = (n1 \div 4) % 2 /\ BitAt(x, 7) = (n1 \div 8) % 2
      /\ BitAt(x, 8) = n2 % 2 /\ BitAt(x, 9) = (n2 \div 2) % 2
      /\ BitAt(x, 10) = (n2 \div 4) % 2 /\ BitAt(x, 11) = (n2 \div 8) % 2
      /\ BitAt(x, 12) = n3 % 2 /\ BitAt(x, 13) = (n3 \div 2) % 2
      /\ BitAt(x, 14) = (n3 \div 4) % 2 /\ BitAt(x, 15) = (n3 \div 8) % 2
  BY <1>1, PackBits
<1>3. /\ BitAt(y, 0) = m0 % 2 /\ BitAt(y, 1) = (m0 \div 2) % 2
      /\ BitAt(y, 2) = (m0 \div 4) % 2 /\ BitAt(y, 3) = (m0 \div 8) % 2
      /\ BitAt(y, 4) = m1 % 2 /\ BitAt(y, 5) = (m1 \div 2) % 2
      /\ BitAt(y, 6) = (m1 \div 4) % 2 /\ BitAt(y, 7) = (m1 \div 8) % 2
      /\ BitAt(y, 8) = m2 % 2 /\ BitAt(y, 9) = (m2 \div 2) % 2
      /\ BitAt(y, 10) = (m2 \div 4) % 2 /\ BitAt(y, 11) = (m2 \div 8) % 2
      /\ BitAt(y, 12) = m3 % 2 /\ BitAt(y, 13) = (m3 \div 2) % 2
      /\ BitAt(y, 14) = (m3 \div 4) % 2 /\ BitAt(y, 15) = (m3 \div 8) % 2
  BY <1>1, PackBits
<1>4. AndNibble(x, y, 0) = And4(n0, m0)
  BY <1>2, <1>3 DEF AndNibble, And4
<1>5. AndNibble(x, y, 4) = And4(n1, m1)
  BY <1>2, <1>3 DEF AndNibble, And4
<1>6. AndNibble(x, y, 8) = And4(n2, m2)
  BY <1>2, <1>3 DEF AndNibble, And4
<1>7. AndNibble(x, y, 12) = And4(n3, m3)
  BY <1>2, <1>3 DEF AndNibble, And4
<1>8. QED
  BY <1>1, <1>4, <1>5, <1>6, <1>7, AndUnfolded, Zenon

\* The masks of popcount32 apply to each nibble alone.
LEMMA AndMasks ==
  ASSUME NEW n0, NEW n1, NEW n2, NEW n3, AreNibbles(n0, n1, n2, n3)
  PROVE  /\ AndHalf(Pack(n0, n1, n2, n3), 21845)
              = Pack((n0 % 2) + 4 * ((n0 \div 4) % 2), (n1 % 2) + 4 * ((n1 \div 4) % 2),
                     (n2 % 2) + 4 * ((n2 \div 4) % 2), (n3 % 2) + 4 * ((n3 \div 4) % 2))
         /\ AndHalf(Pack(n0, n1, n2, n3), 13107) = Pack(n0 % 4, n1 % 4, n2 % 4, n3 % 4)
         /\ AndHalf(Pack(n0, n1, n2, n3), 3855) = Pack(n0, 0, n2, 0)
<1>0. AreNibbles(5, 5, 5, 5) /\ AreNibbles(3, 3, 3, 3) /\ AreNibbles(15, 0, 15, 0)
  BY DEF AreNibbles
<1>1. 21845 = Pack(5, 5, 5, 5) /\ 13107 = Pack(3, 3, 3, 3) /\ 3855 = Pack(15, 0, 15, 0)
  BY DEF Pack
<1>2. AndHalf(Pack(n0, n1, n2, n3), Pack(5, 5, 5, 5))
        = Pack(And4(n0, 5), And4(n1, 5), And4(n2, 5), And4(n3, 5))
  BY <1>0, AndPacked
<1>3. AndHalf(Pack(n0, n1, n2, n3), Pack(3, 3, 3, 3))
        = Pack(And4(n0, 3), And4(n1, 3), And4(n2, 3), And4(n3, 3))
  BY <1>0, AndPacked
<1>4. AndHalf(Pack(n0, n1, n2, n3), Pack(15, 0, 15, 0))
        = Pack(And4(n0, 15), And4(n1, 0), And4(n2, 15), And4(n3, 0))
  BY <1>0, AndPacked
<1>5. /\ And4(n0, 5) = (n0 % 2) + 4 * ((n0 \div 4) % 2)
      /\ And4(n1, 5) = (n1 % 2) + 4 * ((n1 \div 4) % 2)
      /\ And4(n2, 5) = (n2 % 2) + 4 * ((n2 \div 4) % 2)
      /\ And4(n3, 5) = (n3 % 2) + 4 * ((n3 \div 4) % 2)
      /\ And4(n0, 3) = n0 % 4 /\ And4(n1, 3) = n1 % 4
      /\ And4(n2, 3) = n2 % 4 /\ And4(n3, 3) = n3 % 4
      /\ And4(n0, 15) = n0 /\ And4(n1, 0) = 0 /\ And4(n2, 15) = n2 /\ And4(n3, 0) = 0
  BY And4Values DEF AreNibbles
<1>6. QED
  BY <1>1, <1>2, <1>3, <1>4, <1>5

-----------------------------------------------------------------------------
(***************************************************************************)
(* Popcount32 counts ones: pairs of bits, then nibbles, then bytes, then   *)
(* all four bytes, and nothing runs over into the next field.              *)
(***************************************************************************)
Low2(n) == (n % 2) + ((n \div 2) % 2)
High2(n) == ((n \div 4) % 2) + ((n \div 8) % 2)
Ones(n) == Low2(n) + High2(n)

LEMMA OnesType ==
  ASSUME NEW n, n \in Nat /\ n < 16
  PROVE  Low2(n) \in 0..2 /\ High2(n) \in 0..2 /\ Ones(n) \in 0..4
<1>1. Low2(n) \in 0..2 /\ High2(n) \in 0..2
  BY DEF Low2, High2
<1>2. QED
  BY <1>1 DEF Ones

LEMMA AllOnesType ==
  ASSUME NEW n0, NEW n1, NEW n2, NEW n3, AreNibbles(n0, n1, n2, n3)
  PROVE  /\ Low2(n0) \in 0..2 /\ High2(n0) \in 0..2 /\ Ones(n0) \in 0..4
         /\ Low2(n1) \in 0..2 /\ High2(n1) \in 0..2 /\ Ones(n1) \in 0..4
         /\ Low2(n2) \in 0..2 /\ High2(n2) \in 0..2 /\ Ones(n2) \in 0..4
         /\ Low2(n3) \in 0..2 /\ High2(n3) \in 0..2 /\ Ones(n3) \in 0..4
<1>1. /\ n0 \in Nat /\ n0 < 16 /\ n1 \in Nat /\ n1 < 16
      /\ n2 \in Nat /\ n2 < 16 /\ n3 \in Nat /\ n3 < 16
  BY DEF AreNibbles
<1>2. QED
  BY <1>1, OnesType

\* A half after each of the three steps.
PairCounts(n0, n1, n2, n3) ==
  Pack(Low2(n0) + 4 * High2(n0), Low2(n1) + 4 * High2(n1),
       Low2(n2) + 4 * High2(n2), Low2(n3) + 4 * High2(n3))
NibbleCounts(n0, n1, n2, n3) == Pack(Ones(n0), Ones(n1), Ones(n2), Ones(n3))
ByteCounts(n0, n1, n2, n3) == Pack(Ones(n0) + Ones(n1), 0, Ones(n2) + Ones(n3), 0)

\* A half shifted, with the bits e of the half above it.
Shift1(x, e) == x \div 2 + e * 32768
Shift2(x, e) == x \div 4 + e * 16384
Shift4(x, e) == x \div 16 + e * 4096

\* A nibble shifted by one, with a bit from above: what is subtracted.
LEMMA PairsOfNibble ==
  ASSUME NEW n, NEW e, NEW t,
         n \in Nat /\ n < 16 /\ e \in 0..1 /\ t = n \div 2 + 8 * e
  PROVE  /\ t \in Nat /\ t < 16
         /\ n - ((t % 2) + 4 * ((t \div 4) % 2)) = Low2(n) + 4 * High2(n)
<1>1. t \in Nat /\ t < 16
  OBVIOUS
<1>2. t % 2 = (n \div 2) % 2
  OBVIOUS
<1>3. (t \div 4) % 2 = (n \div 8) % 2
  OBVIOUS
<1>4. n - (((n \div 2) % 2) + 4 * ((n \div 8) % 2)) = Low2(n) + 4 * High2(n)
  BY DEF Low2, High2
<1>5. QED
  BY <1>1, <1>2, <1>3, <1>4, Zenon

LEMMA PairSums ==
  ASSUME NEW n0, NEW n1, NEW n2, NEW n3, NEW e,
         AreNibbles(n0, n1, n2, n3), e \in 0..1
  PROVE  LET x == Pack(n0, n1, n2, n3)
             y == AndHalf(Shift1(x, e), 21845)
         IN  y \in Nat /\ y <= x /\ x - y = PairCounts(n0, n1, n2, n3)
<1> DEFINE x == Pack(n0, n1, n2, n3)
<1>0. /\ n0 \in Nat /\ n1 \in Nat /\ n2 \in Nat /\ n3 \in Nat
      /\ n0 < 16 /\ n1 < 16 /\ n2 < 16 /\ n3 < 16
  BY DEF AreNibbles
<1>1. PICK e0 \in 0..1, e1 \in 0..1, e2 \in 0..1 : e0 = n1 % 2 /\ e1 = n2 % 2 /\ e2 = n3 % 2
  BY <1>0
<1>2. PICK t0, t1, t2, t3 :
        /\ t0 = n0 \div 2 + 8 * e0 /\ t1 = n1 \div 2 + 8 * e1
        /\ t2 = n2 \div 2 + 8 * e2 /\ t3 = n3 \div 2 + 8 * e
  OBVIOUS
<1>3. /\ t0 \in Nat /\ t0 < 16 /\ t1 \in Nat /\ t1 < 16
      /\ t2 \in Nat /\ t2 < 16 /\ t3 \in Nat /\ t3 < 16
  BY <1>0, <1>1, <1>2
<1>4. AreNibbles(t0, t1, t2, t3)
  BY <1>3 DEF AreNibbles
<1>5. Shift1(x, e) = Pack(t0, t1, t2, t3)
  BY <1>0, <1>1, <1>2 DEF Pack, Shift1
<1>6. PICK s0, s1, s2, s3 :
        /\ s0 = (t0 % 2) + 4 * ((t0 \div 4) % 2) /\ s1 = (t1 % 2) + 4 * ((t1 \div 4) % 2)
        /\ s2 = (t2 % 2) + 4 * ((t2 \div 4) % 2) /\ s3 = (t3 % 2) + 4 * ((t3 \div 4) % 2)
  OBVIOUS
<1>7. AndHalf(Pack(t0, t1, t2, t3), 21845) = Pack(s0, s1, s2, s3)
  BY <1>4, <1>6, AndMasks
<1>8. /\ n0 - s0 = Low2(n0) + 4 * High2(n0)
      /\ n1 - s1 = Low2(n1) + 4 * High2(n1)
      /\ n2 - s2 = Low2(n2) + 4 * High2(n2)
      /\ n3 - s3 = Low2(n3) + 4 * High2(n3)
  <2>1. n0 - s0 = Low2(n0) + 4 * High2(n0)
    BY <1>0, <1>1, <1>2, <1>6, PairsOfNibble
  <2>2. n1 - s1 = Low2(n1) + 4 * High2(n1)
    BY <1>0, <1>1, <1>2, <1>6, PairsOfNibble
  <2>3. n2 - s2 = Low2(n2) + 4 * High2(n2)
    BY <1>0, <1>1, <1>2, <1>6, PairsOfNibble
  <2>4. n3 - s3 = Low2(n3) + 4 * High2(n3)
    BY <1>0, <1>2, <1>6, PairsOfNibble
  <2>5. QED
    BY <2>1, <2>2, <2>3, <2>4
<1>9. s0 \in Nat /\ s1 \in Nat /\ s2 \in Nat /\ s3 \in Nat
  BY <1>3, <1>6
<1>10. x - Pack(s0, s1, s2, s3) = Pack(n0 - s0, n1 - s1, n2 - s2, n3 - s3)
  BY <1>0, <1>9 DEF Pack
<1>11. Pack(s0, s1, s2, s3) \in Nat /\ Pack(s0, s1, s2, s3) <= x
  <2>1. /\ n0 - s0 \in Nat /\ n1 - s1 \in Nat /\ n2 - s2 \in Nat /\ n3 - s3 \in Nat
    <3>1. \A p \in 0..2, q \in 0..2 : p + 4 * q \in Nat
      OBVIOUS
    <3>2. QED
      BY <1>8, <3>1, AllOnesType
  <2>2. QED
    BY <1>0, <1>9, <2>1 DEF Pack
<1>12. Pack(n0 - s0, n1 - s1, n2 - s2, n3 - s3) = PairCounts(n0, n1, n2, n3)
  BY <1>8 DEF PairCounts
<1> HIDE DEF x
<1>13. QED
  BY <1>5, <1>7, <1>10, <1>11, <1>12 DEF x

\* The pairs of each nibble, added.
LEMMA NibbleSums ==
  ASSUME NEW n0, NEW n1, NEW n2, NEW n3, NEW e,
         AreNibbles(n0, n1, n2, n3), e \in 0..3
  PROVE  LET x == PairCounts(n0, n1, n2, n3)
             y == AndHalf(x, 13107)
             z == AndHalf(Shift2(x, e), 13107)
         IN  y \in Nat /\ z \in Nat /\ y + z = NibbleCounts(n0, n1, n2, n3)
<1> DEFINE x == PairCounts(n0, n1, n2, n3)
<1>0. PICK p0 \in 0..2, p1 \in 0..2, p2 \in 0..2, p3 \in 0..2 :
        p0 = Low2(n0) /\ p1 = Low2(n1) /\ p2 = Low2(n2) /\ p3 = Low2(n3)
  BY AllOnesType
<1>1. PICK q0 \in 0..2, q1 \in 0..2, q2 \in 0..2, q3 \in 0..2 :
        q0 = High2(n0) /\ q1 = High2(n1) /\ q2 = High2(n2) /\ q3 = High2(n3)
  BY AllOnesType
<1>2. PICK s0, s1, s2, s3 : /\ s0 = p0 + 4 * q0 /\ s1 = p1 + 4 * q1
                            /\ s2 = p2 + 4 * q2 /\ s3 = p3 + 4 * q3
  OBVIOUS
<1>3. PICK t0, t1, t2, t3 : /\ t0 = q0 + 4 * p1 /\ t1 = q1 + 4 * p2
                            /\ t2 = q2 + 4 * p3 /\ t3 = q3 + 4 * e
  OBVIOUS
<1>4. AreNibbles(s0, s1, s2, s3)
  BY <1>2 DEF AreNibbles
<1>5. AreNibbles(t0, t1, t2, t3)
  BY <1>3 DEF AreNibbles
<1>6. x = Pack(s0, s1, s2, s3)
  BY <1>0, <1>1, <1>2 DEF PairCounts
<1> HIDE DEF x
<1>7. Shift2(x, e) = Pack(t0, t1, t2, t3)
  <2>1. x \in Nat
    BY <1>2, <1>6 DEF Pack
  <2>2. PICK y : y = Pack(t0, t1, t2, t3) - e * 16384
    OBVIOUS
  <2>3. y = q0 + 4 * p1 + 16 * q1 + 64 * p2 + 256 * q2 + 1024 * p3 + 4096 * q3
    BY <1>3, <2>2 DEF Pack
  <2>4. x = p0 + 4 * y
    BY <1>2, <1>6, <2>3 DEF Pack
  <2>5. y \in Nat
    BY <2>3
  <2>6. x \div 4 = y
    BY <2>4, <2>5
  <2>7. Pack(t0, t1, t2, t3) \in Nat
    BY <1>3 DEF Pack
  <2>8. QED
    BY <2>2, <2>6, <2>7 DEF Shift2
<1>8. /\ s0 % 4 = p0 /\ s1 % 4 = p1 /\ s2 % 4 = p2 /\ s3 % 4 = p3
      /\ t0 % 4 = q0 /\ t1 % 4 = q1 /\ t2 % 4 = q2 /\ t3 % 4 = q3
  BY <1>2, <1>3
<1>9. AndHalf(x, 13107) = Pack(p0, p1, p2, p3)
  BY <1>4, <1>6, <1>8, AndMasks
<1>10. AndHalf(Shift2(x, e), 13107) = Pack(q0, q1, q2, q3)
  BY <1>5, <1>7, <1>8, AndMasks
<1>11. Pack(p0, p1, p2, p3) + Pack(q0, q1, q2, q3) = Pack(p0 + q0, p1 + q1, p2 + q2, p3 + q3)
  BY DEF Pack
<1>12. Pack(p0, p1, p2, p3) \in Nat /\ Pack(q0, q1, q2, q3) \in Nat
  BY DEF Pack
<1>13. Pack(p0 + q0, p1 + q1, p2 + q2, p3 + q3) = NibbleCounts(n0, n1, n2, n3)
  BY <1>0, <1>1 DEF NibbleCounts, Ones
<1>14. QED
  BY <1>9, <1>10, <1>11, <1>12, <1>13 DEF x

\* The nibbles of each byte, added.
LEMMA ByteSums ==
  ASSUME NEW n0, NEW n1, NEW n2, NEW n3, NEW e,
         AreNibbles(n0, n1, n2, n3), e \in 0..4
  PROVE  LET x == NibbleCounts(n0, n1, n2, n3)
             y == x + Shift4(x, e)
         IN  y \in Nat /\ y < 65536 /\ AndHalf(y, 3855) = ByteCounts(n0, n1, n2, n3)
<1> DEFINE x == NibbleCounts(n0, n1, n2, n3)
<1>0. PICK m0 \in 0..4, m1 \in 0..4, m2 \in 0..4, m3 \in 0..4 :
        m0 = Ones(n0) /\ m1 = Ones(n1) /\ m2 = Ones(n2) /\ m3 = Ones(n3)
  BY AllOnesType
<1>1. x = Pack(m0, m1, m2, m3)
  BY <1>0 DEF NibbleCounts
<1> HIDE DEF x
<1>2. x \in Nat /\ x \div 16 = m1 + 16 * m2 + 256 * m3
  BY <1>1 DEF Pack
<1>3. PICK s0, s1, s2, s3 : /\ s0 = m0 + m1 /\ s1 = m1 + m2
                            /\ s2 = m2 + m3 /\ s3 = m3 + e
  OBVIOUS
<1>4. AreNibbles(s0, s1, s2, s3)
  BY <1>3 DEF AreNibbles
<1>5. x + Shift4(x, e) = Pack(s0, s1, s2, s3)
  BY <1>1, <1>2, <1>3 DEF Pack, Shift4
<1>6. Pack(s0, 0, s2, 0) = ByteCounts(n0, n1, n2, n3)
  BY <1>0, <1>3 DEF ByteCounts
<1>7. QED
  BY <1>4, <1>5, <1>6, AndMasks, PackType DEF x

\* The product's top byte is the sum of the four.
LEMMA TopByte ==
  ASSUME NEW a0, NEW a1, NEW a2, NEW a3, NEW b0, NEW b1, NEW b2, NEW b3,
         AreNibbles(a0, a1, a2, a3), AreNibbles(b0, b1, b2, b3)
  PROVE  TimesOnes(<<ByteCounts(a0, a1, a2, a3), ByteCounts(b0, b1, b2, b3)>>)[1] \div 256
           = (Ones(a0) + Ones(a1)) + (Ones(a2) + Ones(a3))
               + (Ones(b0) + Ones(b1)) + (Ones(b2) + Ones(b3))
<1>0. PICK h, l : h = ByteCounts(a0, a1, a2, a3) /\ l = ByteCounts(b0, b1, b2, b3)
  OBVIOUS
<1>a. \A m, n \in 0..4 : m + n \in 0..8
  OBVIOUS
<1>b. /\ Ones(a0) \in 0..4 /\ Ones(a1) \in 0..4 /\ Ones(a2) \in 0..4 /\ Ones(a3) \in 0..4
      /\ Ones(b0) \in 0..4 /\ Ones(b1) \in 0..4 /\ Ones(b2) \in 0..4 /\ Ones(b3) \in 0..4
  BY AllOnesType
<1>c. /\ Ones(a0) + Ones(a1) \in 0..8 /\ Ones(a2) + Ones(a3) \in 0..8
      /\ Ones(b0) + Ones(b1) \in 0..8 /\ Ones(b2) + Ones(b3) \in 0..8
  BY <1>a, <1>b, Zenon
<1>1. PICK a \in 0..8, b \in 0..8, c \in 0..8, d \in 0..8 :
        /\ a = Ones(a0) + Ones(a1) /\ b = Ones(a2) + Ones(a3)
        /\ c = Ones(b0) + Ones(b1) /\ d = Ones(b2) + Ones(b3)
  BY <1>c, Zenon
<1>2. h = a + 256 * b /\ l = c + 256 * d
  BY <1>0, <1>1 DEF Pack, ByteCounts
<1>3. (l * 257) \div 65536 = d
  BY <1>2
<1>4. PICK s : s = h * 257 + l * 257 + d
  OBVIOUS
<1>5. s = (a + c + d) + 256 * (a + b + c + d) + 65536 * (b + d)
  BY <1>2, <1>4
<1>6. s % 65536 = (a + c + d) + 256 * (a + b + c + d)
  BY <1>5
<1>7. (s % 65536) \div 256 = a + b + c + d
  BY <1>6
<1>8. TimesOnes(<<h, l>>)[1] = s % 65536
  BY <1>3, <1>4 DEF TimesOnes, Half
<1>9. QED
  BY <1>0, <1>1, <1>7, <1>8

LEMMA ShiftRightValues ==
  ASSUME NEW h, NEW l, h \in Nat
  PROVE  /\ ShiftRight(<<h, l>>, 1) = <<Shift1(h, 0), Shift1(l, h % 2)>>
         /\ ShiftRight(<<h, l>>, 2) = <<Shift2(h, 0), Shift2(l, h % 4)>>
         /\ ShiftRight(<<h, l>>, 4) = <<Shift4(h, 0), Shift4(l, h % 16)>>
<1>1. /\ TwoTo(1) = 2 /\ TwoTo(2) = 4 /\ TwoTo(4) = 16
      /\ TwoTo(16 - 1) = 32768 /\ TwoTo(16 - 2) = 16384 /\ TwoTo(16 - 4) = 4096
  BY TwoToValues
<1>2. Shift1(h, 0) = h \div 2 /\ Shift2(h, 0) = h \div 4 /\ Shift4(h, 0) = h \div 16
  BY DEF Shift1, Shift2, Shift4
<1>3. ShiftRight(<<h, l>>, 1) = <<Shift1(h, 0), Shift1(l, h % 2)>>
  <2>1. ShiftRight(<<h, l>>, 1)
          = <<h \div TwoTo(1), l \div TwoTo(1) + (h % TwoTo(1)) * TwoTo(16 - 1)>>
    BY DEF ShiftRight
  <2>2. QED
    BY <1>1, <1>2, <2>1 DEF Shift1
<1>4. ShiftRight(<<h, l>>, 2) = <<Shift2(h, 0), Shift2(l, h % 4)>>
  <2>1. ShiftRight(<<h, l>>, 2)
          = <<h \div TwoTo(2), l \div TwoTo(2) + (h % TwoTo(2)) * TwoTo(16 - 2)>>
    BY DEF ShiftRight
  <2>2. QED
    BY <1>1, <1>2, <2>1 DEF Shift2
<1>5. ShiftRight(<<h, l>>, 4) = <<Shift4(h, 0), Shift4(l, h % 16)>>
  <2>1. ShiftRight(<<h, l>>, 4)
          = <<h \div TwoTo(4), l \div TwoTo(4) + (h % TwoTo(4)) * TwoTo(16 - 4)>>
    BY DEF ShiftRight
  <2>2. QED
    BY <1>1, <1>2, <2>1 DEF Shift4
<1>6. QED
  BY <1>3, <1>4, <1>5

\* Without a carry or borrow the halves add and subtract on their own.
LEMMA NoCarry ==
  ASSUME NEW h, NEW l, NEW hh, NEW ll,
         /\ h \in Nat /\ h < 65536 /\ l \in Nat /\ l < 65536
         /\ hh \in Nat /\ hh < 65536 /\ ll \in Nat /\ ll < 65536
  PROVE  /\ h + hh < 65536 /\ l + ll < 65536 =>
              Add32(<<h, l>>, <<hh, ll>>) = <<h + hh, l + ll>>
         /\ hh <= h /\ ll <= l => Sub32(<<h, l>>, <<hh, ll>>) = <<h - hh, l - ll>>
<1>1. ASSUME h + hh < 65536, l + ll < 65536
      PROVE  Add32(<<h, l>>, <<hh, ll>>) = <<h + hh, l + ll>>
  BY <1>1 DEF Add32, Half
<1>2. ASSUME hh <= h, ll <= l
      PROVE  Sub32(<<h, l>>, <<hh, ll>>) = <<h - hh, l - ll>>
  BY <1>2 DEF Sub32, Half
<1>3. QED
  BY <1>1, <1>2

LEMMA CountsType ==
  ASSUME NEW n0, NEW n1, NEW n2, NEW n3, AreNibbles(n0, n1, n2, n3)
  PROVE  /\ PairCounts(n0, n1, n2, n3) \in Nat
         /\ NibbleCounts(n0, n1, n2, n3) \in Nat
         /\ NibbleCounts(n0, n1, n2, n3) < 65536
         /\ NibbleCounts(n0, n1, n2, n3) % 16 \in 0..4
<1>1. \A p0, p1, p2, p3 \in 0..2, q0, q1, q2, q3 \in 0..2 :
        Pack(p0 + 4 * q0, p1 + 4 * q1, p2 + 4 * q2, p3 + 4 * q3) \in Nat
  BY DEF Pack
<1>2. PICK m0 \in 0..4, m1 \in 0..4, m2 \in 0..4, m3 \in 0..4 :
        m0 = Ones(n0) /\ m1 = Ones(n1) /\ m2 = Ones(n2) /\ m3 = Ones(n3)
  BY AllOnesType
<1>3. PICK x : x = Pack(m0, m1, m2, m3)
  OBVIOUS
<1>4. x \in Nat /\ x < 65536 /\ x % 16 = m0
  BY <1>3 DEF Pack
<1>5. x = NibbleCounts(n0, n1, n2, n3)
  BY <1>2, <1>3 DEF NibbleCounts
<1>6. PairCounts(n0, n1, n2, n3) \in Nat
  BY <1>1, AllOnesType DEF PairCounts
<1>7. QED
  BY <1>4, <1>5, <1>6

\* The pairs of bits of a number are counted without a borrow.
LEMMA PairStep ==
  ASSUME NEW a0, NEW a1, NEW a2, NEW a3, NEW b0, NEW b1, NEW b2, NEW b3, NEW x,
         AreNibbles(a0, a1, a2, a3), AreNibbles(b0, b1, b2, b3),
         x = <<Pack(a0, a1, a2, a3), Pack(b0, b1, b2, b3)>>
  PROVE  Sub32(x, And32(ShiftRight(x, 1), Twice(21845)))
           = <<PairCounts(a0, a1, a2, a3), PairCounts(b0, b1, b2, b3)>>
<1>1. PICK h, l : h = Pack(a0, a1, a2, a3) /\ l = Pack(b0, b1, b2, b3)
  OBVIOUS
<1>2. h \in Nat /\ h < 65536 /\ l \in Nat /\ l < 65536
  BY <1>1, PackType
<1>3. 0 \in 0..1 /\ h % 2 \in 0..1
  BY <1>2
<1>4. PICK ha, la : ha = AndHalf(Shift1(h, 0), 21845) /\ la = AndHalf(Shift1(l, h % 2), 21845)
  OBVIOUS
<1>5. ha \in Nat /\ ha <= h /\ h - ha = PairCounts(a0, a1, a2, a3)
  BY <1>1, <1>3, <1>4, PairSums
<1>6. la \in Nat /\ la <= l /\ l - la = PairCounts(b0, b1, b2, b3)
  BY <1>1, <1>3, <1>4, PairSums
<1>7. And32(ShiftRight(x, 1), Twice(21845)) = <<ha, la>>
  BY <1>1, <1>2, <1>4, ShiftRightValues DEF And32, Twice
<1>8. ha < 65536 /\ la < 65536
  BY <1>2, <1>5, <1>6
<1>9. Sub32(<<h, l>>, <<ha, la>>) = <<h - ha, l - la>>
  BY <1>2, <1>5, <1>6, <1>8, NoCarry
<1>10. QED
  BY <1>1, <1>5, <1>6, <1>7, <1>9

LEMMA NibbleStep ==
  ASSUME NEW a0, NEW a1, NEW a2, NEW a3, NEW b0, NEW b1, NEW b2, NEW b3, NEW x,
         AreNibbles(a0, a1, a2, a3), AreNibbles(b0, b1, b2, b3),
         x = <<PairCounts(a0, a1, a2, a3), PairCounts(b0, b1, b2, b3)>>
  PROVE  Add32(And32(x, Twice(13107)), And32(ShiftRight(x, 2), Twice(13107)))
           = <<NibbleCounts(a0, a1, a2, a3), NibbleCounts(b0, b1, b2, b3)>>
<1>1. PICK h, l : h = PairCounts(a0, a1, a2, a3) /\ l = PairCounts(b0, b1, b2, b3)
  OBVIOUS
<1>2. h \in Nat
  BY <1>1, CountsType
<1>3. 0 \in 0..3 /\ h % 4 \in 0..3
  BY <1>2
<1>4. PICK ha, hb, la, lb :
        /\ ha = AndHalf(h, 13107) /\ hb = AndHalf(Shift2(h, 0), 13107)
        /\ la = AndHalf(l, 13107) /\ lb = AndHalf(Shift2(l, h % 4), 13107)
  OBVIOUS
<1>5. ha \in Nat /\ hb \in Nat /\ ha + hb = NibbleCounts(a0, a1, a2, a3)
  BY <1>1, <1>3, <1>4, NibbleSums
<1>6. la \in Nat /\ lb \in Nat /\ la + lb = NibbleCounts(b0, b1, b2, b3)
  BY <1>1, <1>3, <1>4, NibbleSums
<1>7. /\ And32(x, Twice(13107)) = <<ha, la>>
      /\ And32(ShiftRight(x, 2), Twice(13107)) = <<hb, lb>>
  BY <1>1, <1>2, <1>4, ShiftRightValues DEF And32, Twice
<1>8. ha + hb < 65536 /\ la + lb < 65536
  BY <1>5, <1>6, CountsType
<1>9. ha < 65536 /\ hb < 65536 /\ la < 65536 /\ lb < 65536
  BY <1>5, <1>6, <1>8
<1>10. Add32(<<ha, la>>, <<hb, lb>>) = <<ha + hb, la + lb>>
  BY <1>5, <1>6, <1>8, <1>9, NoCarry
<1>11. QED
  BY <1>5, <1>6, <1>7, <1>10

LEMMA ByteStep ==
  ASSUME NEW a0, NEW a1, NEW a2, NEW a3, NEW b0, NEW b1, NEW b2, NEW b3, NEW x,
         AreNibbles(a0, a1, a2, a3), AreNibbles(b0, b1, b2, b3),
         x = <<NibbleCounts(a0, a1, a2, a3), NibbleCounts(b0, b1, b2, b3)>>
  PROVE  And32(Add32(x, ShiftRight(x, 4)), Twice(3855))
           = <<ByteCounts(a0, a1, a2, a3), ByteCounts(b0, b1, b2, b3)>>
<1>1. PICK h, l : h = NibbleCounts(a0, a1, a2, a3) /\ l = NibbleCounts(b0, b1, b2, b3)
  OBVIOUS
<1>2. h \in Nat /\ h < 65536 /\ l \in Nat /\ l < 65536
  BY <1>1, CountsType
<1>3. 0 \in 0..4 /\ h % 16 \in 0..4
  BY <1>1, CountsType
<1>4. PICK ha, la : ha = Shift4(h, 0) /\ la = Shift4(l, h % 16)
  OBVIOUS
<1>5. h + ha \in Nat /\ h + ha < 65536 /\ AndHalf(h + ha, 3855) = ByteCounts(a0, a1, a2, a3)
  BY <1>1, <1>3, <1>4, ByteSums
<1>6. l + la \in Nat /\ l + la < 65536 /\ AndHalf(l + la, 3855) = ByteCounts(b0, b1, b2, b3)
  BY <1>1, <1>3, <1>4, ByteSums
<1>7. ShiftRight(x, 4) = <<ha, la>>
  BY <1>1, <1>2, <1>4, ShiftRightValues
<1>8. ha \in Nat /\ la \in Nat
  BY <1>2, <1>3, <1>4 DEF Shift4
<1>9. ha < 65536 /\ la < 65536
  BY <1>2, <1>5, <1>6, <1>8
<1>10. Add32(<<h, l>>, <<ha, la>>) = <<h + ha, l + la>>
  BY <1>2, <1>5, <1>6, <1>8, <1>9, NoCarry
<1>11. QED
  BY <1>1, <1>5, <1>6, <1>7, <1>10 DEF And32, Twice

LEMMA PopcountNibbles ==
  ASSUME NEW a0, NEW a1, NEW a2, NEW a3, NEW b0, NEW b1, NEW b2, NEW b3,
         AreNibbles(a0, a1, a2, a3), AreNibbles(b0, b1, b2, b3)
  PROVE  Popcount32(<<Pack(a0, a1, a2, a3), Pack(b0, b1, b2, b3)>>)
           = (Ones(a0) + Ones(a1)) + (Ones(a2) + Ones(a3))
               + (Ones(b0) + Ones(b1)) + (Ones(b2) + Ones(b3))
<1>1. PICK x : x = <<Pack(a0, a1, a2, a3), Pack(b0, b1, b2, b3)>>
  OBVIOUS
<1>2. PICK x1 : x1 = Sub32(x, And32(ShiftRight(x, 1), Twice(21845)))
  OBVIOUS
<1>3. x1 = <<PairCounts(a0, a1, a2, a3), PairCounts(b0, b1, b2, b3)>>
  BY <1>1, <1>2, PairStep
<1>4. PICK x2 : x2 = Add32(And32(x1, Twice(13107)), And32(ShiftRight(x1, 2), Twice(13107)))
  OBVIOUS
<1>5. x2 = <<NibbleCounts(a0, a1, a2, a3), NibbleCounts(b0, b1, b2, b3)>>
  BY <1>3, <1>4, NibbleStep
<1>6. PICK x3 : x3 = And32(Add32(x2, ShiftRight(x2, 4)), Twice(3855))
  OBVIOUS
<1>7. x3 = <<ByteCounts(a0, a1, a2, a3), ByteCounts(b0, b1, b2, b3)>>
  BY <1>5, <1>6, ByteStep
<1>8. Popcount32(x) = TimesOnes(x3)[1] \div 256
  BY <1>2, <1>4, <1>6 DEF Popcount32
<1>9. QED
  BY <1>1, <1>7, <1>8, TopByte

-----------------------------------------------------------------------------
(***************************************************************************)
(* A mask is the set of its bits.                                          *)
(***************************************************************************)
In(B, k) == IF k \in B THEN 1 ELSE 0

Indicator(B, c) == [k \in 0..15 |-> In(B, c + k)]

\* Bits c to c + 15 of the mask that has the bits B.
HalfOf(B, c) == FromBits(Indicator(B, c))

MaskOf(B) ==
  [hi |-> <<HalfOf(B, 48), HalfOf(B, 32)>>, lo |-> <<HalfOf(B, 16), HalfOf(B, 0)>>]

LEMMA IndicatorType ==
  ASSUME NEW B, NEW c
  PROVE  Indicator(B, c) \in Bits16
  BY DEF Indicator, Bits16, In

LEMMA BitOfHalf ==
  ASSUME NEW B, NEW c, NEW k, c \in Nat, k \in 0..15
  PROVE  BitAt(HalfOf(B, c), k) = In(B, c + k)
<1>1. Indicator(B, c)[k] = In(B, c + k)
  BY DEF Indicator
<1>2. BitAt(FromBits(Indicator(B, c)), k) = Indicator(B, c)[k]
  BY IndicatorType, BitsBack
<1>3. QED
  BY <1>1, <1>2 DEF HalfOf

LEMMA HalfOfType ==
  ASSUME NEW B, NEW c
  PROVE  HalfOf(B, c) \in Nat /\ HalfOf(B, c) < 65536
  BY IndicatorType, BitsBack DEF HalfOf

LEMMA AndOfSets ==
  ASSUME NEW A, NEW B, NEW c, c \in Nat
  PROVE  AndHalf(HalfOf(A, c), HalfOf(B, c)) = HalfOf(A \cap B, c)
<1>1. ASSUME NEW k \in 0..15
      PROVE  BitAt(HalfOf(A, c), k) * BitAt(HalfOf(B, c), k) = In(A \cap B, c + k)
  <2>1. BitAt(HalfOf(A, c), k) = In(A, c + k) /\ BitAt(HalfOf(B, c), k) = In(B, c + k)
    BY BitOfHalf
  <2>2. In(A, c + k) * In(B, c + k) = In(A \cap B, c + k)
    BY DEF In
  <2>3. QED
    BY <2>1, <2>2
<1>2. [k \in 0..15 |-> BitAt(HalfOf(A, c), k) * BitAt(HalfOf(B, c), k)] = Indicator(A \cap B, c)
  BY <1>1 DEF Indicator
<1>3. QED
  BY <1>2 DEF AndHalf, HalfOf

\* The | of any set of masks whose bits, taken together, are B.
LEMMA OrOfSets ==
  ASSUME NEW S, NEW B, NEW c,
         \A k \in 0..15 : (\E x \in S : BitAt(x, k) = 1) <=> c + k \in B
  PROVE  OrHalves(S) = HalfOf(B, c)
<1>1. [k \in 0..15 |-> IF \E x \in S : BitAt(x, k) = 1 THEN 1 ELSE 0] = Indicator(B, c)
  BY DEF Indicator, In
<1>2. QED
  BY <1>1 DEF OrHalves, HalfOf

LEMMA BitSet ==
  ASSUME NEW B, NEW c, NEW k, c \in Nat, k \in 0..15
  PROVE  BitAt(HalfOf(B, c), k) = 1 <=> c + k \in B
<1>1. In(B, c + k) = 1 <=> c + k \in B
  BY DEF In
<1>2. BitAt(HalfOf(B, c), k) = In(B, c + k)
  BY BitOfHalf
<1>3. QED
  BY <1>1, <1>2

Spike(n) == [k \in 0..15 |-> IF k = n THEN 1 ELSE 0]

LEMMA SpikeValues ==
  ASSUME NEW n \in Int
  PROVE  /\ n \in 0..15 => FromBits(Spike(n)) = TwoTo(n)
         /\ n \notin 0..15 => FromBits(Spike(n)) = 0
<1>1. \A k \in 0..15 : (k = n => Spike(n)[k] = 1) /\ (k # n => Spike(n)[k] = 0)
  BY DEF Spike
<1>2. PICK f : f = Spike(n)
  OBVIOUS
<1>3. \A k \in 0..15 : (k = n => f[k] = 1) /\ (k # n => f[k] = 0)
  BY <1>1, <1>2
<1>4. CASE n \notin 0..15
  <2>1. \A k \in 0..15 : f[k] = 0
    BY <1>3, <1>4
  <2>2. FromBits(f) = 0
    BY <2>1 DEF FromBits, Nibble
  <2>3. QED
    BY <1>2, <1>4, <2>2
<1>5. CASE n \in 0..15
  <2>1. FromBits(f) = TwoTo(n)
    BY <1>3, <1>5, TwoToValues DEF FromBits, Nibble
  <2>2. QED
    BY <1>2, <1>5, <2>1
<1>6. QED
  BY <1>4, <1>5

\* One word sets the bit of its hash and no other, in whichever half it is.
LEMMA OneBit ==
  ASSUME NEW p, NEW c, p \in Int, c \in Int
  PROVE  /\ p - c \in 0..15 => HalfOf({p}, c) = TwoTo(p - c)
         /\ p - c \notin 0..15 => HalfOf({p}, c) = 0
<1>1. Indicator({p}, c) = Spike(p - c)
  <2>1. \A k \in 0..15 : In({p}, c + k) = IF k = p - c THEN 1 ELSE 0
    BY DEF In
  <2>2. QED
    BY <2>1 DEF Indicator, Spike
<1>2. p - c \in Int
  OBVIOUS
<1>3. QED
  BY <1>1, <1>2, SpikeValues DEF HalfOf

LEMMA AddToMaskBit ==
  ASSUME NEW w \in Word
  PROVE  AddToMask(w) = MaskOf({Bit[w]})
<1>1. PICK p \in 0..63 : p = Bit[w]
  BY ScoringAssumption
<1>2. ASSUME NEW c \in Int
      PROVE  /\ c <= p /\ p < c + 16 => HalfOf({p}, c) = TwoTo(p - c)
             /\ p < c \/ c + 16 <= p => HalfOf({p}, c) = 0
  <2>1. /\ c <= p /\ p < c + 16 => p - c \in 0..15
        /\ p < c \/ c + 16 <= p => p - c \notin 0..15
    OBVIOUS
  <2>2. p \in Int
    OBVIOUS
  <2>3. QED
    BY <2>1, <2>2, OneBit
<1>3. p \in Nat /\ p < 64 /\ p = Bit[w]
  BY <1>1
<1>4. CASE p < 16
  <2>1. AddToMask(w) = [hi |-> <<0, 0>>, lo |-> <<0, TwoTo(p)>>]
    BY <1>3, <1>4 DEF AddToMask, EmptyMask, OneShifted
  <2>2. /\ HalfOf({p}, 0) = TwoTo(p) /\ HalfOf({p}, 16) = 0
        /\ HalfOf({p}, 32) = 0 /\ HalfOf({p}, 48) = 0
    <3>1. HalfOf({p}, 0) = TwoTo(p)
      <4>1. 0 \in Int /\ 0 <= p /\ p < 0 + 16 /\ p - 0 = p
        BY <1>3, <1>4
      <4>2. QED
        BY <1>2, <4>1, Zenon
    <3>2. HalfOf({p}, 16) = 0 /\ HalfOf({p}, 32) = 0 /\ HalfOf({p}, 48) = 0
      BY <1>2, <1>3, <1>4
    <3>3. QED
      BY <3>1, <3>2
  <2>3. QED
    BY <1>3, <2>1, <2>2 DEF MaskOf
<1>5. CASE 16 <= p /\ p < 32
  <2>1. AddToMask(w) = [hi |-> <<0, 0>>, lo |-> <<TwoTo(p - 16), 0>>]
    BY <1>3, <1>5 DEF AddToMask, EmptyMask, OneShifted
  <2>2. /\ HalfOf({p}, 0) = 0 /\ HalfOf({p}, 16) = TwoTo(p - 16)
        /\ HalfOf({p}, 32) = 0 /\ HalfOf({p}, 48) = 0
    <3>1. HalfOf({p}, 0) = 0 /\ HalfOf({p}, 32) = 0 /\ HalfOf({p}, 48) = 0
      BY <1>2, <1>3, <1>5
    <3>2. HalfOf({p}, 16) = TwoTo(p - 16)
      BY <1>2, <1>3, <1>5
    <3>3. QED
      BY <3>1, <3>2
  <2>3. QED
    BY <1>3, <2>1, <2>2 DEF MaskOf
<1>6. CASE 32 <= p /\ p < 48
  <2>1. AddToMask(w) = [hi |-> <<0, TwoTo(p - 32)>>, lo |-> <<0, 0>>]
    BY <1>3, <1>6 DEF AddToMask, EmptyMask, OneShifted
  <2>2. /\ HalfOf({p}, 0) = 0 /\ HalfOf({p}, 16) = 0
        /\ HalfOf({p}, 32) = TwoTo(p - 32) /\ HalfOf({p}, 48) = 0
    <3>1. HalfOf({p}, 0) = 0 /\ HalfOf({p}, 16) = 0 /\ HalfOf({p}, 48) = 0
      BY <1>2, <1>3, <1>6
    <3>2. HalfOf({p}, 32) = TwoTo(p - 32)
      BY <1>2, <1>3, <1>6
    <3>3. QED
      BY <3>1, <3>2
  <2>3. QED
    BY <1>3, <2>1, <2>2 DEF MaskOf
<1>7. CASE 48 <= p
  <2>1. (p - 32) - 16 = p - 48
    BY <1>3
  <2>2. AddToMask(w) = [hi |-> <<TwoTo(p - 48), 0>>, lo |-> <<0, 0>>]
    BY <1>3, <1>7, <2>1 DEF AddToMask, EmptyMask, OneShifted
  <2>3. /\ HalfOf({p}, 0) = 0 /\ HalfOf({p}, 16) = 0
        /\ HalfOf({p}, 32) = 0 /\ HalfOf({p}, 48) = TwoTo(p - 48)
    <3>1. HalfOf({p}, 0) = 0 /\ HalfOf({p}, 16) = 0 /\ HalfOf({p}, 32) = 0
      BY <1>2, <1>3, <1>7
    <3>2. HalfOf({p}, 48) = TwoTo(p - 48)
      BY <1>2, <1>3, <1>7
    <3>3. QED
      BY <3>1, <3>2
  <2>4. QED
    BY <1>3, <2>2, <2>3 DEF MaskOf
<1>8. QED
  BY <1>3, <1>4, <1>5, <1>6, <1>7

\* The halves at bit c of the masks of single words.
Collects(S, W, c) == \A x : x \in S <=> \E w \in W : x = HalfOf({Bit[w]}, c)

Images(H, W, g) == \A x : x \in H <=> \E w \in W : x = g[w]
Parts(T, H, i) == \A y : y \in T <=> \E x \in H : y = x[i]
HalvesAt(W, g, i, c) == \A w \in W : g[w][i] = HalfOf({Bit[w]}, c)

LEMMA Collected ==
  ASSUME NEW W, NEW g, NEW H, NEW T, NEW i, NEW c,
         Images(H, W, g), Parts(T, H, i), HalvesAt(W, g, i, c)
  PROVE  Collects(T, W, c)
<1>1. ASSUME NEW y \in T
      PROVE  \E w \in W : y = HalfOf({Bit[w]}, c)
  <2>1. PICK x \in H : y = x[i]
    BY DEF Parts
  <2>2. PICK w \in W : x = g[w]
    BY DEF Images
  <2>3. y = HalfOf({Bit[w]}, c)
    BY <2>1, <2>2 DEF HalvesAt
  <2>4. QED
    BY <2>3
<1>2. ASSUME NEW w \in W
      PROVE  HalfOf({Bit[w]}, c) \in T
  <2>1. g[w] \in H
    BY DEF Images
  <2>2. g[w][i] \in T
    BY <2>1 DEF Parts
  <2>3. QED
    BY <2>2 DEF HalvesAt
<1>3. QED
  BY <1>1, <1>2 DEF Collects

LEMMA OrOfTokens ==
  ASSUME NEW W, NEW S, NEW c, c \in Nat, Collects(S, W, c)
  PROVE  OrHalves(S) = HalfOf(Bits(W), c)
<1>1. \A x : x \in S <=> \E w \in W : x = HalfOf({Bit[w]}, c)
  BY DEF Collects
<1>2. ASSUME NEW k \in 0..15
      PROVE  (\E x \in S : BitAt(x, k) = 1) <=> c + k \in Bits(W)
  <2>1. ASSUME NEW w \in W
        PROVE  BitAt(HalfOf({Bit[w]}, c), k) = 1 <=> c + k = Bit[w]
    BY BitSet
  <2>2. (\E x \in S : BitAt(x, k) = 1)
          <=> \E w \in W : BitAt(HalfOf({Bit[w]}, c), k) = 1
    BY <1>1
  <2>3. QED
    BY <2>1, <2>2 DEF Bits
<1>3. QED
  BY <1>2, OrOfSets

\* The loop over the words makes the mask of the set of their bits.
LEMMA BuildMask ==
  ASSUME NEW W, W \subseteq Word
  PROVE  BuildMaskFromTokens(W) = MaskOf(Bits(W))
<1>1. \A w \in W : AddToMask(w) = MaskOf({Bit[w]})
  BY AddToMaskBit
<1> DEFINE H == {AddToMask(w).hi : w \in W}
           L == {AddToMask(w).lo : w \in W}
           hi == [w \in W |-> AddToMask(w).hi]
           lo == [w \in W |-> AddToMask(w).lo]
<1>2. /\ HalvesAt(W, hi, 1, 48) /\ HalvesAt(W, hi, 2, 32)
      /\ HalvesAt(W, lo, 1, 16) /\ HalvesAt(W, lo, 2, 0)
  BY <1>1 DEF MaskOf, HalvesAt
<1>3. Images(H, W, hi) /\ Images(L, W, lo)
  BY DEF Images
<1>4. BuildMaskFromTokens(W)
        = [hi |-> <<OrHalves({x[1] : x \in H}), OrHalves({x[2] : x \in H})>>,
           lo |-> <<OrHalves({x[1] : x \in L}), OrHalves({x[2] : x \in L})>>]
  BY DEF BuildMaskFromTokens, OrAll
<1> HIDE DEF H, L, hi, lo
<1>5. OrHalves({x[1] : x \in H}) = HalfOf(Bits(W), 48)
  <2>1. PICK T : T = {x[1] : x \in H}
    OBVIOUS
  <2>2. Parts(T, H, 1)
    BY <2>1 DEF Parts
  <2>3. Collects(T, W, 48)
    BY <1>2, <1>3, <2>2, Collected
  <2>4. QED
    BY <2>1, <2>3, OrOfTokens
<1>6. OrHalves({x[2] : x \in H}) = HalfOf(Bits(W), 32)
  <2>1. PICK T : T = {x[2] : x \in H}
    OBVIOUS
  <2>2. Parts(T, H, 2)
    BY <2>1 DEF Parts
  <2>3. Collects(T, W, 32)
    BY <1>2, <1>3, <2>2, Collected
  <2>4. QED
    BY <2>1, <2>3, OrOfTokens
<1>7. OrHalves({x[1] : x \in L}) = HalfOf(Bits(W), 16)
  <2>1. PICK T : T = {x[1] : x \in L}
    OBVIOUS
  <2>2. Parts(T, L, 1)
    BY <2>1 DEF Parts
  <2>3. Collects(T, W, 16)
    BY <1>2, <1>3, <2>2, Collected
  <2>4. QED
    BY <2>1, <2>3, OrOfTokens
<1>8. OrHalves({x[2] : x \in L}) = HalfOf(Bits(W), 0)
  <2>1. PICK T : T = {x[2] : x \in L}
    OBVIOUS
  <2>2. Parts(T, L, 2)
    BY <2>1 DEF Parts
  <2>3. Collects(T, W, 0)
    BY <1>2, <1>3, <2>2, Collected
  <2>4. QED
    BY <2>1, <2>3, OrOfTokens
<1>9. QED
  BY <1>4, <1>5, <1>6, <1>7, <1>8 DEF MaskOf

LEMMA AndMask ==
  ASSUME NEW A, NEW B
  PROVE  /\ And32(MaskOf(A).hi, MaskOf(B).hi) = MaskOf(A \cap B).hi
         /\ And32(MaskOf(A).lo, MaskOf(B).lo) = MaskOf(A \cap B).lo
  BY AndOfSets DEF And32, MaskOf

LEMMA OrTwo ==
  ASSUME NEW A, NEW B, NEW c, c \in Nat
  PROVE  OrHalves({HalfOf(A, c), HalfOf(B, c)}) = HalfOf(A \cup B, c)
<1>1. ASSUME NEW k \in 0..15
      PROVE  (\E x \in {HalfOf(A, c), HalfOf(B, c)} : BitAt(x, k) = 1) <=> c + k \in A \cup B
  <2>1. BitAt(HalfOf(A, c), k) = 1 <=> c + k \in A
    BY BitSet
  <2>2. BitAt(HalfOf(B, c), k) = 1 <=> c + k \in B
    BY BitSet
  <2>3. QED
    BY <2>1, <2>2
<1>2. QED
  BY <1>1, OrOfSets

LEMMA OrMask ==
  ASSUME NEW A, NEW B
  PROVE  /\ Or32(MaskOf(A).hi, MaskOf(B).hi) = MaskOf(A \cup B).hi
         /\ Or32(MaskOf(A).lo, MaskOf(B).lo) = MaskOf(A \cup B).lo
<1>1. ASSUME NEW x, NEW y
      PROVE  Or32(x, y) = <<OrHalves({x[1], y[1]}), OrHalves({x[2], y[2]})>>
  <2>1. {z[1] : z \in {x, y}} = {x[1], y[1]} /\ {z[2] : z \in {x, y}} = {x[2], y[2]}
    OBVIOUS
  <2>2. QED
    BY <2>1 DEF Or32, OrAll
<1>2. Or32(MaskOf(A).hi, MaskOf(B).hi)
        = <<OrHalves({HalfOf(A, 48), HalfOf(B, 48)}), OrHalves({HalfOf(A, 32), HalfOf(B, 32)})>>
  BY <1>1 DEF MaskOf
<1>3. Or32(MaskOf(A).lo, MaskOf(B).lo)
        = <<OrHalves({HalfOf(A, 16), HalfOf(B, 16)}), OrHalves({HalfOf(A, 0), HalfOf(B, 0)})>>
  BY <1>1 DEF MaskOf
<1>4. QED
  BY <1>2, <1>3, OrTwo DEF MaskOf

-----------------------------------------------------------------------------
(***************************************************************************)
(* The number of bits of a mask is the number of elements of its set.      *)
(***************************************************************************)
In4(B, c) == (In(B, c) + In(B, c + 1)) + (In(B, c + 2) + In(B, c + 3))

LEMMA OnesOfNibble ==
  ASSUME NEW B, NEW c, NEW k, c \in Nat, k \in {0, 4, 8, 12}
  PROVE  Ones(Nibble(Indicator(B, c), k)) = In4(B, c + k)
<1>1. PICK b : b = Indicator(B, c)
  OBVIOUS
<1>2. PICK n : n = Nibble(b, k)
  OBVIOUS
<1>3. b \in Bits16
  BY <1>1, IndicatorType
<1>4. /\ n % 2 = b[k] /\ (n \div 2) % 2 = b[k + 1]
      /\ (n \div 4) % 2 = b[k + 2] /\ (n \div 8) % 2 = b[k + 3]
  BY <1>2, <1>3, NibbleBits
<1>5. /\ k \in 0..15 /\ k + 1 \in 0..15 /\ k + 2 \in 0..15 /\ k + 3 \in 0..15
      /\ c + (k + 1) = (c + k) + 1 /\ c + (k + 2) = (c + k) + 2 /\ c + (k + 3) = (c + k) + 3
  OBVIOUS
<1>6. \A j \in 0..15 : b[j] = In(B, c + j)
  BY <1>1 DEF Indicator
<1>7. /\ b[k] = In(B, c + k) /\ b[k + 1] = In(B, (c + k) + 1)
      /\ b[k + 2] = In(B, (c + k) + 2) /\ b[k + 3] = In(B, (c + k) + 3)
  BY <1>5, <1>6, Zenon
<1>8. Ones(n) = (b[k] + b[k + 1]) + (b[k + 2] + b[k + 3])
  BY <1>4, Zenon DEF Ones, Low2, High2
<1>9. QED
  BY <1>1, <1>2, <1>7, <1>8, Zenon DEF In4

LEMMA HalfOfNibbles ==
  ASSUME NEW B, NEW c, NEW n0, NEW n1, NEW n2, NEW n3, c \in Nat,
         /\ n0 = Nibble(Indicator(B, c), 0) /\ n1 = Nibble(Indicator(B, c), 4)
         /\ n2 = Nibble(Indicator(B, c), 8) /\ n3 = Nibble(Indicator(B, c), 12)
  PROVE  /\ AreNibbles(n0, n1, n2, n3)
         /\ HalfOf(B, c) = Pack(n0, n1, n2, n3)
         /\ Ones(n0) = In4(B, c) /\ Ones(n1) = In4(B, c + 4)
         /\ Ones(n2) = In4(B, c + 8) /\ Ones(n3) = In4(B, c + 12)
<1>1. PICK b \in Bits16 : b = Indicator(B, c)
  BY IndicatorType
<1>2. AreNibbles(n0, n1, n2, n3)
  BY <1>1, NibbleBits DEF AreNibbles
<1>3. HalfOf(B, c) = Pack(n0, n1, n2, n3)
  BY <1>1, FromBitsPacks DEF HalfOf
<1>4. c + 0 = c
  OBVIOUS
<1>5. QED
  BY <1>2, <1>3, <1>4, OnesOfNibble

LEMMA PopcountOfHalves ==
  ASSUME NEW B, NEW c, NEW d, c \in Nat, d \in Nat
  PROVE  Popcount32(<<HalfOf(B, c), HalfOf(B, d)>>)
           = (In4(B, c) + In4(B, c + 4)) + (In4(B, c + 8) + In4(B, c + 12))
               + (In4(B, d) + In4(B, d + 4)) + (In4(B, d + 8) + In4(B, d + 12))
<1>1. PICK a0, a1, a2, a3 :
        /\ a0 = Nibble(Indicator(B, c), 0) /\ a1 = Nibble(Indicator(B, c), 4)
        /\ a2 = Nibble(Indicator(B, c), 8) /\ a3 = Nibble(Indicator(B, c), 12)
  OBVIOUS
<1>2. PICK b0, b1, b2, b3 :
        /\ b0 = Nibble(Indicator(B, d), 0) /\ b1 = Nibble(Indicator(B, d), 4)
        /\ b2 = Nibble(Indicator(B, d), 8) /\ b3 = Nibble(Indicator(B, d), 12)
  OBVIOUS
<1>3. /\ AreNibbles(a0, a1, a2, a3)
      /\ HalfOf(B, c) = Pack(a0, a1, a2, a3)
      /\ Ones(a0) = In4(B, c) /\ Ones(a1) = In4(B, c + 4)
      /\ Ones(a2) = In4(B, c + 8) /\ Ones(a3) = In4(B, c + 12)
  BY <1>1, HalfOfNibbles
<1>4. /\ AreNibbles(b0, b1, b2, b3)
      /\ HalfOf(B, d) = Pack(b0, b1, b2, b3)
      /\ Ones(b0) = In4(B, d) /\ Ones(b1) = In4(B, d + 4)
      /\ Ones(b2) = In4(B, d + 8) /\ Ones(b3) = In4(B, d + 12)
  BY <1>2, HalfOfNibbles
<1>5. Popcount32(<<Pack(a0, a1, a2, a3), Pack(b0, b1, b2, b3)>>)
           = (Ones(a0) + Ones(a1)) + (Ones(a2) + Ones(a3))
               + (Ones(b0) + Ones(b1)) + (Ones(b2) + Ones(b3))
  BY <1>3, <1>4, PopcountNibbles
<1>6. QED
  BY <1>3, <1>4, <1>5, Zenon

Below(B, c) == {k \in B : k < c}

LEMMA BelowStep ==
  ASSUME NEW B, NEW c, B \subseteq Nat, c \in Nat, IsFiniteSet(Below(B, c))
  PROVE  /\ IsFiniteSet(Below(B, c + 1))
         /\ Cardinality(Below(B, c + 1)) = Cardinality(Below(B, c)) + In(B, c)
         /\ Cardinality(Below(B, c)) \in Nat
<1>1. Cardinality(Below(B, c)) \in Nat
  BY FS_CardinalityType
<1>2. \A k \in B : k < c + 1 <=> k < c \/ k = c
  OBVIOUS
<1>3. CASE c \in B
  <2>1. Below(B, c + 1) = Below(B, c) \cup {c}
    BY <1>2, <1>3, Zenon DEF Below
  <2>2. c \notin Below(B, c)
    BY DEF Below
  <2>3. /\ IsFiniteSet(Below(B, c) \cup {c})
        /\ Cardinality(Below(B, c) \cup {c}) = Cardinality(Below(B, c)) + 1
    BY <2>2, FS_AddElement
  <2>4. QED
    BY <1>1, <1>3, <2>1, <2>3 DEF In
<1>4. CASE c \notin B
  <2>1. Below(B, c + 1) = Below(B, c)
    BY <1>2, <1>4, Zenon DEF Below
  <2>2. QED
    BY <1>1, <1>4, <2>1 DEF In
<1>5. QED
  BY <1>3, <1>4

\* B has n elements below c.
CountBelow(B, c, n) ==
  /\ n \in Nat
  /\ IsFiniteSet(Below(B, c))
  /\ Cardinality(Below(B, c)) = n

LEMMA CountOne ==
  ASSUME NEW B, NEW c, NEW n, B \subseteq Nat, c \in Nat, CountBelow(B, c, n)
  PROVE  CountBelow(B, c + 1, n + In(B, c))
<1>1. In(B, c) \in Nat
  BY DEF In
<1>2. IsFiniteSet(Below(B, c)) /\ Cardinality(Below(B, c)) = n /\ n \in Nat
  BY DEF CountBelow
<1>3. /\ IsFiniteSet(Below(B, c + 1))
      /\ Cardinality(Below(B, c + 1)) = n + In(B, c)
  BY <1>2, BelowStep
<1>4. n + In(B, c) \in Nat
  BY <1>1, <1>2
<1>5. QED
  BY <1>3, <1>4 DEF CountBelow

LEMMA CountFour ==
  ASSUME NEW B, NEW c, NEW n, B \subseteq Nat, c \in Nat, CountBelow(B, c, n)
  PROVE  CountBelow(B, c + 4, n + In4(B, c))
<1>1. PICK i0, i1, i2, i3 :
        /\ i0 = In(B, c) /\ i1 = In(B, c + 1) /\ i2 = In(B, c + 2) /\ i3 = In(B, c + 3)
  OBVIOUS
<1>2. i0 \in Nat /\ i1 \in Nat /\ i2 \in Nat /\ i3 \in Nat
  BY <1>1 DEF In
<1>3. n \in Nat
  BY DEF CountBelow
<1>4. /\ c + 1 \in Nat /\ c + 2 \in Nat /\ c + 3 \in Nat
      /\ (c + 1) + 1 = c + 2 /\ (c + 2) + 1 = c + 3 /\ (c + 3) + 1 = c + 4
  OBVIOUS
<1>5. CountBelow(B, c + 1, n + i0)
  BY <1>1, CountOne
<1>6. CountBelow(B, (c + 1) + 1, (n + i0) + i1)
  BY <1>1, <1>4, <1>5, CountOne
<1>7. CountBelow(B, (c + 2) + 1, ((n + i0) + i1) + i2)
  BY <1>1, <1>4, <1>6, CountOne
<1>8. CountBelow(B, (c + 3) + 1, (((n + i0) + i1) + i2) + i3)
  BY <1>1, <1>4, <1>7, CountOne
<1>9. (((n + i0) + i1) + i2) + i3 = n + ((i0 + i1) + (i2 + i3))
  BY <1>2, <1>3
<1>10. QED
  BY <1>1, <1>4, <1>8, <1>9 DEF In4

LEMMA CountSixteen ==
  ASSUME NEW B, NEW c, NEW n, B \subseteq Nat, c \in Nat, CountBelow(B, c, n)
  PROVE  CountBelow(B, c + 16, n + ((In4(B, c) + In4(B, c + 4))
                                      + (In4(B, c + 8) + In4(B, c + 12))))
<1>1. PICK i0, i1, i2, i3 :
        /\ i0 = In4(B, c) /\ i1 = In4(B, c + 4) /\ i2 = In4(B, c + 8) /\ i3 = In4(B, c + 12)
  OBVIOUS
<1>2. \A k : In4(B, k) \in Nat
  BY DEF In4, In
<1>3. i0 \in Nat /\ i1 \in Nat /\ i2 \in Nat /\ i3 \in Nat /\ n \in Nat
  BY <1>1, <1>2 DEF CountBelow
<1>4. /\ c + 4 \in Nat /\ c + 8 \in Nat /\ c + 12 \in Nat
      /\ (c + 4) + 4 = c + 8 /\ (c + 8) + 4 = c + 12 /\ (c + 12) + 4 = c + 16
  OBVIOUS
<1>5. CountBelow(B, c + 4, n + i0)
  BY <1>1, CountFour
<1>6. CountBelow(B, (c + 4) + 4, (n + i0) + i1)
  BY <1>1, <1>4, <1>5, CountFour
<1>7. CountBelow(B, (c + 8) + 4, ((n + i0) + i1) + i2)
  BY <1>1, <1>4, <1>6, CountFour
<1>8. CountBelow(B, (c + 12) + 4, (((n + i0) + i1) + i2) + i3)
  BY <1>1, <1>4, <1>7, CountFour
<1>9. (((n + i0) + i1) + i2) + i3 = n + ((i0 + i1) + (i2 + i3))
  BY <1>3
<1>10. QED
  BY <1>1, <1>4, <1>8, <1>9

In16(B, c) == (In4(B, c) + In4(B, c + 4)) + (In4(B, c + 8) + In4(B, c + 12))

LEMMA PopcountCounts ==
  ASSUME NEW B, B \subseteq 0..63
  PROVE  IsFiniteSet(B) /\ Popcount64(MaskOf(B)) = Cardinality(B)
<1>1. \A k : In16(B, k) \in Nat
  BY DEF In16, In4, In
<1>2. PICK s0, s1, s2, s3 :
        /\ s0 = In16(B, 0) /\ s1 = In16(B, 16) /\ s2 = In16(B, 32) /\ s3 = In16(B, 48)
  OBVIOUS
<1>3. s0 \in Nat /\ s1 \in Nat /\ s2 \in Nat /\ s3 \in Nat
  BY <1>1, <1>2
<1>4. ASSUME NEW c, NEW n, c \in Nat, CountBelow(B, c, n)
      PROVE  CountBelow(B, c + 16, n + In16(B, c))
  <2>1. B \subseteq Nat
    OBVIOUS
  <2>2. QED
    BY <1>4, <2>1, CountSixteen DEF In16
<1>5. CountBelow(B, 0, 0)
  <2>1. \A k \in B : ~(k < 0)
    OBVIOUS
  <2>2. Below(B, 0) = {}
    BY <2>1, Zenon DEF Below
  <2>3. QED
    BY <2>2, FS_EmptySet DEF CountBelow
<1>6. CountBelow(B, 16, s0)
  <2>1. CountBelow(B, 0 + 16, 0 + In16(B, 0))
    BY <1>4, <1>5
  <2>2. 0 + 16 = 16 /\ 0 + s0 = s0
    BY <1>3
  <2>3. QED
    BY <1>2, <2>1, <2>2
<1>7. CountBelow(B, 32, s0 + s1)
  <2>1. CountBelow(B, 16 + 16, s0 + In16(B, 16))
    BY <1>4, <1>6
  <2>2. QED
    BY <1>2, <2>1
<1>8. CountBelow(B, 48, (s0 + s1) + s2)
  <2>1. CountBelow(B, 32 + 16, (s0 + s1) + In16(B, 32))
    BY <1>4, <1>7
  <2>2. QED
    BY <1>2, <2>1
<1>9. CountBelow(B, 64, ((s0 + s1) + s2) + s3)
  <2>1. CountBelow(B, 48 + 16, ((s0 + s1) + s2) + In16(B, 48))
    BY <1>4, <1>8
  <2>2. QED
    BY <1>2, <2>1
<1>10. Below(B, 64) = B
  <2>1. \A k \in B : k < 64
    OBVIOUS
  <2>2. QED
    BY <2>1, Zenon DEF Below
<1>11. ASSUME NEW c, NEW d, c \in Nat, d \in Nat
       PROVE  Popcount32(<<HalfOf(B, c), HalfOf(B, d)>>) = In16(B, c) + In16(B, d)
  <2>1. \A k : In4(B, k) \in Nat
    BY DEF In4, In
  <2>2. PICK i0, i1, i2, i3, j0, j1, j2, j3 :
          /\ i0 = In4(B, c) /\ i1 = In4(B, c + 4) /\ i2 = In4(B, c + 8) /\ i3 = In4(B, c + 12)
          /\ j0 = In4(B, d) /\ j1 = In4(B, d + 4) /\ j2 = In4(B, d + 8) /\ j3 = In4(B, d + 12)
    OBVIOUS
  <2>3. /\ i0 \in Nat /\ i1 \in Nat /\ i2 \in Nat /\ i3 \in Nat
        /\ j0 \in Nat /\ j1 \in Nat /\ j2 \in Nat /\ j3 \in Nat
    BY <2>1, <2>2
  <2>4. Popcount32(<<HalfOf(B, c), HalfOf(B, d)>>)
          = (i0 + i1) + (i2 + i3) + (j0 + j1) + (j2 + j3)
    BY <1>11, <2>2, PopcountOfHalves
  <2>5. In16(B, c) = (i0 + i1) + (i2 + i3) /\ In16(B, d) = (j0 + j1) + (j2 + j3)
    BY <2>2 DEF In16
  <2>6. QED
    BY <2>3, <2>4, <2>5
<1>12. /\ Popcount32(MaskOf(B).hi) = s3 + s2
       /\ Popcount32(MaskOf(B).lo) = s1 + s0
  BY <1>2, <1>11 DEF MaskOf
<1>13. Popcount64(MaskOf(B)) = ((s0 + s1) + s2) + s3
  BY <1>3, <1>12 DEF Popcount64
<1>14. QED
  BY <1>9, <1>10, <1>13 DEF CountBelow

-----------------------------------------------------------------------------
(***************************************************************************)
(* The Jaccard index.                                                      *)
(***************************************************************************)
\* A fraction between 0 and 1.
IsShare(r) == r[1] \in Nat /\ r[2] \in Nat /\ 0 < r[2] /\ r[1] <= r[2]

LEMMA JaccardShare ==
  ASSUME NEW A, NEW B, IsFiniteSet(A), IsFiniteSet(B)
  PROVE  /\ IsShare(Jaccard(A, B))
         /\ A \cap B # {} => 0 < Jaccard(A, B)[1]
<1>1. PICK I, U : I = A \cap B /\ U = A \cup B
  OBVIOUS
<1>2. IsFiniteSet(U)
  BY <1>1, FS_Union
<1>3. I \subseteq U
  BY <1>1
<1>4. PICK n, d : n = Cardinality(I) /\ d = Cardinality(U)
  OBVIOUS
<1>5. n \in Nat /\ d \in Nat /\ n <= d
  BY <1>2, <1>3, <1>4, FS_Subset, FS_CardinalityType
<1>6. I # {} => n # 0
  BY <1>2, <1>3, <1>4, FS_Subset, FS_EmptySet
<1>7. Jaccard(A, B) = IF d = 0 THEN <<0, 1>> ELSE <<n, d>>
  BY <1>1, <1>4 DEF Jaccard, Ratio
<1>8. QED
  BY <1>1, <1>5, <1>6, <1>7 DEF IsShare

\* What the masks compute is the index of the sets they stand for.
LEMMA JaccardOfMasks ==
  ASSUME NEW A, NEW B, A \subseteq 0..63, B \subseteq 0..63
  PROVE  JaccardMask(MaskOf(A), MaskOf(B)) = Jaccard(A, B)
<1>1. \A C : MaskOf(C) = [hi |-> MaskOf(C).hi, lo |-> MaskOf(C).lo]
  BY DEF MaskOf
<1>2. /\ [hi |-> And32(MaskOf(A).hi, MaskOf(B).hi), lo |-> And32(MaskOf(A).lo, MaskOf(B).lo)]
           = MaskOf(A \cap B)
      /\ [hi |-> Or32(MaskOf(A).hi, MaskOf(B).hi), lo |-> Or32(MaskOf(A).lo, MaskOf(B).lo)]
           = MaskOf(A \cup B)
  BY <1>1, AndMask, OrMask
<1>3. A \cap B \subseteq 0..63 /\ A \cup B \subseteq 0..63
  OBVIOUS
<1>4. /\ Popcount64(MaskOf(A \cap B)) = Cardinality(A \cap B)
      /\ Popcount64(MaskOf(A \cup B)) = Cardinality(A \cup B)
  BY <1>3, PopcountCounts
<1>5. QED
  BY <1>2, <1>4 DEF JaccardMask, Jaccard

-----------------------------------------------------------------------------
(***************************************************************************)
(* Profiles.                                                               *)
(***************************************************************************)
IsProfile(p) == p.age \in Nat /\ p.interests \in Seq(Interest) /\ p.bio \subseteq Word

LEMMA BitsType ==
  ASSUME NEW W, W \subseteq Word
  PROVE  Bits(W) \subseteq 0..63
  BY ScoringAssumption DEF Bits

(***************************************************************************)
(* popcount64 of the mask that the loop over a set of tokens builds is the *)
(* number of different bits the tokens hash to, for every set of tokens:   *)
(* no field of the parallel count (fast.ts:70-75) runs over into the next, *)
(* bit 31 of either half is counted, and words that collide count once.    *)
(***************************************************************************)
THEOREM MaskCountsBits ==
  ASSUME NEW W, W \subseteq Word
  PROVE  Popcount64(BuildMaskFromTokens(W)) = Cardinality(Bits(W))
  BY BitsType, BuildMask, PopcountCounts

LEMMA InterestWordsType ==
  ASSUME NEW s, s \in Seq(Interest)
  PROVE  InterestWords(s) \subseteq Word
<1>1. \A k \in 1..Len(s) : s[k] \in Interest
  OBVIOUS
<1>2. \A x \in Interest : Words[x] \subseteq Word
  BY ScoringAssumption
<1>3. QED
  BY <1>1, <1>2 DEF InterestWords

LEMMA CompiledMasks ==
  ASSUME NEW p, IsProfile(p)
  PROVE  /\ CompileProfile(p).raw = p
         /\ CompileProfile(p).interestMask = MaskOf(Bits(InterestWords(p.interests)))
         /\ CompileProfile(p).bioMask = MaskOf(Bits(p.bio))
         /\ Bits(InterestWords(p.interests)) \subseteq 0..63
         /\ Bits(p.bio) \subseteq 0..63
  BY InterestWordsType, BuildMask, BitsType DEF CompileProfile, IsProfile

LEMMA FirstInterestsFinite ==
  ASSUME NEW p, IsProfile(p)
  PROVE  IsFiniteSet(FirstInterests(p))
<1>1. PICK n \in Nat : n = Len(p.interests)
  BY DEF IsProfile
<1>2. PICK K : K = {k \in 1..n : k <= FallbackTokens}
  OBVIOUS
<1>3. IsFiniteSet(1..n)
  BY FS_Interval
<1>4. IsFiniteSet(K)
  BY <1>2, <1>3, FS_Subset
<1>5. IsFiniteSet({p.interests[k] : k \in K})
  <2>1. PICK f : f = [k \in K |-> p.interests[k]]
    OBVIOUS
  <2>2. PICK T : T = {p.interests[k] : k \in K}
    OBVIOUS
  <2>3. f \in Surjection(K, T)
    BY <2>1, <2>2 DEF Surjection
  <2>4. QED
    BY <1>4, <2>2, <2>3, FS_Surjection
<1>6. QED
  BY <1>1, <1>2, <1>5 DEF FirstInterests

\* The similarity of the interests is a share, and not 0 when one is shared.
LEMMA SimilarityShare ==
  ASSUME NEW p, NEW q, IsProfile(p), IsProfile(q)
  PROVE  LET i == InterestSimilarity(CompileProfile(p), CompileProfile(q))
         IN  /\ IsShare(i)
             /\ FirstInterests(p) \cap FirstInterests(q) # {} => 0 < i[1]
<1>1. PICK A, B : /\ A = Bits(InterestWords(p.interests))
                  /\ B = Bits(InterestWords(q.interests))
  OBVIOUS
<1>2. A \subseteq 0..63 /\ B \subseteq 0..63
  BY <1>1, CompiledMasks
<1>3. PICK m : m = JaccardMask(CompileProfile(p).interestMask, CompileProfile(q).interestMask)
  OBVIOUS
<1>4. m = Jaccard(A, B)
  BY <1>1, <1>2, <1>3, CompiledMasks, JaccardOfMasks
<1>5. IsShare(m)
  BY <1>2, <1>4, PopcountCounts, JaccardShare
<1>6. PICK raw : raw = Jaccard(FirstInterests(p), FirstInterests(q))
  OBVIOUS
<1>7. IsShare(raw) /\ (FirstInterests(p) \cap FirstInterests(q) # {} => 0 < raw[1])
  BY <1>6, FirstInterestsFinite, JaccardShare
<1>8. CompileProfile(p).raw = p /\ CompileProfile(q).raw = q
  BY CompiledMasks
<1>9. InterestSimilarity(CompileProfile(p), CompileProfile(q))
        = IF m[1] = 0 THEN <<6 * raw[1], 10 * raw[2]>> ELSE m
  BY <1>3, <1>6, <1>8 DEF InterestSimilarity
<1>10. QED
  BY <1>5, <1>7, <1>9 DEF IsShare

LEMMA BioShare ==
  ASSUME NEW p, NEW q, IsProfile(p), IsProfile(q)
  PROVE  IsShare(JaccardMask(CompileProfile(p).bioMask, CompileProfile(q).bioMask))
<1>1. PICK A, B : A = Bits(p.bio) /\ B = Bits(q.bio)
  OBVIOUS
<1>2. A \subseteq 0..63 /\ B \subseteq 0..63
  BY <1>1, CompiledMasks
<1>3. JaccardMask(CompileProfile(p).bioMask, CompileProfile(q).bioMask) = Jaccard(A, B)
  BY <1>1, <1>2, CompiledMasks, JaccardOfMasks
<1>4. QED
  BY <1>2, <1>3, PopcountCounts, JaccardShare

-----------------------------------------------------------------------------
(***************************************************************************)
(* The score.                                                              *)
(***************************************************************************)
LEMMA Quotient ==
  ASSUME NEW a, NEW m, a \in Nat, m \in Nat, 0 < m
  PROVE  a \div m \in Nat /\ m * (a \div m) <= a /\ a < m * (a \div m) + m
  OBVIOUS

LEMMA Products ==
  ASSUME NEW a, NEW b, NEW c, a \in Nat, b \in Nat, c \in Nat
  PROVE  /\ a <= b => a * c <= b * c
         /\ a * c < b * c => a < b
         /\ a * c \in Nat
         /\ 0 < a /\ 0 < c => 0 < a * c
  OBVIOUS

LEMMA ProximityType ==
  ASSUME NEW r, r \in Int
  PROVE  /\ NormalizeRssiToProximityScore(r) \in Nat
         /\ NormalizeRssiToProximityScore(r) <= 40
  BY DEF NormalizeRssiToProximityScore

LEMMA ProximityMonotone ==
  ASSUME NEW r, NEW s, r \in Int, s \in Int, r < s
  PROVE  NormalizeRssiToProximityScore(r) <= NormalizeRssiToProximityScore(s)
  BY DEF NormalizeRssiToProximityScore

LEMMA ClosenessType ==
  ASSUME NEW a, NEW b, a \in Nat, b \in Nat
  PROVE  AgeCloseness(a, b) \in Nat /\ AgeCloseness(a, b) <= 10
  BY DEF AgeCloseness, Distance

\* The sum before rounding, for shares i and b and f fortieths of a hundredth.
Numerator(f, i, b) == f * i[2] * b[2] + 1600 * i[1] * b[2] + 200 * b[1] * i[2]
Denominator(i, b) == 40 * i[2] * b[2]

LEMMA SumParts ==
  ASSUME NEW f, NEW i, NEW b, NEW D, NEW X, NEW Y, f \in Nat, IsShare(i), IsShare(b),
         D = i[2] * b[2], X = i[1] * b[2], Y = b[1] * i[2]
  PROVE  /\ D \in Nat /\ X \in Nat /\ Y \in Nat
         /\ 0 < D /\ X <= D /\ Y <= D
         /\ Numerator(f, i, b) = f * D + 1600 * X + 200 * Y
         /\ Denominator(i, b) = 40 * D
<1>1. PICK i1, i2, b1, b2 : i1 = i[1] /\ i2 = i[2] /\ b1 = b[1] /\ b2 = b[2]
  OBVIOUS
<1>2. /\ i1 \in Nat /\ i2 \in Nat /\ 0 < i2 /\ i1 <= i2
      /\ b1 \in Nat /\ b2 \in Nat /\ 0 < b2 /\ b1 <= b2
  BY <1>1 DEF IsShare
<1>3. D = i2 * b2 /\ X = i1 * b2 /\ Y = b1 * i2
  BY <1>1
<1>4. D \in Nat /\ X \in Nat /\ Y \in Nat /\ 0 < D
  BY <1>2, <1>3, Products
<1>5. X <= D
  BY <1>2, <1>3, Products
<1>6. Y <= D
  <2>1. b1 * i2 <= b2 * i2
    BY <1>2, Products
  <2>2. b2 * i2 = i2 * b2
    BY <1>2
  <2>3. QED
    BY <1>3, <2>1, <2>2
<1>7. f * i2 * b2 = f * D /\ 1600 * i1 * b2 = 1600 * X /\ 200 * b1 * i2 = 200 * Y
  BY <1>2, <1>3
<1>8. 40 * i2 * b2 = 40 * D
  BY <1>2, <1>3
<1>9. /\ Numerator(f, i, b) = f * D + 1600 * X + 200 * Y
      /\ Denominator(i, b) = 40 * D
  BY <1>1, <1>7, <1>8 DEF Numerator, Denominator
<1>10. QED
  BY <1>4, <1>5, <1>6, <1>9

\* The five weights add up to a hundred.
LEMMA SumBounds ==
  ASSUME NEW f, NEW i, NEW b, f \in Nat, f <= 2200, IsShare(i), IsShare(b)
  PROVE  /\ Numerator(f, i, b) \in Nat
         /\ Denominator(i, b) \in Nat /\ 0 < Denominator(i, b)
         /\ Numerator(f, i, b) <= 100 * Denominator(i, b)
<1>1. PICK D, X, Y : D = i[2] * b[2] /\ X = i[1] * b[2] /\ Y = b[1] * i[2]
  OBVIOUS
<1>2. Numerator(f, i, b) = f * D + 1600 * X + 200 * Y
  BY <1>1, SumParts
<1>3. D \in Nat /\ X \in Nat /\ Y \in Nat /\ 0 < D /\ X <= D /\ Y <= D
  BY <1>1, <1>2, SumParts
<1>4. Denominator(i, b) = 40 * D
  BY <1>1, <1>2, SumParts
<1>5. PICK F : F = f * D
  OBVIOUS
<1>6. F \in Nat /\ F <= 2200 * D
  BY <1>3, <1>5, Products
<1>7. QED
  BY <1>2, <1>3, <1>4, <1>5, <1>6

LEMMA SumMonotone ==
  ASSUME NEW f, NEW g, NEW i, NEW b, f \in Nat, g \in Nat, f <= g, IsShare(i), IsShare(b)
  PROVE  Numerator(f, i, b) <= Numerator(g, i, b)
<1>1. PICK D, X, Y : D = i[2] * b[2] /\ X = i[1] * b[2] /\ Y = b[1] * i[2]
  OBVIOUS
<1>2. /\ D \in Nat /\ X \in Nat /\ Y \in Nat
      /\ Numerator(f, i, b) = f * D + 1600 * X + 200 * Y
  BY <1>1, SumParts
<1>3. Numerator(g, i, b) = g * D + 1600 * X + 200 * Y
  BY <1>1, SumParts
<1>4. PICK F, G : F = f * D /\ G = g * D
  OBVIOUS
<1>5. F \in Nat /\ G \in Nat /\ F <= G
  BY <1>2, <1>4, Products
<1>6. QED
  BY <1>2, <1>3, <1>4, <1>5

LEMMA RoundBounds ==
  ASSUME NEW n, NEW d, n \in Nat, d \in Nat, 0 < d
  PROVE  /\ Round(<<n, d>>) \in Nat
         /\ n <= 100 * d => Round(<<n, d>>) <= 100
         /\ 70 <= Round(<<n, d>>) => 139 * d <= 2 * n
<1>1. PICK a \in Nat, m \in Nat : a = 2 * n + d /\ m = 2 * d
  OBVIOUS
<1>2. 0 < m
  BY <1>1
<1>3. PICK q : q = a \div m
  OBVIOUS
<1>4. q \in Nat /\ m * q <= a /\ a < m * q + m
  BY <1>2, <1>3, Quotient
<1>5. Round(<<n, d>>) = q
  BY <1>1, <1>3 DEF Round
<1>6. ASSUME n <= 100 * d
      PROVE  q <= 100
  <2>1. SUFFICES ASSUME 101 <= q
                 PROVE  FALSE
    BY <1>4
  <2>2. 101 * m <= q * m
    BY <1>4, <2>1, Products
  <2>3. q * m = m * q
    BY <1>4
  <2>4. PICK k \in Int : k = m * q
    BY <1>4
  <2>5. QED
    BY <1>1, <1>2, <1>4, <1>6, <2>2, <2>3, <2>4
<1>7. ASSUME 70 <= q
      PROVE  139 * d <= 2 * n
  <2>1. 70 * m <= q * m
    BY <1>4, <1>7, Products
  <2>2. q * m = m * q
    BY <1>4
  <2>3. PICK k \in Int : k = m * q
    BY <1>4
  <2>4. QED
    BY <1>1, <1>4, <2>1, <2>2, <2>3
<1>8. QED
  BY <1>4, <1>5, <1>6, <1>7

LEMMA RoundMonotone ==
  ASSUME NEW n, NEW k, NEW d, n \in Nat, k \in Nat, d \in Nat, 0 < d, n <= k
  PROVE  Round(<<n, d>>) <= Round(<<k, d>>)
<1>1. PICK a \in Nat, b \in Nat, m \in Nat : a = 2 * n + d /\ b = 2 * k + d /\ m = 2 * d
  OBVIOUS
<1>2. 0 < m /\ a <= b
  BY <1>1
<1>3. PICK q, r : q = a \div m /\ r = b \div m
  OBVIOUS
<1>4. /\ q \in Nat /\ m * q <= a
      /\ r \in Nat /\ b < m * r + m
  BY <1>2, <1>3, Quotient
<1>5. m * q < m * (r + 1)
  <2>1. m * (r + 1) = m * r + m
    BY <1>4
  <2>2. m * q \in Int /\ m * r \in Int
    BY <1>4
  <2>3. QED
    BY <1>2, <1>4, <2>1, <2>2
<1>6. q * m < (r + 1) * m
  BY <1>4, <1>5
<1>7. q < r + 1
  BY <1>4, <1>6, Products
<1>8. Round(<<n, d>>) = q /\ Round(<<k, d>>) = r
  BY <1>1, <1>3 DEF Round
<1>9. QED
  BY <1>4, <1>7, <1>8

\* The fortieths of age, gender and proximity.
Fortieths(p, q, x) ==
  100 * AgeCloseness(p.age, q.age) + (IF GenderAllowed(p, q) THEN 600 ELSE 0) + 15 * x

Similar(p, q) == InterestSimilarity(CompileProfile(p), CompileProfile(q))
SimilarBio(p, q) == JaccardMask(CompileProfile(p).bioMask, CompileProfile(q).bioMask)

LEMMA FortiethsType ==
  ASSUME NEW p, NEW q, NEW x, IsProfile(p), IsProfile(q), x \in Nat, x <= 40
  PROVE  Fortieths(p, q, x) \in Nat /\ Fortieths(p, q, x) <= 2200
<1>1. PICK a : a = AgeCloseness(p.age, q.age)
  OBVIOUS
<1>2. a \in Nat /\ a <= 10
  BY <1>1, ClosenessType DEF IsProfile
<1>3. PICK g \in Nat : g = IF GenderAllowed(p, q) THEN 600 ELSE 0
  OBVIOUS
<1>4. g <= 600
  BY <1>3
<1>5. Fortieths(p, q, x) = 100 * a + g + 15 * x
  BY <1>1, <1>3 DEF Fortieths
<1>6. QED
  BY <1>2, <1>4, <1>5

LEMMA FortiethsMonotone ==
  ASSUME NEW p, NEW q, NEW x, NEW y,
         IsProfile(p), IsProfile(q), x \in Nat, y \in Nat, x <= y
  PROVE  Fortieths(p, q, x) <= Fortieths(p, q, y)
<1>1. PICK a : a = 100 * AgeCloseness(p.age, q.age) + (IF GenderAllowed(p, q) THEN 600 ELSE 0)
  OBVIOUS
<1>2. AgeCloseness(p.age, q.age) \in Nat
  BY ClosenessType DEF IsProfile
<1>3. a \in Nat
  BY <1>1, <1>2
<1>4. Fortieths(p, q, x) = a + 15 * x /\ Fortieths(p, q, y) = a + 15 * y
  BY <1>1 DEF Fortieths
<1>5. QED
  BY <1>3, <1>4

LEMMA WeightedSumValue ==
  ASSUME NEW p, NEW q, NEW x, IsProfile(p), IsProfile(q)
  PROVE  WeightedSum(CompileProfile(p), CompileProfile(q), x)
           = <<Numerator(Fortieths(p, q, x), Similar(p, q), SimilarBio(p, q)),
               Denominator(Similar(p, q), SimilarBio(p, q))>>
<1>1. CompileProfile(p).raw = p /\ CompileProfile(q).raw = q
  BY CompiledMasks
<1>2. PICK i, b : i = Similar(p, q) /\ b = SimilarBio(p, q)
  OBVIOUS
<1>3. PICK f : f = Fortieths(p, q, x)
  OBVIOUS
<1>4. WeightedSum(CompileProfile(p), CompileProfile(q), x)
        = <<f * i[2] * b[2] + 1600 * i[1] * b[2] + 200 * b[1] * i[2], 40 * i[2] * b[2]>>
  BY <1>1, <1>2, <1>3 DEF WeightedSum, Fortieths, Similar, SimilarBio
<1>5. /\ Numerator(f, i, b) = f * i[2] * b[2] + 1600 * i[1] * b[2] + 200 * b[1] * i[2]
      /\ Denominator(i, b) = 40 * i[2] * b[2]
  BY DEF Numerator, Denominator
<1>6. WeightedSum(CompileProfile(p), CompileProfile(q), x)
        = <<Numerator(f, i, b), Denominator(i, b)>>
  BY <1>4, <1>5
<1>7. QED
  BY <1>2, <1>3, <1>6

\* The score of a peer at proximity x.
ScoreAt(p, q, x) == Round(WeightedSum(CompileProfile(p), CompileProfile(q), x))

LEMMA TotalScoreValue ==
  ASSUME NEW p, NEW q, NEW r, NEW x, IsProfile(p),
         x = NormalizeRssiToProximityScore(r)
  PROVE  TotalScore(CompileProfile(p), q, r)
           = IF AgeIncompatible(p.age, q.age) \/ x < 2 THEN 0 ELSE ScoreAt(p, q, x)
<1>1. CompileProfile(p).raw = p
  BY CompiledMasks
<1>2. Round(<<0, 1>>) = 0
  BY DEF Round
<1>3. Round(FastCompatibilityScore(CompileProfile(p), CompileProfile(q), r))
        = IF x < 2 THEN 0 ELSE ScoreAt(p, q, x)
  BY <1>2 DEF FastCompatibilityScore, ScoreAt
<1>4. QED
  BY <1>1, <1>3 DEF TotalScore

LEMMA ScoreAtBounds ==
  ASSUME NEW p, NEW q, NEW x, IsProfile(p), IsProfile(q), x \in Nat, x <= 40
  PROVE  /\ ScoreAt(p, q, x) \in Nat /\ ScoreAt(p, q, x) <= 100
         /\ 70 <= ScoreAt(p, q, x) => 5 * Similar(p, q)[1] >= Similar(p, q)[2]
<1>1. PICK f : f = Fortieths(p, q, x)
  OBVIOUS
<1>2. f \in Nat /\ f <= 2200
  BY <1>1, FortiethsType
<1>3. PICK i, b : i = Similar(p, q) /\ b = SimilarBio(p, q)
  OBVIOUS
<1>4. IsShare(i) /\ IsShare(b)
  BY <1>3, SimilarityShare, BioShare DEF Similar, SimilarBio
<1>5. PICK n, d : n = Numerator(f, i, b) /\ d = Denominator(i, b)
  OBVIOUS
<1>6. n \in Nat /\ d \in Nat /\ 0 < d /\ n <= 100 * d
  BY <1>2, <1>4, <1>5, SumBounds
<1>7. ScoreAt(p, q, x) = Round(<<n, d>>)
  BY <1>1, <1>3, <1>5, WeightedSumValue DEF ScoreAt
<1>8. ASSUME 139 * d <= 2 * n
      PROVE  5 * i[1] >= i[2]
  <2>1. PICK D, X, Y : D = i[2] * b[2] /\ X = i[1] * b[2] /\ Y = b[1] * i[2]
    OBVIOUS
  <2>2. /\ D \in Nat /\ X \in Nat /\ Y \in Nat
        /\ 0 < D /\ X <= D /\ Y <= D
        /\ n = f * D + 1600 * X + 200 * Y
        /\ d = 40 * D
    BY <1>2, <1>4, <1>5, <2>1, SumParts
  <2>3. PICK F : F = f * D
    OBVIOUS
  <2>4. F \in Nat /\ F <= 2200 * D
    BY <1>2, <2>2, <2>3, Products
  <2>5. D <= 5 * X
    BY <1>8, <2>2, <2>3, <2>4
  <2>6. PICK i1 \in Nat, i2 \in Nat, b2 \in Nat : i1 = i[1] /\ i2 = i[2] /\ b2 = b[2] /\ 0 < b2
    BY <1>4 DEF IsShare
  <2>7. i2 * b2 <= (5 * i1) * b2
    BY <2>1, <2>5, <2>6
  <2>8. SUFFICES ASSUME 5 * i1 < i2
                 PROVE  FALSE
    BY <2>6
  <2>9. (5 * i1 + 1) * b2 <= i2 * b2
    BY <2>6, <2>8, Products
  <2>10. (5 * i1 + 1) * b2 = (5 * i1) * b2 + b2
    BY <2>6
  <2>11. QED
    BY <2>6, <2>7, <2>9, <2>10
<1>9. QED
  BY <1>3, <1>6, <1>7, <1>8, RoundBounds

LEMMA ScoreAtMonotone ==
  ASSUME NEW p, NEW q, NEW x, NEW y, IsProfile(p), IsProfile(q),
         x \in Nat, y \in Nat, x <= y, y <= 40
  PROVE  ScoreAt(p, q, x) <= ScoreAt(p, q, y)
<1>1. PICK f, g : f = Fortieths(p, q, x) /\ g = Fortieths(p, q, y)
  OBVIOUS
<1>2. x <= 40
  OBVIOUS
<1>3. f \in Nat /\ g \in Nat /\ f <= 2200 /\ g <= 2200 /\ f <= g
  BY <1>1, <1>2, FortiethsType, FortiethsMonotone
<1>4. PICK i, b : i = Similar(p, q) /\ b = SimilarBio(p, q)
  OBVIOUS
<1>5. IsShare(i) /\ IsShare(b)
  BY <1>4, SimilarityShare, BioShare DEF Similar, SimilarBio
<1>6. PICK n, k, d : n = Numerator(f, i, b) /\ k = Numerator(g, i, b) /\ d = Denominator(i, b)
  OBVIOUS
<1>7. n \in Nat /\ k \in Nat /\ d \in Nat /\ 0 < d /\ n <= k
  BY <1>3, <1>5, <1>6, SumBounds, SumMonotone
<1>8. ScoreAt(p, q, x) = Round(<<n, d>>) /\ ScoreAt(p, q, y) = Round(<<k, d>>)
  BY <1>1, <1>4, <1>6, WeightedSumValue DEF ScoreAt
<1>9. QED
  BY <1>7, <1>8, RoundMonotone

-----------------------------------------------------------------------------
(***************************************************************************)
(* The inductive invariant: the profile is a compiled one of the user's,   *)
(* and the result shown is its score.                                      *)
(***************************************************************************)
CompatibilityInv ==
  /\ myCompiledProfile # None => \E p \in MyProfile : myCompiledProfile = CompileProfile(p)
  /\ checked # None =>
       /\ myCompiledProfile # None
       /\ \E q \in PeerProfile, r \in Rssi :
            checked = [peer |-> q, rssi |-> r, score |-> TotalScore(myCompiledProfile, q, r)]

LEMMA InitCompatibility == Init => CompatibilityInv
  BY DEF Init, CompatibilityInv

LEMMA NextCompatibility == CompatibilityInv /\ [Next]_vars => CompatibilityInv'
<1> SUFFICES ASSUME CompatibilityInv, [Next]_vars
             PROVE  CompatibilityInv'
  OBVIOUS
<1>1. CASE DismissResult
  BY <1>1 DEF DismissResult, CompatibilityInv
<1>2. ASSUME NEW p \in MyProfile, LoadProfile(p)
      PROVE  CompatibilityInv'
  BY <1>2 DEF LoadProfile, CompatibilityInv
<1>3. ASSUME NEW peer \in PeerProfile, NEW rssi \in Rssi, CheckCompatibility(peer, rssi)
      PROVE  CompatibilityInv'
  BY <1>3 DEF CheckCompatibility, CompatibilityInv
<1>4. CASE UNCHANGED vars
  BY <1>4 DEF vars, CompatibilityInv
<1>5. QED
  BY <1>1, <1>2, <1>3, <1>4 DEF Next

(***************************************************************************)
(* The inductive invariant holds in every run: what the screen shows is    *)
(* always the score of one of the user's own profiles against the peer     *)
(* checked (Home.tsx:167-192).                                             *)
(***************************************************************************)
THEOREM CompatibilityInvariant == Spec => []CompatibilityInv
  BY InitCompatibility, NextCompatibility, PTL DEF Spec

LEMMA ProfilesAreTyped ==
  ASSUME NEW p, p \in MyProfile \cup PeerProfile
  PROVE  IsProfile(p)
  BY CompatibilityAssumption DEF IsProfile

\* What the invariant says of a result that is shown.
Shown(p, q, r) ==
  /\ IsProfile(p) /\ IsProfile(q) /\ p \in MyProfile /\ q \in PeerProfile
  /\ r \in Rssi /\ r \in Int
  /\ myCompiledProfile = CompileProfile(p)
  /\ myCompiledProfile.raw = p
  /\ checked.peer = q /\ checked.rssi = r
  /\ checked.score = TotalScore(CompileProfile(p), q, r)

LEMMA ResultShown ==
  ASSUME CompatibilityInv, checked # None
  PROVE  \E p, q, r : Shown(p, q, r)
<1>1. PICK p \in MyProfile : myCompiledProfile = CompileProfile(p)
  BY DEF CompatibilityInv
<1>2. PICK q \in PeerProfile, r \in Rssi :
        checked = [peer |-> q, rssi |-> r, score |-> TotalScore(myCompiledProfile, q, r)]
  BY DEF CompatibilityInv
<1>3. IsProfile(p) /\ IsProfile(q)
  BY ProfilesAreTyped
<1>4. r \in Int
  BY CompatibilityAssumption
<1>5. myCompiledProfile.raw = p
  BY <1>1, <1>3, CompiledMasks
<1>6. Shown(p, q, r)
  BY <1>1, <1>2, <1>3, <1>4, <1>5 DEF Shown
<1>7. QED
  BY <1>6

LEMMA ScoreBounds ==
  ASSUME NEW p, NEW q, NEW r, IsProfile(p), IsProfile(q), r \in Int
  PROVE  /\ TotalScore(CompileProfile(p), q, r) \in Nat
         /\ TotalScore(CompileProfile(p), q, r) <= 100
         /\ 70 <= TotalScore(CompileProfile(p), q, r)
              => 5 * Similar(p, q)[1] >= Similar(p, q)[2]
<1>1. PICK x : x = NormalizeRssiToProximityScore(r)
  OBVIOUS
<1>2. x \in Nat /\ x <= 40
  BY <1>1, ProximityType
<1>3. PICK s : s = ScoreAt(p, q, x)
  OBVIOUS
<1>4. s \in Nat /\ s <= 100 /\ (70 <= s => 5 * Similar(p, q)[1] >= Similar(p, q)[2])
  BY <1>2, <1>3, ScoreAtBounds
<1>5. TotalScore(CompileProfile(p), q, r) = 0 \/ TotalScore(CompileProfile(p), q, r) = s
  BY <1>1, <1>3, TotalScoreValue
<1>6. QED
  BY <1>4, <1>5

LEMMA ScoreMonotone ==
  ASSUME NEW p, NEW q, NEW r, NEW s, IsProfile(p), IsProfile(q),
         r \in Int, s \in Int, r < s
  PROVE  TotalScore(CompileProfile(p), q, r) <= TotalScore(CompileProfile(p), q, s)
<1>1. PICK x, y : x = NormalizeRssiToProximityScore(r) /\ y = NormalizeRssiToProximityScore(s)
  OBVIOUS
<1>2. x \in Nat /\ y \in Nat /\ y <= 40 /\ x <= y
  BY <1>1, ProximityType, ProximityMonotone
<1>3. PICK t, u : t = TotalScore(CompileProfile(p), q, r) /\ u = TotalScore(CompileProfile(p), q, s)
  OBVIOUS
<1>4. /\ t = IF AgeIncompatible(p.age, q.age) \/ x < 2 THEN 0 ELSE ScoreAt(p, q, x)
      /\ u = IF AgeIncompatible(p.age, q.age) \/ y < 2 THEN 0 ELSE ScoreAt(p, q, y)
  BY <1>1, <1>3, TotalScoreValue
<1>5. t \in Nat /\ u \in Nat
  BY <1>3, ScoreBounds
<1>6. ScoreAt(p, q, x) <= ScoreAt(p, q, y)
  BY <1>2, ScoreAtMonotone
<1>7. CASE AgeIncompatible(p.age, q.age) \/ x < 2
  <2>1. t = 0
    BY <1>4, <1>7
  <2>2. QED
    BY <1>3, <1>5, <2>1
<1>8. CASE ~(AgeIncompatible(p.age, q.age) \/ x < 2)
  <2>1. ~(y < 2)
    BY <1>2, <1>8
  <2>2. t = ScoreAt(p, q, x) /\ u = ScoreAt(p, q, y)
    BY <1>4, <1>8, <2>1
  <2>3. QED
    BY <1>3, <1>6, <2>2
<1>9. QED
  BY <1>7, <1>8

LEMMA MaskOfType ==
  ASSUME NEW B
  PROVE  IsMask(MaskOf(B))
<1>1. \A x : x \in Nat /\ x < Half => x \in 0..(Half - 1)
  <2>1. Half \in Nat
    BY DEF Half
  <2>2. \A h \in Nat : \A x : x \in Nat /\ x < h => x \in 0..(h - 1)
    OBVIOUS
  <2>3. QED
    BY <2>1, <2>2
<1>2. \A c : HalfOf(B, c) \in Nat /\ HalfOf(B, c) < Half
  BY HalfOfType DEF Half
<1>3. \A c : HalfOf(B, c) \in 0..(Half - 1)
  BY <1>1, <1>2, Zenon
<1>4. QED
  BY <1>3 DEF IsMask, MaskOf

(***************************************************************************)
(* Masks are 64 bits, and every result shown is a percentage, for all      *)
(* profiles, hashes and signal strengths: the five weights of fast.ts:138  *)
(* add up to a hundred and each term is a share.                           *)
(***************************************************************************)
THEOREM CompatibilityTypeCorrect == Spec => []TypeOK
<1>1. CompatibilityInv => TypeOK
  <2> SUFFICES ASSUME CompatibilityInv
               PROVE  TypeOK
    OBVIOUS
  <2>1. ASSUME myCompiledProfile # None
        PROVE  /\ myCompiledProfile.raw \in MyProfile
               /\ IsMask(myCompiledProfile.interestMask)
               /\ IsMask(myCompiledProfile.bioMask)
    <3>1. PICK p \in MyProfile : myCompiledProfile = CompileProfile(p)
      BY <2>1 DEF CompatibilityInv
    <3>2. QED
      BY <3>1, ProfilesAreTyped, CompiledMasks, MaskOfType
  <2>2. ASSUME checked # None
        PROVE  checked.peer \in PeerProfile /\ checked.rssi \in Rssi /\ checked.score \in 0..100
    <3>1. PICK p, q, r : Shown(p, q, r)
      BY <2>2, ResultShown
    <3>2. checked.score \in Nat /\ checked.score <= 100
      BY <3>1, ScoreBounds DEF Shown
    <3>3. QED
      BY <3>1, <3>2 DEF Shown
  <2>3. QED
    BY <2>1, <2>2 DEF TypeOK
<1>2. QED
  BY <1>1, CompatibilityInvariant, PTL

(***************************************************************************)
(* The masks compute the Jaccard index of the sets of bits they stand for  *)
(* (fast.ts:42-83), whatever the words and however they hash.              *)
(***************************************************************************)
THEOREM MasksComputeJaccard == Spec => []MasksAreSets
<1>1. CompatibilityInv => MasksAreSets
  <2> SUFFICES ASSUME CompatibilityInv, checked # None
               PROVE  JaccardMask(myCompiledProfile.interestMask,
                                  CompileProfile(checked.peer).interestMask)
                        = Jaccard(Bits(InterestWords(myCompiledProfile.raw.interests)),
                                  Bits(InterestWords(checked.peer.interests)))
    BY DEF MasksAreSets
  <2>1. PICK p, q, r : Shown(p, q, r)
    BY ResultShown
  <2>2. JaccardMask(CompileProfile(p).interestMask, CompileProfile(q).interestMask)
          = Jaccard(Bits(InterestWords(p.interests)), Bits(InterestWords(q.interests)))
    BY <2>1, CompiledMasks, JaccardOfMasks DEF Shown
  <2>3. QED
    BY <2>1, <2>2 DEF Shown
<1>2. QED
  BY <1>1, CompatibilityInvariant, PTL

(***************************************************************************)
(* An interest that both entered among the first ones the fallback compares*)
(* never counts as nothing (fast.ts:122-133), for all lists and hashes.    *)
(***************************************************************************)
THEOREM SharedInterestNeverNothing == Spec => []SharedInterestCounts
<1>1. CompatibilityInv => SharedInterestCounts
  <2> SUFFICES ASSUME CompatibilityInv, checked # None,
                      FirstInterests(myCompiledProfile.raw)
                        \cap FirstInterests(checked.peer) # {}
               PROVE  InterestSimilarity(myCompiledProfile, CompileProfile(checked.peer))[1] > 0
    BY DEF SharedInterestCounts
  <2>1. PICK p, q, r : Shown(p, q, r)
    BY ResultShown
  <2>2. PICK n : n = InterestSimilarity(CompileProfile(p), CompileProfile(q))[1]
    OBVIOUS
  <2>3. n \in Nat /\ 0 < n
    BY <2>1, <2>2, SimilarityShare DEF Shown, IsShare
  <2>4. QED
    BY <2>1, <2>2, <2>3 DEF Shown
<1>2. QED
  BY <1>1, CompatibilityInvariant, PTL

(***************************************************************************)
(* The same peer at a stronger signal never scores less: the clamping of   *)
(* the signal, the cutoff, the weighted sum and Math.round are monotone    *)
(* (fast.ts:85-90, 120, 138; Home.tsx:192).                                *)
(***************************************************************************)
THEOREM NearerNeverWorse == Spec => []CloserNoWorse
<1>1. CompatibilityInv => CloserNoWorse
  <2> SUFFICES ASSUME CompatibilityInv, checked # None,
                      NEW rssi \in Rssi, rssi > checked.rssi
               PROVE  TotalScore(myCompiledProfile, checked.peer, rssi) >= checked.score
    BY DEF CloserNoWorse
  <2>1. PICK p, q, r : Shown(p, q, r)
    BY ResultShown
  <2>2. rssi \in Int
    BY CompatibilityAssumption
  <2>3. IsProfile(p) /\ IsProfile(q) /\ r \in Int /\ r < rssi
    BY <2>1, <2>2 DEF Shown
  <2>4. PICK t, u : /\ t = TotalScore(CompileProfile(p), q, r)
                    /\ u = TotalScore(CompileProfile(p), q, rssi)
    OBVIOUS
  <2>5. t <= u /\ t \in Nat /\ u \in Nat
    BY <2>2, <2>3, <2>4, ScoreMonotone, ScoreBounds
  <2>6. u >= t
    BY <2>5
  <2>7. QED
    BY <2>1, <2>4, <2>6 DEF Shown
<1>2. QED
  BY <1>1, CompatibilityInvariant, PTL

\* Words that do not collide are as many as their bits.
LEMMA BitsCount ==
  ASSUME NEW W, W \subseteq Word, NoCollision(W)
  PROVE  Cardinality(Bits(W)) = Cardinality(W)
<1>1. PICK f : f = [w \in W |-> Bit[w]]
  OBVIOUS
<1>2. PICK T : T = Bits(W)
  OBVIOUS
<1>3. f \in [W -> T] /\ \A w \in W : f[w] = Bit[w]
  BY <1>1, <1>2 DEF Bits
<1>4. f \in Injection(W, T)
  BY <1>3 DEF Injection, IsInjective, NoCollision
<1>5. f \in Surjection(W, T)
  BY <1>2, <1>3 DEF Surjection, Bits
<1>6. IsFiniteSet(T)
  BY <1>2, BitsType, PopcountCounts
<1> QED
  BY <1>2, <1>4, <1>5, <1>6, FS_Injection

\* Their Jaccard index is that of their bits.
LEMMA JaccardOfWords ==
  ASSUME NEW V, NEW W, V \subseteq Word, W \subseteq Word, NoCollision(V \cup W)
  PROVE  Jaccard(Bits(V), Bits(W)) = Jaccard(V, W)
<1>1. Bits(V) \cap Bits(W) = Bits(V \cap W) /\ Bits(V) \cup Bits(W) = Bits(V \cup W)
  BY DEF Bits, NoCollision
<1>2. NoCollision(V \cap W)
  BY DEF NoCollision
<1>3. /\ Cardinality(Bits(V \cap W)) = Cardinality(V \cap W)
      /\ Cardinality(Bits(V \cup W)) = Cardinality(V \cup W)
  BY <1>2, BitsCount
<1> QED
  BY <1>1, <1>3 DEF Jaccard

\* An index of at least one in n, read back as a statement about the sets.
LEMMA InCommon ==
  ASSUME NEW A, NEW B, NEW n \in Nat, IsShare(Jaccard(A, B)),
         n * Jaccard(A, B)[1] >= Jaccard(A, B)[2]
  PROVE  HaveInCommon(n, A, B)
<1>1. PICK c, d : c = Cardinality(A \cap B) /\ d = Cardinality(A \cup B)
  OBVIOUS
<1>2. Jaccard(A, B) = IF d = 0 THEN <<0, 1>> ELSE <<c, d>>
  BY <1>1 DEF Jaccard, Ratio
<1>3. d # 0 /\ Jaccard(A, B) = <<c, d>>
  BY <1>2
<1>4. c \in Nat /\ d \in Nat /\ 0 < d /\ d <= n * c
  BY <1>3 DEF IsShare
<1>5. c # 0
  BY <1>4
<1>6. A \cap B # {}
  BY <1>1, <1>5, FS_EmptySet
<1> QED
  BY <1>1, <1>4, <1>6 DEF HaveInCommon

(***************************************************************************)
(* A total of 70 or more, explained as "high shared interests"             *)
(* (Home.tsx:198), is never reached with less than one in five words or    *)
(* one in three of the first entries in common, whatever age, gender, bio  *)
(* and distance contribute, for profiles whose words do not collide.       *)
(***************************************************************************)
THEOREM HighScoreIsShared == Spec => []HighScoreSharesInterests
<1>1. CompatibilityInv => HighScoreSharesInterests
  <2> SUFFICES ASSUME CompatibilityInv, checked # None, checked.score >= 70,
                      NoCollision(InterestWords(myCompiledProfile.raw.interests)
                                    \cup InterestWords(checked.peer.interests))
               PROVE  \/ HaveInCommon(5, InterestWords(myCompiledProfile.raw.interests),
                                         InterestWords(checked.peer.interests))
                      \/ HaveInCommon(3, FirstInterests(myCompiledProfile.raw),
                                         FirstInterests(checked.peer))
    BY DEF HighScoreSharesInterests
  <2>1. PICK p, q, r : Shown(p, q, r)
    BY ResultShown
  <2>2. PICK t : t = TotalScore(CompileProfile(p), q, r)
    OBVIOUS
  <2>3. t \in Nat
    BY <2>1, <2>2, ScoreBounds DEF Shown
  <2>4. 70 <= t
    BY <2>1, <2>2, <2>3 DEF Shown
  <2>5. 5 * Similar(p, q)[1] >= Similar(p, q)[2]
    BY <2>1, <2>2, <2>4, ScoreBounds DEF Shown
  <2>6. PICK V, W : V = InterestWords(p.interests) /\ W = InterestWords(q.interests)
    OBVIOUS
  <2>7. PICK F, G : F = FirstInterests(p) /\ G = FirstInterests(q)
    OBVIOUS
  <2>8. SUFFICES HaveInCommon(5, V, W) \/ HaveInCommon(3, F, G)
    BY <2>1, <2>6, <2>7 DEF Shown
  <2>9. V \subseteq Word /\ W \subseteq Word /\ NoCollision(V \cup W)
    BY <2>1, <2>6, InterestWordsType DEF Shown, IsProfile
  <2>10. PICK i : i = Jaccard(V, W)
    OBVIOUS
  <2>11. PICK m : m = JaccardMask(CompileProfile(p).interestMask,
                                  CompileProfile(q).interestMask)
    OBVIOUS
  <2>12. m = i /\ IsShare(i)
    <3>1. PICK A, B : A = Bits(V) /\ B = Bits(W)
      OBVIOUS
    <3>2. A \subseteq 0..63 /\ B \subseteq 0..63
      BY <2>9, <3>1, BitsType
    <3>3. m = Jaccard(A, B)
      BY <2>1, <2>6, <2>11, <3>1, <3>2, CompiledMasks, JaccardOfMasks DEF Shown
    <3>4. Jaccard(A, B) = i
      BY <2>9, <2>10, <3>1, JaccardOfWords
    <3>5. IsShare(Jaccard(A, B))
      BY <3>2, PopcountCounts, JaccardShare
    <3> QED
      BY <3>3, <3>4, <3>5
  <2>13. PICK raw : raw = Jaccard(F, G)
    OBVIOUS
  <2>14. IsShare(raw)
    BY <2>1, <2>7, <2>13, FirstInterestsFinite, JaccardShare DEF Shown
  <2>15. CompileProfile(p).raw = p /\ CompileProfile(q).raw = q
    BY <2>1, CompiledMasks DEF Shown
  <2>16. Similar(p, q) = IF m[1] = 0 THEN <<6 * raw[1], 10 * raw[2]>> ELSE m
    BY <2>7, <2>11, <2>13, <2>15 DEF Similar, InterestSimilarity
  <2>17. CASE m[1] = 0
    <3>1. 5 * (6 * raw[1]) >= 10 * raw[2]
      BY <2>5, <2>16, <2>17
    <3>2. 3 * raw[1] >= raw[2]
      BY <2>14, <3>1 DEF IsShare
    <3> QED
      BY <2>13, <2>14, <3>2, InCommon
  <2>18. CASE m[1] # 0
    <3>1. 5 * i[1] >= i[2]
      BY <2>5, <2>12, <2>16, <2>18
    <3> QED
      BY <2>10, <2>12, <3>1, InCommon
  <2> QED
    BY <2>17, <2>18
<1>2. QED
  BY <1>1, CompatibilityInvariant, PTL
=============================================================================
