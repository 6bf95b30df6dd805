-------------------------- MODULE CandidatesProofs --------------------------
(***************************************************************************)
(* Proofs about the list of nearby people, for any phones around, any length*)
(* of the list and any time after which a row is stale: first the way of an*)
(* id from its owner to the list (module Payload), for every payload and   *)
(* every length of a local name; then the list.                            *)
(***************************************************************************)
EXTENDS Candidates, SequenceTheorems, TLAPS

-----------------------------------------------------------------------------
(***************************************************************************)
(* base64.                                                                 *)
(***************************************************************************)
\* A function on 1..n is a sequence of length n.
LEMMA FunSeq ==
  ASSUME NEW S, NEW n \in Nat, NEW f \in [1..n -> S]
  PROVE  f \in Seq(S) /\ Len(f) = n
  OBVIOUS

\* The arithmetic of three bytes and their four sextets.
LEMMA Sextets ==
  ASSUME NEW a \in Byte, NEW b \in Byte, NEW c \in Byte
  PROVE  /\ (a \div 4) * 4 + ((a % 4) * 16 + b \div 16) \div 16 = a
         /\ (((a % 4) * 16 + b \div 16) % 16) * 16 + ((b % 16) * 4 + c \div 64) \div 4 = b
         /\ (((b % 16) * 4 + c \div 64) % 4) * 64 + (c % 64) = c
         /\ a \div 4 \in 0..63 /\ (a % 4) * 16 + b \div 16 \in 0..63
         /\ (b % 16) * 4 + c \div 64 \in 0..63 /\ c % 64 \in 0..63
  BY DEF Byte

LEMMA AtByte ==
  ASSUME NEW s \in Seq(Byte), NEW k \in Nat \ {0}
  PROVE  At(s, k) \in Byte
<1>1. 0 \in Byte
  BY DEF Byte
<1>2. k <= Len(s) => s[k] \in Byte
  BY ElementOfSeq
<1> QED
  BY <1>1, <1>2 DEF At

\* What ToBase64 makes of data, sextet by sextet.
LEMMA ToBase64Type ==
  ASSUME NEW data \in Seq(Byte)
  PROVE  /\ ToBase64(data) \in Seq(0..63)
         /\ Len(ToBase64(data)) = (4 * Len(data) + 2) \div 3
         /\ \A i \in 1..((4 * Len(data) + 2) \div 3) :
              LET k == 3 * ((i - 1) \div 4)
              IN  /\ i % 4 = 1 => ToBase64(data)[i] = At(data, k + 1) \div 4
                  /\ i % 4 = 2 => ToBase64(data)[i] = (At(data, k + 1) % 4) * 16 + At(data, k + 2) \div 16
                  /\ i % 4 = 3 => ToBase64(data)[i] = (At(data, k + 2) % 16) * 4 + At(data, k + 3) \div 64
                  /\ i % 4 = 0 => ToBase64(data)[i] = At(data, k + 3) % 64
<1> DEFINE n == (4 * Len(data) + 2) \div 3
           E(i) == LET k == 3 * ((i - 1) \div 4)
                   IN  CASE i % 4 = 1 -> At(data, k + 1) \div 4
                         [] i % 4 = 2 -> (At(data, k + 1) % 4) * 16 + At(data, k + 2) \div 16
                         [] i % 4 = 3 -> (At(data, k + 2) % 16) * 4 + At(data, k + 3) \div 64
                         [] i % 4 = 0 -> At(data, k + 3) % 64
<1>1. n \in Nat
  OBVIOUS
<1>2. ToBase64(data) = [i \in 1..n |-> E(i)]
  BY DEF ToBase64
<1>3. ASSUME NEW i \in 1..n
      PROVE  LET k == 3 * ((i - 1) \div 4)
             IN /\ E(i) \in 0..63
                /\ i % 4 = 1 => E(i) = At(data, k + 1) \div 4
                /\ i % 4 = 2 => E(i) = (At(data, k + 1) % 4) * 16 + At(data, k + 2) \div 16
                /\ i % 4 = 3 => E(i) = (At(data, k + 2) % 16) * 4 + At(data, k + 3) \div 64
                /\ i % 4 = 0 => E(i) = At(data, k + 3) % 64
  <2> DEFINE k == 3 * ((i - 1) \div 4)
  <2>1. k \in Nat /\ i % 4 \in 0..3
    BY <1>1
  <2>2. At(data, k + 1) \in Byte /\ At(data, k + 2) \in Byte /\ At(data, k + 3) \in Byte
    BY <2>1, AtByte
  <2> HIDE DEF k
  <2>3. /\ At(data, k + 1) \div 4 \in 0..63
        /\ (At(data, k + 1) % 4) * 16 + At(data, k + 2) \div 16 \in 0..63
        /\ (At(data, k + 2) % 16) * 4 + At(data, k + 3) \div 64 \in 0..63
        /\ At(data, k + 3) % 64 \in 0..63
    BY <2>2, Sextets
  <2> QED
    BY <2>1, <2>3, SMTT(30) DEF k
<1> HIDE DEF E, n
<1>4. ToBase64(data) \in [1..n -> 0..63]
  BY <1>2, <1>3
<1>5. ToBase64(data) \in Seq(0..63) /\ Len(ToBase64(data)) = n
  BY <1>1, <1>4, FunSeq
<1>6. \A i \in 1..n : ToBase64(data)[i] = E(i)
  BY <1>2
<1> QED
  BY <1>3, <1>5, <1>6 DEF n

\* Byte j of n is in two of the m sextets, and these are where FromBase64 looks.
LEMMA Groups ==
  ASSUME NEW n \in Nat, NEW j \in 1..n
  PROVE  LET m == (4 * n + 2) \div 3
             k == 4 * ((j - 1) \div 3)
         IN  /\ k \in Nat
             /\ j % 3 = 1 =>
                  /\ k + 1 \in 1..m /\ (k + 1) % 4 = 1 /\ 3 * (((k + 1) - 1) \div 4) = j - 1
                  /\ k + 2 \in 1..m /\ (k + 2) % 4 = 2 /\ 3 * (((k + 2) - 1) \div 4) = j - 1
             /\ j % 3 = 2 =>
                  /\ k + 2 \in 1..m /\ (k + 2) % 4 = 2 /\ 3 * (((k + 2) - 1) \div 4) = j - 2
                  /\ k + 3 \in 1..m /\ (k + 3) % 4 = 3 /\ 3 * (((k + 3) - 1) \div 4) = j - 2
             /\ j % 3 = 0 =>
                  /\ k + 3 \in 1..m /\ (k + 3) % 4 = 3 /\ 3 * (((k + 3) - 1) \div 4) = j - 3
                  /\ k + 4 \in 1..m /\ (k + 4) % 4 = 0 /\ 3 * (((k + 4) - 1) \div 4) = j - 3
  OBVIOUS

(***************************************************************************)
(* What one side of the bridge encodes the other side decodes: base64 back *)
(* and forth is the identity, for data of any length (ble/index.ts and     *)
(* BLEModule.swift).                                                       *)
(***************************************************************************)
THEOREM Base64RoundTrip ==
  ASSUME NEW data \in Seq(Byte)
  PROVE  FromBase64(ToBase64(data)) = data
<1> DEFINE n == Len(data)
           m == (4 * n + 2) \div 3
           t == ToBase64(data)
<1>1. /\ n \in Nat /\ m \in Nat /\ (3 * m) \div 4 = n
      /\ \A j \in 1..n : data[j] \in Byte
  BY ElementOfSeq
<1>2. /\ t \in Seq(0..63) /\ Len(t) = m
      /\ \A i \in 1..m :
           LET k == 3 * ((i - 1) \div 4)
           IN  /\ i % 4 = 1 => t[i] = At(data, k + 1) \div 4
               /\ i % 4 = 2 => t[i] = (At(data, k + 1) % 4) * 16 + At(data, k + 2) \div 16
               /\ i % 4 = 3 => t[i] = (At(data, k + 2) % 16) * 4 + At(data, k + 3) \div 64
               /\ i % 4 = 0 => t[i] = At(data, k + 3) % 64
  BY ToBase64Type
<1>3. \A i \in 1..m : At(t, i) = t[i]
  BY <1>2 DEF At
<1>4. \A j \in 1..n : At(data, j) = data[j]
  BY DEF At
<1> HIDE DEF t, n, m
<1>5. ASSUME NEW j \in 1..n
      PROVE  LET k == 4 * ((j - 1) \div 3)
             IN  /\ j % 3 = 1 => At(t, k + 1) * 4 + At(t, k + 2) \div 16 = data[j]
                 /\ j % 3 = 2 => (At(t, k + 2) % 16) * 16 + At(t, k + 3) \div 4 = data[j]
                 /\ j % 3 = 0 => (At(t, k + 3) % 4) * 64 + At(t, k + 4) = data[j]
  <2> DEFINE k == 4 * ((j - 1) \div 3)
  <2>1. CASE j % 3 = 1
    <3>1. /\ k + 1 \in 1..m /\ (k + 1) % 4 = 1 /\ 3 * (((k + 1) - 1) \div 4) = j - 1
          /\ k + 2 \in 1..m /\ (k + 2) % 4 = 2 /\ 3 * (((k + 2) - 1) \div 4) = j - 1
      BY <1>1, <2>1, Groups DEF m
    <3> HIDE DEF k
    <3>2. (j - 1) + 1 = j /\ (j - 1) + 2 = j + 1 /\ j + 1 \in Nat \ {0} /\ j % 3 # 2 /\ j % 3 # 0
      BY <1>1, <2>1
    <3>3. /\ At(t, k + 1) = At(data, j) \div 4
          /\ At(t, k + 2) = (At(data, j) % 4) * 16 + At(data, j + 1) \div 16
      <4>1. PICK u \in 1..m : u = k + 1 /\ u % 4 = 1 /\ 3 * ((u - 1) \div 4) = j - 1
        BY <3>1
      <4>2. PICK v \in 1..m : v = k + 2 /\ v % 4 = 2 /\ 3 * ((v - 1) \div 4) = j - 1
        BY <3>1
      <4>3. t[u] = At(data, j) \div 4
        BY <1>2, <3>2, <4>1, ZenonT(60)
      <4>b. t[v] = (At(data, (j - 1) + 1) % 4) * 16 + At(data, (j - 1) + 2) \div 16
        BY <1>2, <4>2, ZenonT(60)
      <4>4. t[v] = (At(data, j) % 4) * 16 + At(data, j + 1) \div 16
        BY <3>2, <4>b
      <4> QED
        BY <1>3, <4>1, <4>2, <4>3, <4>4
    <3>4. At(data, j) = data[j] /\ data[j] \in Byte /\ At(data, j + 1) \in Byte
      BY <1>1, <1>4, <3>2, AtByte
    <3>5. At(t, k + 1) * 4 + At(t, k + 2) \div 16 = data[j]
      BY <3>3, <3>4, Sextets
    <3> QED
      BY <3>2, <3>5 DEF k
  <2>2. CASE j % 3 = 2
    <3>1. /\ k + 2 \in 1..m /\ (k + 2) % 4 = 2 /\ 3 * (((k + 2) - 1) \div 4) = j - 2
          /\ k + 3 \in 1..m /\ (k + 3) % 4 = 3 /\ 3 * (((k + 3) - 1) \div 4) = j - 2
      BY <1>1, <2>2, Groups DEF m
    <3> HIDE DEF k
    <3>2. /\ (j - 2) + 1 = j - 1 /\ (j - 2) + 2 = j /\ (j - 2) + 3 = j + 1
          /\ j + 1 \in Nat \ {0} /\ j - 1 \in Nat \ {0} /\ j % 3 # 1 /\ j % 3 # 0
      BY <1>1, <2>2
    <3>3. /\ At(t, k + 2) = (At(data, j - 1) % 4) * 16 + At(data, j) \div 16
          /\ At(t, k + 3) = (At(data, j) % 16) * 4 + At(data, j + 1) \div 64
      <4>1. PICK u \in 1..m : u = k + 2 /\ u % 4 = 2 /\ 3 * ((u - 1) \div 4) = j - 2
        BY <3>1
      <4>2. PICK v \in 1..m : v = k + 3 /\ v % 4 = 3 /\ 3 * ((v - 1) \div 4) = j - 2
        BY <3>1
      <4>a. t[u] = (At(data, (j - 2) + 1) % 4) * 16 + At(data, (j - 2) + 2) \div 16
        BY <1>2, <4>1, ZenonT(60)
      <4>3. t[u] = (At(data, j - 1) % 4) * 16 + At(data, j) \div 16
        BY <3>2, <4>a
      <4>b. t[v] = (At(data, (j - 2) + 2) % 16) * 4 + At(data, (j - 2) + 3) \div 64
        BY <1>2, <4>2, ZenonT(60)
      <4>4. t[v] = (At(data, j) % 16) * 4 + At(data, j + 1) \div 64
        BY <3>2, <4>b
      <4> QED
        BY <1>3, <4>1, <4>2, <4>3, <4>4
    <3>4. /\ At(data, j) = data[j] /\ data[j] \in Byte /\ At(data, j + 1) \in Byte
          /\ At(data, j - 1) \in Byte
      BY <1>1, <1>4, <3>2, AtByte
    <3>5. (At(t, k + 2) % 16) * 16 + At(t, k + 3) \div 4 = data[j]
      BY <3>3, <3>4, Sextets
    <3> QED
      BY <3>2, <3>5 DEF k
  <2>3. CASE j % 3 = 0
    <3>1. /\ k + 3 \in 1..m /\ (k + 3) % 4 = 3 /\ 3 * (((k + 3) - 1) \div 4) = j - 3
          /\ k + 4 \in 1..m /\ (k + 4) % 4 = 0 /\ 3 * (((k + 4) - 1) \div 4) = j - 3
      BY <1>1, <2>3, Groups DEF m
    <3> HIDE DEF k
    <3>2. /\ (j - 3) + 2 = j - 1 /\ (j - 3) + 3 = j
          /\ j - 1 \in Nat \ {0} /\ j % 3 # 1 /\ j % 3 # 2
      BY <1>1, <2>3
    <3>3. /\ At(t, k + 3) = (At(data, j - 1) % 16) * 4 + At(data, j) \div 64
          /\ At(t, k + 4) = At(data, j) % 64
      <4>1. PICK u \in 1..m : u = k + 3 /\ u % 4 = 3 /\ 3 * ((u - 1) \div 4) = j - 3
        BY <3>1
      <4>2. PICK v \in 1..m : v = k + 4 /\ v % 4 = 0 /\ 3 * ((v - 1) \div 4) = j - 3
        BY <3>1
      <4>a. t[u] = (At(data, (j - 3) + 2) % 16) * 4 + At(data, (j - 3) + 3) \div 64
        BY <1>2, <4>1, ZenonT(60)
      <4>3. t[u] = (At(data, j - 1) % 16) * 4 + At(data, j) \div 64
        BY <3>2, <4>a
      <4>b. t[v] = At(data, (j - 3) + 3) % 64
        BY <1>2, <4>2, ZenonT(60)
      <4>4. t[v] = At(data, j) % 64
        BY <3>2, <4>b
      <4> QED
        BY <1>3, <4>1, <4>2, <4>3, <4>4
    <3>4. At(data, j) = data[j] /\ data[j] \in Byte /\ At(data, j - 1) \in Byte
      BY <1>1, <1>4, <3>2, AtByte
    <3>5. (At(t, k + 3) % 4) * 64 + At(t, k + 4) = data[j]
      BY <3>3, <3>4, Sextets
    <3> QED
      BY <3>2, <3>5 DEF k
  <2>4. j % 3 \in {0, 1, 2}
    BY <1>1
  <2> QED
    BY <2>1, <2>2, <2>3, <2>4
<1> DEFINE G(j) == LET k == 4 * ((j - 1) \div 3)
                   IN  CASE j % 3 = 1 -> At(t, k + 1) * 4 + At(t, k + 2) \div 16
                         [] j % 3 = 2 -> (At(t, k + 2) % 16) * 16 + At(t, k + 3) \div 4
                         [] j % 3 = 0 -> (At(t, k + 3) % 4) * 64 + At(t, k + 4)
<1>6. FromBase64(t) = [j \in 1..n |-> G(j)]
  BY <1>1, <1>2 DEF FromBase64
<1>7. ASSUME NEW j \in 1..n PROVE G(j) = data[j]
  <2>1. j % 3 \in {0, 1, 2}
    BY <1>1
  <2> QED
    BY <1>5, <2>1
<1> HIDE DEF G
<1>8. data = [j \in 1..n |-> data[j]]
  BY LenProperties DEF n
<1> QED
  BY <1>6, <1>7, <1>8 DEF t

-----------------------------------------------------------------------------
(* Parts of a sequence, hexadecimal digits, and the parsing of a name. *)
LEMMA SliceType ==
  ASSUME NEW S, NEW s \in Seq(S), NEW a \in Nat \ {0}, NEW b \in Nat, a <= b
  PROVE  /\ Slice(s, a, b) \in Seq(S)
         /\ b <= Len(s) => Len(Slice(s, a, b)) = b - a + 1
         /\ Len(s) <= b /\ a <= Len(s) => Len(Slice(s, a, b)) = Len(s) - a + 1
         /\ \A i \in 1..(b - a + 1) : a + i - 1 <= Len(s) => Slice(s, a, b)[i] = s[a + i - 1]
<1> DEFINE e == IF b < Len(s) THEN b ELSE Len(s)
<1>1. e \in Int /\ e <= Len(s) /\ e <= b /\ Len(s) \in Nat
      /\ (b <= Len(s) => e = b) /\ (Len(s) <= b => e = Len(s))
  OBVIOUS
<1>2. Slice(s, a, b) = SubSeq(s, a, e)
  BY DEF Slice
<1> HIDE DEF e
<1>3. \A i \in a..e : s[i] \in S
  BY <1>1, ElementOfSeq
<1>4. /\ SubSeq(s, a, e) \in Seq(S)
      /\ Len(SubSeq(s, a, e)) = IF a <= e THEN e - a + 1 ELSE 0
      /\ \A i \in 1..(e - a + 1) : SubSeq(s, a, e)[i] = s[a + i - 1]
  BY <1>1, <1>3, SubSeqProperties
<1>5. \A i \in 1..(b - a + 1) : a + i - 1 <= Len(s) => i \in 1..(e - a + 1)
  BY <1>1
<1> QED
  BY <1>1, <1>2, <1>4, <1>5

LEMMA PrefixType ==
  ASSUME NEW S, NEW s \in Seq(S), NEW n \in Nat
  PROVE  /\ Prefix(s, n) \in Seq(S)
         /\ n <= Len(s) => Len(Prefix(s, n)) = n
         /\ Len(s) <= n => Len(Prefix(s, n)) = Len(s)
         /\ \A i \in 1..n : i <= Len(s) => Prefix(s, n)[i] = s[i]
<1> DEFINE e == IF n < Len(s) THEN n ELSE Len(s)
<1>1. /\ e \in Nat /\ e <= Len(s) /\ e <= n /\ Len(s) \in Nat
      /\ n <= Len(s) => e = n
      /\ Len(s) <= n => e = Len(s)
      /\ \A i \in 1..n : i <= Len(s) => i \in 1..e
  OBVIOUS
<1>2. Prefix(s, n) = SubSeq(s, 1, e)
  BY DEF Prefix, Slice
<1> HIDE DEF e
<1>3. \A i \in 1..e : s[i] \in S
  BY <1>1, ElementOfSeq
<1>4. /\ SubSeq(s, 1, e) \in Seq(S)
      /\ Len(SubSeq(s, 1, e)) = IF 1 <= e THEN e - 1 + 1 ELSE 0
      /\ \A i \in 1..(e - 1 + 1) : SubSeq(s, 1, e)[i] = s[1 + i - 1]
  BY <1>1, <1>3, SubSeqProperties
<1>5. Len(SubSeq(s, 1, e)) = e /\ \A i \in 1..e : SubSeq(s, 1, e)[i] = s[i]
  <2>1. e - 1 + 1 = e /\ \A i \in 1..e : 1 + i - 1 = i
    BY <1>1
  <2> QED
    BY <1>1, <1>4, <2>1
<1> QED
  BY <1>1, <1>2, <1>4, <1>5

LEMMA HexType ==
  ASSUME NEW data \in Seq(Byte)
  PROVE  /\ Hex(data) \in Seq(0..15) /\ Len(Hex(data)) = 2 * Len(data)
         /\ \A i \in 1..(2 * Len(data)) :
              /\ i % 2 = 1 => Hex(data)[i] = data[(i + 1) \div 2] \div 16
              /\ i % 2 = 0 => Hex(data)[i] = data[i \div 2] % 16
<1> DEFINE n == 2 * Len(data)
           E(i) == IF i % 2 = 1 THEN data[(i + 1) \div 2] \div 16 ELSE data[i \div 2] % 16
<1>1. n \in Nat
  OBVIOUS
<1>2. ASSUME NEW i \in 1..n
      PROVE  /\ E(i) \in 0..15
             /\ i % 2 = 1 => E(i) = data[(i + 1) \div 2] \div 16
             /\ i % 2 = 0 => E(i) = data[i \div 2] % 16
  <2>1. i % 2 \in {0, 1} /\ (i % 2 = 1 => (i + 1) \div 2 \in 1..Len(data))
        /\ (i % 2 = 0 => i \div 2 \in 1..Len(data))
    BY <1>1
  <2>2. \A k \in 1..Len(data) : data[k] \in 0..255
    BY ElementOfSeq DEF Byte
  <2>3. \A b \in 0..255 : b \div 16 \in 0..15 /\ b % 16 \in 0..15
    OBVIOUS
  <2>4. CASE i % 2 = 1
    <3>1. data[(i + 1) \div 2] \in 0..255
      BY <2>1, <2>2, <2>4
    <3>2. data[(i + 1) \div 2] \div 16 \in 0..15
      BY <2>3, <3>1
    <3>3. E(i) = data[(i + 1) \div 2] \div 16
      BY <2>4
    <3> QED
      BY <2>4, <3>2, <3>3
  <2>5. CASE i % 2 = 0
    <3>1. data[i \div 2] \in 0..255
      BY <2>1, <2>2, <2>5
    <3>2. data[i \div 2] % 16 \in 0..15
      BY <2>3, <3>1
    <3>3. E(i) = data[i \div 2] % 16
      BY <2>5
    <3> QED
      BY <2>5, <3>2, <3>3
  <2> QED
    BY <2>1, <2>4, <2>5
<1>3. Hex(data) = [i \in 1..n |-> E(i)]
  BY DEF Hex
<1> HIDE DEF E, n
<1>4. Hex(data) \in [1..n -> 0..15]
  BY <1>2, <1>3
<1>5. Hex(data) \in Seq(0..15) /\ Len(Hex(data)) = n
  BY <1>1, <1>4, FunSeq
<1>6. \A i \in 1..n : Hex(data)[i] = E(i)
  BY <1>3
<1> QED
  BY <1>2, <1>5, <1>6 DEF n

\* The two digits of a byte.
LEMMA HexDigits ==
  ASSUME NEW data \in Seq(Byte), NEW k \in 1..Len(data)
  PROVE  /\ Hex(data)[2 * k - 1] = data[k] \div 16
         /\ Hex(data)[2 * k] = data[k] % 16
         /\ data[k] \in Byte
<1>1. /\ 2 * k - 1 \in 1..(2 * Len(data)) /\ (2 * k - 1) % 2 = 1
      /\ ((2 * k - 1) + 1) \div 2 = k
      /\ 2 * k \in 1..(2 * Len(data)) /\ (2 * k) % 2 = 0 /\ (2 * k) \div 2 = k
  OBVIOUS
<1>2. PICK u \in 1..(2 * Len(data)) : u = 2 * k - 1 /\ u % 2 = 1 /\ (u + 1) \div 2 = k
  BY <1>1
<1>3. PICK v \in 1..(2 * Len(data)) : v = 2 * k /\ v % 2 = 0 /\ v \div 2 = k
  BY <1>1
<1>4. Hex(data)[u] = data[k] \div 16
  BY <1>2, HexType
<1>5. Hex(data)[v] = data[k] % 16
  BY <1>3, HexType
<1>6. data[k] \in Byte
  BY ElementOfSeq
<1> QED
  BY <1>2, <1>3, <1>4, <1>5, <1>6

\* What parsing makes of the digits of a name, byte by byte.
LEMMA ParseType ==
  ASSUME NEW digits \in Seq(0..15)
  PROVE  /\ ParseName(digits) \in Seq(Byte)
         /\ Len(ParseName(digits)) = (Len(digits) + 1) \div 2
         /\ \A k \in 1..((Len(digits) + 1) \div 2) :
              2 * k <= Len(digits) =>
                ParseName(digits)[k] = 16 * digits[2 * k - 1] + digits[2 * k]
<1> DEFINE n == (Len(digits) + 1) \div 2
           E(k) == IF 2 * k <= Len(digits) THEN 16 * digits[2 * k - 1] + digits[2 * k]
                                           ELSE digits[2 * k - 1]
<1>1. n \in Nat /\ Len(digits) \in Nat
  OBVIOUS
<1>2. ASSUME NEW k \in 1..n PROVE E(k) \in 0..255
  <2>1. 2 * k - 1 \in 1..Len(digits) /\ (2 * k <= Len(digits) => 2 * k \in 1..Len(digits))
    BY <1>1
  <2>2. /\ digits[2 * k - 1] \in 0..15
        /\ 2 * k <= Len(digits) => digits[2 * k] \in 0..15
    BY <2>1, ElementOfSeq
  <2>3. \A a, b \in 0..15 : 16 * a + b \in 0..255 /\ a \in 0..255
    OBVIOUS
  <2> QED
    BY <2>2, <2>3, ZenonT(60)
<1>3. ParseName(digits) = [k \in 1..n |-> E(k)]
  BY DEF ParseName
<1>4. \A k \in 1..n : 2 * k <= Len(digits) =>
         E(k) = 16 * digits[2 * k - 1] + digits[2 * k]
  OBVIOUS
<1> HIDE DEF E, n
<1>5. ParseName(digits) \in [1..n -> Byte]
  <2>1. \A k \in 1..n : E(k) \in Byte
    BY <1>2, Zenon DEF Byte
  <2> QED
    BY <1>3, <2>1, Zenon
<1>6. ParseName(digits) \in Seq(Byte) /\ Len(ParseName(digits)) = n
  BY <1>1, <1>5, FunSeq
<1>7. \A k \in 1..n : ParseName(digits)[k] = E(k)
  BY <1>3
<1> QED
  BY <1>4, <1>6, <1>7 DEF n

LEMMA HexLen ==
  ASSUME NEW data \in Seq(Byte), NEW n \in Nat, Len(data) = n
  PROVE  Hex(data) \in Seq(0..15) /\ Len(Hex(data)) = 2 * n
  BY HexType

LEMMA PrefixLen ==
  ASSUME NEW S, NEW s \in Seq(S), NEW n \in Nat, n <= Len(s)
  PROVE  Prefix(s, n) \in Seq(S) /\ Len(Prefix(s, n)) = n
  BY PrefixType

LEMMA PrefixAt ==
  ASSUME NEW S, NEW s \in Seq(S), NEW n \in Nat, NEW i \in 1..n, i <= Len(s)
  PROVE  Prefix(s, n)[i] = s[i]
  BY PrefixType

LEMMA PrefixSeq ==
  ASSUME NEW S, NEW s \in Seq(S), NEW n \in Nat
  PROVE  /\ Prefix(s, n) \in Seq(S) /\ Len(Prefix(s, n)) \in Nat
         /\ Len(Prefix(s, n)) <= n /\ Len(Prefix(s, n)) <= Len(s)
<1>1. Len(s) \in Nat /\ (n <= Len(s) \/ Len(s) <= n)
  OBVIOUS
<1>2. /\ Prefix(s, n) \in Seq(S)
      /\ n <= Len(s) => Len(Prefix(s, n)) = n
      /\ Len(s) <= n => Len(Prefix(s, n)) = Len(s)
  BY PrefixType
<1> QED
  BY <1>1, <1>2

\* Concatenation.
LEMMA CatLen ==
  ASSUME NEW S, NEW s \in Seq(S), NEW t \in Seq(S)
  PROVE  s \o t \in Seq(S) /\ Len(s \o t) = Len(s) + Len(t)
  BY ConcatProperties

LEMMA CatLeft ==
  ASSUME NEW S, NEW s \in Seq(S), NEW t \in Seq(S), NEW k \in 1..Len(s)
  PROVE  (s \o t)[k] = s[k]
  BY ConcatProperties

LEMMA CatRight ==
  ASSUME NEW S, NEW s \in Seq(S), NEW t \in Seq(S), NEW k \in 1..Len(t)
  PROVE  (s \o t)[Len(s) + k] = t[k]
<1>1. PICK i : i = Len(s) + k
  OBVIOUS
<1>2. i \in 1..(Len(s) + Len(t)) /\ ~(i <= Len(s)) /\ i - Len(s) = k
  BY <1>1
<1> QED
  BY <1>1, <1>2, ConcatProperties

LEMMA SeqEq ==
  ASSUME NEW S, NEW n \in Nat, NEW s \in Seq(S), NEW t \in Seq(S),
         Len(s) = n, Len(t) = n, \A i \in 1..n : s[i] = t[i]
  PROVE  s = t
  OBVIOUS

\* The payload has 12 bytes; the id is in the second to the ninth.
LEMMA PackType ==
  ASSUME NEW p \in EphemeralPayload
  PROVE  /\ PackPayload(p) \in Seq(Byte) /\ Len(PackPayload(p)) = 12
         /\ \A k \in 1..8 : PackPayload(p)[k + 1] = p.ephemeralId[k]
<1> DEFINE v == <<p.version % 256>>
           e == p.ephemeralId
           f == Prefix(p.fingerprint, 2)
           g == <<p.flags % 256>>
<1>1. v \in Seq(Byte) /\ Len(v) = 1 /\ g \in Seq(Byte) /\ Len(g) = 1
  <2>1. p.version % 256 \in Byte /\ p.flags % 256 \in Byte
    <3>1. p.version \in Nat /\ p.flags \in Nat
      BY DEF EphemeralPayload
    <3> QED
      BY <3>1 DEF Byte
  <2> QED
    BY <2>1
<1>2. e \in Seq(Byte) /\ Len(e) = 8
  <2>1. e \in [1..8 -> Byte]
    BY DEF EphemeralPayload
  <2> QED
    BY <2>1, FunSeq, ZenonT(60)
<1>3. f \in Seq(Byte) /\ Len(f) = 2
  <2>1. p.fingerprint \in [1..8 -> Byte]
    BY DEF EphemeralPayload
  <2>2. p.fingerprint \in Seq(Byte) /\ Len(p.fingerprint) = 8
    BY <2>1, FunSeq, ZenonT(60)
  <2>3. 2 \in Nat /\ 2 <= Len(p.fingerprint)
    BY <2>2
  <2> QED
    BY <2>2, <2>3, PrefixLen
<1>4. PackPayload(p) = v \o e \o f \o g
  BY DEF PackPayload
<1> HIDE DEF v, e, f, g
<1> DEFINE x == v \o e
           y == x \o f
           z == y \o g
<1>5. x \in Seq(Byte) /\ Len(x) = 9
  <2>1. x \in Seq(Byte) /\ Len(x) = Len(v) + Len(e)
    BY <1>1, <1>2, CatLen
  <2> QED
    BY <1>1, <1>2, <2>1
<1>6. y \in Seq(Byte) /\ Len(y) = 11
  <2> HIDE DEF x
  <2>1. y \in Seq(Byte) /\ Len(y) = Len(x) + Len(f)
    BY <1>3, <1>5, CatLen
  <2> QED
    BY <1>3, <1>5, <2>1
<1>7. z \in Seq(Byte) /\ Len(z) = 12
  <2> HIDE DEF y
  <2>1. z \in Seq(Byte) /\ Len(z) = Len(y) + Len(g)
    BY <1>1, <1>6, CatLen
  <2> QED
    BY <1>1, <1>6, <2>1
<1>8. ASSUME NEW k \in 1..8 PROVE z[k + 1] = e[k]
  <2>1. PICK i : i = k + 1
    OBVIOUS
  <2>2. i \in 1..Len(x) /\ i \in 1..Len(y) /\ i = Len(v) + k /\ k \in 1..Len(e)
    <3> HIDE DEF x, y
    <3> QED
      BY <1>1, <1>2, <1>5, <1>6, <2>1
  <2>3. x[i] = e[k]
    <3>1. v \in Seq(Byte) /\ e \in Seq(Byte)
      BY <1>1, <1>2
    <3>2. k \in 1..Len(e) /\ i = Len(v) + k
      BY <2>2
    <3>3. (v \o e)[Len(v) + k] = e[k]
      BY <3>1, <3>2, CatRight, Zenon
    <3> QED
      BY <3>2, <3>3
  <2>4. y[i] = x[i]
    <3> HIDE DEF x
    <3> QED
      BY <1>3, <1>5, <2>2, CatLeft
  <2>5. z[i] = y[i]
    <3> HIDE DEF y
    <3> QED
      BY <1>1, <1>6, <2>2, CatLeft
  <2> HIDE DEF x, y, z
  <2> QED
    BY <2>1, <2>3, <2>4, <2>5
<1>9. PackPayload(p) = z
  BY <1>4
<1> HIDE DEF z
<1> QED
  BY <1>7, <1>8, <1>9 DEF e

(***************************************************************************)
(* However many digits of its local name the radio delivers, a payload comes*)
(* up on another phone under no id, or under exactly the id that its sender*)
(* derived for itself: never under a shortened or shifted one              *)
(* (BLEModule.swift, utils/blePayload.ts, screens/Home.tsx).               *)
(***************************************************************************)
THEOREM IdComesBack ==
  ASSUME NEW p \in EphemeralPayload, NEW n \in Nat
  PROVE  Surfaces(p, n) \in {None, MyEphemeralId(p.ephemeralId)}
<1> DEFINE pk == PackPayload(p)
           name == LocalName(ToBase64(pk))
           digits == Prefix(name, n)
           data == Discovered(name, n)
<1>1. pk \in Seq(Byte) /\ Len(pk) = 12
      /\ \A k \in 1..8 : pk[k + 1] = p.ephemeralId[k]
  BY PackType
<1> HIDE DEF pk
<1>2. name \in Seq(0..15) /\ Len(name) = 24
      /\ \A i \in 1..24 : name[i] = Hex(pk)[i]
  <2>1. name = Prefix(Hex(pk), 24)
    BY <1>1, Base64RoundTrip DEF LocalName
  <2>2. Hex(pk) \in Seq(0..15) /\ Len(Hex(pk)) = 24
    <3>1. 12 \in Nat /\ 2 * 12 = 24
      OBVIOUS
    <3> QED
      BY <1>1, <3>1, HexLen
  <2> HIDE DEF name
  <2>3. 24 \in Nat /\ 24 <= Len(Hex(pk)) /\ \A i \in 1..24 : i <= Len(Hex(pk))
    BY <2>2
  <2>4. name \in Seq(0..15) /\ Len(name) = 24
    BY <2>1, <2>2, <2>3, PrefixLen
  <2>5. \A i \in 1..24 : name[i] = Hex(pk)[i]
    BY <2>1, <2>2, <2>3, PrefixAt
  <2> QED
    BY <2>4, <2>5
<1> HIDE DEF name
<1>3. /\ digits \in Seq(0..15) /\ Len(digits) \in Nat
      /\ \A i \in 1..24 : i <= Len(digits) => digits[i] = Hex(pk)[i]
  <2>1. digits \in Seq(0..15) /\ Len(digits) \in Nat /\ Len(digits) <= n
    BY <1>2, PrefixSeq
  <2>2. ASSUME NEW i \in 1..24, i <= Len(digits) PROVE digits[i] = Hex(pk)[i]
    <3>1. i \in 1..n /\ i <= Len(name)
      <4>1. Len(name) = 24
        BY <1>2
      <4>2. Len(digits) \in Nat /\ Len(digits) <= n
        BY <2>1
      <4> QED
        BY <2>2, <4>1, <4>2
    <3>2. digits[i] = name[i]
      BY <1>2, <3>1, PrefixAt, ZenonT(60)
    <3> QED
      BY <1>2, <3>2
  <2> QED
    BY <2>1, <2>2
<1> HIDE DEF digits
<1>4. data = ParseName(digits) /\ data \in Seq(Byte)
      /\ Len(data) = (Len(digits) + 1) \div 2
  <2>1. ParseName(digits) \in Seq(Byte)
    BY <1>3, ParseType
  <2> QED
    BY <1>3, <2>1, Base64RoundTrip, ParseType DEF Discovered, digits
<1> HIDE DEF data
<1>5. CASE Len(data) < 12
  BY <1>5 DEF Surfaces, UnpackPayload, data, name, pk
<1>6. CASE ~(Len(data) < 12)
  <2>1. Len(digits) >= 23 /\ Len(data) >= 12 /\ Len(data) \in Nat
    BY <1>3, <1>4, <1>6
  <2>2. ASSUME NEW k \in 1..11 PROVE data[k] = pk[k]
    <3>1. /\ 2 * k - 1 \in 1..24 /\ 2 * k - 1 <= Len(digits)
          /\ 2 * k \in 1..24 /\ 2 * k <= Len(digits)
          /\ k \in 1..((Len(digits) + 1) \div 2) /\ k \in 1..Len(pk)
      <4>1. Len(pk) = 12
        BY <1>1
      <4>2. Len(digits) \in Nat
        BY <1>3
      <4> QED
        BY <2>1, <4>1, <4>2
    <3>2. data[k] = 16 * digits[2 * k - 1] + digits[2 * k]
      BY <1>3, <1>4, <3>1, ParseType
    <3>3. digits[2 * k - 1] = pk[k] \div 16 /\ digits[2 * k] = pk[k] % 16
      <4>1. PICK u \in 1..24 : u = 2 * k - 1 /\ u <= Len(digits)
        BY <3>1
      <4>2. PICK w \in 1..24 : w = 2 * k /\ w <= Len(digits)
        BY <3>1
      <4>3. digits[u] = Hex(pk)[u] /\ digits[w] = Hex(pk)[w]
        BY <1>3, <4>1, <4>2
      <4>4. Hex(pk)[2 * k - 1] = pk[k] \div 16 /\ Hex(pk)[2 * k] = pk[k] % 16
        BY <1>1, <3>1, HexDigits
      <4> QED
        BY <4>1, <4>2, <4>3, <4>4
    <3>4. pk[k] \in 0..255
      BY <1>1, <3>1, HexDigits DEF Byte
    <3>5. \A b \in 0..255 : 16 * (b \div 16) + (b % 16) = b
      OBVIOUS
    <3> QED
      BY <3>2, <3>3, <3>4, <3>5
  <2> DEFINE id == Slice(data, 2, 9)
  <2>3. /\ id \in Seq(Byte) /\ Len(id) = 8
        /\ \A i \in 1..8 : id[i] = data[2 + i - 1]
    <3>1. 2 \in Nat \ {0} /\ 9 \in Nat /\ 2 <= 9 /\ 9 <= Len(data) /\ 9 - 2 + 1 = 8
          /\ \A i \in 1..8 : 2 + i - 1 <= Len(data)
      BY <2>1
    <3>2. PICK a \in Nat \ {0}, b \in Nat : a = 2 /\ b = 9 /\ a <= b /\ b <= Len(data)
      BY <3>1
    <3>3. /\ Slice(data, a, b) \in Seq(Byte) /\ Len(Slice(data, a, b)) = b - a + 1
          /\ \A i \in 1..(b - a + 1) :
               a + i - 1 <= Len(data) => Slice(data, a, b)[i] = data[a + i - 1]
      <4>1. data \in Seq(Byte) /\ a <= b /\ b <= Len(data)
        BY <1>4, <3>2
      <4>2. Slice(data, a, b) \in Seq(Byte)
        BY <4>1, SliceType
      <4>3. Len(Slice(data, a, b)) = b - a + 1
        BY <4>1, SliceType
      <4>4. \A i \in 1..(b - a + 1) :
              a + i - 1 <= Len(data) => Slice(data, a, b)[i] = data[a + i - 1]
        BY <4>1, SliceType
      <4> QED
        BY <4>2, <4>3, <4>4
    <3>4. id = Slice(data, a, b) /\ b - a + 1 = 8
      BY <3>2
    <3> HIDE DEF id
    <3>5. id \in Seq(Byte) /\ Len(id) = 8
      BY <3>3, <3>4
    <3>6. \A i \in 1..8 : id[i] = data[a + i - 1]
      BY <3>1, <3>2, <3>3, <3>4
    <3> QED
      BY <3>2, <3>5, <3>6
  <2> HIDE DEF id
  <2>4. ASSUME NEW i \in 1..8 PROVE id[i] = p.ephemeralId[i]
    <3>1. 2 + i - 1 = i + 1 /\ i + 1 \in 1..11
      OBVIOUS
    <3>2. id[i] = data[i + 1]
      BY <2>3, <3>1
    <3> QED
      BY <1>1, <2>2, <3>1, <3>2
  <2>5. id = p.ephemeralId
    <3>1. p.ephemeralId \in [1..8 -> Byte]
      BY DEF EphemeralPayload
    <3>2. p.ephemeralId \in Seq(Byte) /\ Len(p.ephemeralId) = 8
      BY <3>1, FunSeq, ZenonT(60)
    <3>3. 8 \in Nat /\ \A i \in 1..8 : id[i] = p.ephemeralId[i]
      BY <2>4
    <3> QED
      BY <2>3, <3>2, <3>3, SeqEq, Zenon
  <2>6. ShownId(data) = MyEphemeralId(p.ephemeralId)
    BY <2>5 DEF ShownId, MyEphemeralId, id
  <2> QED
    BY <2>6 DEF Surfaces, data, name, pk
<1> QED
  BY <1>5, <1>6

LEMMA MyIdType ==
  ASSUME NEW eph \in [1..8 -> Byte]
  PROVE  MyEphemeralId(eph) \in [1..12 -> 0..15]
<1>1. eph \in Seq(Byte) /\ Len(eph) = 8
  BY FunSeq
<1>2. Hex(eph) \in Seq(0..15) /\ Len(Hex(eph)) = 16
  <2>1. 8 \in Nat /\ 2 * 8 = 16
    OBVIOUS
  <2> QED
    BY <1>1, <2>1, HexLen
<1>3. MyEphemeralId(eph) \in Seq(0..15) /\ Len(MyEphemeralId(eph)) = 12
  <2>1. 12 \in Nat /\ 12 <= Len(Hex(eph))
    BY <1>2
  <2> QED
    BY <1>2, <2>1, PrefixLen DEF MyEphemeralId
<1>4. ASSUME NEW s \in Seq(0..15), Len(s) = 12 PROVE s \in [1..12 -> 0..15]
  <2>1. s \in [1..Len(s) -> 0..15]
    BY LenProperties
  <2> QED
    BY <1>4, <2>1
<1> QED
  BY <1>3, <1>4

-----------------------------------------------------------------------------
(***************************************************************************)
(* The inductive invariant.  Every row is that of a phone around, and as   *)
(* old as that phone has been silent; while the interval runs, no row is   *)
(* older than one run of it allows; whom the radio heard is on the list or *)
(* was crowded out.                                                        *)
(***************************************************************************)
Flags ==
  /\ {scanning, due, swept} \subseteq BOOLEAN
  /\ due => scanning
  /\ swept => scanning

OneRowEach(list) ==
  /\ list \in Seq(Item) /\ Len(list) <= MaxItems
  /\ \A k, l \in 1..Len(list) : list[k].id = list[l].id => k = l

HeardOK == heard \in [Id -> 0..Old]

OwnRow(r) == \E i \in Id : r.id = MyIdOf[i] /\ r.age = heard[i]

Recent(r) == swept => r.age <= MaxAge /\ (~due => r.age < MaxAge)

Rows == \A k \in 1..Len(items) : OwnRow(items[k]) /\ Recent(items[k])

DialogOK == dialog = None \/ \E i \in Id : dialog = MyIdOf[i]

Present ==
  /\ crowdedOut \subseteq ShownId12
  /\ \A i \in Id : heard[i] < MaxAge => MyIdOf[i] \in Listed \cup crowdedOut

ListInv ==
  /\ Flags /\ OneRowEach(items) /\ HeardOK /\ Rows /\ DialogOK /\ Present

-----------------------------------------------------------------------------
(***************************************************************************)
(* The ids, and the rows.                                                  *)
(***************************************************************************)
\* Whatever arrives of its name, a phone is listed under its own id only.
LEMMA OwnId ==
  ASSUME NEW i \in Id
  PROVE  MyIdOf[i] \in ShownId12 /\ ShownAs[i] \subseteq {MyIdOf[i]}
<1>1. EphemeralId[i] \in [1..8 -> Byte] /\ Fingerprint[i] \in [1..8 -> Byte]
  BY CandidatesAssumption
<1>2. MyIdOf[i] = MyEphemeralId(EphemeralId[i])
  BY DEF MyIdOf
<1>3. MyIdOf[i] \in ShownId12
  BY <1>1, <1>2, MyIdType DEF ShownId12
<1>4. PayloadOf(i) \in EphemeralPayload
      /\ PayloadOf(i).ephemeralId = EphemeralId[i]
  BY <1>1 DEF PayloadOf, EphemeralPayload
<1> HIDE DEF PayloadOf
<1>5. \A n \in Nat : Surfaces(PayloadOf(i), n) \in {None, MyIdOf[i]}
  BY <1>2, <1>4, IdComesBack
<1>6. ASSUME NEW id \in ShownAs[i] PROVE id = MyIdOf[i]
  <2>1. PICK n \in 0..24 : id = Surfaces(PayloadOf(i), n) /\ id # None
    BY DEF ShownAs
  <2>2. n \in Nat
    OBVIOUS
  <2> QED
    BY <1>5, <2>1, <2>2
<1> QED
  BY <1>3, <1>6

LEMMA Limits ==
  MaxItems \in Nat \ {0} /\ MaxAge \in Nat \ {0} /\ Old = MaxAge + 1
  BY CandidatesAssumption DEF Old

LEMMA RowFields ==
  ASSUME NEW r \in Item
  PROVE  /\ r.id \in ShownId12 /\ r.rssi \in Rssi /\ r.age \in 0..Old
         /\ r.score \in (0..100) \cup {None}
  BY DEF Item

LEMMA NewRow ==
  ASSUME NEW id \in ShownId12, NEW rssi \in Rssi
  PROVE  /\ NewItem(id, rssi) \in Item
         /\ NewItem(id, rssi).id = id /\ NewItem(id, rssi).age = 0
<1>1. 0 \in 0..Old
  BY Limits
<1> QED
  BY <1>1 DEF NewItem, Item

LEMMA RowHeard ==
  ASSUME NEW r \in Item, NEW rssi \in Rssi
  PROVE  LET u == [r EXCEPT !.rssi = rssi, !.age = 0] IN
         u \in Item /\ u.id = r.id /\ u.age = 0 /\ u.score = r.score
<1>1. 0 \in 0..Old
  BY Limits
<1> QED
  BY <1>1 DEF Item

LEMMA OlderAge ==
  ASSUME NEW n \in 0..Old
  PROVE  /\ Older(n) \in 0..Old
         /\ n < MaxAge => Older(n) <= MaxAge
         /\ Older(n) < MaxAge => n < MaxAge
  BY Limits DEF Older

LEMMA RowOlder ==
  ASSUME NEW r \in Item
  PROVE  LET u == [r EXCEPT !.age = Older(@)] IN
         u \in Item /\ u.id = r.id /\ u.age = Older(r.age) /\ u.score = r.score
<1>1. Older(r.age) \in 0..Old
  BY RowFields, OlderAge
<1> QED
  BY <1>1 DEF Item

LEMMA RowScored ==
  ASSUME NEW r \in Item
  PROVE  LET u == [r EXCEPT !.score = Score[r.rssi]] IN
         u \in Item /\ u.id = r.id /\ u.age = r.age /\ u.score = Score[r.rssi]
<1>1. Score[r.rssi] \in 0..100
  BY RowFields, CandidatesAssumption
<1> QED
  BY <1>1 DEF Item

\* A list with the same ids in the same places.
LEMMA RowByRow ==
  ASSUME NEW list, OneRowEach(list), NEW f \in [1..Len(list) -> Item],
         \A k \in 1..Len(list) : f[k].id = list[k].id
  PROVE  OneRowEach(f) /\ Len(f) = Len(list)
<1>1. Len(list) \in Nat
  BY DEF OneRowEach
<1>2. f \in Seq(Item) /\ Len(f) = Len(list)
  BY <1>1, FunSeq
<1> QED
  BY <1>2 DEF OneRowEach

\* A list with a new row on top.
LEMMA NewOnTop ==
  ASSUME NEW list, OneRowEach(list), NEW r \in Item,
         \A k \in 1..Len(list) : list[k].id # r.id
  PROVE  LET new == Prefix(<<r>> \o list, MaxItems) IN
         /\ OneRowEach(new)
         /\ 1 \in 1..Len(new) /\ new[1] = r
         /\ \A l \in 1..Len(new) :
              l = 1 \/ \E k \in 1..Len(list) : l = k + 1 /\ new[l] = list[k]
<1> DEFINE all == <<r>> \o list
           new == Prefix(all, MaxItems)
<1>1. list \in Seq(Item) /\ Len(list) \in Nat /\ <<r>> \in Seq(Item) /\ Len(<<r>>) = 1
      /\ <<r>>[1] = r
  BY DEF OneRowEach
<1>2. all \in Seq(Item) /\ Len(all) = Len(list) + 1
  <2>1. all \in Seq(Item) /\ Len(all) = Len(<<r>>) + Len(list)
    BY <1>1, CatLen
  <2> QED
    BY <1>1, <2>1
<1>3. all[1] = r
  <2>1. 1 \in 1..Len(<<r>>)
    BY <1>1
  <2>2. all[1] = <<r>>[1]
    BY <1>1, <2>1, CatLeft
  <2> QED
    BY <1>1, <2>2
<1>4. ASSUME NEW k \in 1..Len(list) PROVE all[k + 1] = list[k]
  <2>1. all[Len(<<r>>) + k] = list[k]
    BY <1>1, CatRight
  <2>2. Len(<<r>>) + k = k + 1
    BY <1>1
  <2> QED
    BY <2>1, <2>2
<1> HIDE DEF all
<1>5. /\ new \in Seq(Item) /\ Len(new) \in Nat
      /\ Len(new) <= MaxItems /\ Len(new) <= Len(list) + 1 /\ 1 <= Len(new)
  <2>1. new \in Seq(Item) /\ Len(new) \in Nat /\ Len(new) <= MaxItems
        /\ Len(new) <= Len(all)
    BY <1>2, Limits, PrefixSeq
  <2>2. /\ MaxItems <= Len(all) => Len(new) = MaxItems
        /\ Len(all) <= MaxItems => Len(new) = Len(all)
    BY <1>2, Limits, PrefixType
  <2>3. Len(all) = Len(list) + 1 /\ Len(list) \in Nat
    BY <1>1, <1>2
  <2>4. new \in Seq(Item)
    BY <2>1
  <2>5. Len(new) \in Nat /\ Len(new) <= MaxItems /\ Len(new) <= Len(all)
    BY <2>1
  <2> HIDE DEF new
  <2> QED
    BY <2>2, <2>3, <2>4, <2>5, Limits
<1>6. ASSUME NEW l \in 1..Len(new) PROVE new[l] = all[l]
  <2>1. l \in 1..MaxItems /\ l <= Len(all)
    <3>1. /\ Len(new) \in Nat /\ Len(new) <= MaxItems /\ Len(new) <= Len(list) + 1
          /\ Len(all) = Len(list) + 1 /\ Len(list) \in Nat
      BY <1>1, <1>2, <1>5
    <3> HIDE DEF new
    <3> QED
      BY <3>1, Limits
  <2>2. all \in Seq(Item) /\ MaxItems \in Nat
    BY <1>2, Limits
  <2> QED
    BY <2>1, <2>2, PrefixAt
<1> HIDE DEF new
<1>7. ASSUME NEW l \in 1..Len(new)
      PROVE  l = 1 \/ \E k \in 1..Len(list) : l = k + 1 /\ new[l] = list[k]
  <2>1. CASE l # 1
    <3>1. PICK k \in 1..Len(list) : l = k + 1
      <4>1. Len(new) \in Nat /\ Len(new) <= Len(list) + 1 /\ Len(list) \in Nat
        BY <1>1, <1>5
      <4>2. l - 1 \in 1..Len(list) /\ l = (l - 1) + 1
        BY <2>1, <4>1
      <4> QED
        BY <4>2
    <3> QED
      BY <1>4, <1>6, <3>1
  <2> QED
    BY <2>1
<1>8. 1 \in 1..Len(new) /\ new[1] = r
  <2>1. 1 \in 1..Len(new)
    <3>1. Len(new) \in Nat /\ 1 <= Len(new)
      BY <1>5
    <3> QED
      BY <3>1
  <2> QED
    BY <1>3, <1>6, <2>1
<1>9. ASSUME NEW k \in 1..Len(new), NEW l \in 1..Len(new), new[k].id = new[l].id
      PROVE  k = l
  <2>1. CASE k = 1 /\ l # 1
    BY <1>7, <1>8, <1>9, <2>1
  <2>2. CASE k # 1 /\ l = 1
    BY <1>7, <1>8, <1>9, <2>2
  <2>3. CASE k # 1 /\ l # 1
    BY <1>7, <1>9, <2>3 DEF OneRowEach
  <2> QED
    BY <1>9, <2>1, <2>2, <2>3
<1>10. OneRowEach(new)
  BY <1>5, <1>9 DEF OneRowEach
<1> QED
  BY <1>7, <1>8, <1>10 DEF new, all

-----------------------------------------------------------------------------
(***************************************************************************)
(* The steps.  Next to the invariant every step keeps the scores: a row    *)
(* after it is one of an id that was not listed, or has its score from a   *)
(* row before.                                                             *)
(***************************************************************************)
KeepsScore(r, u) == u.id = r.id /\ (r.score # None => u.score = r.score)

ScoresKept ==
  \A l \in 1..Len(items') :
    \/ items'[l].id \notin Listed
    \/ \E k \in 1..Len(items) : KeepsScore(items[k], items'[l])

LEMMA InitOK ==
  ASSUME Init
  PROVE  ListInv
<1>1. items = <<>> /\ Len(items) = 0 /\ items \in Seq(Item)
  BY DEF Init
<1>2. Flags /\ DialogOK
  BY DEF Init, Flags, DialogOK
<1>3. OneRowEach(items) /\ Rows
  <2>1. 1..Len(items) = {} /\ Len(items) <= MaxItems
    BY <1>1, Limits
  <2> QED
    BY <1>1, <2>1 DEF OneRowEach, Rows
<1>4. HeardOK /\ \A i \in Id : heard[i] = Old
  <2>1. Old \in 0..Old
    BY Limits
  <2> QED
    BY <2>1 DEF Init, HeardOK
<1>5. Present
  <2>1. ~(Old < MaxAge)
    BY Limits
  <2>2. crowdedOut \subseteq ShownId12
    BY DEF Init
  <2> QED
    BY <1>4, <2>1, <2>2 DEF Present
<1> QED
  BY <1>2, <1>3, <1>4, <1>5 DEF ListInv

\* The steps that leave the rows and what was heard alone.
LEMMA Untouched ==
  ASSUME ListInv, UNCHANGED <<items, heard, crowdedOut>>,
         swept' => swept /\ due' = due
  PROVE  /\ OneRowEach(items)' /\ HeardOK' /\ Rows' /\ Present'
         /\ ScoresKept
<1>1. OneRowEach(items)' /\ HeardOK' /\ Present'
  BY DEF ListInv, OneRowEach, HeardOK, Present, Listed
<1>2. Rows'
  BY DEF ListInv, Rows, OwnRow, Recent
<1>3. ScoresKept
  BY DEF ScoresKept, KeepsScore
<1> QED
  BY <1>1, <1>2, <1>3

LEMMA TurnOnOK ==
  ASSUME ListInv, TurnOn
  PROVE  ListInv' /\ ScoresKept
<1>1. Flags' /\ DialogOK'
  BY DEF TurnOn, ListInv, Flags, DialogOK
<1>2. UNCHANGED <<items, heard, crowdedOut>> /\ (swept' => swept /\ due' = due)
  BY DEF TurnOn
<1> QED
  BY <1>1, <1>2, Untouched DEF ListInv

LEMMA TurnOffOK ==
  ASSUME ListInv, TurnOff
  PROVE  ListInv' /\ ScoresKept
<1>1. Flags' /\ DialogOK'
  BY DEF TurnOff, Stop, ListInv, Flags, DialogOK
<1>2. UNCHANGED <<items, heard, crowdedOut>> /\ (swept' => swept /\ due' = due)
  BY DEF TurnOff, Stop
<1> QED
  BY <1>1, <1>2, Untouched DEF ListInv

LEMMA OpenLinkDialogOK ==
  ASSUME ListInv, NEW k \in 1..Len(items), OpenLinkDialog(k)
  PROVE  ListInv' /\ ScoresKept
<1>1. Flags'
  BY DEF OpenLinkDialog, historyVars, ListInv, Flags
<1>2. DialogOK'
  <2>1. dialog' = items[k].id
    BY DEF OpenLinkDialog
  <2>2. PICK i \in Id : items[k].id = MyIdOf[i]
    BY DEF ListInv, Rows, OwnRow
  <2> QED
    BY <2>1, <2>2 DEF DialogOK
<1>3. UNCHANGED <<items, heard, crowdedOut>> /\ (swept' => swept /\ due' = due)
  BY DEF OpenLinkDialog, historyVars
<1> QED
  BY <1>1, <1>2, <1>3, Untouched DEF ListInv

LEMMA CloseLinkDialogOK ==
  ASSUME ListInv, CloseLinkDialog
  PROVE  ListInv' /\ ScoresKept
<1>1. Flags' /\ DialogOK'
  BY DEF CloseLinkDialog, historyVars, ListInv, Flags, DialogOK
<1>2. UNCHANGED <<items, heard, crowdedOut>> /\ (swept' => swept /\ due' = due)
  BY DEF CloseLinkDialog, historyVars
<1> QED
  BY <1>1, <1>2, Untouched DEF ListInv

LEMMA SendLinkRequestOK ==
  ASSUME ListInv, SendLinkRequest
  PROVE  ListInv' /\ ScoresKept
<1>1. Flags' /\ DialogOK'
  BY DEF SendLinkRequest, Stop, ListInv, Flags, DialogOK
<1>2. UNCHANGED <<items, heard, crowdedOut>> /\ (swept' => swept /\ due' = due)
  BY DEF SendLinkRequest, Stop
<1> QED
  BY <1>1, <1>2, Untouched DEF ListInv

LEMMA CheckCompatibilityOK ==
  ASSUME ListInv, NEW k \in 1..Len(items), CheckCompatibility(k)
  PROVE  ListInv' /\ ScoresKept
<1> DEFINE u == [items[k] EXCEPT !.score = Score[items[k].rssi]]
<1>1. items \in [1..Len(items) -> Item] /\ Len(items) \in Nat
  BY LenProperties DEF ListInv, OneRowEach
<1>2. items[k].score = None /\ items[k] \in Item
  BY <1>1 DEF CheckCompatibility
<1>3. u \in Item /\ u.id = items[k].id /\ u.age = items[k].age
  BY <1>2, RowScored
<1>4. items' = [items EXCEPT ![k] = u]
  BY DEF CheckCompatibility
<1> HIDE DEF u
<1>5. /\ items' \in [1..Len(items) -> Item]
      /\ \A l \in 1..Len(items) :
           /\ items'[l].id = items[l].id /\ items'[l].age = items[l].age
           /\ KeepsScore(items[l], items'[l])
  <2>1. items' \in [1..Len(items) -> Item]
    BY <1>1, <1>3, <1>4
  <2>2. items'[k] = u
    BY <1>1, <1>4
  <2>3. \A l \in 1..Len(items) : l # k => items'[l] = items[l]
    BY <1>1, <1>4
  <2> QED
    BY <1>2, <1>3, <2>1, <2>2, <2>3 DEF KeepsScore
<1>6. OneRowEach(items') /\ Len(items') = Len(items)
  BY <1>5, RowByRow DEF ListInv
<1>7. UNCHANGED <<scanning, due, dialog, heard, crowdedOut, swept>>
  BY DEF CheckCompatibility, historyVars
<1>8. Flags' /\ HeardOK' /\ DialogOK'
  BY <1>7 DEF ListInv, Flags, HeardOK, DialogOK
<1>9. Rows'
  <2>1. SUFFICES ASSUME NEW l \in 1..Len(items')
                 PROVE  OwnRow(items[l])' /\ Recent(items[l])'
    BY DEF Rows
  <2>2. /\ OwnRow(items[l]) /\ Recent(items[l])
        /\ items'[l].id = items[l].id /\ items'[l].age = items[l].age
    BY <1>5, <1>6 DEF ListInv, Rows
  <2> QED
    BY <1>7, <2>2 DEF OwnRow, Recent
<1>10. Listed' = Listed
  BY <1>5, <1>6 DEF Listed
<1>11. Present'
  BY <1>7, <1>10 DEF ListInv, Present
<1>12. ScoresKept
  BY <1>5, <1>6 DEF ScoresKept
<1> QED
  BY <1>6, <1>8, <1>9, <1>11, <1>12 DEF ListInv

LEMMA TickOK ==
  ASSUME ListInv, Tick
  PROVE  ListInv' /\ ScoresKept
<1>1. items \in [1..Len(items) -> Item] /\ Len(items) \in Nat
  BY LenProperties DEF ListInv, OneRowEach
<1>2. \A l \in 1..Len(items) : items'[l] = [items[l] EXCEPT !.age = Older(@)]
  BY DEF Tick
<1>3. ASSUME NEW l \in 1..Len(items)
      PROVE  /\ items'[l] \in Item /\ items'[l].id = items[l].id
             /\ items'[l].age = Older(items[l].age)
             /\ items'[l].score = items[l].score
  BY <1>1, <1>2, RowOlder
<1>4. items' \in [1..Len(items) -> Item]
  BY <1>3 DEF Tick
<1>5. OneRowEach(items') /\ Len(items') = Len(items)
  BY <1>3, <1>4, RowByRow DEF ListInv
<1>6. /\ ~due /\ due' = scanning /\ heard' = [i \in Id |-> Older(heard[i])]
      /\ UNCHANGED <<scanning, dialog, crowdedOut, swept>>
  BY DEF Tick
<1>7. Flags' /\ DialogOK'
  BY <1>6 DEF ListInv, Flags, DialogOK
<1>8. HeardOK' /\ \A i \in Id : heard'[i] = Older(heard[i]) /\ heard[i] \in 0..Old
  BY <1>6, OlderAge DEF ListInv, HeardOK
<1>9. Rows'
  <2>1. SUFFICES ASSUME NEW l \in 1..Len(items')
                 PROVE  OwnRow(items[l])' /\ Recent(items[l])'
    BY DEF Rows
  <2>2. /\ OwnRow(items[l]) /\ Recent(items[l]) /\ items[l] \in Item
        /\ items'[l].id = items[l].id /\ items'[l].age = Older(items[l].age)
    BY <1>1, <1>3, <1>5 DEF ListInv, Rows
  <2>3. OwnRow(items[l])'
    <3>1. PICK i \in Id : items[l].id = MyIdOf[i] /\ items[l].age = heard[i]
      BY <2>2 DEF OwnRow
    <3> QED
      BY <1>8, <2>2, <3>1 DEF OwnRow
  <2>4. Recent(items[l])'
    <3>1. SUFFICES ASSUME swept'
                   PROVE  items'[l].age <= MaxAge /\ due'
      BY DEF Recent
    <3>2. swept /\ scanning
      BY <1>6, <3>1 DEF ListInv, Flags
    <3>3. items[l].age < MaxAge
      BY <1>6, <2>2, <3>2 DEF Recent
    <3>4. Older(items[l].age) <= MaxAge
      BY <2>2, <3>3, RowFields, OlderAge
    <3> QED
      BY <1>6, <2>2, <3>2, <3>4
  <2> QED
    BY <2>3, <2>4
<1>10. Listed' = Listed
  BY <1>3, <1>5 DEF Listed
<1>11. Present'
  BY <1>6, <1>8, <1>10, OlderAge DEF ListInv, Present
<1>12. ScoresKept
  BY <1>3, <1>5 DEF ScoresKept, KeepsScore
<1> QED
  BY <1>5, <1>7, <1>8, <1>9, <1>11, <1>12 DEF ListInv

LEMMA CleanupOK ==
  ASSUME ListInv, Cleanup
  PROVE  ListInv' /\ ScoresKept
<1>1. items \in [1..Len(items) -> Item] /\ Len(items) \in Nat
  BY LenProperties DEF ListInv, OneRowEach
<1>0. PICK n \in 0..Len(items) : \E at \in [1..n -> Kept] :
        /\ \A j, l \in 1..n : j < l => at[j] < at[l]
        /\ Kept = {at[j] : j \in 1..n}
        /\ items' = [j \in 1..n |-> items[at[j]]]
  BY DEF Cleanup
<1>2. PICK at \in [1..n -> Kept] :
        /\ \A j, l \in 1..n : j < l => at[j] < at[l]
        /\ Kept = {at[j] : j \in 1..n}
        /\ items' = [j \in 1..n |-> items[at[j]]]
  BY <1>0
<1>3. n \in Nat /\ n <= Len(items)
  BY <1>1
<1>4. ASSUME NEW j \in 1..n
      PROVE  /\ at[j] \in 1..Len(items) /\ at[j] \in Kept
             /\ items'[j] = items[at[j]] /\ items[at[j]].age < MaxAge
  BY <1>2 DEF Kept, Fresh
<1>5. items' \in [1..n -> Item]
  BY <1>1, <1>2, <1>4
<1>6. items' \in Seq(Item) /\ Len(items') = n
  BY <1>3, <1>5, FunSeq
<1>7. OneRowEach(items)'
  <2>1. Len(items') <= MaxItems
    <3>1. Len(items) <= MaxItems
      BY DEF ListInv, OneRowEach
    <3>2. Len(items') = n
      BY <1>6
    <3> QED
      BY <1>1, <1>3, <3>1, <3>2, Limits
  <2>2. ASSUME NEW j \in 1..n, NEW l \in 1..n, items'[j].id = items'[l].id
        PROVE  j = l
    <3>1. at[j] = at[l]
      BY <1>4, <2>2 DEF ListInv, OneRowEach
    <3>2. at[j] \in Int /\ at[l] \in Int
      BY <1>4
    <3>3. ~(at[j] < at[l]) /\ ~(at[l] < at[j])
      BY <3>1, <3>2
    <3>4. ~(j < l) /\ ~(l < j)
      BY <1>2, <3>3
    <3> QED
      BY <1>3, <3>4
  <2> QED
    BY <1>6, <2>1, <2>2 DEF OneRowEach
<1>8. due' = FALSE /\ swept' = TRUE /\ due
      /\ UNCHANGED <<scanning, dialog, heard, crowdedOut>>
  BY DEF Cleanup
<1>9. Flags' /\ HeardOK' /\ DialogOK'
  BY <1>8 DEF ListInv, Flags, HeardOK, DialogOK
<1>10. Rows'
  <2>1. SUFFICES ASSUME NEW j \in 1..Len(items')
                 PROVE  OwnRow(items[j])' /\ Recent(items[j])'
    BY DEF Rows
  <2>2. j \in 1..n
    BY <1>6
  <2>3. PICK k \in 1..Len(items) : items'[j] = items[k] /\ items[k].age < MaxAge
    BY <1>4, <2>2
  <2>4. OwnRow(items[k]) /\ items[k].age \in 0..Old
    BY <1>1, RowFields DEF ListInv, Rows
  <2>5. items[k].age <= MaxAge
    BY <2>3, <2>4, Limits
  <2> QED
    BY <1>8, <2>3, <2>4, <2>5 DEF OwnRow, Recent
<1>11. Present'
  <2>1. SUFFICES ASSUME NEW i \in Id, heard[i] < MaxAge, MyIdOf[i] \notin crowdedOut
                 PROVE  MyIdOf[i] \in Listed'
    BY <1>8 DEF ListInv, Present
  <2>2. PICK k \in 1..Len(items) : items[k].id = MyIdOf[i]
    BY <2>1 DEF ListInv, Present, Listed
  <2>3. items[k].age = heard[i]
    BY <2>2, NoCollision DEF ListInv, Rows, OwnRow
  <2>4. k \in Kept
    BY <2>1, <2>3 DEF Kept, Fresh
  <2>5. PICK j \in 1..n : k = at[j]
    BY <1>2, <2>4
  <2>6. j \in 1..Len(items') /\ items'[j].id = MyIdOf[i]
    BY <1>4, <1>6, <2>2, <2>5
  <2> QED
    BY <2>6 DEF Listed
<1>12. ScoresKept
  <2>1. SUFFICES ASSUME NEW j \in 1..Len(items')
                 PROVE  \E k \in 1..Len(items) : KeepsScore(items[k], items'[j])
    BY DEF ScoresKept
  <2>2. PICK k \in 1..Len(items) : items'[j] = items[k]
    BY <1>4, <1>6
  <2> QED
    BY <2>2 DEF KeepsScore
<1> QED
  BY <1>7, <1>9, <1>10, <1>11, <1>12 DEF ListInv

\* What a sighting of i leaves for the others.
LEMMA OthersHeard ==
  ASSUME HeardOK, NEW i \in Id, heard' = [heard EXCEPT ![i] = 0]
  PROVE  HeardOK' /\ heard'[i] = 0 /\ \A j \in Id : j # i => heard'[j] = heard[j]
<1>1. 0 \in 0..Old
  BY Limits
<1> QED
  BY <1>1 DEF HeardOK

LEMMA SightingOK ==
  ASSUME ListInv, NEW i \in Id, NEW rssi \in Rssi, Sighting(i, rssi)
  PROVE  ListInv' /\ ScoresKept
<1> DEFINE id == MyIdOf[i]
<1>1. /\ items' = AfterSighting(id, rssi)
      /\ crowdedOut' = (crowdedOut \ {id}) \cup (Listed \ Ids(items'))
  BY OwnId DEF Sighting
<1>2. heard' = [heard EXCEPT ![i] = 0] /\ UNCHANGED <<scanning, due, dialog, swept>>
  BY DEF Sighting
<1>3. id \in ShownId12
  BY OwnId
<1>4. HeardOK' /\ heard'[i] = 0 /\ \A j \in Id : j # i => heard'[j] = heard[j]
  BY <1>2, OthersHeard DEF ListInv
<1>5. Flags' /\ DialogOK'
  BY <1>2 DEF ListInv, Flags, DialogOK
<1>6. items \in [1..Len(items) -> Item] /\ Len(items) \in Nat
  BY LenProperties DEF ListInv, OneRowEach
<1>7. ASSUME NEW r \in Item, OwnRow(r), Recent(r), r.id # id
      PROVE  OwnRow(r)' /\ Recent(r)'
  BY <1>2, <1>4, <1>7 DEF OwnRow, Recent
<1>8. ASSUME NEW r, r.id = id, r.age = 0
      PROVE  (\E j \in Id : r.id = MyIdOf[j] /\ r.age = heard'[j])
             /\ (swept' => r.age <= MaxAge /\ (~due' => r.age < MaxAge))
  <2>1. 0 <= MaxAge /\ 0 < MaxAge
    BY Limits
  <2> QED
    BY <1>4, <1>8, <2>1
<1> HIDE DEF id
<1>9. CASE id \in Listed
  <2>1. \A k \in 1..Len(items) :
          items'[k] = IF items[k].id = id
                      THEN [items[k] EXCEPT !.rssi = rssi, !.age = 0] ELSE items[k]
    BY <1>1, <1>9 DEF AfterSighting, Updated
  <2>2. ASSUME NEW k \in 1..Len(items), items[k].id = id
        PROVE  /\ items'[k] \in Item /\ items'[k].id = id /\ items'[k].age = 0
               /\ items'[k].score = items[k].score
    <3> DEFINE u == [items[k] EXCEPT !.rssi = rssi, !.age = 0]
    <3>1. items'[k] = u
      BY <2>1, <2>2
    <3>2. items[k] \in Item
      BY <1>6
    <3>3. /\ u \in Item /\ u.id = items[k].id /\ u.age = 0
          /\ u.score = items[k].score
      BY <3>2, RowHeard
    <3> HIDE DEF u
    <3> QED
      BY <2>2, <3>1, <3>3
  <2>3. ASSUME NEW k \in 1..Len(items), items[k].id # id
        PROVE  items'[k] = items[k] /\ items'[k] \in Item
    BY <1>6, <2>1, <2>3
  <2>4. ASSUME NEW k \in 1..Len(items)
        PROVE  items'[k] \in Item /\ items'[k].id = items[k].id
               /\ items'[k].score = items[k].score
    BY <2>2, <2>3
  <2>5. items' \in [1..Len(items) -> Item]
    <3>1. \E f : items' = [k \in 1..Len(items) |-> f[k]]
      BY <1>1, <1>9, ZenonT(60) DEF AfterSighting, Updated
    <3> QED
      BY <2>4, <3>1
  <2>6. OneRowEach(items') /\ Len(items') = Len(items)
    BY <2>4, <2>5, RowByRow DEF ListInv
  <2>7. Rows'
    <3>1. SUFFICES ASSUME NEW k \in 1..Len(items')
                   PROVE  OwnRow(items[k])' /\ Recent(items[k])'
      BY DEF Rows
    <3>2. k \in 1..Len(items)
      BY <2>6
    <3>3. CASE items[k].id = id
      BY <1>8, <2>2, <3>2, <3>3 DEF OwnRow, Recent
    <3>4. CASE items[k].id # id
      <4>1. OwnRow(items[k]) /\ Recent(items[k]) /\ items[k] \in Item
        BY <1>6, <3>2 DEF ListInv, Rows
      <4>2. PICK r \in Item : r = items[k] /\ OwnRow(r) /\ Recent(r) /\ r.id # id
        BY <3>4, <4>1
      <4>3. OwnRow(r)' /\ Recent(r)' /\ items'[k] = r
        BY <1>7, <2>3, <3>2, <3>4, <4>2
      <4> QED
        BY <4>3 DEF OwnRow, Recent
    <3> QED
      BY <3>3, <3>4
  <2>8. Listed' = Listed /\ Ids(items') = Listed
    BY <2>4, <2>6 DEF Listed, Ids
  <2>9. Present'
    <3>1. crowdedOut' = crowdedOut \ {id} /\ crowdedOut' \subseteq ShownId12
      BY <1>1, <2>8 DEF ListInv, Present
    <3>2. ASSUME NEW j \in Id, heard'[j] < MaxAge
          PROVE  MyIdOf[j] \in Listed' \cup crowdedOut'
      <4>1. CASE j = i
        BY <1>9, <2>8, <4>1 DEF id
      <4>2. CASE j # i
        BY <1>4, <1>9, <2>8, <3>1, <3>2, <4>2 DEF ListInv, Present
      <4> QED
        BY <4>1, <4>2
    <3> QED
      BY <3>1, <3>2 DEF Present
  <2>10. ScoresKept
    BY <2>4, <2>6 DEF ScoresKept, KeepsScore
  <2> QED
    BY <1>4, <1>5, <2>6, <2>7, <2>9, <2>10 DEF ListInv
<1>10. CASE id \notin Listed
  <2> DEFINE r == NewItem(id, rssi)
  <2>1. r \in Item /\ r.id = id /\ r.age = 0
    BY <1>3, NewRow
  <2>2. items' = Prefix(<<r>> \o items, MaxItems)
    BY <1>1, <1>10 DEF AfterSighting
  <2> HIDE DEF r
  <2>3. \A k \in 1..Len(items) : items[k].id # r.id
    BY <1>10, <2>1 DEF Listed
  <2>4. /\ OneRowEach(items')
        /\ 1 \in 1..Len(items') /\ items'[1] = r
        /\ \A l \in 1..Len(items') :
             l = 1 \/ \E k \in 1..Len(items) : l = k + 1 /\ items'[l] = items[k]
    <3> DEFINE new == Prefix(<<r>> \o items, MaxItems)
    <3>1. OneRowEach(items) /\ r \in Item
      BY <2>1 DEF ListInv
    <3>2. /\ OneRowEach(new)
          /\ 1 \in 1..Len(new) /\ new[1] = r
          /\ \A l \in 1..Len(new) :
               l = 1 \/ \E k \in 1..Len(items) : l = k + 1 /\ new[l] = items[k]
      BY <2>3, <3>1, NewOnTop, ZenonT(60)
    <3> HIDE DEF new
    <3>3. items' = new
      BY <2>2 DEF new
    <3> QED
      BY <3>2, <3>3
  <2>5. Rows'
    <3>1. SUFFICES ASSUME NEW l \in 1..Len(items')
                   PROVE  OwnRow(items[l])' /\ Recent(items[l])'
      BY DEF Rows
    <3>2. CASE l = 1
      BY <1>8, <2>1, <2>4, <3>2 DEF OwnRow, Recent
    <3>3. CASE l # 1
      <4>1. PICK k \in 1..Len(items) : items'[l] = items[k]
        BY <2>4, <3>3
      <4>2. OwnRow(items[k]) /\ Recent(items[k]) /\ items[k] \in Item /\ items[k].id # id
        BY <1>6, <2>1, <2>3 DEF ListInv, Rows
      <4>3. PICK q \in Item : q = items[k] /\ OwnRow(q) /\ Recent(q) /\ q.id # id
        BY <4>2
      <4>4. OwnRow(q)' /\ Recent(q)' /\ items'[l] = q
        BY <1>7, <4>1, <4>3
      <4> QED
        BY <4>4 DEF OwnRow, Recent
    <3> QED
      BY <3>2, <3>3
  <2>6. Listed' = Ids(items') /\ id \in Listed'
    BY <2>1, <2>4 DEF Listed, Ids
  <2>7. Listed \subseteq ShownId12
    BY <1>6, RowFields DEF Listed
  <2>8. Present'
    <3>1. crowdedOut' \subseteq ShownId12
      BY <1>1, <2>7 DEF ListInv, Present
    <3>2. ASSUME NEW j \in Id, heard'[j] < MaxAge
          PROVE  MyIdOf[j] \in Listed' \cup crowdedOut'
      <4>1. CASE j = i
        BY <2>6, <4>1 DEF id
      <4>2. CASE j # i
        <5>1. MyIdOf[j] # id
          BY <4>2, NoCollision DEF id
        <5>2. MyIdOf[j] \in Listed \cup crowdedOut
          BY <1>4, <3>2, <4>2 DEF ListInv, Present
        <5> QED
          BY <1>1, <2>6, <5>1, <5>2
      <4> QED
        BY <4>1, <4>2
    <3> QED
      BY <3>1, <3>2 DEF Present
  <2>9. ScoresKept
    <3>1. SUFFICES ASSUME NEW l \in 1..Len(items'), items'[l].id \in Listed
                   PROVE  \E k \in 1..Len(items) : KeepsScore(items[k], items'[l])
      BY DEF ScoresKept
    <3>2. l # 1
      BY <1>10, <2>1, <2>4, <3>1
    <3>3. PICK k \in 1..Len(items) : items'[l] = items[k]
      BY <2>4, <3>2
    <3> QED
      BY <3>3 DEF KeepsScore
  <2> QED
    BY <1>4, <1>5, <2>4, <2>5, <2>8, <2>9 DEF ListInv
<1> QED
  BY <1>9, <1>10

-----------------------------------------------------------------------------
(***************************************************************************)
(* The theorems.                                                           *)
(***************************************************************************)
LEMMA StepOK ==
  ASSUME ListInv, Next
  PROVE  ListInv' /\ ScoresKept
<1>1. CASE User
  BY <1>1, TurnOnOK, TurnOffOK, CloseLinkDialogOK, SendLinkRequestOK,
     CheckCompatibilityOK, OpenLinkDialogOK DEF User
<1>2. CASE Tick
  BY <1>2, TickOK
<1>3. CASE Cleanup
  BY <1>3, CleanupOK
<1>4. CASE \E i \in Id, rssi \in Rssi : Sighting(i, rssi)
  BY <1>4, SightingOK
<1> QED
  BY <1>1, <1>2, <1>3, <1>4 DEF Next

\* What the invariant is for.
LEMMA Consequences ==
  ASSUME ListInv
  PROVE  TypeOK /\ NoPhantoms /\ ListFollowsRadio
<1>1. TypeOK
  <2>1. dialog \in ShownId12 \cup {None}
    BY OwnId DEF ListInv, DialogOK
  <2> QED
    BY <2>1 DEF ListInv, Flags, OneRowEach, HeardOK, Present, TypeOK
<1>2. NoPhantoms
  BY DEF ListInv, Rows, OwnRow, DialogOK, NoPhantoms, Listed
<1>3. ListFollowsRadio
  <2>1. SUFFICES ASSUME NEW i \in Id, swept, heard[i] > MaxAge, MyIdOf[i] \in Listed
                 PROVE  FALSE
    BY DEF ListInv, Present, ListFollowsRadio
  <2>2. PICK k \in 1..Len(items) : items[k].id = MyIdOf[i]
    BY <2>1 DEF Listed
  <2>3. items[k].age = heard[i] /\ items[k].age <= MaxAge
    BY <2>1, <2>2, NoCollision DEF ListInv, Rows, OwnRow, Recent
  <2>4. heard[i] \in 0..Old
    BY DEF ListInv, HeardOK
  <2> QED
    BY <2>1, <2>3, <2>4, Limits
<1> QED
  BY <1>1, <1>2, <1>3

(***************************************************************************)
(* The invariant holds, for any number of phones around, any length of the *)
(* list and any time after which a row is stale.                           *)
(***************************************************************************)
THEOREM ListInvariant == Spec => []ListInv
<1>1. Init => ListInv
  BY InitOK
<1>2. ListInv /\ [Next]_vars => ListInv'
  <2>1. ASSUME ListInv, UNCHANGED vars PROVE ListInv'
    <3>1. UNCHANGED <<items, heard, crowdedOut>> /\ (swept' => swept /\ due' = due)
      BY <2>1 DEF vars
    <3>2. Flags' /\ DialogOK'
      BY <2>1 DEF vars, ListInv, Flags, DialogOK
    <3> QED
      BY <2>1, <3>1, <3>2, Untouched DEF ListInv
  <2> QED
    BY <2>1, StepOK
<1> QED
  BY <1>1, <1>2, PTL DEF Spec

(***************************************************************************)
(* Every variable holds values of its kind, no id has two rows, and the list*)
(* never gets longer than it may (Home.tsx:97-103).                        *)
(***************************************************************************)
THEOREM CandidatesTypeCorrect == Spec => []TypeOK
<1>1. ListInv => TypeOK
  BY Consequences
<1> QED
  BY <1>1, ListInvariant, PTL

(***************************************************************************)
(* What is listed, and what a link dialog is about, is the id that a phone *)
(* around derived for itself (Home.tsx:91-103).                            *)
(***************************************************************************)
THEOREM NobodyInvented == Spec => []NoPhantoms
<1>1. ListInv => NoPhantoms
  BY Consequences
<1> QED
  BY <1>1, ListInvariant, PTL

(***************************************************************************)
(* Who was heard lately is listed unless crowded out, and who has been     *)
(* silent for longer than an interval after the limit is not               *)
(* (Home.tsx:130-134).                                                     *)
(***************************************************************************)
THEOREM ListIsCurrent == Spec => []ListFollowsRadio
<1>1. ListInv => ListFollowsRadio
  BY Consequences
<1> QED
  BY <1>1, ListInvariant, PTL

(***************************************************************************)
(* No step takes a score from a row or changes it (Home.tsx:99).           *)
(***************************************************************************)
THEOREM ScoresStay == Spec => ScoreStays
<1> DEFINE Stays ==
      \A k \in 1..Len(items), l \in 1..Len(items') :
        items[k].score # None /\ items'[l].id = items[k].id
          => items'[l].score = items[k].score
<1>1. ASSUME ListInv, [Next]_vars PROVE [Stays]_vars
  <2>1. CASE Next
    <3>1. ScoresKept
      BY <1>1, <2>1, StepOK
    <3>2. ASSUME NEW k \in 1..Len(items), NEW l \in 1..Len(items'),
                 items[k].score # None, items'[l].id = items[k].id
          PROVE  items'[l].score = items[k].score
      <4>1. items'[l].id \in Listed
        BY <3>2 DEF Listed
      <4>2. PICK m \in 1..Len(items) : KeepsScore(items[m], items'[l])
        BY <3>1, <4>1 DEF ScoresKept
      <4>3. m = k
        BY <1>1, <3>2, <4>2 DEF KeepsScore, ListInv, OneRowEach
      <4> QED
        BY <3>2, <4>2, <4>3 DEF KeepsScore
    <3> QED
      BY <3>2
  <2> QED
    BY <1>1, <2>1
<1> QED
  BY <1>1, ListInvariant, PTL DEF Spec, ScoreStays

=============================================================================
