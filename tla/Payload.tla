------------------------------ MODULE Payload ------------------------------
(***************************************************************************)
(* The way of an ephemeral id from one phone to the list of another: the   *)
(* payload (utils/blePayload.ts), base64 across the bridge to the native   *)
(* module (ble/index.ts), the hexadecimal local name that goes on the air, *)
(* the parsing of a name that was heard (BLEModule.swift), base64 back,    *)
(* and the id that the Home screen shows for it (screens/Home.tsx).        *)
(*                                                                         *)
(* Strings of hexadecimal or base64 characters are sequences of digits.    *)
(* The radio may shorten a local name that does not fit the packet.        *)
(***************************************************************************)
EXTENDS Naturals, Sequences

CONSTANT None  \* null

Byte == 0..255

\* What there is of s from position a to position b.
Slice(s, a, b) == SubSeq(s, a, IF b < Len(s) THEN b ELSE Len(s))

Prefix(s, n) == Slice(s, 1, n)

EphemeralPayload ==
  [version : Nat, ephemeralId : [1..8 -> Byte], fingerprint : [1..8 -> Byte],
   flags : Nat]

\* packPayload: 12 bytes, of the fingerprint only the first two.
PackPayload(p) ==
  <<p.version % 256>> \o p.ephemeralId \o Prefix(p.fingerprint, 2)
    \o <<p.flags % 256>>

\* Variant with a bug: data that is too short is unpacked all the same.
UnpackAnything(data) == [ephemeralId |-> Slice(data, 2, 9)]

\* unpackPayload: null for data that is too short.
UnpackPayload(data) ==
  IF Len(data) < 12
  THEN None
  ELSE [version |-> data[1], ephemeralId |-> SubSeq(data, 2, 9),
        fingerprint |-> SubSeq(data, 10, 11), flags |-> data[12]]

-----------------------------------------------------------------------------
(***************************************************************************)
(* base64: every three bytes are four sextets.                             *)
(***************************************************************************)
\* The k-th element, with zeros after the end.
At(s, k) == IF k <= Len(s) THEN s[k] ELSE 0

ToBase64(data) ==
  [i \in 1..((4 * Len(data) + 2) \div 3) |->
     LET k == 3 * ((i - 1) \div 4)
     IN  CASE i % 4 = 1 -> At(data, k + 1) \div 4
           [] i % 4 = 2 -> (At(data, k + 1) % 4) * 16 + At(data, k + 2) \div 16
           [] i % 4 = 3 -> (At(data, k + 2) % 16) * 4 + At(data, k + 3) \div 64
           [] i % 4 = 0 -> At(data, k + 3) % 64]

FromBase64(text) ==
  [j \in 1..((3 * Len(text)) \div 4) |->
     LET k == 4 * ((j - 1) \div 3)
     IN  CASE j % 3 = 1 -> At(text, k + 1) * 4 + At(text, k + 2) \div 16
           [] j % 3 = 2 -> (At(text, k + 2) % 16) * 16 + At(text, k + 3) \div 4
           [] j % 3 = 0 -> (At(text, k + 3) % 4) * 64 + At(text, k + 4)]

-----------------------------------------------------------------------------
(***************************************************************************)
(* Hexadecimal, and the local name.                                        *)
(***************************************************************************)
Hex(data) ==
  [i \in 1..(2 * Len(data)) |->
     IF i % 2 = 1 THEN data[(i + 1) \div 2] \div 16 ELSE data[i \div 2] % 16]

\* The digits after "CL-" in the name that startAdvertising puts on the air.
LocalName(base64) == Prefix(Hex(FromBase64(base64)), 24)

\* didDiscover: two digits at a time; a digit left over is a byte by itself.
ParseName(digits) ==
  [k \in 1..((Len(digits) + 1) \div 2) |->
     IF 2 * k <= Len(digits) THEN 16 * digits[2 * k - 1] + digits[2 * k]
                             ELSE digits[2 * k - 1]]

\* The data of the candidate event for a name of which n digits arrived.
Discovered(name, n) == FromBase64(ToBase64(ParseName(Prefix(name, n))))

\* What buildAndAdvertise keeps as its own id: six bytes in hexadecimal.
MyEphemeralId(eph) == Prefix(Hex(eph), 12)

\* Variant with a bug: the version byte is taken for part of the id.
ShownIdShifted(data) == Prefix(Hex(Slice(data, 1, 8)), 12)

\* The id that Home gives to the sender of this data.
ShownId(data) == Prefix(Hex(Slice(data, 2, 9)), 12)

(***************************************************************************)
(* The id under which payload p is listed when n digits of its name arrive *)
(* or None when the orchestrator ignores what arrived.                     *)
(***************************************************************************)
Surfaces(p, n) ==
  LET data == Discovered(LocalName(ToBase64(PackPayload(p))), n)
  IN  IF UnpackPayload(data) = None THEN None ELSE ShownId(data)
=============================================================================
