------------------------------- MODULE Encoding -------------------------------
(***************************************************************************)
(* What the identity writer of src/identity_support.cpp feeds to SHA-256,  *)
(* byte for byte: texts behind their length, unsigned 64-bit numbers and   *)
(* booleans; and the hexadecimal form of a digest.  A text is the sequence *)
(* of its bytes, a hexadecimal text the sequence of its characters.        *)
(***************************************************************************)
EXTENDS Naturals, Sequences

Byte == 0..255

\* Variant for the mutation runs: the cast binds before the shift.
CastBeforeShift(v) == <<0, 0, 0, 0, 0, 0, 0, v % 256>>

\* value >> (index * 8) for index = 7..0, each cut to a byte: big-endian.
Number(v) ==
  LET v1 == v \div 256
      v2 == v1 \div 256
      v3 == v2 \div 256
      v4 == v3 \div 256
      v5 == v4 \div 256
      v6 == v5 \div 256
      v7 == v6 \div 256
  IN <<v7 % 256, v6 % 256, v5 % 256, v4 % 256, v3 % 256, v2 % 256, v1 % 256, v % 256>>

\* The values of std::uint64_t.
Uint64(v) ==
  /\ v \in Nat
  /\ ((((((v \div 256) \div 256) \div 256) \div 256) \div 256) \div 256) \div 256 < 256

\* Variant for the mutation runs: the length is not written.
BareText(s) == s

Text(s) == Number(Len(s)) \o s

Boolean(b) == Number(IF b THEN 1 ELSE 0)

-----------------------------------------------------------------------------
DigestSize == 32

HexDigit == <<"0", "1", "2", "3", "4", "5", "6", "7",
              "8", "9", "a", "b", "c", "d", "e", "f">>

\* Two digits per byte, the high one first.
DigitAt(bytes, i) ==
  HexDigit[1 + IF i % 2 = 1 THEN bytes[(i + 1) \div 2] \div 16 ELSE bytes[i \div 2] % 16]

\* Variant for the mutation runs: a leading zero is not filled in.
UnpaddedHex(bytes) ==
  LET digits == [i \in 1..(2 * Len(bytes)) |-> DigitAt(bytes, i)]
  IN IF digits[1] = "0" THEN Tail(digits) ELSE digits

Hex(bytes) == [i \in 1..(2 * Len(bytes)) |-> DigitAt(bytes, i)]

(***************************************************************************)
(* How src/resolver.cpp renders the digest of an installed release, to     *)
(* compare it with the identity that the source domain computes:           *)
(* (byte >> 4) & 0x0f and byte & 0x0f, pushed back in turn.                *)
(***************************************************************************)
StateDigestHex(bytes) ==
  [i \in 1..(2 * Len(bytes)) |->
     LET byte == bytes[(i + 1) \div 2]
     IN HexDigit[1 + IF i % 2 = 1 THEN (byte \div 16) % 16 ELSE byte % 16]]

\* require_sha256_hex lets this through.
Sha256Hex(s) ==
  /\ Len(s) = 2 * DigestSize
  /\ \A i \in 1..Len(s) : \E d \in 1..16 : s[i] = HexDigit[d]
=============================================================================
