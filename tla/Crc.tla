--------------------------------- MODULE Crc ---------------------------------
(* The loops of test_crc: a byte or a checksum is the set of its bits that *)
(* are one.                                                                *)
EXTENDS Integers, Sequences, SequencesExt

CONSTANTS Messages   \* sequences of bytes that checksums are made of

CrcAssumption == Messages \subseteq Seq(SUBSET (0..7)) \ {<<>>}

VARIABLES
  message,   \* <<>> before a call
  crc8, one, crc16   \* what the three functions returned

vars == <<message, crc8, one, crc16>>

CRC8_POLY  == {0, 2, 3, 4}      \* 0x1D
CRC16_POLY == {0, 5, 12}        \* 0x1021

Xor(a, b)   == (a \cup b) \ (a \cap b)
Up(a, n)    == {i + n : i \in a}
Shl(a, w)   == Up(a, 1) \ {w}   \* crc <<= 1, in w bits

(* What a bit that is shifted out does to the rest.                        *)
NotSubtracted(a, w, poly) == Shl(a, w)      \* mutant: the poly is left out
Bit(a, w, poly) == IF (w - 1) \in a THEN Xor(Shl(a, w), poly) ELSE Shl(a, w)
EightBits(a, w, poly) ==
  FoldLeft(LAMBDA crc, i : Bit(crc, w, poly), a, [i \in 1..8 |-> i])

Sum(data, w, poly) ==
  FoldLeft(LAMBDA crc, byte : EightBits(Xor(crc, Up(byte, w - 8)), w, poly), {}, data)

Compute_CRC8_Simple_OneByte(byte) == EightBits(byte, 8, CRC8_POLY)
Compute_CRC8_Simple(data)  == Sum(data, 8, CRC8_POLY)
Compute_CRC16_Simple(data) == Sum(data, 16, CRC16_POLY)

Init == message = <<>> /\ crc8 = {} /\ one = {} /\ crc16 = {}

Next ==
  /\ message = <<>>
  /\ \E m \in Messages :
       /\ message' = m
       /\ crc8' = Compute_CRC8_Simple(m) /\ crc16' = Compute_CRC16_Simple(m)
       /\ one' = Compute_CRC8_Simple_OneByte(m[1])

Spec == Init /\ [][Next]_vars
-----------------------------------------------------------------------------
(* The polynomial of a message, and what is left of n bits moved up by w   *)
(* when that of a checksum of w bits divides it, from the highest power    *)
(* down.                                                                   *)
Polynomial(m) ==
  UNION {Up(m[i], 8 * (Len(m) - i)) : i \in DOMAIN m}
Remainder(a, n, w, poly) ==
  FoldLeft(LAMBDA r, k : IF k \in r THEN Xor(r, Up(poly \cup {w}, k - w)) ELSE r, a,
           [i \in 1..n |-> (n + w) - i])

\* The bytes of a checksum of w bits, the highest first.
Bytes(a, w) ==
  [i \in 1..(w \div 8) |-> {j \in 0..7 : (w - (8 * i)) + j \in a}]

(* A checksum is what is left of the message, moved up by its width, when  *)
(* the polynomial divides it; so a message with its checksum behind it has *)
(* the checksum zero; and one byte alone gives the same from the byte.     *)
ChecksumsAreRight ==
  message # <<>> =>
    /\ crc8  = Remainder(Up(Polynomial(message), 8), 8 * Len(message), 8, CRC8_POLY)
    /\ crc16 = Remainder(Up(Polynomial(message), 16), 8 * Len(message), 16, CRC16_POLY)
    /\ Compute_CRC8_Simple(message \o Bytes(crc8, 8)) = {}
    /\ Compute_CRC16_Simple(message \o Bytes(crc16, 16)) = {}
    /\ Len(message) = 1 => one = crc8
=============================================================================
