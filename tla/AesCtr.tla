------------------------------- MODULE AesCtr -------------------------------
(***************************************************************************)
(* The content cipher of the encryption client, AES in counter mode.  A    *)
(* byte is its value and the keystream bytes it has been combined with:    *)
(* combining is an exclusive or, so doing it twice undoes it, and a byte   *)
(* is readable when no keystream byte is left in it.                       *)
(***************************************************************************)
EXTENDS Integers, Sequences

CONSTANTS
    Block,     \* bytes of a block, getAlignLen: 16
    Wrap,      \* 2^64: the counters of the lower half of an IV
    IV         \* the counter in an object's IV, which is random

ASSUME CipherAssumption == Block \in Nat \ {0} /\ Wrap \in Nat \ {0} /\ IV \in Nat

Byte(value) == [value |-> value, keys |-> {}]

Combined(byte, k) ==
    [byte EXCEPT !.keys = IF k \in @ THEN @ \ {k} ELSE @ \cup {k}]

(* AesCtrCipher::process of a cipher that was created with iv and has been *)
(* through n bytes.  The library counts in 128 bits.                       *)
Process(iv, n, bytes) ==
    [i \in DOMAIN bytes |-> Combined(bytes[i], iv * Block + n + i - 1)]

(* seekIV: the lower half of the counter is advanced, without a carry. *)
SeekIV(iv, offset) ==
    (iv \div Wrap) * Wrap + (((iv % Wrap) + (offset \div Block)) % Wrap)
=============================================================================
