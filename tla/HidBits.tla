-------------------------------- MODULE HidBits --------------------------------
(***************************************************************************)
(* Fixed-width integers of hid_parser.c: words of WordBits bits (32 in the *)
(* code), in two's complement when signed.                                 *)
(***************************************************************************)
EXTENDS Integers

CONSTANTS ByteBits,   \* 8
          WordBits    \* 32, the width of int32_t and uint32_t

ASSUME WidthAssumption == ByteBits \in Nat \ {0} /\ WordBits \in Nat \ {0, 1}

(* 1 << n                                                                    *)
Shift[n \in Nat] == IF n = 0 THEN 1 ELSE 2 * Shift[n - 1]

IntMax == Shift[WordBits - 1] - 1

IntMin == -Shift[WordBits - 1]

(* value ^ sign, for a power of two that value may or may not contain.       *)
FlipBit(value, sign) ==
    IF (value \div sign) % 2 = 1 THEN value - sign ELSE value + sign

(* (int32_t)value *)
ToSigned(value) == IF value > IntMax THEN value - Shift[WordBits] ELSE value

(* signed_bits *)
SignedBits(value, bits) ==
    IF bits = WordBits THEN ToSigned(value)
    ELSE LET sign == Shift[bits - 1] IN ToSigned(FlipBit(value, sign)) - sign

(* add_saturated: the sum is taken in twice the width.                       *)
AddSaturated(a, b) ==
    IF a + b > IntMax THEN IntMax ELSE IF a + b < IntMin THEN IntMin ELSE a + b
================================================================================
