--------------------------- MODULE ConfigIntegers ----------------------------
(***************************************************************************)
(* Integers as the code holds them: unsigned_t and signed_t of Bits bits.  *)
(***************************************************************************)
EXTENDS Integers

CONSTANT Bits   \* the width of integers, 64 in the code

ASSUME BitsAssumption == Bits \in Nat \ {0}

Unsigned == 0..2^Bits - 1
Signed   == -(2^(Bits - 1))..2^(Bits - 1) - 1

(* Unsigned addition wraps around. *)
Wrapped(n) == IF n \in Unsigned THEN n ELSE n - 2^Bits

(* The conversion of an unsigned integer to the signed type. *)
ToSigned(n) == IF n \in Signed THEN n ELSE n - 2^Bits
=============================================================================
