----------------------------- MODULE JaxnNumber ------------------------------
(***************************************************************************)
(* The numbers of JAXN: how the digits of a literal, taken in the pieces   *)
(* that the grammar finds, become an integer or what is handed to the      *)
(* conversion to a double.                                                 *)
(*                                                                         *)
(* A number_state holds the significant digits that fit into its buffer,   *)
(* the power of ten they are scaled by, and whether a digit other than     *)
(* zero was dropped.  Digits are integers from 0 to 9.                     *)
(***************************************************************************)
EXTENDS ConfigTree, ConfigIntegers

CONSTANTS
  max_mantissa_digits,  \* the size of the buffer, 772 in the JSON library
  MaxIntegerDigits,     \* more are no integer, 20 in the JSON library
  MaxDigits,            \* before the point, 2^20 in the code
  MaxExponentDigits     \* 9 in the code

ASSUME NumberAssumption ==
  /\ Bits % 4 = 0
  /\ MaxIntegerDigits \in Nat /\ max_mantissa_digits \in Nat
  /\ MaxIntegerDigits < max_mantissa_digits
  /\ MaxDigits \in Nat /\ MaxExponentDigits \in Nat

number_state(neg) ==
  [negative |-> neg, mantissa |-> <<>>, exponent10 |-> 0, drop |-> FALSE,
   isfp |-> FALSE, eneg |-> FALSE]

AllZero(ds) == \A i \in DOMAIN ds : ds[i] = 0

(* How many digits from the left, or from the right, are zeros. *)
LeadingZeros(ds)  == Max({n \in 0..Len(ds) : AllZero(SubSeq(ds, 1, n))})
TrailingZeros(ds) == LeadingZeros(Reverse(ds))

WithoutLeadingZeros(ds)  == SubSeq(ds, LeadingZeros(ds) + 1, Len(ds))
WithoutTrailingZeros(ds) == SubSeq(ds, 1, Len(ds) - TrailingZeros(ds))

Number(ds, base) == FoldLeft(LAMBDA n, d : n * base + d, 0, ds)
-----------------------------------------------------------------------------
(* The pieces of a decimal number.  Those that throw are told by a guard of *)
(* their own.                                                               *)

TooManyDigits(ds) == ds # <<0>> /\ Len(ds) > MaxDigits

idigits(state, ds) ==
  LET c == Min({Len(ds), max_mantissa_digits})
  IN  IF ds = <<0>> THEN state
      ELSE [state EXCEPT !.mantissa = SubSeq(ds, 1, c),
                         !.exponent10 = @ + Len(ds) - c,
                         !.drop = @ \/ ~ AllZero(SubSeq(ds, c + 1, Len(ds)))]

(* Mutant: the buffer is taken for empty. *)
fdigits_overrun(state, ds) ==
  LET b == WithoutTrailingZeros(ds)
      c == Min({Len(b), max_mantissa_digits})
  IN  [state EXCEPT !.isfp = TRUE,
                    !.mantissa = @ \o SubSeq(b, 1, c),
                    !.exponent10 = @ - c,
                    !.drop = @ \/ Len(b) > c]

(* Mutant: zeros after the point fill the buffer. *)
fdigits_keeping_zeros(state, ds) ==
  LET b == WithoutTrailingZeros(ds)
      c == Min({Len(b), max_mantissa_digits - Len(state.mantissa)})
  IN  [state EXCEPT !.isfp = TRUE,
                    !.mantissa = @ \o SubSeq(b, 1, c),
                    !.exponent10 = @ - c,
                    !.drop = @ \/ Len(b) > c]

(* Zeros at the end are left out, and those at the beginning as long as     *)
(* there is no digit before them.                                           *)
fdigits(state, ds) ==
  LET short   == WithoutTrailingZeros(ds)
      leading == IF state.mantissa = <<>> THEN LeadingZeros(short) ELSE 0
      b       == SubSeq(short, leading + 1, Len(short))
      c       == Min({Len(b), max_mantissa_digits - Len(state.mantissa)})
  IN  [state EXCEPT !.isfp = TRUE,
                    !.mantissa = @ \o SubSeq(b, 1, c),
                    !.exponent10 = @ - leading - c,
                    !.drop = @ \/ ~ AllZero(SubSeq(b, c + 1, Len(b)))]

ExponentTooLong(ds) == Len(WithoutLeadingZeros(ds)) > MaxExponentDigits

esign(state, minus) == [state EXCEPT !.eneg = minus]

edigits(state, ds) ==
  [state EXCEPT !.isfp = TRUE,
                !.exponent10 = IF state.eneg THEN @ - Number(ds, 10) ELSE @ + Number(ds, 10)]
-----------------------------------------------------------------------------
(* What a number becomes: at most one entry. *)

(* An integer with its sign, if its type can hold it. *)
integer(neg, n) ==
  IF neg THEN {SignedEntry(i) : i \in {-n} \cap Signed}
         ELSE {UnsignedEntry(m) : m \in {n} \cap Unsigned}

(* A digit more stands for all that were dropped. *)
double_digits(state) ==
  [negative   |-> state.negative,
   digits     |-> state.mantissa \o (IF state.drop THEN <<1>> ELSE <<>>),
   exponent10 |-> state.exponent10 - (IF state.drop THEN 1 ELSE 0)]

(* The JSON library prefers an integer. *)
success(state) ==
  LET whole == IF state.isfp \/ Len(state.mantissa) > MaxIntegerDigits THEN {}
               ELSE integer(state.negative, Number(state.mantissa, 10))
  IN  IF whole # {} THEN whole ELSE {DoubleEntry(double_digits(state))}

(* Mutant: the check comes after the digit. *)
hexnum_late(neg, ds) ==
  LET Next(value, d) == IF value >= 2^Bits THEN value ELSE value * 16 + d
  IN  integer(neg, FoldLeft(Next, 0, ds) % 2^Bits)

(* A digit more is an error when the upper four bits are in use. *)
hexnum(neg, ds) ==
  LET Next(value, d) == UNION {IF v >= 2^(Bits - 4) THEN {} ELSE {v * 16 + d} : v \in value}
  IN  UNION {integer(neg, v) : v \in FoldLeft(Next, {0}, ds)}
=============================================================================
