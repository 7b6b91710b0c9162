------------------------------ MODULE JaxnReader ------------------------------
(***************************************************************************)
(* Reading one JAXN text, one matched rule at a time, and what it should   *)
(* come to.  A literal is what a text means: an atom, a number with its    *)
(* digits, a sequence of literals, or a sequence of keys and literals.     *)
(***************************************************************************)
EXTENDS JaxnToEntry

CONSTANT Literals   \* the literals that are read

Atom(e)             == [form |-> "atom", entry |-> e]
Hex(minus, ds)      == [form |-> "hex", minus |-> minus, digits |-> ds]
Decimal(minus, whole, fraction, eneg, exponent) ==
  [form |-> "decimal", minus |-> minus, whole |-> whole, fraction |-> fraction,
   eneg |-> eneg, exponent |-> exponent]
Elements(ls)        == [form |-> "elements", elements |-> ls]
Member2(key, l)     == [key |-> key, literal |-> l]
Members(ms)         == [form |-> "members", members |-> ms]

(* The rules that the grammar of the JSON library matches in a literal, in  *)
(* their order.  A fraction or an exponent without digits is one the text   *)
(* has not.  A lone zero is a rule of its own.                              *)
Rules(minus, whole, fraction, eneg, exponent) ==
  <<SignRule("number", minus), DigitsRule("idigits", whole)>>
    \o (IF fraction = <<>> THEN <<>> ELSE <<DigitsRule("fdigits", fraction)>>)
    \o (IF exponent = <<>> THEN <<>>
        ELSE <<SignRule("esign", eneg), DigitsRule("edigits", exponent)>>)
    \o <<Matched("end number")>>

Zero(minus) == AtomRule(IF minus THEN SignedEntry(0) ELSE UnsignedEntry(0))

matched[l \in Any] ==
  CASE l.form = "atom"     -> <<AtomRule(l.entry)>>
    [] l.form = "hex"      -> <<HexRule(l.minus, l.digits)>>
    [] l.form = "decimal"  -> IF l.whole = <<0>> /\ l.fraction = <<>> /\ l.exponent = <<>>
                              THEN <<Zero(l.minus)>>
                              ELSE Rules(l.minus, l.whole, l.fraction, l.eneg, l.exponent)
    [] l.form = "elements" ->
         <<Matched("begin array")>>
           \o FlattenSeq([i \in DOMAIN l.elements |-> matched[l.elements[i]] \o <<Matched("element")>>])
           \o <<Matched("end array")>>
    [] l.form = "members"  ->
         <<Matched("begin object")>>
           \o FlattenSeq([i \in DOMAIN l.members |->
                <<KeyRule(l.members[i].key)>> \o matched[l.members[i].literal] \o <<Matched("member")>>])
           \o <<Matched("end object")>>

RuleNames ==
  {"atom", "hexnum", "number", "idigits", "fdigits", "esign", "edigits", "end number",
   "begin array", "element", "end array", "begin object", "key", "member", "end object"}

(* What the grammar promises of a number: the digits before the point come  *)
(* first, and a zero at their beginning stands alone.                       *)
Digit == 0..9
IsWholePart(ds) == ds \in Seq(Digit) /\ ds # <<>> /\ (ds[1] = 0 => ds = <<0>>)

IsMatched(evs) ==
  /\ evs \in Seq(ToSet(evs))
  /\ \A i \in DOMAIN evs :
       /\ evs[i].rule \in RuleNames
       /\ evs[i].rule = "idigits" => IsWholePart(evs[i].digits)
       /\ evs[i].rule = "idigits" /\ i > 1 => evs[i - 1].rule = "number"
       /\ evs[i].rule = "fdigits" => evs[i].digits \in Seq(Digit)

ASSUME LiteralsAssumption == \A l \in Literals : IsMatched(matched[l])

VARIABLES
  literal,  \* history: what is read
  input,    \* the rules that are still to be matched
  reader

readerVars == <<literal, input, reader>>

ReaderInit ==
  /\ literal \in Literals
  /\ input = matched[literal]
  /\ reader = NewReader

(* The grammar matches the next rule, until one of the actions throws. *)
ReadRule ==
  /\ input # <<>> /\ reader.error = "none"
  /\ reader' = jaxn_action(reader, Head(input))
  /\ input' = Tail(input)
  /\ UNCHANGED literal

ReaderSpec == ReaderInit /\ [][ReadRule]_readerVars
-----------------------------------------------------------------------------
(* What a literal means. *)

(* A decimal in scientific notation: no zero at either end of its digits. *)
Normal(minus, ds, exponent10) ==
  LET digits == WithoutTrailingZeros(WithoutLeadingZeros(ds))
  IN  [negative   |-> minus,
       digits     |-> digits,
       exponent10 |-> IF digits = <<>> THEN 0 ELSE exponent10 + TrailingZeros(ds)]

(* The decimal to be converted: the exact one, or, when that has too many   *)
(* digits, one between the same two decimals of the size of the buffer.     *)
Decimals(l) ==
  LET ds       == l.whole \o l.fraction
      exponent == (IF l.eneg THEN -1 ELSE 1) * Number(l.exponent, 10) - Len(l.fraction)
      exact    == Normal(l.minus, ds, exponent)
      excess   == Len(exact.digits) - max_mantissa_digits
  IN  IF excess <= 0 THEN exact
      ELSE [exact EXCEPT !.digits = Append(SubSeq(@, 1, max_mantissa_digits), 1),
                         !.exponent10 = @ + excess - 1]

InBits(l, n) == IF l.minus THEN -n \in Signed ELSE n \in Unsigned

(* e is the entry of an integer n with the sign of l. *)
IsInteger(e, l, n) == e = IF l.minus THEN SignedEntry(-n) ELSE UnsignedEntry(n)

IsDecimal(e, l) ==
  /\ e.kind = "double"
  /\ Normal(e.double.negative, e.double.digits, e.double.exponent10) = Decimals(l)

IsWhole(l) == l.fraction = <<>> /\ l.exponent = <<>> /\ Len(l.whole) <= MaxIntegerDigits

Denotes[e \in Any, l \in Any] ==
  CASE l.form = "atom"     -> e = l.entry
    [] l.form = "hex"      -> IsInteger(e, l, Number(l.digits, 16))
    [] l.form = "decimal"  -> IF IsWhole(l) /\ InBits(l, Number(l.whole, 10))
                              THEN IsInteger(e, l, Number(l.whole, 10))
                              ELSE IsDecimal(e, l)
    [] l.form = "elements" ->
         /\ e.kind = "array" /\ e.function = "" /\ Len(e.array) = Len(l.elements)
         /\ \A i \in DOMAIN e.array :
              /\ e.array[i].remove /\ Len(e.array[i].concat) = 1
              /\ Denotes[Back(e.array[i]), l.elements[i]]
    [] l.form = "members"  ->
         LET said(k) == SelectSeq(l.members, LAMBDA m : m.key = k)
         IN  /\ e.kind = "object"
             /\ DOMAIN e.object = {l.members[i].key : i \in DOMAIN l.members}
             /\ \A k \in DOMAIN e.object :
                  /\ e.object[k].remove /\ Len(e.object[k].concat) = Len(said(k))
                  /\ \A i \in DOMAIN said(k) : Denotes[e.object[k].concat[i], said(k)[i].literal]

(* The texts that are no entry: numbers beyond the limits. *)
Unreadable[l \in Any] ==
  CASE l.form = "atom"     -> FALSE
    [] l.form = "hex"      -> ~ InBits(l, Number(l.digits, 16))
    [] l.form = "decimal"  -> \/ Len(l.whole) > MaxDigits
                              \/ \E i \in DOMAIN l.exponent :
                                   l.exponent[i] # 0 /\ Len(l.exponent) - i >= MaxExponentDigits
    [] l.form = "elements" -> \E i \in DOMAIN l.elements : Unreadable[l.elements[i]]
    [] l.form = "members"  -> \E i \in DOMAIN l.members : Unreadable[l.members[i].literal]
-----------------------------------------------------------------------------
(***************************************************************************)
(* Properties.                                                             *)
(***************************************************************************)

(* There is a key only for what an open object is to get, and what an array *)
(* or object gets was not moved from.                                       *)
ReaderTypeOK ==
  LET open(kind) == Len(SelectSeq(reader.stack, LAMBDA e : e.kind = kind))
  IN  /\ reader.error \in {"none", "parse_error"}
      /\ \A e \in ToSet(reader.stack) : e.kind \in {"array", "object"}
      /\ Len(reader.keys) <= open("object")
      /\ reader.error = "none" /\ input # <<>> /\ Head(input).rule \in {"element", "member"}
           => reader.value # {} /\ Moved \notin reader.value

(* The copies of idigits and fdigits stay inside the buffer, together as    *)
(* well; no room is wasted on zeros before the first significant digit, and *)
(* a digit is dropped only when the buffer is full.                         *)
DigitsFit ==
  \A s \in reader.number :
    /\ Len(s.mantissa) <= max_mantissa_digits
    /\ s.drop => Len(s.mantissa) = max_mantissa_digits
    /\ s.mantissa # <<>> => s.mantissa[1] # 0

(* When all is read, the last value is the whole literal: every number with *)
(* all its digits or as many as fit, every element and every member where   *)
(* it belongs, and nothing is left open.                                    *)
ReadsLiteral ==
  input = <<>> /\ reader.error = "none" =>
    /\ \A e \in reader.value : Denotes[e, literal]
    /\ reader.value # {} /\ reader.stack = <<>> /\ reader.keys = <<>> /\ reader.number = {}

(* A literal is refused exactly when it has a number beyond the limits: too *)
(* large for its bits in hexadecimal, or with too many digits.              *)
RefusesUnreadable ==
  /\ reader.error # "none" => Unreadable[literal]
  /\ input = <<>> => (reader.error # "none" <=> Unreadable[literal])
=============================================================================
