------------------------------ MODULE JaxnProofs ------------------------------
(***************************************************************************)
(* Proofs about the numbers of JaxnReader: whatever the size of the buffer *)
(* and however many digits a literal has, the digits of a number stay in   *)
(* the buffer.                                                             *)
(***************************************************************************)
EXTENDS JaxnReader, NaturalLemmas, SequenceTheorems

(* What the actions of a number keep of its state. *)
Fits(s) ==
  /\ Len(s.mantissa) <= max_mantissa_digits
  /\ s.drop => Len(s.mantissa) = max_mantissa_digits
  /\ s.mantissa # <<>> => s.mantissa[1] # 0

IsNumberState(s) ==
  /\ {"mantissa", "drop"} \subseteq DOMAIN s
  /\ s.mantissa \in Seq(Digit) /\ s.drop \in BOOLEAN

IsFresh(s) == s.mantissa = <<>> /\ ~ s.drop

(* The inductive invariant: idigits assigns to the buffer what the others   *)
(* add to it, so it must be the first.                                      *)
ReaderInv ==
  /\ IsMatched(input)
  /\ {"error", "number", "value", "stack", "keys"} = DOMAIN reader
  /\ \A s \in reader.number : IsNumberState(s) /\ Fits(s)
  /\ input # <<>> /\ Head(input).rule = "idigits" => \A s \in reader.number : IsFresh(s)
-----------------------------------------------------------------------------
(* Lemmas about the helpers. *)
LEMMA MinOfTwo ==
  ASSUME NEW a \in Nat, NEW b \in Nat
  PROVE  /\ Min({a, b}) \in Nat /\ Min({a, b}) <= a /\ Min({a, b}) <= b
         /\ Min({a, b}) = a \/ Min({a, b}) = b
<1>1. CASE a <= b
  <2>1. \E x \in {a, b} : \A y \in {a, b} : x =< y
    BY <1>1
  <2> QED  BY <2>1 DEF Min
<1>2. CASE b <= a
  <2>1. \E x \in {a, b} : \A y \in {a, b} : x =< y
    BY <1>2
  <2> QED  BY <2>1 DEF Min
<1> QED  BY <1>1, <1>2

(* The zeros at the beginning, as the loops of fdigits and edigits find     *)
(* them: the first digit that is none, if there is one, comes after them.   *)
LEMMA LeadingZerosLead ==
  ASSUME NEW ds \in Seq(Digit)
  PROVE  /\ LeadingZeros(ds) \in 0..Len(ds)
         /\ LeadingZeros(ds) < Len(ds) => ds[LeadingZeros(ds) + 1] # 0
<1> DEFINE others == {i \in 1..Len(ds) : ds[i] # 0}
           zeros  == {n \in 0..Len(ds) : AllZero(SubSeq(ds, 1, n))}
<1>1. \A n \in 0..Len(ds) : AllZero(SubSeq(ds, 1, n)) <=> \A i \in 1..n : ds[i] = 0
  BY DEF AllZero
<1>2. \E n \in 0..Len(ds) : zeros = 0..n /\ (n < Len(ds) => ds[n + 1] # 0)
  <2>1. CASE others = {}
    <3>1. zeros = 0..Len(ds)
      BY <1>1, <2>1
    <3> QED  BY <3>1
  <2>2. CASE others # {}
    <3>1. others \subseteq Nat
      OBVIOUS
    <3>2. \E m \in others : \A i \in others : m <= i
      <4> HIDE DEF others
      <4> QED  BY <2>2, <3>1, LeastNatural
    <3>3. PICK m \in others : \A i \in others : m <= i
      BY <3>2
    <3>4. zeros = 0..(m - 1)
      BY <1>1, <3>3
    <3> QED  BY <3>3, <3>4
  <2> QED  BY <2>1, <2>2
<1>3. PICK n \in 0..Len(ds) : zeros = 0..n /\ (n < Len(ds) => ds[n + 1] # 0)
  BY <1>2
<1>4. Max(0..n) = n
  BY DEF Max
<1>5. LeadingZeros(ds) = n
  BY <1>3, <1>4 DEF LeadingZeros
<1> QED  BY <1>3, <1>5

LEMMA ReverseIsDigits ==
  ASSUME NEW ds \in Seq(Digit)
  PROVE  Reverse(ds) \in Seq(Digit) /\ Len(Reverse(ds)) = Len(ds)
  BY DEF Reverse

LEMMA ShortIsDigits ==
  ASSUME NEW ds \in Seq(Digit)
  PROVE  WithoutTrailingZeros(ds) \in Seq(Digit)
<1>1. TrailingZeros(ds) \in 0..Len(ds)
  BY ReverseIsDigits, LeadingZerosLead DEF TrailingZeros
<1> QED  BY <1>1 DEF WithoutTrailingZeros
-----------------------------------------------------------------------------
(* Taking over a piece of a literal: as much of b as there is room for      *)
(* behind n digits.                                                         *)
LEMMA Piece ==
  ASSUME NEW b \in Seq(Digit), NEW n \in 0..max_mantissa_digits
  PROVE  LET c == Min({Len(b), max_mantissa_digits - n})
         IN  /\ c \in 0..Len(b) /\ n + c <= max_mantissa_digits
             /\ SubSeq(b, 1, c) \in Seq(Digit) /\ Len(SubSeq(b, 1, c)) = c
             /\ c > 0 => SubSeq(b, 1, c)[1] = b[1]
             /\ ~ AllZero(SubSeq(b, c + 1, Len(b))) => n + c = max_mantissa_digits
<1> DEFINE c == Min({Len(b), max_mantissa_digits - n})
<1>1. max_mantissa_digits - n \in Nat /\ max_mantissa_digits \in Nat
  BY NumberAssumption
<1>2. c \in Nat /\ c <= Len(b) /\ c <= max_mantissa_digits - n
      /\ (c = Len(b) \/ c = max_mantissa_digits - n)
  BY <1>1, MinOfTwo
<1> HIDE DEF c
<1>3. c = Len(b) => AllZero(SubSeq(b, c + 1, Len(b)))
  BY DEF AllZero
<1>4. SubSeq(b, 1, c) \in Seq(Digit) /\ Len(SubSeq(b, 1, c)) = c /\ (c > 0 => SubSeq(b, 1, c)[1] = b[1])
  BY <1>2
<1>5. c \in 0..Len(b) /\ n + c <= max_mantissa_digits
      /\ (~ AllZero(SubSeq(b, c + 1, Len(b))) => n + c = max_mantissa_digits)
  BY <1>1, <1>2, <1>3
<1> QED  BY <1>4, <1>5 DEF c

LEMMA IdigitsFit ==
  ASSUME NEW s, NEW ds, IsNumberState(s), IsFresh(s), IsWholePart(ds)
  PROVE  IsNumberState(idigits(s, ds)) /\ Fits(idigits(s, ds))
<1>1. CASE ds = <<0>>
  BY <1>1, NumberAssumption DEF idigits, IsFresh, Fits
<1>2. CASE ds # <<0>>
  <2> DEFINE c == Min({Len(ds), max_mantissa_digits})
             t == idigits(s, ds)
  <2>1. ds \in Seq(Digit) /\ ds[1] # 0 /\ Len(ds) > 0 /\ max_mantissa_digits > 0
        /\ max_mantissa_digits - 0 = max_mantissa_digits /\ 0 \in 0..max_mantissa_digits
    BY <1>2, NumberAssumption DEF IsWholePart
  <2>2. /\ DOMAIN t = DOMAIN s /\ t.mantissa = SubSeq(ds, 1, c)
        /\ t.drop \in BOOLEAN /\ (t.drop => s.drop \/ ~ AllZero(SubSeq(ds, c + 1, Len(ds))))
    BY <1>2 DEF idigits, IsNumberState
  <2>3. /\ c \in 0..Len(ds) /\ 0 + c <= max_mantissa_digits
        /\ SubSeq(ds, 1, c) \in Seq(Digit) /\ Len(SubSeq(ds, 1, c)) = c
        /\ c > 0 => SubSeq(ds, 1, c)[1] = ds[1]
        /\ ~ AllZero(SubSeq(ds, c + 1, Len(ds))) => 0 + c = max_mantissa_digits
    BY <2>1, Piece
  <2> HIDE DEF c, t
  <2>4. IsNumberState(t)
    BY <2>2, <2>3 DEF IsNumberState
  <2>5. Len(t.mantissa) = c /\ (t.mantissa # <<>> => t.mantissa[1] # 0)
    BY <2>1, <2>2, <2>3
  <2>6. t.drop => c = max_mantissa_digits
    BY <2>1, <2>2, <2>3 DEF IsFresh
  <2>7. Fits(t)
    BY <2>1, <2>3, <2>5, <2>6 DEF Fits
  <2> QED  BY <2>4, <2>7 DEF t
<1> QED  BY <1>1, <1>2

LEMMA FdigitsFit ==
  ASSUME NEW s, NEW ds \in Seq(Digit), IsNumberState(s), Fits(s)
  PROVE  IsNumberState(fdigits(s, ds)) /\ Fits(fdigits(s, ds))
<1> DEFINE short   == WithoutTrailingZeros(ds)
           leading == IF s.mantissa = <<>> THEN LeadingZeros(short) ELSE 0
           b       == SubSeq(short, leading + 1, Len(short))
           c       == Min({Len(b), max_mantissa_digits - Len(s.mantissa)})
           piece   == SubSeq(b, 1, c)
           t       == fdigits(s, ds)
<1>1. short \in Seq(Digit)
  BY ShortIsDigits
<1>2. leading \in 0..Len(short)
      /\ (s.mantissa = <<>> /\ leading < Len(short) => short[leading + 1] # 0)
  <2> HIDE DEF short
  <2> QED  BY <1>1, LeadingZerosLead
<1>3. b \in Seq(Digit) /\ (s.mantissa = <<>> /\ Len(b) > 0 => b[1] # 0)
  <2> HIDE DEF short, leading
  <2> QED  BY <1>1, <1>2
<1>4. Len(s.mantissa) \in 0..max_mantissa_digits /\ s.mantissa \in Seq(Digit)
  BY NumberAssumption DEF Fits, IsNumberState
<1>5. /\ DOMAIN t = DOMAIN s /\ t.mantissa = s.mantissa \o piece
      /\ t.drop \in BOOLEAN /\ (t.drop => s.drop \/ ~ AllZero(SubSeq(b, c + 1, Len(b))))
  BY DEF fdigits, IsNumberState
<1>6. /\ c \in 0..Len(b) /\ Len(s.mantissa) + c <= max_mantissa_digits
      /\ piece \in Seq(Digit) /\ Len(piece) = c /\ (c > 0 => piece[1] = b[1])
      /\ ~ AllZero(SubSeq(b, c + 1, Len(b))) => Len(s.mantissa) + c = max_mantissa_digits
  <2> HIDE DEF b
  <2> QED  BY <1>3, <1>4, Piece
<1> HIDE DEF short, leading, b, c, piece, t
<1>7. t.mantissa \in Seq(Digit) /\ Len(t.mantissa) = Len(s.mantissa) + c
  <2>1. s.mantissa \o piece \in Seq(Digit) /\ Len(s.mantissa \o piece) = Len(s.mantissa) + Len(piece)
    BY <1>4, <1>6, ConcatProperties
  <2> QED  BY <2>1, <1>5, <1>6
<1>8. t.mantissa # <<>> => t.mantissa[1] # 0
  <2>1. CASE s.mantissa = <<>>
    <3>1. t.mantissa = piece
      BY <2>1, <1>5, <1>6
    <3> QED  BY <2>1, <3>1, <1>3, <1>6
  <2>2. CASE s.mantissa # <<>>
    BY <2>2, <1>4, <1>5, <1>6 DEF Fits
  <2> QED  BY <2>1, <2>2
<1>9. t.drop => Len(t.mantissa) = max_mantissa_digits
  <2>1. CASE s.drop
    BY <2>1, <1>4, <1>6, <1>7, NumberAssumption DEF Fits
  <2>2. CASE ~ s.drop
    BY <2>2, <1>5, <1>6, <1>7
  <2> QED  BY <2>1, <2>2
<1> QED  BY <1>4, <1>5, <1>6, <1>7, <1>8, <1>9 DEF Fits, IsNumberState, t

(* The exponent leaves the digits alone. *)
LEMMA ExponentFits ==
  ASSUME NEW s, NEW x, IsNumberState(s), Fits(s)
  PROVE  /\ IsNumberState(esign(s, x)) /\ Fits(esign(s, x))
         /\ IsNumberState(edigits(s, x)) /\ Fits(edigits(s, x))
<1>1. /\ DOMAIN esign(s, x) = DOMAIN s
      /\ esign(s, x).mantissa = s.mantissa /\ esign(s, x).drop = s.drop
  BY DEF esign, IsNumberState
<1>2. /\ DOMAIN edigits(s, x) = DOMAIN s
      /\ edigits(s, x).mantissa = s.mantissa /\ edigits(s, x).drop = s.drop
  BY DEF edigits, IsNumberState
<1> QED  BY <1>1, <1>2 DEF IsNumberState, Fits
-----------------------------------------------------------------------------
(* What is left of a text that is well-formed is so too. *)
LEMMA TailIsMatched ==
  ASSUME NEW evs, IsMatched(evs), evs # <<>>
  PROVE  /\ IsMatched(Tail(evs))
         /\ Head(evs).rule \in RuleNames
         /\ Head(evs).rule = "idigits" => IsWholePart(Head(evs).digits)
         /\ Head(evs).rule = "fdigits" => Head(evs).digits \in Seq(Digit)
         /\ Tail(evs) # <<>> /\ Head(Tail(evs)).rule = "idigits" => Head(evs).rule = "number"
<1> DEFINE S == ToSet(evs)
           rest == Tail(evs)
           T == ToSet(rest)
<1>1. evs \in Seq(S) /\ Len(evs) \in Nat \ {0}
  BY DEF IsMatched
<1>2. 1 \in DOMAIN evs /\ Head(evs) = evs[1]
  BY <1>1
<1> HIDE DEF S
<1>3. rest \in Seq(S) /\ Len(rest) = Len(evs) - 1 /\ \A i \in 1..Len(rest) : rest[i] = evs[i + 1]
  BY <1>1
<1> HIDE DEF rest
<1>4. rest \in Seq(T)
  BY <1>3 DEF ToSet
<1>5. \A i \in DOMAIN rest : rest[i] = evs[i + 1] /\ i + 1 \in DOMAIN evs /\ i + 1 > 1
                             /\ evs[(i + 1) - 1] = evs[i] /\ (i > 1 => rest[i - 1] = evs[i])
  BY <1>1, <1>3
<1>6. \A i \in DOMAIN rest :
        /\ rest[i].rule \in RuleNames
        /\ rest[i].rule = "idigits" => IsWholePart(rest[i].digits)
        /\ rest[i].rule = "idigits" /\ i > 1 => rest[i - 1].rule = "number"
        /\ rest[i].rule = "fdigits" => rest[i].digits \in Seq(Digit)
  <2> HIDE DEF T
  <2> TAKE i \in DOMAIN rest
  <2> DEFINE k == i + 1
  <2>1. /\ k \in DOMAIN evs /\ k > 1 /\ rest[i] = evs[k]
        /\ evs[k - 1] = evs[i] /\ (i > 1 => rest[i - 1] = evs[i])
    BY <1>5
  <2> HIDE DEF k
  <2>2. /\ evs[k].rule \in RuleNames
        /\ evs[k].rule = "idigits" => IsWholePart(evs[k].digits)
        /\ evs[k].rule = "idigits" => evs[i].rule = "number"
        /\ evs[k].rule = "fdigits" => evs[k].digits \in Seq(Digit)
    BY <2>1 DEF IsMatched
  <2> QED  BY <2>1, <2>2, Zenon
<1>7. IsMatched(rest)
  BY <1>4, <1>6 DEF IsMatched
<1>8. rest # <<>> /\ Head(rest).rule = "idigits" => Head(evs).rule = "number"
  <2> SUFFICES ASSUME rest # <<>>, Head(rest).rule = "idigits" PROVE Head(evs).rule = "number"
    OBVIOUS
  <2>1. 1 \in DOMAIN rest /\ Head(rest) = rest[1]
    BY <1>3
  <2>2. evs[2].rule = "idigits" /\ 2 \in DOMAIN evs /\ evs[2 - 1] = evs[1]
    BY <2>1, <1>5
  <2> QED  BY <2>2, <1>2 DEF IsMatched
<1> QED  BY <1>2, <1>7, <1>8 DEF IsMatched, rest

(* One rule.  Only those of a number touch its state. *)
LEMMA RuleStep ==
  ASSUME NEW r, NEW ev, ev.rule \in RuleNames,
         ev.rule = "idigits" => IsWholePart(ev.digits) /\ \A s \in r.number : IsFresh(s),
         ev.rule = "fdigits" => ev.digits \in Seq(Digit),
         DOMAIN r = {"error", "number", "value", "stack", "keys"},
         \A s \in r.number : IsNumberState(s) /\ Fits(s)
  PROVE  LET q == jaxn_action(r, ev)
         IN  /\ DOMAIN q = DOMAIN r
             /\ \A s \in q.number : IsNumberState(s) /\ Fits(s)
             /\ r.error = "none" /\ ev.rule = "number" => \A s \in q.number : IsFresh(s)
<1> DEFINE q == jaxn_action(r, ev)
<1>1. CASE r.error # "none"
  <2>1. q = r
    BY <1>1 DEF jaxn_action
  <2> HIDE DEF q
  <2> QED  BY <1>1, <2>1 DEF q
<1>2. CASE r.error = "none" /\ ev.rule = "number"
  <2> DEFINE n == number_state(ev.minus)
  <2>1. DOMAIN q = DOMAIN r /\ q.number = {n}
    BY <1>2 DEF jaxn_action
  <2>2. IsNumberState(n) /\ Fits(n) /\ IsFresh(n)
    BY NumberAssumption DEF number_state, IsNumberState, Fits, IsFresh
  <2> HIDE DEF n, q
  <2> QED  BY <2>1, <2>2 DEF q
<1>3. CASE r.error = "none" /\ ev.rule = "idigits"
  <2>1. DOMAIN q = DOMAIN r
        /\ q.number \in {r.number, {idigits(s, ev.digits) : s \in r.number}}
    BY <1>3 DEF jaxn_action, with_digits, Thrown
  <2>2. \A s \in r.number : LET t == idigits(s, ev.digits) IN IsNumberState(t) /\ Fits(t)
    BY <1>3, IdigitsFit
  <2> HIDE DEF q
  <2> QED  BY <1>3, <2>1, <2>2 DEF q
<1>4. CASE r.error = "none" /\ ev.rule = "fdigits"
  <2>1. DOMAIN q = DOMAIN r /\ q.number = {fdigits(s, ev.digits) : s \in r.number}
    BY <1>4 DEF jaxn_action, with_digits
  <2>2. \A s \in r.number : LET t == fdigits(s, ev.digits) IN IsNumberState(t) /\ Fits(t)
    BY <1>4, FdigitsFit
  <2> HIDE DEF q
  <2> QED  BY <1>4, <2>1, <2>2 DEF q
<1>5. CASE r.error = "none" /\ ev.rule \in {"esign", "edigits"}
  <2>1. DOMAIN q = DOMAIN r
        /\ q.number \in {r.number, {esign(s, ev.minus) : s \in r.number},
                         {edigits(s, ev.digits) : s \in r.number}}
    BY <1>5 DEF jaxn_action, with_digits, Thrown
  <2>2. \A s \in r.number : /\ IsNumberState(esign(s, ev.minus)) /\ Fits(esign(s, ev.minus))
                           /\ IsNumberState(edigits(s, ev.digits)) /\ Fits(edigits(s, ev.digits))
    BY ExponentFits
  <2> HIDE DEF q
  <2> QED  BY <1>5, <2>1, <2>2 DEF q
<1>6. CASE r.error = "none" /\ ev.rule \in RuleNames \ {"number", "idigits", "fdigits", "esign", "edigits"}
  <2>1. DOMAIN q = DOMAIN r /\ q.number \in {r.number, {}}
    BY <1>6 DEF jaxn_action, RuleNames, with_hexnum, Thrown, begin_array, begin_object, element, member, end
  <2> QED  BY <1>6, <2>1
<1> QED  BY <1>1, <1>2, <1>3, <1>4, <1>5, <1>6
-----------------------------------------------------------------------------
LEMMA ReaderInitInvariant == ReaderInit => ReaderInv
<1> SUFFICES ASSUME ReaderInit PROVE ReaderInv
  OBVIOUS
<1>1. IsMatched(input)
  BY LiteralsAssumption DEF ReaderInit
<1>2. reader = NewReader
  BY DEF ReaderInit
<1>3. DOMAIN reader = {"error", "number", "value", "stack", "keys"} /\ reader.number = {}
  BY <1>2 DEF NewReader
<1> QED  BY <1>1, <1>3 DEF ReaderInv

LEMMA ReadRuleInvariant ==
  ASSUME ReaderInv, ReadRule
  PROVE  ReaderInv'
<1> DEFINE ev == Head(input)
<1>1. /\ input # <<>> /\ reader.error = "none"
      /\ reader' = jaxn_action(reader, ev) /\ input' = Tail(input)
  BY DEF ReadRule
<1>2. /\ IsMatched(input)
      /\ DOMAIN reader = {"error", "number", "value", "stack", "keys"}
      /\ \A s \in reader.number : IsNumberState(s) /\ Fits(s)
      /\ ev.rule = "idigits" => \A s \in reader.number : IsFresh(s)
  BY <1>1 DEF ReaderInv
<1>3. /\ IsMatched(input')
      /\ ev.rule \in RuleNames
      /\ ev.rule = "idigits" => IsWholePart(ev.digits)
      /\ ev.rule = "fdigits" => ev.digits \in Seq(Digit)
      /\ input' # <<>> /\ Head(input').rule = "idigits" => ev.rule = "number"
  BY <1>1, <1>2, TailIsMatched
<1> HIDE DEF ev
<1>4. /\ DOMAIN reader' = DOMAIN reader
      /\ \A s \in reader'.number : IsNumberState(s) /\ Fits(s)
      /\ ev.rule = "number" => \A s \in reader'.number : IsFresh(s)
  BY <1>1, <1>2, <1>3, RuleStep
<1>5. IsMatched(input)' = IsMatched(input')
  BY DEF IsMatched, IsWholePart
<1>6. ReaderInv' =
        /\ IsMatched(input')
        /\ {"error", "number", "value", "stack", "keys"} = DOMAIN reader'
        /\ \A s \in reader'.number : IsNumberState(s) /\ Fits(s)
        /\ input' # <<>> /\ Head(input').rule = "idigits" => \A s \in reader'.number : IsFresh(s)
  BY DEF ReaderInv, IsNumberState, Fits, IsFresh
<1> QED  BY <1>2, <1>3, <1>4, <1>6

LEMMA ReaderStepInvariant == ReaderInv /\ [ReadRule]_readerVars => ReaderInv'
<1>1. ASSUME ReaderInv, UNCHANGED readerVars PROVE ReaderInv'
  BY <1>1 DEF ReaderInv, readerVars, IsNumberState, Fits, IsFresh
<1> QED  BY <1>1, ReadRuleInvariant

(* idigits and fdigits: their copies never run over the end of the buffer,  *)
(* nothing is dropped while there is room, and the room is not spent on     *)
(* zeros at the beginning, for every text and every size of the buffer.     *)
THEOREM BufferHoldsDigits == ReaderSpec => []DigitsFit
<1>1. ReaderInv => DigitsFit
  BY DEF ReaderInv, DigitsFit, Fits
<1> QED  BY <1>1, ReaderInitInvariant, ReaderStepInvariant, PTL DEF ReaderSpec
=============================================================================
