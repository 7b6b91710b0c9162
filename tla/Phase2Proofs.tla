---------------------------- MODULE Phase2Proofs -----------------------------
(***************************************************************************)
(* Proofs about the operators of phase 2.  The passes of an iteration run  *)
(* in an order that the code leaves open, and which neighbours in a concat *)
(* are added up first depends on which of them are resolved first.  These  *)
(* theorems say why that makes no difference where it should not: sums are *)
(* associative, and what is said of all elements of several arrays can be  *)
(* said before or after the arrays are added up.                           *)
(***************************************************************************)
EXTENDS Phase2Additions, Phase2Asterisks, SequenceTheorems, FiniteSetTheorems, TLAPS

(* What the operators need to know of a concat, whatever its entries are. *)
Concats(E) == [remove : BOOLEAN, implicit : BOOLEAN, temporary : BOOLEAN,
               generation : Nat, concat : Seq(E)]
-----------------------------------------------------------------------------
(* A member that both objects have. *)
merged(c, d) ==
  IF d.remove THEN d ELSE
  [d EXCEPT !.remove = c.remove, !.temporary = @ \/ c.temporary, !.concat = c.concat \o @]

LEMMA MergedIsConcat ==
  ASSUME NEW E, NEW c \in Concats(E), NEW d \in Concats(E)
  PROVE  merged(c, d) \in Concats(E)
<1>1. CASE d.remove
  BY <1>1 DEF merged
<1>2. CASE ~ d.remove
  <2>1. /\ c.remove \in BOOLEAN /\ d.implicit \in BOOLEAN /\ (d.temporary \/ c.temporary) \in BOOLEAN
        /\ d.generation \in Nat /\ c.concat \o d.concat \in Seq(E)
    BY ConcatProperties DEF Concats
  <2>2. merged(c, d) = [remove |-> c.remove, implicit |-> d.implicit,
                        temporary |-> d.temporary \/ c.temporary,
                        generation |-> d.generation, concat |-> c.concat \o d.concat]
    BY <1>2 DEF merged, Concats
  <2> QED  BY <2>1, <2>2 DEF Concats
<1> QED  BY <1>1, <1>2

LEMMA MergedAssociative ==
  ASSUME NEW E, NEW c \in Concats(E), NEW d \in Concats(E), NEW e \in Concats(E)
  PROVE  merged(merged(c, d), e) = merged(c, merged(d, e))
<1>1. CASE e.remove
  BY <1>1 DEF merged
<1>2. CASE ~ e.remove /\ d.remove
  BY <1>2 DEF merged, Concats
<1>3. CASE ~ e.remove /\ ~ d.remove
  <2>1. (c.concat \o d.concat) \o e.concat = c.concat \o (d.concat \o e.concat)
    BY ConcatAssociative DEF Concats
  <2> QED  BY <1>3, <2>1 DEF merged, Concats
<1> QED  BY <1>1, <1>2, <1>3 DEF Concats

LEMMA ProcessObjectShape ==
  ASSUME NEW l, NEW r
  PROVE  LET S == DOMAIN l \cup DOMAIN r
             sum(name) == IF name \notin DOMAIN r THEN l[name]
                          ELSE IF name \notin DOMAIN l THEN r[name]
                          ELSE merged(l[name], r[name])
         IN  process_object(l, r) = [name \in S |-> sum(name)]
  BY DEF process_object, merged

LEMMA ProcessObjectMembers ==
  ASSUME NEW l, NEW r
  PROVE  /\ DOMAIN process_object(l, r) = DOMAIN l \cup DOMAIN r
         /\ \A name \in DOMAIN l \cup DOMAIN r :
              process_object(l, r)[name] = IF name \notin DOMAIN r THEN l[name]
                                           ELSE IF name \notin DOMAIN l THEN r[name]
                                           ELSE merged(l[name], r[name])
  BY ProcessObjectShape

LEMMA ProcessObjectIsFunction ==
  ASSUME NEW l, NEW r
  PROVE  process_object(l, r) = [name \in DOMAIN l \cup DOMAIN r |-> process_object(l, r)[name]]
<1> DEFINE S == DOMAIN l \cup DOMAIN r
           sum(name) == IF name \notin DOMAIN r THEN l[name]
                        ELSE IF name \notin DOMAIN l THEN r[name]
                        ELSE merged(l[name], r[name])
<1>1. process_object(l, r) = [name \in S |-> sum(name)]
  BY ProcessObjectShape
<1> HIDE DEF S, sum
<1>2. process_object(l, r) = [name \in S |-> process_object(l, r)[name]]
  BY <1>1
<1> QED  BY <1>2 DEF S

(* Objects are added up member by member: in whatever order the neighbours  *)
(* are added, all members come out with the same summands and flags.        *)
THEOREM ObjectSumsAssociate ==
  ASSUME NEW E, NEW N1, NEW N2, NEW N3,
         NEW l \in [N1 -> Concats(E)], NEW m \in [N2 -> Concats(E)], NEW r \in [N3 -> Concats(E)]
  PROVE  process_object(process_object(l, m), r) = process_object(l, process_object(m, r))
<1> DEFINE lm  == process_object(l, m)
           mr  == process_object(m, r)
           one == process_object(lm, r)
           two == process_object(l, mr)
<1>1. DOMAIN lm = N1 \cup N2 /\ DOMAIN mr = N2 \cup N3
  BY ProcessObjectMembers
<1>2. /\ DOMAIN one = N1 \cup N2 \cup N3 /\ DOMAIN two = N1 \cup N2 \cup N3
      /\ one = [name \in N1 \cup N2 \cup N3 |-> one[name]]
      /\ two = [name \in N1 \cup N2 \cup N3 |-> two[name]]
  <2> HIDE DEF lm, mr
  <2>1. DOMAIN one = DOMAIN lm \cup DOMAIN r /\ DOMAIN two = DOMAIN l \cup DOMAIN mr
    BY ProcessObjectMembers
  <2>2. one = [name \in DOMAIN lm \cup DOMAIN r |-> one[name]]
        /\ two = [name \in DOMAIN l \cup DOMAIN mr |-> two[name]]
    BY ProcessObjectIsFunction, Zenon
  <2>3. DOMAIN lm \cup DOMAIN r = N1 \cup N2 \cup N3 /\ DOMAIN l \cup DOMAIN mr = N1 \cup N2 \cup N3
    BY <1>1
  <2> HIDE DEF one, two
  <2> QED  BY <2>1, <2>2, <2>3
<1>3. ASSUME NEW name \in N1 \cup N2 \cup N3
      PROVE  one[name] = two[name]
  <2>1. /\ name \in N1 \cup N2 =>
             lm[name] = IF name \notin N2 THEN l[name]
                        ELSE IF name \notin N1 THEN m[name] ELSE merged(l[name], m[name])
        /\ name \in N2 \cup N3 =>
             mr[name] = IF name \notin N3 THEN m[name]
                        ELSE IF name \notin N2 THEN r[name] ELSE merged(m[name], r[name])
    BY ProcessObjectMembers
  <2>2. /\ one[name] = IF name \notin N3 THEN lm[name]
                       ELSE IF name \notin N1 \cup N2 THEN r[name] ELSE merged(lm[name], r[name])
        /\ two[name] = IF name \notin N2 \cup N3 THEN l[name]
                       ELSE IF name \notin N1 THEN mr[name] ELSE merged(l[name], mr[name])
    <3>1. DOMAIN l = N1 /\ DOMAIN r = N3
      OBVIOUS
    <3> HIDE DEF lm, mr
    <3>2. name \in DOMAIN lm \cup DOMAIN r /\ name \in DOMAIN l \cup DOMAIN mr
      BY <1>1, <1>3, <3>1
    <3>3. one[name] = IF name \notin DOMAIN r THEN lm[name]
                      ELSE IF name \notin DOMAIN lm THEN r[name] ELSE merged(lm[name], r[name])
      BY <3>2, ProcessObjectMembers
    <3>4. two[name] = IF name \notin DOMAIN mr THEN l[name]
                      ELSE IF name \notin DOMAIN l THEN mr[name] ELSE merged(l[name], mr[name])
      BY <3>2, ProcessObjectMembers
    <3> HIDE DEF one, two
    <3> QED  BY <1>1, <3>1, <3>3, <3>4
  <2>3. name \in N1 /\ name \in N2 /\ name \in N3 =>
          merged(merged(l[name], m[name]), r[name]) = merged(l[name], merged(m[name], r[name]))
    BY MergedAssociative
  <2> HIDE DEF lm, mr, one, two
  <2> QED  BY <1>3, <2>1, <2>2, <2>3
<1> QED
  <2> HIDE DEF one, two
  <2>1. one = two
    BY <1>2, <1>3
  <2> QED  BY <2>1 DEF one, two
-----------------------------------------------------------------------------
LEMMA PowerIsNatural ==
  ASSUME NEW n \in Nat
  PROVE  2^n \in Nat \ {0}
<1> DEFINE S == 1..n
<1>1. IsFiniteSet(S) /\ Cardinality(S) = n
  BY FS_Interval
<1> HIDE DEF S
<1>2. IsFiniteSet(SUBSET S) /\ Cardinality(SUBSET S) = 2^n /\ SUBSET S # {}
  BY <1>1, FS_SUBSET
<1> QED  BY <1>2, FS_CardinalityType, FS_EmptySet

(* The sets without n + 1 are as many as those with it. *)
LEMMA TwiceAPower ==
  ASSUME NEW n \in Nat
  PROVE  2^(n + 1) = 2^n + 2^n
<1> DEFINE S == 1..n
           T == 1..(n + 1)
           Without == SUBSET S
           With    == {t \in SUBSET T : n + 1 \in t}
           f == [s \in Without |-> s \cup {n + 1}]
<1>1. IsFiniteSet(S) /\ Cardinality(S) = n /\ IsFiniteSet(T) /\ Cardinality(T) = n + 1
  BY FS_Interval
<1>2. IsFiniteSet(Without) /\ Cardinality(Without) = 2^n /\ Cardinality(SUBSET T) = 2^(n + 1)
  <2> HIDE DEF S, T
  <2> QED  BY <1>1, FS_SUBSET
<1>3. T = S \cup {n + 1} /\ n + 1 \notin S
  OBVIOUS
<1>4. ExistsBijection(Without, With)
  <2> HIDE DEF S, T
  <2>1. f \in [Without -> With]
    BY <1>3
  <2>2. \A s, t \in Without : f[s] = f[t] => s = t
    BY <1>3
  <2>3. \A t \in With : \E s \in Without : f[s] = t
    <3> SUFFICES ASSUME NEW t \in With PROVE \E s \in Without : f[s] = t
      OBVIOUS
    <3>1. t \ {n + 1} \in Without /\ f[t \ {n + 1}] = t
      BY <1>3
    <3> QED  BY <3>1
  <2> HIDE DEF Without, With, f
  <2>4. f \in Bijection(Without, With)
    BY <2>1, <2>2, <2>3 DEF Bijection, Injection, Surjection, IsInjective
  <2> QED  BY <2>4 DEF ExistsBijection
<1>5. IsFiniteSet(With) /\ Cardinality(With) = 2^n
  <2> HIDE DEF Without, With
  <2> QED  BY <1>2, <1>4, FS_Bijection
<1>6. SUBSET T = Without \cup With /\ Without \cap With = {}
  <2> HIDE DEF S, T
  <2> QED  BY <1>3
<1>7. Cardinality(SUBSET T) = 2^n + 2^n - Cardinality({})
  <2> HIDE DEF Without, With
  <2> QED  BY <1>2, <1>5, <1>6, FS_Union
<1> QED  BY <1>2, <1>7, FS_EmptySet

(* Integers of both types, and what they stand for. *)
IntegerEntries == {UnsignedEntry(n) : n \in Unsigned} \cup {SignedEntry(i) : i \in Signed}
number(e)      == IF e.kind = "signed" THEN e.signed ELSE e.unsigned

LEMMA Ranges ==
  /\ 2^Bits \in Nat \ {0} /\ Unsigned \subseteq Int /\ Signed \subseteq Int
  /\ \A m, n \in Unsigned : m - n < 2^Bits
  /\ \A i, j \in Signed : i - j < 2^Bits
<1>1. Bits - 1 \in Nat /\ Bits = (Bits - 1) + 1
  BY BitsAssumption
<1>2. 2^Bits = 2^(Bits - 1) + 2^(Bits - 1)
  BY <1>1, TwiceAPower
<1> DEFINE M == 2^Bits
           H == 2^(Bits - 1)
<1>3. M \in Nat \ {0} /\ H \in Nat \ {0}
  BY <1>1, PowerIsNatural, BitsAssumption
<1>4. M = H + H /\ Unsigned = 0..M - 1 /\ Signed = -H..H - 1
  BY <1>2 DEF Unsigned, Signed
<1> HIDE DEF M, H
<1>5. /\ M \in Nat \ {0} /\ Unsigned \subseteq Int /\ Signed \subseteq Int
      /\ \A m, n \in Unsigned : m - n < M
      /\ \A i, j \in Signed : i - j < M
  BY <1>3, <1>4
<1> QED  BY <1>5 DEF M

LEMMA ConversionToSigned ==
  ASSUME NEW n \in Unsigned, NEW i \in Signed
  PROVE  /\ ToSigned(n) \in Int /\ i \in Int
         /\ ToSigned(n) + i \in {n + i, n + i - 2^Bits}
         /\ i + ToSigned(n) \in {i + n, i + n - 2^Bits}
<1> DEFINE M == 2^Bits
<1>1. n \in Int /\ i \in Int /\ M \in Int
  BY Ranges
<1>2. ToSigned(n) \in {n, n - M}
  BY DEF ToSigned
<1> HIDE DEF M
<1>3. n - M \in Int /\ (n - M) + i = n + i - M /\ i + (n - M) = i + n - M
  BY <1>1
<1> QED  BY <1>1, <1>2, <1>3 DEF M

(* A sum is what it should be, or smaller by 2^Bits; it is signed if one of *)
(* its summands is.                                                         *)
LEMMA IntegerSum ==
  ASSUME NEW e \in IntegerEntries, NEW f \in IntegerEntries, add_entries(e, f).error = "none"
  PROVE  LET s == add_entries(e, f).val
         IN  /\ s \in IntegerEntries
             /\ s.kind = "unsigned" <=> e.kind = "unsigned" /\ f.kind = "unsigned"
             /\ number(s) \in {number(e) + number(f), number(e) + number(f) - 2^Bits}
<1> DEFINE s == add_entries(e, f).val
<1>1. /\ e.kind \in {"unsigned", "signed"} /\ f.kind \in {"unsigned", "signed"}
      /\ e.kind = "unsigned" => e.unsigned \in Unsigned
      /\ e.kind = "signed" => e.signed \in Signed
      /\ f.kind = "unsigned" => f.unsigned \in Unsigned
      /\ f.kind = "signed" => f.signed \in Signed
  BY DEF IntegerEntries, UnsignedEntry, SignedEntry
<1>2. ~ ignore_entry(e) /\ ~ ignore_entry(f)
  BY <1>1 DEF ignore_entry, IsFunction
<1>3. CASE e.kind = "unsigned" /\ f.kind = "unsigned"
  <2>1. s = UnsignedEntry(Wrapped(e.unsigned + f.unsigned))
    BY <1>2, <1>3 DEF add_entries, add_same_kind, Changed
  <2>2. Wrapped(e.unsigned + f.unsigned) \in Unsigned
        /\ Wrapped(e.unsigned + f.unsigned) \in {e.unsigned + f.unsigned, e.unsigned + f.unsigned - 2^Bits}
    BY <1>1, <1>3, Ranges DEF Wrapped, Unsigned
  <2> HIDE DEF s
  <2> QED  BY <1>3, <2>1, <2>2 DEF IntegerEntries, UnsignedEntry, SignedEntry, number, s
<1>4. ASSUME NEW i \in Int, NEW j \in Int, add_entries(e, f) = add_signed(i, j)
      PROVE  i + j \in Signed /\ s = SignedEntry(i + j)
  BY <1>4 DEF add_signed, Changed, Failed
<1>5. CASE e.kind = "signed" /\ f.kind = "signed"
  <2>1. add_entries(e, f) = add_signed(e.signed, f.signed)
    BY <1>2, <1>5 DEF add_entries, add_same_kind
  <2>2. e.signed + f.signed \in Signed /\ s = SignedEntry(e.signed + f.signed)
    BY <1>1, <1>4, <1>5, <2>1, Ranges
  <2> HIDE DEF s
  <2> QED  BY <1>5, <2>2 DEF IntegerEntries, UnsignedEntry, SignedEntry, number, s
<1>6. CASE e.kind = "unsigned" /\ f.kind = "signed"
  <2>1. add_entries(e, f) = add_signed(ToSigned(e.unsigned), f.signed)
    BY <1>2, <1>6 DEF add_entries
  <2>2. /\ ToSigned(e.unsigned) \in Int /\ f.signed \in Int
        /\ ToSigned(e.unsigned) + f.signed \in {e.unsigned + f.signed, e.unsigned + f.signed - 2^Bits}
    <3>1. e.unsigned \in Unsigned /\ f.signed \in Signed
      BY <1>1, <1>6
    <3> QED  BY <3>1, ConversionToSigned
  <2>3. ToSigned(e.unsigned) + f.signed \in Signed /\ s = SignedEntry(ToSigned(e.unsigned) + f.signed)
    BY <1>4, <2>1, <2>2
  <2> HIDE DEF s
  <2> QED  BY <1>6, <2>2, <2>3 DEF IntegerEntries, UnsignedEntry, SignedEntry, number, s
<1>7. CASE e.kind = "signed" /\ f.kind = "unsigned"
  <2>1. add_entries(e, f) = add_signed(e.signed, ToSigned(f.unsigned))
    BY <1>2, <1>7 DEF add_entries
  <2>2. /\ ToSigned(f.unsigned) \in Int /\ e.signed \in Int
        /\ e.signed + ToSigned(f.unsigned) \in {e.signed + f.unsigned, e.signed + f.unsigned - 2^Bits}
    <3>1. f.unsigned \in Unsigned /\ e.signed \in Signed
      BY <1>1, <1>7
    <3> QED  BY <3>1, ConversionToSigned
  <2>3. e.signed + ToSigned(f.unsigned) \in Signed /\ s = SignedEntry(e.signed + ToSigned(f.unsigned))
    BY <1>4, <2>1, <2>2
  <2> HIDE DEF s
  <2> QED  BY <1>7, <2>2, <2>3 DEF IntegerEntries, UnsignedEntry, SignedEntry, number, s
<1> QED  BY <1>1, <1>3, <1>5, <1>6, <1>7

(* Integers of both types, also those that the conversion makes negative:   *)
(* when no signed addition overflows, the sum of three does not depend on   *)
(* which two are added first, as an iteration finds them resolved.          *)
THEOREM IntegerSumsAssociate ==
  ASSUME NEW e \in IntegerEntries, NEW f \in IntegerEntries, NEW g \in IntegerEntries,
         add_entries(e, f).error = "none", add_entries(f, g).error = "none",
         add_entries(add_entries(e, f).val, g).error = "none",
         add_entries(e, add_entries(f, g).val).error = "none"
  PROVE  add_entries(add_entries(e, f).val, g).val = add_entries(e, add_entries(f, g).val).val
<1> DEFINE ef  == add_entries(e, f).val
           fg  == add_entries(f, g).val
           one == add_entries(ef, g).val
           two == add_entries(e, fg).val
           M   == 2^Bits
<1>1. /\ ef \in IntegerEntries /\ fg \in IntegerEntries
      /\ ef.kind = "unsigned" <=> e.kind = "unsigned" /\ f.kind = "unsigned"
      /\ fg.kind = "unsigned" <=> f.kind = "unsigned" /\ g.kind = "unsigned"
      /\ number(ef) \in {number(e) + number(f), number(e) + number(f) - M}
      /\ number(fg) \in {number(f) + number(g), number(f) + number(g) - M}
  BY IntegerSum
<1>2. /\ one \in IntegerEntries /\ two \in IntegerEntries
      /\ one.kind = "unsigned" <=> ef.kind = "unsigned" /\ g.kind = "unsigned"
      /\ two.kind = "unsigned" <=> e.kind = "unsigned" /\ fg.kind = "unsigned"
      /\ number(one) \in {number(ef) + number(g), number(ef) + number(g) - M}
      /\ number(two) \in {number(e) + number(fg), number(e) + number(fg) - M}
  <2> HIDE DEF ef, fg
  <2>1. add_entries(ef, g).error = "none" /\ add_entries(e, fg).error = "none"
    BY DEF ef, fg
  <2> QED  BY <1>1, <2>1, IntegerSum
<1>3. \A x \in IntegerEntries :
        \/ x.kind = "unsigned" /\ number(x) \in Unsigned /\ x = UnsignedEntry(number(x))
        \/ x.kind = "signed" /\ number(x) \in Signed /\ x = SignedEntry(number(x))
  BY DEF IntegerEntries, UnsignedEntry, SignedEntry, number
<1> HIDE DEF ef, fg, one, two, M
<1>4. one.kind = two.kind
  BY <1>1, <1>2, <1>3
<1>5. \A x \in IntegerEntries : number(x) \in Int
  BY <1>3, Ranges
<1>6. M \in Nat \ {0} /\ number(one) - number(two) < M /\ number(two) - number(one) < M
  BY <1>2, <1>3, <1>4, Ranges DEF M
<1>7. number(one) = number(two)
  BY <1>1, <1>2, <1>5, <1>6
<1>8. one = two
  BY <1>2, <1>3, <1>4, <1>7
<1> QED  BY <1>8 DEF one, two, ef, fg
-----------------------------------------------------------------------------
(* Doing the same with each element of a sequence. *)
applied(F, d) == [i \in DOMAIN d |-> F[d[i]]]

LEMMA AppliedToConcat ==
  ASSUME NEW X, NEW F, NEW a \in Seq(X), NEW b \in Seq(X)
  PROVE  applied(F, a \o b) = applied(F, a) \o applied(F, b)
<1> DEFINE T == {F[x] : x \in X}
           ab == a \o b
           fa == applied(F, a)
           fb == applied(F, b)
           fab == applied(F, ab)
<1>1. /\ ab \in Seq(X) /\ Len(ab) = Len(a) + Len(b)
      /\ \A i \in 1..Len(a) + Len(b) : ab[i] = IF i <= Len(a) THEN a[i] ELSE b[i - Len(a)]
  BY ConcatProperties
<1> HIDE DEF ab
<1>2. /\ fa \in Seq(T) /\ Len(fa) = Len(a) /\ \A i \in 1..Len(a) : fa[i] = F[a[i]]
      /\ fb \in Seq(T) /\ Len(fb) = Len(b) /\ \A i \in 1..Len(b) : fb[i] = F[b[i]]
  BY DEF applied
<1>3. fab \in Seq(T) /\ Len(fab) = Len(ab) /\ \A i \in 1..Len(ab) : fab[i] = F[ab[i]]
  BY <1>1 DEF applied
<1> HIDE DEF fa, fb, fab, T
<1>4. fa \o fb \in Seq(T) /\ Len(fa \o fb) = Len(fa) + Len(fb)
  BY <1>2, ConcatProperties
<1>5. \A i \in 1..Len(fa) + Len(fb) :
        (fa \o fb)[i] = IF i <= Len(fa) THEN fa[i] ELSE fb[i - Len(fa)]
  BY <1>2, ConcatProperties
<1>6. ASSUME NEW i \in 1..Len(a) + Len(b)
      PROVE  fab[i] = (fa \o fb)[i]
  <2>1. Len(a) \in Nat /\ Len(b) \in Nat /\ i \in Int
    BY LenProperties
  <2>2. fab[i] = F[ab[i]]
    BY <1>1, <1>3
  <2>3. CASE i <= Len(a)
    <3>1. i \in 1..Len(a)
      BY <2>1, <2>3
    <3>2. ab[i] = a[i]
      BY <1>1, <2>3
    <3>3. fa[i] = F[a[i]]
      BY <1>2, <3>1
    <3>4. (fa \o fb)[i] = fa[i]
      BY <1>2, <1>5, <2>3
    <3> QED  BY <2>2, <3>2, <3>3, <3>4
  <2>4. CASE ~(i <= Len(a))
    <3>1. i - Len(a) \in 1..Len(b)
      BY <2>1, <2>4
    <3>2. ab[i] = b[i - Len(a)]
      BY <1>1, <2>4
    <3>3. fb[i - Len(a)] = F[b[i - Len(a)]]
      BY <1>2, <3>1
    <3>4. (fa \o fb)[i] = fb[i - Len(a)]
      BY <1>2, <1>5, <2>4
    <3> QED  BY <2>2, <3>2, <3>3, <3>4
  <2> QED  BY <2>3, <2>4
<1>7. fab = fa \o fb
  BY <1>1, <1>2, <1>3, <1>4, <1>6, SeqEqual
<1> QED  BY <1>7 DEF fa, fb, fab, ab

(* What is said of all elements after the arrays are named: two arrays that *)
(* are added up before the asterisk is expanded get the same elements as    *)
(* two that are added up afterwards.                                        *)
THEOREM ArraysThenAsterisk ==
  ASSUME NEW E, NEW a \in Seq(Concats(E)), NEW b \in Seq(Concats(E)), NEW s
  PROVE  process_array_and_asterisk(a \o b, s)
           = process_array_and_asterisk(a, s) \o process_array_and_asterisk(b, s)
<1> DEFINE of(c) ==
             [c EXCEPT !.remove = @ \/ s.remove,
                       !.temporary = @ \/ s.temporary,
                       !.concat = (IF s.remove THEN <<>> ELSE @) \o s.concat]
           F == [c \in Concats(E) |-> of(c)]
<1>1. ASSUME NEW d \in Seq(Concats(E))
      PROVE  process_array_and_asterisk(d, s) = applied(F, d)
  <2>1. process_array_and_asterisk(d, s) = [i \in DOMAIN d |-> of(d[i])]
    BY DEF process_array_and_asterisk
  <2> HIDE DEF of
  <2>2. \A i \in DOMAIN d : F[d[i]] = of(d[i])
    OBVIOUS
  <2> HIDE DEF F
  <2> QED  BY <2>1, <2>2 DEF applied
<1>2. a \o b \in Seq(Concats(E))
  BY ConcatProperties
<1> HIDE DEF F
<1>3. applied(F, a \o b) = applied(F, a) \o applied(F, b)
  BY AppliedToConcat
<1> QED  BY <1>1, <1>2, <1>3

(* The same of an asterisk before the arrays, where elements that were      *)
(* assigned to keep to themselves.                                          *)
THEOREM AsteriskThenArrays ==
  ASSUME NEW E, NEW a \in Seq(Concats(E)), NEW b \in Seq(Concats(E)), NEW s
  PROVE  process_asterisk_and_array(s, a \o b)
           = process_asterisk_and_array(s, a) \o process_asterisk_and_array(s, b)
<1> DEFINE of(c) ==
             IF c.remove THEN c ELSE
             [c EXCEPT !.remove = s.remove,
                       !.temporary = @ \/ s.temporary,
                       !.concat = s.concat \o @]
           F == [c \in Concats(E) |-> of(c)]
<1>1. ASSUME NEW d \in Seq(Concats(E))
      PROVE  process_asterisk_and_array(s, d) = applied(F, d)
  <2>1. process_asterisk_and_array(s, d) = [i \in DOMAIN d |-> of(d[i])]
    BY DEF process_asterisk_and_array
  <2> HIDE DEF of
  <2>2. \A i \in DOMAIN d : F[d[i]] = of(d[i])
    OBVIOUS
  <2> HIDE DEF F
  <2> QED  BY <2>1, <2>2 DEF applied
<1>2. a \o b \in Seq(Concats(E))
  BY ConcatProperties
<1> HIDE DEF F
<1>3. applied(F, a \o b) = applied(F, a) \o applied(F, b)
  BY AppliedToConcat
<1> QED  BY <1>1, <1>2, <1>3
=============================================================================
