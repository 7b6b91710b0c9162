---------------------------- MODULE KeyTextsProofs ----------------------------
(***************************************************************************)
(* Proofs about KeyTexts: what is read from a text is a key, and a number  *)
(* that is written in digits is the same number when it is read.           *)
(***************************************************************************)
EXTENDS KeyTexts, NaturalLemmas, SequenceTheorems

(* The recursion of index_of is a definition. *)
LEMMA IndexIsDefined ==
  ASSUME NEW ds, Len(ds) \in Nat
  PROVE  \E so_far : /\ index_of(ds) = so_far[Len(ds)]
                     /\ so_far[0] = 0
                     /\ \A i \in 1..Len(ds) : so_far[i] = 10 * so_far[i - 1] + ds[i]
<1> DEFINE n       == Len(ds)
           Up(s, i) == 10 * s + ds[i]
           IsSoFar(f, m) == f = [i \in 0..m |-> IF i = 0 THEN 0 ELSE Up(f[i - 1], i)]
           T       == {m \in 0..n : \E f : IsSoFar(f, m)}
<1>1. n \in Nat
  OBVIOUS
<1> HIDE DEF n, Up
<1>2. 0 \in T
  <2> DEFINE f == [i \in 0..0 |-> 0]
  <2>1. IsSoFar(f, 0)
    OBVIOUS
  <2> HIDE DEF f, IsSoFar
  <2>2. 0 \in 0..n
    BY <1>1
  <2> QED  BY <2>1, <2>2
<1>3. ASSUME NEW m \in 0..n, m < n, m \in T
      PROVE  m + 1 \in T
  <2>1. PICK f : IsSoFar(f, m)
    BY <1>3
  <2> DEFINE g == [i \in 0..m + 1 |-> IF i = m + 1 THEN Up(f[m], m + 1) ELSE f[i]]
  <2>2. m \in Nat /\ m + 1 \in 0..n
    BY <1>1, <1>3
  <2>3. \A i \in 0..m : g[i] = f[i]
    BY <2>2
  <2>4. \A i \in 0..m : f[i] = IF i = 0 THEN 0 ELSE Up(f[i - 1], i)
    BY <2>1
  <2>5. ASSUME NEW i \in 0..m + 1
        PROVE  g[i] = IF i = 0 THEN 0 ELSE Up(g[i - 1], i)
    <3>1. CASE i = m + 1
      <4>1. g[i] = Up(f[m], m + 1) /\ i # 0 /\ i - 1 = m /\ g[m] = f[m]
        BY <2>2, <2>3, <3>1
      <4> QED  BY <4>1, <3>1
    <3>2. CASE i # m + 1
      <4>1. i \in 0..m /\ (i # 0 => i - 1 \in 0..m)
        BY <2>2, <3>2
      <4>2. g[i] = f[i] /\ (i # 0 => g[i - 1] = f[i - 1])
        BY <2>3, <4>1
      <4>3. f[i] = IF i = 0 THEN 0 ELSE Up(f[i - 1], i)
        BY <2>4, <4>1
      <4> HIDE DEF g
      <4> QED  BY <4>2, <4>3
    <3> QED  BY <3>1, <3>2
  <2>6. IsSoFar(g, m + 1)
    <3>1. g = [i \in 0..m + 1 |-> g[i]]
      OBVIOUS
    <3> HIDE DEF g
    <3> QED  BY <2>5, <3>1
  <2> QED  BY <2>2, <2>6
<1>4. \A m \in 0..n : m \in T
  <2> HIDE DEF T
  <2> QED  BY <1>1, <1>2, <1>3, InductionUpTo
<1>5. \E f : IsSoFar(f, n)
  <2>1. n \in T
    <3> HIDE DEF T
    <3> QED  BY <1>1, <1>4
  <2> HIDE DEF IsSoFar
  <2> QED  BY <2>1
<1> DEFINE so_far == CHOOSE f : IsSoFar(f, n)
<1>6. IsSoFar(so_far, n)
  BY <1>5
<1>7. index_of(ds) = so_far[n]
  BY DEF index_of, n, Up
<1>8. so_far[0] = 0 /\ \A i \in 1..n : so_far[i] = Up(so_far[i - 1], i)
  <2> HIDE DEF so_far
  <2>1. \A i \in 0..n : so_far[i] = IF i = 0 THEN 0 ELSE Up(so_far[i - 1], i)
    BY <1>6
  <2> QED  BY <1>1, <2>1
<1> HIDE DEF so_far
<1>9. \A i \in 1..n : so_far[i] = 10 * so_far[i - 1] + ds[i]
  BY <1>8 DEF Up
<1> QED  BY <1>7, <1>8, <1>9 DEF n

(* An index is a number without a sign. *)
LEMMA IndexIsNatural ==
  ASSUME NEW ds \in Seq(0..9)
  PROVE  index_of(ds) \in Nat
<1>1. Len(ds) \in Nat /\ \A i \in 1..Len(ds) : ds[i] \in Nat
  OBVIOUS
<1>2. PICK so_far : /\ index_of(ds) = so_far[Len(ds)]
                    /\ so_far[0] = 0
                    /\ \A i \in 1..Len(ds) : so_far[i] = 10 * so_far[i - 1] + ds[i]
  BY <1>1, IndexIsDefined
<1> DEFINE T == {m \in 0..Len(ds) : so_far[m] \in Nat}
<1>3. 0 \in T
  BY <1>1, <1>2
<1>4. ASSUME NEW m \in 0..Len(ds), m < Len(ds), m \in T
      PROVE  m + 1 \in T
  <2>1. m + 1 \in 1..Len(ds) /\ (m + 1) - 1 = m /\ m + 1 \in 0..Len(ds)
    BY <1>1, <1>4
  <2>2. so_far[m + 1] = 10 * so_far[m] + ds[m + 1]
    BY <1>2, <2>1
  <2>3. so_far[m] \in Nat /\ ds[m + 1] \in Nat
    BY <1>1, <1>4, <2>1
  <2> QED  BY <2>1, <2>2, <2>3
<1>5. \A m \in 0..Len(ds) : m \in T
  <2> HIDE DEF T
  <2> QED  BY <1>1, <1>3, <1>4, InductionUpTo
<1> QED  BY <1>1, <1>2, <1>5
-----------------------------------------------------------------------------
part_read(w) == part_of(w, reference_read)

(* Whether what is in brackets is read to its end. *)
whole(w) == w.form = "brackets" => reference_read[w.words].error = "none"

matches(ws, first, other, i) == IsRead(ws[i]) /\ ws[i].form \in (IF i = 1 THEN first ELSE other)

added(ws, first, other) ==
  {i \in DOMAIN ws : /\ matches(ws, first, other, i)
                     /\ \A j \in 1..i - 1 : matches(ws, first, other, j) /\ whole(ws[j])}

all_read(ws, first, other) == ws # <<>> /\ \A i \in DOMAIN ws : matches(ws, first, other, i) /\ whole(ws[i])

LEMMA KeysRead ==
  ASSUME NEW ws, NEW first, NEW other
  PROVE  keys_read(ws, first, other).parts = [i \in added(ws, first, other) |-> part_read(ws[i])]
BY DEF keys_read, words_read, part_read, whole, matches, added

LEMMA KeysReadError ==
  ASSUME NEW ws, NEW first, NEW other
  PROVE  keys_read(ws, first, other).error = IF all_read(ws, first, other) THEN "none" ELSE "parse_error"
BY DEF keys_read, words_read, whole, matches, all_read

(* What is read before an exception are the first words. *)
LEMMA AddedAreFirst ==
  ASSUME NEW ws, NEW first, NEW other, Len(ws) \in Nat, DOMAIN ws = 1..Len(ws)
  PROVE  \E n \in 0..Len(ws) : added(ws, first, other) = 1..n
<1> DEFINE A == added(ws, first, other)
           T == {i \in Nat : i >= 1 /\ i \notin A}
<1>1. A \subseteq 1..Len(ws)
  BY DEF added
<1>2. \A i \in A : \A j \in 1..i - 1 : j \in A
  <2> SUFFICES ASSUME NEW i \in A, NEW j \in 1..i - 1 PROVE j \in A
    OBVIOUS
  <2>1. j \in DOMAIN ws /\ i \in 1..Len(ws)
    BY <1>1
  <2>2. \A l \in 1..i - 1 : matches(ws, first, other, l) /\ whole(ws[l])
    BY DEF added
  <2>3. matches(ws, first, other, j)
    BY <2>2
  <2>4. \A l \in 1..j - 1 : matches(ws, first, other, l) /\ whole(ws[l])
    BY <2>1, <2>2
  <2> QED  BY <2>1, <2>3, <2>4 DEF added
<1> HIDE DEF A
<1>3. T \subseteq Nat /\ Len(ws) + 1 \in T
  BY <1>1
<1>4. PICK m \in T : \A l \in T : m <= l
  <2> HIDE DEF T
  <2> QED  BY <1>3, LeastNatural
<1> DEFINE n == m - 1
<1>5. n \in 0..Len(ws)
  BY <1>3, <1>4
<1>6. ASSUME NEW i \in A PROVE i \in 1..n
  <2>1. ~ (m \in 1..i - 1)
    BY <1>2, <1>4
  <2> QED  BY <1>1, <1>4, <2>1
<1>7. ASSUME NEW i \in 1..n PROVE i \in A
  <2>1. i \in Nat /\ i >= 1 /\ ~ (m <= i)
    BY <1>4
  <2> QED  BY <1>4, <2>1
<1>8. A = 1..n
  BY <1>6, <1>7
<1> QED  BY <1>5, <1>8 DEF A

(* What the rules for names and indices read are such parts. *)
LEMMA WordIsPart ==
  ASSUME NEW w, IsWord(w), w.form \in Names1 \cup {"digits"}
  PROVE  part_read(w) \in ValuePart
<1>1. CASE w.form \in Names1
  <2>1. part_read(w) = NamePart(w.name)
    BY <1>1 DEF part_read, part_of, Names1
  <2>2. w.name \in STRING
    BY <1>1 DEF IsWord, Names1
  <2> QED  BY <2>1, <2>2 DEF NamePart, ValuePart
<1>2. CASE w.form = "digits"
  <2>1. part_read(w) = IndexPart(index_of(w.digits))
    BY <1>2 DEF part_read, part_of
  <2>2. w.digits \in Seq(0..9)
    BY <1>2 DEF IsWord
  <2> QED  BY <2>1, <2>2, IndexIsNatural DEF IndexPart, ValuePart
<1> QED  BY <1>1, <1>2

(* A key that a program reads has names and indices only. *)
LEMMA KeyIsRead ==
  ASSUME NEW ws, IsText(ws)
  PROVE  /\ parse_key(ws).parts \in Seq(ValuePart)
         /\ parse_key(ws).error \in {"none", "parse_error"}
<1> DEFINE other == Names1 \cup {"digits"}
<1>1. ws \in Seq(ToSet(ws)) /\ Len(ws) \in Nat /\ DOMAIN ws = 1..Len(ws)
  <2>1. ws \in Seq(ToSet(ws))
    BY DEF IsText
  <2> QED  BY <2>1
<1>2. PICK n \in 0..Len(ws) : added(ws, Names1, other) = 1..n
  BY <1>1, AddedAreFirst
<1>3. parse_key(ws) = keys_read(ws, Names1, other)
  BY DEF parse_key
<1>4. parse_key(ws).parts = [i \in 1..n |-> part_read(ws[i])]
  BY <1>2, <1>3, KeysRead
<1>5. ASSUME NEW i \in 1..n PROVE part_read(ws[i]) \in ValuePart
  <2>1. i \in 1..Len(ws)
    BY <1>1
  <2>2. IsWord(ws[i])
    BY <1>1, <2>1 DEF IsText, ToSet
  <2>3. ws[i].form \in (IF i = 1 THEN Names1 ELSE other)
    BY <1>2 DEF added, matches
  <2> QED  BY <2>2, <2>3, WordIsPart
<1>6. parse_key(ws).error \in {"none", "parse_error"}
  BY <1>3, KeysReadError
<1>7. n \in Nat
  BY <1>1
<1>8. parse_key(ws).parts \in Seq(ValuePart)
  BY <1>4, <1>5, <1>7
<1> QED  BY <1>6, <1>8

(* What a text that is not read to its end leaves is what its first words   *)
(* are read as on their own.                                                *)
LEMMA FailedKeyRead ==
  ASSUME NEW ws, IsText(ws), parse_key(ws).error # "none"
  PROVE  \/ parse_key(ws).parts = <<>>
         \/ \E n \in 1..Len(ws) - 1 :
              parse_key(SubSeq(ws, 1, n)) = [parts |-> parse_key(ws).parts, error |-> "none"]
<1> DEFINE other == Names1 \cup {"digits"}
           fits(i) == matches(ws, Names1, other, i) /\ whole(ws[i])
<1>1. ws \in Seq(ToSet(ws)) /\ Len(ws) \in Nat /\ DOMAIN ws = 1..Len(ws)
  <2>1. ws \in Seq(ToSet(ws))
    BY DEF IsText
  <2> QED  BY <2>1
<1>2. PICK n \in 0..Len(ws) : added(ws, Names1, other) = 1..n
  BY <1>1, AddedAreFirst
<1>3. \A text : parse_key(text) = keys_read(text, Names1, other)
  BY DEF parse_key
<1>4. parse_key(ws).parts = [i \in 1..n |-> part_read(ws[i])]
  BY <1>2, <1>3, KeysRead
<1>5. \A i \in 1..n : fits(i)
  <2> SUFFICES ASSUME NEW i \in 1..n PROVE fits(i)
    OBVIOUS
  <2>1. matches(ws, Names1, other, i)
    BY <1>2 DEF added
  <2>2. ws[i].form # "brackets"
    BY <2>1 DEF matches, Names1
  <2> QED  BY <2>1, <2>2 DEF whole
<1>6. CASE n = 0
  <2>1. parse_key(ws).parts = <<>>
    BY <1>4, <1>6
  <2> QED  BY <2>1
<1>7. CASE n # 0
  <2> DEFINE begin == SubSeq(ws, 1, n)
  <2>1. n # Len(ws)
    <3> SUFFICES ASSUME n = Len(ws) PROVE FALSE
      OBVIOUS
    <3>1. ws # <<>>
      BY <1>1, <1>7
    <3>2. all_read(ws, Names1, other)
      BY <1>1, <1>5, <3>1 DEF all_read
    <3> QED  BY <1>3, <3>2, KeysReadError
  <2>2. n \in 1..Len(ws) - 1
    <3> DEFINE m == Len(ws)
    <3>1. m \in Nat /\ n \in 0..m /\ n # 0 /\ n # m
      BY <1>1, <1>7, <2>1
    <3> HIDE DEF m
    <3>2. n \in 1..m - 1
      BY <3>1
    <3> QED  BY <3>2 DEF m
  <2>3. begin # <<>> /\ Len(begin) = n /\ DOMAIN begin = 1..n /\ \A i \in 1..n : begin[i] = ws[i]
    BY <1>1, <2>2
  <2> HIDE DEF begin
  <2>4. \A i \in 1..n : matches(begin, Names1, other, i) /\ whole(begin[i])
    BY <1>5, <2>3 DEF matches
  <2>5. all_read(begin, Names1, other)
    BY <2>3, <2>4 DEF all_read
  <2>6. added(begin, Names1, other) = 1..n
    <3>1. ASSUME NEW i \in 1..n PROVE i \in added(begin, Names1, other)
      <4>1. \A j \in 1..i - 1 : j \in 1..n
        BY <2>2
      <4>2. \A j \in 1..i - 1 : matches(begin, Names1, other, j) /\ whole(begin[j])
        BY <2>4, <4>1
      <4> QED  BY <2>3, <2>4, <4>2 DEF added
    <3> QED  BY <2>3, <3>1 DEF added
  <2>7. keys_read(begin, Names1, other) = [parts |-> [i \in 1..n |-> part_read(ws[i])], error |-> "none"]
    <3>1. keys_read(begin, Names1, other).parts = [i \in 1..n |-> part_read(ws[i])]
      <4>1. keys_read(begin, Names1, other).parts = [i \in 1..n |-> part_read(begin[i])]
        BY <2>6, KeysRead
      <4> QED  BY <2>3, <4>1
    <3>2. keys_read(begin, Names1, other).error = "none"
      BY <2>5, KeysReadError
    <3>3. \E p, e : keys_read(begin, Names1, other) = [parts |-> p, error |-> e]
      BY DEF keys_read, words_read
    <3> QED  BY <3>1, <3>2, <3>3
  <2> QED  BY <1>3, <1>4, <2>2, <2>7 DEF begin
<1> QED  BY <1>6, <1>7
-----------------------------------------------------------------------------
(* One more digit is ten times the number and the digit. *)
LEMMA IndexAppend ==
  ASSUME NEW ds \in Seq(0..9), NEW d \in 0..9
  PROVE  index_of(Append(ds, d)) = 10 * index_of(ds) + d
<1> DEFINE n  == Len(ds)
           es == Append(ds, d)
<1>1. n \in Nat /\ Len(es) = n + 1 /\ es[n + 1] = d /\ \A i \in 1..n : es[i] = ds[i]
  OBVIOUS
<1>2. PICK f : index_of(ds) = f[n] /\ f[0] = 0 /\ \A i \in 1..n : f[i] = 10 * f[i - 1] + ds[i]
  BY <1>1, IndexIsDefined
<1> HIDE DEF n, es
<1>3. PICK g : index_of(es) = g[n + 1] /\ g[0] = 0 /\ \A i \in 1..n + 1 : g[i] = 10 * g[i - 1] + es[i]
  BY <1>1, IndexIsDefined
<1> DEFINE T == {m \in 0..n : g[m] = f[m]}
<1>4. 0 \in T
  BY <1>1, <1>2, <1>3
<1>5. ASSUME NEW m \in 0..n, m < n, m \in T
      PROVE  m + 1 \in T
  <2>1. m + 1 \in 1..n /\ m + 1 \in 1..n + 1 /\ (m + 1) - 1 = m /\ m + 1 \in 0..n
    BY <1>1, <1>5
  <2>2. f[m + 1] = 10 * f[m] + ds[m + 1] /\ g[m + 1] = 10 * g[m] + es[m + 1] /\ es[m + 1] = ds[m + 1]
    BY <1>1, <1>2, <1>3, <2>1
  <2>3. g[m + 1] = f[m + 1]
    BY <1>5, <2>2
  <2> QED  BY <2>1, <2>3
<1>6. \A m \in 0..n : m \in T
  <2> HIDE DEF T
  <2> QED  BY <1>1, <1>4, <1>5, InductionUpTo
<1>7. g[n] = f[n]
  BY <1>1, <1>6
<1>8. n + 1 \in 1..n + 1 /\ (n + 1) - 1 = n
  BY <1>1
<1>9. g[n + 1] = 10 * g[n] + d
  BY <1>1, <1>3, <1>8
<1> QED  BY <1>2, <1>3, <1>7, <1>9 DEF es

LEMMA IndexOfOne ==
  ASSUME NEW d \in 0..9
  PROVE  index_of(<<d>>) = d
<1>1. Len(<<d>>) = 1 /\ <<d>>[1] = d /\ 1 \in 1..1 /\ 1 - 1 = 0
  OBVIOUS
<1> DEFINE ds == <<d>>
<1> HIDE DEF ds
<1>2. Len(ds) = 1 /\ ds[1] = d
  BY <1>1 DEF ds
<1>3. PICK f : index_of(ds) = f[Len(ds)] /\ f[0] = 0 /\ \A i \in 1..Len(ds) : f[i] = 10 * f[i - 1] + ds[i]
  BY <1>2, IndexIsDefined
<1>4. f[1] = 10 * f[0] + d
  BY <1>1, <1>2, <1>3
<1> QED  BY <1>2, <1>3, <1>4 DEF ds

(* The recursion of digits_of is a definition. *)
next_digits(f, m) == IF m < 10 THEN <<m>> ELSE Append(f[m \div 10], m % 10)

LEMMA Tenth ==
  ASSUME NEW m \in Nat, ~ (m < 10)
  PROVE  m \div 10 \in 0..m - 1 /\ m \div 10 \in Nat /\ m \div 10 >= 1 /\ m % 10 \in 0..9
         /\ 10 * (m \div 10) + (m % 10) = m
OBVIOUS

LEMMA DigitsIsDefined ==
  ASSUME NEW n \in Nat
  PROVE  \E of : digits_of(n) = of[n] /\ \A m \in 0..n : of[m] = next_digits(of, m)
<1> DEFINE IsOf(f, m) == f = [i \in 0..m |-> next_digits(f, i)]
           T == {m \in 0..n : \E f : IsOf(f, m)}
<1>1. ASSUME NEW m \in Nat, NEW f, NEW g, \A i \in 0..m - 1 : f[i] = g[i]
      PROVE  next_digits(f, m) = next_digits(g, m)
  <2>1. CASE m < 10
    BY <2>1 DEF next_digits
  <2>2. CASE ~ (m < 10)
    BY <1>1, <2>2, Tenth DEF next_digits
  <2> QED  BY <2>1, <2>2
<1>2. 0 \in T
  <2> DEFINE f == [i \in 0..0 |-> <<0>>]
  <2>1. f = [i \in 0..0 |-> next_digits(f, i)]
    <3>1. \A i \in 0..0 : next_digits(f, i) = <<0>>
      BY DEF next_digits
    <3> QED  BY <3>1
  <2>2. IsOf(f, 0)
    <3> HIDE DEF f
    <3> QED  BY <2>1
  <2> HIDE DEF f, IsOf
  <2> QED  BY <2>2
<1>3. ASSUME NEW m \in 0..n, m < n, m \in T
      PROVE  m + 1 \in T
  <2>1. PICK f : IsOf(f, m)
    BY <1>3
  <2> DEFINE g == [i \in 0..m + 1 |-> IF i = m + 1 THEN next_digits(f, m + 1) ELSE f[i]]
  <2>2. m \in Nat /\ m + 1 \in 0..n
    BY <1>3
  <2>3. \A i \in 0..m : g[i] = f[i]
    BY <2>2
  <2>4. \A i \in 0..m : f[i] = next_digits(f, i)
    BY <2>1
  <2>5. ASSUME NEW i \in 0..m + 1
        PROVE  g[i] = next_digits(g, i)
    <3>1. \A j \in 0..i - 1 : f[j] = g[j]
      BY <2>2, <2>3
    <3>2. next_digits(f, i) = next_digits(g, i)
      <4> HIDE DEF g
      <4>1. i \in Nat
        BY <2>2
      <4> QED  BY <1>1, <3>1, <4>1
    <3>3. g[i] = next_digits(f, i)
      <4>1. CASE i = m + 1
        BY <2>2, <4>1
      <4>2. CASE i # m + 1
        <5>1. i \in 0..m
          BY <2>2, <4>2
        <5> HIDE DEF g
        <5> QED  BY <2>3, <2>4, <5>1
      <4> QED  BY <4>1, <4>2
    <3> QED  BY <3>2, <3>3
  <2>6. IsOf(g, m + 1)
    <3>1. g = [i \in 0..m + 1 |-> g[i]]
      OBVIOUS
    <3> HIDE DEF g
    <3> QED  BY <2>5, <3>1
  <2> QED  BY <2>2, <2>6
<1>4. \A m \in 0..n : m \in T
  <2> HIDE DEF T
  <2> QED  BY <1>2, <1>3, InductionUpTo
<1>5. \E f : IsOf(f, n)
  <2>1. n \in T
    <3> HIDE DEF T
    <3> QED  BY <1>4
  <2> HIDE DEF IsOf
  <2> QED  BY <2>1
<1> DEFINE of == CHOOSE f : IsOf(f, n)
<1>6. IsOf(of, n)
  BY <1>5
<1>7. digits_of(n) = of[n]
  BY DEF digits_of, next_digits
<1>8. \A m \in 0..n : of[m] = next_digits(of, m)
  <2> HIDE DEF of
  <2> QED  BY <1>6
<1> HIDE DEF of
<1> QED  BY <1>7, <1>8

(* The recursion of power_of_ten is a definition. *)
LEMMA PowerIsDefined ==
  ASSUME NEW n \in Nat
  PROVE  \E power : /\ power_of_ten(n) = power[n]
                    /\ power[0] = 1 /\ \A i \in 1..n : power[i] = 10 * power[i - 1]
<1> DEFINE IsPower(f, m) == f = [i \in 0..m |-> IF i = 0 THEN 1 ELSE 10 * f[i - 1]]
           T == {m \in 0..n : \E f : IsPower(f, m)}
<1>1. 0 \in T
  <2> DEFINE f == [i \in 0..0 |-> 1]
  <2>1. IsPower(f, 0)
    OBVIOUS
  <2> HIDE DEF f, IsPower
  <2> QED  BY <2>1
<1>2. ASSUME NEW m \in 0..n, m < n, m \in T
      PROVE  m + 1 \in T
  <2>1. PICK f : IsPower(f, m)
    BY <1>2
  <2> DEFINE g == [i \in 0..m + 1 |-> IF i = m + 1 THEN 10 * f[m] ELSE f[i]]
  <2>2. m \in Nat /\ m + 1 \in 0..n
    BY <1>2
  <2>3. \A i \in 0..m : g[i] = f[i]
    BY <2>2
  <2>4. \A i \in 0..m : f[i] = IF i = 0 THEN 1 ELSE 10 * f[i - 1]
    BY <2>1
  <2>5. ASSUME NEW i \in 0..m + 1
        PROVE  g[i] = IF i = 0 THEN 1 ELSE 10 * g[i - 1]
    <3>1. CASE i = m + 1
      <4>1. g[i] = 10 * f[m] /\ i # 0 /\ i - 1 = m /\ g[m] = f[m]
        BY <2>2, <2>3, <3>1
      <4> QED  BY <4>1, <3>1
    <3>2. CASE i # m + 1
      <4>1. i \in 0..m /\ (i # 0 => i - 1 \in 0..m)
        BY <2>2, <3>2
      <4>2. g[i] = f[i] /\ (i # 0 => g[i - 1] = f[i - 1])
        BY <2>3, <4>1
      <4>3. f[i] = IF i = 0 THEN 1 ELSE 10 * f[i - 1]
        BY <2>4, <4>1
      <4> HIDE DEF g
      <4> QED  BY <4>2, <4>3
    <3> QED  BY <3>1, <3>2
  <2>6. IsPower(g, m + 1)
    <3>1. g = [i \in 0..m + 1 |-> g[i]]
      OBVIOUS
    <3> HIDE DEF g
    <3> QED  BY <2>5, <3>1
  <2> QED  BY <2>2, <2>6
<1>3. \A m \in 0..n : m \in T
  <2> HIDE DEF T
  <2> QED  BY <1>1, <1>2, InductionUpTo
<1>4. \E f : IsPower(f, n)
  <2>1. n \in T
    <3> HIDE DEF T
    <3> QED  BY <1>3
  <2> HIDE DEF IsPower
  <2> QED  BY <2>1
<1> DEFINE power == CHOOSE f : IsPower(f, n)
<1>5. IsPower(power, n)
  BY <1>4
<1>6. power_of_ten(n) = power[n]
  BY DEF power_of_ten
<1>7. power[0] = 1 /\ \A i \in 1..n : power[i] = 10 * power[i - 1]
  <2> HIDE DEF power
  <2>1. \A i \in 0..n : power[i] = IF i = 0 THEN 1 ELSE 10 * power[i - 1]
    BY <1>5
  <2> QED  BY <2>1
<1> HIDE DEF power
<1> QED  BY <1>6, <1>7

(* The digits of a number stand for it, and there are at most n of them     *)
(* when it is below the n-th power of ten.                                  *)
LEMMA DigitsReadBack ==
  ASSUME NEW i \in Nat, NEW n \in Nat \ {0}
  PROVE  /\ digits_of(i) \in Seq(0..9) /\ index_of(digits_of(i)) = i
         /\ Len(digits_of(i)) <= n <=> i < power_of_ten(n)
<1>1. PICK of : digits_of(i) = of[i] /\ \A m \in 0..i : of[m] = next_digits(of, m)
  BY DigitsIsDefined
<1>2. PICK power : /\ power_of_ten(n) = power[n]
                   /\ power[0] = 1 /\ \A l \in 1..n : power[l] = 10 * power[l - 1]
  BY PowerIsDefined
<1>3. \A l \in 0..n : power[l] \in Nat \ {0}
  <2> DEFINE S == {l \in 0..n : power[l] \in Nat \ {0}}
  <2>1. 0 \in S
    BY <1>2
  <2>2. ASSUME NEW l \in 0..n, l < n, l \in S PROVE l + 1 \in S
    <3>1. l + 1 \in 1..n /\ (l + 1) - 1 = l /\ l + 1 \in 0..n
      BY <2>2
    <3>2. power[l + 1] = 10 * power[l]
      BY <1>2, <3>1
    <3>3. power[l] \in Nat \ {0}
      BY <2>2
    <3> QED  BY <3>1, <3>2, <3>3
  <2>3. \A l \in 0..n : l \in S
    <3> HIDE DEF S
    <3> QED  BY <2>1, <2>2, InductionUpTo
  <2> QED  BY <2>3
<1> DEFINE Good(m) == /\ of[m] \in Seq(0..9) /\ index_of(of[m]) = m /\ Len(of[m]) >= 1
                      /\ \A l \in 1..n : Len(of[m]) <= l <=> m < power[l]
           T == {m \in Nat : m <= i => Good(m)}
<1>4. ASSUME NEW m \in Nat, \A l \in Nat : l < m => l \in T
      PROVE  m \in T
  <2> SUFFICES ASSUME m <= i PROVE Good(m)
    OBVIOUS
  <2>1. of[m] = next_digits(of, m)
    BY <1>1
  <2>2. CASE m < 10
    <3>1. of[m] = <<m>> /\ m \in 0..9
      BY <2>1, <2>2 DEF next_digits
    <3>2. index_of(of[m]) = m
      BY <3>1, IndexOfOne
    <3>3. of[m] \in Seq(0..9) /\ Len(of[m]) = 1
      BY <3>1
    <3>4. ASSUME NEW l \in 1..n PROVE m < power[l]
      <4>1. power[l] = 10 * power[l - 1] /\ power[l - 1] \in Nat \ {0}
        BY <1>2, <1>3
      <4> QED  BY <2>2, <4>1
    <3> QED  BY <3>2, <3>3, <3>4
  <2>3. CASE ~ (m < 10)
    <3> DEFINE q == m \div 10
               d == m % 10
    <3>1. q \in Nat /\ q < m /\ q <= i /\ q >= 1 /\ d \in 0..9 /\ 10 * q + d = m
      BY <2>3, Tenth
    <3>2. of[m] = Append(of[q], d)
      BY <2>1, <2>3 DEF next_digits
    <3> HIDE DEF q, d
    <3>3. Good(q)
      BY <1>4, <3>1
    <3>4. of[m] \in Seq(0..9) /\ Len(of[m]) = Len(of[q]) + 1 /\ Len(of[q]) \in Nat
      BY <3>1, <3>2, <3>3
    <3>5. index_of(of[m]) = m
      BY <3>1, <3>2, <3>3, IndexAppend
    <3>6. ASSUME NEW l \in 1..n PROVE Len(of[m]) <= l <=> m < power[l]
      <4>1. power[l] = 10 * power[l - 1] /\ power[l - 1] \in Nat /\ l - 1 \in 0..n
        BY <1>2, <1>3
      <4>2. m < power[l] <=> q < power[l - 1]
        BY <3>1, <4>1
      <4>3. CASE l = 1
        <5>1. power[l - 1] = 1
          BY <1>2, <4>3
        <5>2. ~ (q < power[l - 1])
          BY <3>1, <5>1
        <5>3. ~ (Len(of[m]) <= l)
          BY <3>3, <3>4, <4>3
        <5> QED  BY <4>2, <5>2, <5>3
      <4>4. CASE l # 1
        <5>1. l - 1 \in 1..n
          BY <4>4
        <5>2. Len(of[q]) <= l - 1 <=> q < power[l - 1]
          BY <3>3, <5>1
        <5>3. Len(of[m]) <= l <=> Len(of[q]) <= l - 1
          BY <3>4
        <5> QED  BY <4>2, <5>2, <5>3
      <4> QED  BY <4>3, <4>4
    <3>7. Len(of[m]) >= 1
      BY <3>4
    <3> QED  BY <3>4, <3>5, <3>6, <3>7
  <2> QED  BY <2>2, <2>3
<1>5. i \in T
  <2> HIDE DEF T
  <2>1. Nat \subseteq T
    BY <1>4, StrongInduction
  <2> QED  BY <2>1
<1>6. Good(i)
  <2> HIDE DEF Good
  <2> QED  BY <1>5
<1>7. n \in 1..n
  OBVIOUS
<1> QED  BY <1>1, <1>2, <1>6, <1>7
-----------------------------------------------------------------------------
Readable(k) == k # <<>> /\ \A part \in ToSet(k) : part.kind = "index" => part.index < power_of_ten(MaxIndexDigits)

(* The word of a part is read as that part, or not at all. *)
LEMMA WordOfPart ==
  ASSUME NEW k \in Seq(ValuePart), NEW i \in 1..Len(k)
  PROVE  LET w == to_string(k)[i]
         IN  /\ whole(w)
             /\ \/ k[i].kind = "name" /\ w.form \in Names1 /\ IsRead(w) /\ part_read(w) = k[i]
                \/ /\ k[i].kind = "index" /\ w.form = "digits" /\ part_read(w) = k[i]
                   /\ IsRead(w) <=> k[i].index < power_of_ten(MaxIndexDigits)
<1> DEFINE w == to_string(k)[i]
<1>1. k[i] \in ValuePart /\ i \in DOMAIN k
  OBVIOUS
<1>2. CASE k[i].kind = "name"
  <2>1. w = name_to_string(k[i].name)
    BY <1>1, <1>2 DEF to_string
  <2>2. k[i] = NamePart(k[i].name)
    BY <1>1, <1>2 DEF ValuePart, NamePart
  <2> HIDE DEF w
  <2>3. w.form \in Names1 /\ w.name = k[i].name
    BY <2>1 DEF name_to_string, IdentWord, QuotedWord, Names1
  <2>4. whole(w) /\ IsRead(w)
    BY <2>3 DEF whole, IsRead, Names1
  <2>5. part_read(w) = NamePart(w.name)
    BY <2>3 DEF part_read, part_of, Names1
  <2> QED  BY <1>2, <2>2, <2>3, <2>4, <2>5 DEF w
<1>3. CASE k[i].kind # "name"
  <2> DEFINE ds == digits_of(k[i].index)
  <2>1. k[i].kind = "index" /\ k[i].index \in Nat /\ k[i] = IndexPart(k[i].index)
    BY <1>1, <1>3 DEF ValuePart, IndexPart
  <2>2. w = DigitsWord(ds)
    BY <1>1, <1>3 DEF to_string
  <2>3. /\ index_of(ds) = k[i].index
        /\ Len(ds) <= MaxIndexDigits <=> k[i].index < power_of_ten(MaxIndexDigits)
    BY <2>1, DigitsReadBack, KeyTextAssumption
  <2> HIDE DEF w, ds
  <2>4. w.form = "digits" /\ w.digits = ds
    BY <2>2 DEF DigitsWord
  <2>5. whole(w) /\ (IsRead(w) <=> Len(ds) <= MaxIndexDigits)
    BY <2>4 DEF whole, IsRead
  <2>6. part_read(w) = IndexPart(index_of(ds))
    BY <2>4 DEF part_read, part_of
  <2> QED  BY <2>1, <2>3, <2>4, <2>5, <2>6 DEF w
<1> QED  BY <1>2, <1>3

(* What is read from the text of a key, when names and indices are read     *)
(* after the first word. *)
LEMMA TextReadBack ==
  ASSUME NEW k \in Seq(ValuePart), NEW first, NEW other, Names1 \cup {"digits"} \subseteq other,
         NEW r, r = keys_read(to_string(k), first, other)
  PROVE  (r.error = "none" /\ r.parts = k) <=> (Readable(k) /\ to_string(k)[1].form \in first)
<1> DEFINE text == to_string(k)
           n    == Len(k)
           Fits(i) == matches(text, first, other, i) /\ whole(text[i])
<1>1. n \in Nat /\ DOMAIN k = 1..n /\ DOMAIN text = 1..n
  BY DEF to_string
<1>2. (text = <<>> <=> n = 0) /\ (k = <<>> <=> n = 0)
  <2>1. text = [i \in 1..n |-> text[i]]
    BY <1>1 DEF to_string
  <2> HIDE DEF text
  <2>2. n = 0 => text = <<>>
    BY <2>1
  <2>3. text = <<>> => n = 0
    <3> SUFFICES ASSUME text = <<>> PROVE n = 0
      OBVIOUS
    <3>1. DOMAIN text = {}
      OBVIOUS
    <3> HIDE DEF n
    <3>2. n # 0 => 1 \in 1..n
      BY <1>1
    <3> QED  BY <1>1, <3>1, <3>2
  <2> QED  BY <1>1, <2>2, <2>3
<1>3. \A i \in 1..n : IsRead(text[i]) <=> (k[i].kind = "index" => k[i].index < power_of_ten(MaxIndexDigits))
  BY WordOfPart DEF Names1
<1>4. \A i \in 1..n : whole(text[i]) /\ part_read(text[i]) = k[i]
  BY WordOfPart
<1>5. \A i \in 1..n : text[i].form \in Names1 \cup {"digits"}
  BY WordOfPart
<1> HIDE DEF text
<1>6. all_read(text, first, other) <=> n # 0 /\ \A i \in 1..n : Fits(i)
  BY <1>1, <1>2 DEF all_read
<1>7. Readable(k) <=> n # 0 /\ \A i \in 1..n : IsRead(text[i])
  BY <1>1, <1>2, <1>3 DEF Readable, ToSet
<1>8. \A i \in 1..n : matches(text, first, other, i) <=> IsRead(text[i]) /\ (i = 1 => text[1].form \in first)
  BY <1>5 DEF matches
<1>9. all_read(text, first, other) <=> Readable(k) /\ text[1].form \in first
  <2>1. n # 0 => 1 \in 1..n
    BY <1>1
  <2> QED  BY <1>4, <1>6, <1>7, <1>8, <2>1
<1>10. r.error = "none" <=> all_read(text, first, other)
  <2>1. r.error = IF all_read(text, first, other) THEN "none" ELSE "parse_error"
    BY KeysReadError DEF text
  <2> QED  BY <2>1
<1>11. ASSUME all_read(text, first, other) PROVE r.parts = k
  <2>1. r.parts = [i \in added(text, first, other) |-> part_read(text[i])]
    BY KeysRead DEF text
  <2>2. added(text, first, other) = 1..n
    <3>1. \A i \in 1..n : Fits(i)
      BY <1>6, <1>11
    <3>2. ASSUME NEW i \in 1..n PROVE i \in added(text, first, other)
      <4>1. \A j \in 1..i - 1 : j \in 1..n
        BY <1>1
      <4>2. \A j \in 1..i - 1 : Fits(j)
        <5> HIDE DEF Fits
        <5> QED  BY <3>1, <4>1
      <4> QED  BY <1>1, <3>1, <4>2 DEF added
    <3> QED  BY <1>1, <3>2 DEF added
  <2>3. \A i \in 1..n : part_read(text[i]) = k[i]
    BY <1>4
  <2>4. k = [i \in 1..n |-> k[i]]
    BY <1>1
  <2> QED  BY <2>1, <2>2, <2>3, <2>4
<1> QED  BY <1>9, <1>10, <1>11 DEF text

(* The three ways to read a key. *)
LEMMA KeyReadBack ==
  ASSUME NEW k \in Seq(ValuePart)
  PROVE  LET same(r) == r.error = "none" /\ r.parts = k
         IN  /\ Readable(k) <=> same(parse_key1(to_string(k)))
             /\ Readable(k) <=> same(parse_reference2(to_string(k)))
             /\ Readable(k) /\ Head(k).kind = "name" <=> same(parse_key(to_string(k)))
<1> DEFINE text    == to_string(k)
           same(r) == r.error = "none" /\ r.parts = k
<1>1. Readable(k) => 1 \in 1..Len(k) /\ Head(k) = k[1]
  BY DEF Readable
<1>2. Readable(k) => /\ text[1].form \in Names1 \cup {"digits"}
                     /\ text[1].form \in Names1 <=> Head(k).kind = "name"
  <2> SUFFICES ASSUME Readable(k)
               PROVE  /\ text[1].form \in Names1 \cup {"digits"}
                      /\ text[1].form \in Names1 <=> k[1].kind = "name"
    BY <1>1
  <2>1. \/ k[1].kind = "name" /\ text[1].form \in Names1
        \/ k[1].kind = "index" /\ text[1].form = "digits"
    BY <1>1, WordOfPart
  <2> HIDE DEF text
  <2> QED  BY <2>1 DEF Names1
<1> HIDE DEF text
<1>3. ASSUME NEW first, NEW other, Names1 \cup {"digits"} \subseteq other
      PROVE  same(keys_read(text, first, other)) <=> Readable(k) /\ text[1].form \in first
  BY <1>3, TextReadBack DEF text
<1>4. same(parse_key1(text)) <=> Readable(k)
  <2> DEFINE S == Names1 \cup {"digits", "asterisk"}
  <2>1. same(keys_read(text, S, S)) <=> Readable(k) /\ text[1].form \in S
    BY <1>3
  <2>2. parse_key1(text) = keys_read(text, S, S)
    BY DEF parse_key1
  <2> HIDE DEF same
  <2> QED  BY <1>2, <2>1, <2>2
<1>5. same(parse_reference2(text)) <=> Readable(k)
  <2> DEFINE S == Names1 \cup {"digits", "brackets"}
  <2>1. same(keys_read(text, S, S)) <=> Readable(k) /\ text[1].form \in S
    BY <1>3
  <2>2. parse_reference2(text) = keys_read(text, S, S)
    BY DEF parse_reference2
  <2> HIDE DEF same
  <2> QED  BY <1>2, <2>1, <2>2
<1>6. same(parse_key(text)) <=> Readable(k) /\ Head(k).kind = "name"
  <2> DEFINE S == Names1 \cup {"digits"}
  <2>1. same(keys_read(text, Names1, S)) <=> Readable(k) /\ text[1].form \in Names1
    BY <1>3
  <2>2. parse_key(text) = keys_read(text, Names1, S)
    BY DEF parse_key
  <2> HIDE DEF same
  <2> QED  BY <1>2, <2>1, <2>2
<1> QED  BY <1>4, <1>5, <1>6 DEF text
=============================================================================
