--------------------------- MODULE Phase1TreeProofs ---------------------------
(***************************************************************************)
(* Proofs about the tree that phase 1 builds, for every set of keys,       *)
(* values, references and functions and for every nesting limit: how deep  *)
(* it is, that the elements which a list goes on with are there, that no   *)
(* value is below an implicit member, that a value in a list is one        *)
(* element of it, and that nothing is lost but by "=".                     *)
(***************************************************************************)
EXTENDS Phase1Proofs, NaturalLemmas

-----------------------------------------------------------------------------
(* The shape of sequences, entries and concats. *)
IsSeq(s) == \E S : s \in Seq(S)

IsEntry(e) ==
  /\ e.kind \in AtomKinds \cup {"array", "object", "asterisk", "reference"}
  /\ e.kind = "array"    => e = FunctionEntry(e.function, e.array) /\ IsSeq(e.array)
  /\ e.kind = "object"   => e = ObjectEntry(e.object) /\ e.object = [n \in DOMAIN e.object |-> e.object[n]]
  /\ e.kind = "asterisk" => e = AsteriskEntry(e.asterisk)
  /\ e.kind # "object"   => \A d \in Below(e) : ~ d.implicit

(* g is the largest generation. *)
IsConcat(c, g) ==
  /\ c = [remove |-> c.remove, implicit |-> c.implicit, temporary |-> c.temporary,
          generation |-> c.generation, concat |-> c.concat]
  /\ c.implicit \in BOOLEAN
  /\ c.generation \in 0..g
  /\ IsSeq(c.concat)
  /\ \A i \in 1..Len(c.concat) : IsEntry(c.concat[i])

LEMMA AppendSeq ==
  ASSUME NEW s, NEW e, IsSeq(s)
  PROVE  /\ IsSeq(Append(s, e)) /\ Len(Append(s, e)) = Len(s) + 1 /\ Len(s) \in Nat
         /\ \A i \in 1..Len(s) : Append(s, e)[i] = s[i]
         /\ Append(s, e)[Len(s) + 1] = e /\ Append(s, e) # <<>>
         /\ Last(Append(s, e)) = e
<1>1. PICK S : s \in Seq(S)
  BY DEF IsSeq
<1>2. s \in Seq(S \cup {e}) /\ e \in S \cup {e}
  BY <1>1
<1> DEFINE T == S \cup {e}
<1> HIDE DEF T
<1>3. Append(s, e) \in Seq(T)
  BY <1>2 DEF T
<1> QED  BY <1>2, <1>3 DEF IsSeq, Last, T

LEMMA ReplaceLastSeq ==
  ASSUME NEW s, NEW e, IsSeq(s), s # <<>>
  PROVE  LET t == Append(Front(s), e)
         IN  /\ IsSeq(t) /\ Len(t) = Len(s) /\ Len(s) \in Nat \ {0} /\ t # <<>>
             /\ \A i \in 1..Len(s) - 1 : t[i] = s[i]
             /\ t[Len(s)] = e /\ Last(t) = e
<1>1. PICK S : s \in Seq(S)
  BY DEF IsSeq
<1>2. /\ Len(s) \in Nat \ {0} /\ Front(s) \in Seq(S) /\ Len(Front(s)) = Len(s) - 1
      /\ \A i \in 1..Len(s) - 1 : Front(s)[i] = s[i]
  BY <1>1, FrontOfSeq
<1> DEFINE f == Front(s)
<1> HIDE DEF f
<1>3. IsSeq(f) /\ Len(f) = Len(s) - 1 /\ \A i \in 1..Len(s) - 1 : f[i] = s[i]
  BY <1>2 DEF IsSeq, f
<1>4. /\ IsSeq(Append(f, e)) /\ Len(Append(f, e)) = Len(f) + 1
      /\ \A i \in 1..Len(f) : Append(f, e)[i] = f[i]
      /\ Append(f, e)[Len(f) + 1] = e /\ Append(f, e) # <<>> /\ Last(Append(f, e)) = e
  BY <1>3, AppendSeq
<1> QED  BY <1>2, <1>3, <1>4 DEF f

(* A concat with other entries. *)
LEMMA WithEntries ==
  ASSUME NEW c, NEW g, NEW q, NEW d, IsConcat(c, g), IsSeq(q), \A i \in 1..Len(q) : IsEntry(q[i]),
         d = [c EXCEPT !.concat = q]
  PROVE  IsConcat(d, g) /\ d.concat = q /\ d.implicit = c.implicit /\ d.generation = c.generation
BY DEF IsConcat

SameFlags(d, c) == d.implicit = c.implicit /\ d.generation = c.generation

LEMMA BelowBack ==
  ASSUME NEW c, NEW g, IsConcat(c, g), c.concat # <<>>
  PROVE  IsEntry(Back(c)) /\ Below(Back(c)) \subseteq BelowConcat(c)
<1>1. PICK S : c.concat \in Seq(S)
  BY DEF IsConcat, IsSeq
<1>2. Len(c.concat) \in 1..Len(c.concat) /\ Len(c.concat) \in DOMAIN c.concat
  BY <1>1
<1>3. Back(c) = c.concat[Len(c.concat)]
  BY DEF Back, Last
<1> QED  BY <1>2, <1>3 DEF IsConcat, BelowConcat

LEMMA BelowEntries ==
  ASSUME NEW c, NEW g, IsConcat(c, g)
  PROVE  DOMAIN c.concat = 1..Len(c.concat) /\ Len(c.concat) \in Nat
         /\ (c.concat = <<>> <=> Len(c.concat) = 0)
<1>1. PICK S : c.concat \in Seq(S)
  BY DEF IsConcat, IsSeq
<1> QED  BY <1>1

-----------------------------------------------------------------------------
(* Hollow concats.  As induction over data is out of reach, a predicate     *)
(* that holds of a concat and of all below it is the existence of a set     *)
(* that is closed under BelowConcat; two lemmas, below and above, unfold    *)
(* and fold it from there on.                                               *)

HollowSet(H) == \A c \in H : implicit_entries(c) /\ BelowConcat(c) \subseteq H

(* No value is in c. *)
Hollow(c) == \E H : HollowSet(H) /\ c \in H

HollowEntry(e) ==
  /\ e.kind \in {"object", "asterisk"}
  /\ e.kind = "object" => \A d \in Below(e) : d.implicit
  /\ \A d \in Below(e) : Hollow(d)

LEMMA HollowBelow ==
  ASSUME NEW c, Hollow(c)
  PROVE  implicit_entries(c) /\ \A d \in BelowConcat(c) : Hollow(d)
BY DEF Hollow, HollowSet

LEMMA HollowAbove ==
  ASSUME NEW c, implicit_entries(c), \A d \in BelowConcat(c) : Hollow(d)
  PROVE  Hollow(c)
<1> DEFINE HH(d) == CHOOSE H : HollowSet(H) /\ d \in H
           G     == {c} \cup UNION {HH(d) : d \in BelowConcat(c)}
<1>1. \A d \in BelowConcat(c) : HollowSet(HH(d)) /\ d \in HH(d)
  BY DEF Hollow
<1> HIDE DEF HH
<1>2. ASSUME NEW x \in G PROVE implicit_entries(x) /\ BelowConcat(x) \subseteq G
  <2>1. CASE x = c
    BY <1>1, <2>1
  <2>2. CASE x # c
    <3>1. PICK d \in BelowConcat(c) : x \in HH(d)
      BY <2>2
    <3>2. implicit_entries(x) /\ BelowConcat(x) \subseteq HH(d)
      BY <1>1, <3>1 DEF HollowSet
    <3> QED  BY <3>2
  <2> QED  BY <2>1, <2>2
<1>3. c \in G
  OBVIOUS
<1> HIDE DEF G
<1> QED  BY <1>2, <1>3 DEF Hollow, HollowSet

LEMMA HollowBack ==
  ASSUME NEW c, NEW g, IsConcat(c, g), c.concat # <<>>, Hollow(c)
  PROVE  HollowEntry(Back(c))
<1>1. PICK S : c.concat \in Seq(S)
  BY DEF IsConcat, IsSeq
<1>2. Len(c.concat) \in DOMAIN c.concat /\ Back(c) = c.concat[Len(c.concat)]
  BY <1>1 DEF Back, Last
<1>3. implicit_entries(c) /\ \A d \in BelowConcat(c) : Hollow(d)
  BY HollowBelow
<1>4. Below(Back(c)) \subseteq BelowConcat(c)
  BY BelowBack
<1> QED  BY <1>2, <1>3, <1>4 DEF HollowEntry, implicit_entries

-----------------------------------------------------------------------------
(* What is below a concat whose entries are those of another one but for    *)
(* one of them. *)
LEMMA BelowOther ==
  ASSUME NEW c, NEW g, NEW d, NEW e, NEW n, IsConcat(c, g), IsConcat(d, g),
         n \in 1..Len(d.concat), d.concat[n] = e,
         \A i \in 1..Len(d.concat) : i # n => i \in 1..Len(c.concat) /\ d.concat[i] = c.concat[i]
  PROVE  /\ BelowConcat(d) \subseteq BelowConcat(c) \cup Below(e)
         /\ Hollow(c) /\ HollowEntry(e) => Hollow(d)
<1>1. DOMAIN d.concat = 1..Len(d.concat) /\ DOMAIN c.concat = 1..Len(c.concat)
  BY BelowEntries
<1>2. ASSUME NEW x \in BelowConcat(d) PROVE x \in BelowConcat(c) \cup Below(e)
  <2>1. PICK i \in 1..Len(d.concat) : x \in Below(d.concat[i])
    BY <1>1 DEF BelowConcat
  <2>2. CASE i = n
    BY <2>1, <2>2
  <2>3. CASE i # n
    <3>1. i \in DOMAIN c.concat /\ d.concat[i] = c.concat[i]
      BY <1>1, <2>3
    <3> QED  BY <2>1, <3>1 DEF BelowConcat
  <2> QED  BY <2>2, <2>3
<1>3. BelowConcat(d) \subseteq BelowConcat(c) \cup Below(e)
  BY <1>2
<1>4. ASSUME Hollow(c), HollowEntry(e) PROVE Hollow(d)
  <2>1. implicit_entries(c) /\ \A x \in BelowConcat(c) : Hollow(x)
    BY <1>4, HollowBelow
  <2>2. \A x \in BelowConcat(d) : Hollow(x)
    BY <1>3, <1>4, <2>1 DEF HollowEntry
  <2>3. ASSUME NEW i \in DOMAIN d.concat
        PROVE  /\ d.concat[i].kind \in {"object", "asterisk"}
               /\ d.concat[i].kind = "object" => \A x \in Below(d.concat[i]) : x.implicit
    <3>1. CASE i = n
      BY <1>4, <3>1 DEF HollowEntry
    <3>2. CASE i # n
      <4>1. i \in DOMAIN c.concat /\ d.concat[i] = c.concat[i]
        BY <1>1, <3>2
      <4> QED  BY <2>1, <4>1 DEF implicit_entries
    <3> QED  BY <3>1, <3>2
  <2>4. implicit_entries(d)
    BY <2>3 DEF implicit_entries
  <2> QED  BY <2>2, <2>4, HollowAbove
<1> QED  BY <1>3, <1>4

(* Nothing is below d but what is below c or below the entry e. *)
Gained(d, c, e) == BelowConcat(d) \subseteq BelowConcat(c) \cup Below(e)

with_entry(c, e) == [c EXCEPT !.concat = Append(c.concat, e)]

LEMMA AppendEntry ==
  ASSUME NEW c, NEW g, NEW e, NEW d, IsConcat(c, g), IsEntry(e), d = with_entry(c, e)
  PROVE  /\ IsConcat(d, g) /\ SameFlags(d, c) /\ d.concat # <<>> /\ Back(d) = e
         /\ Gained(d, c, e)
         /\ Hollow(c) /\ HollowEntry(e) => Hollow(d)
<1> DEFINE q == Append(c.concat, e)
<1>1. IsSeq(c.concat)
  BY DEF IsConcat
<1>2. /\ IsSeq(q) /\ Len(q) = Len(c.concat) + 1 /\ Len(c.concat) \in Nat
      /\ \A i \in 1..Len(c.concat) : q[i] = c.concat[i]
      /\ q[Len(c.concat) + 1] = e /\ q # <<>> /\ Last(q) = e
  BY <1>1, AppendSeq
<1>0. d = [c EXCEPT !.concat = q]
  BY DEF with_entry
<1> HIDE DEF q
<1>3. \A i \in 1..Len(q) : i \in 1..Len(c.concat) \/ i = Len(c.concat) + 1
  BY <1>2
<1>4. \A i \in 1..Len(q) : IsEntry(q[i])
  BY <1>2, <1>3 DEF IsConcat
<1>5. IsConcat(d, g) /\ d.concat = q /\ SameFlags(d, c)
  BY <1>0, <1>2, <1>4, WithEntries DEF SameFlags
<1> DEFINE n == Len(c.concat) + 1
<1>6. n \in 1..Len(d.concat) /\ d.concat[n] = e
  BY <1>2, <1>5
<1>7. \A i \in 1..Len(d.concat) : i # n => i \in 1..Len(c.concat) /\ d.concat[i] = c.concat[i]
  BY <1>2, <1>3, <1>5
<1>9. /\ BelowConcat(d) \subseteq BelowConcat(c) \cup Below(e)
      /\ Hollow(c) /\ HollowEntry(e) => Hollow(d)
  <2> HIDE DEF n
  <2> QED  BY <1>5, <1>6, <1>7, BelowOther
<1> QED
  <2>1. Back(d) = e /\ d.concat # <<>>
    BY <1>2, <1>5 DEF Back
  <2> QED  BY <1>5, <1>9, <2>1 DEF Gained

LEMMA ReplaceEntry ==
  ASSUME NEW c, NEW g, NEW e, NEW d, IsConcat(c, g), IsEntry(e), c.concat # <<>>,
         d = ReplaceBack(c, e)
  PROVE  /\ IsConcat(d, g) /\ SameFlags(d, c) /\ d.concat # <<>> /\ Back(d) = e
         /\ Gained(d, c, e)
         /\ Hollow(c) /\ HollowEntry(e) => Hollow(d)
<1> DEFINE q == Append(Front(c.concat), e)
           n == Len(c.concat)
<1>1. IsSeq(c.concat)
  BY DEF IsConcat
<1>2. /\ IsSeq(q) /\ Len(q) = n /\ n \in Nat \ {0} /\ q # <<>>
      /\ \A i \in 1..n - 1 : q[i] = c.concat[i]
      /\ q[n] = e /\ Last(q) = e
  BY <1>1, ReplaceLastSeq
<1>3. d = [c EXCEPT !.concat = q]
  BY DEF ReplaceBack
<1> HIDE DEF q
<1>4. \A i \in 1..n : i \in 1..n - 1 \/ i = n
  BY <1>2
<1>5. \A i \in 1..Len(q) : IsEntry(q[i])
  BY <1>2, <1>4 DEF IsConcat
<1>6. IsConcat(d, g) /\ d.concat = q /\ SameFlags(d, c)
  BY <1>2, <1>3, <1>5, WithEntries DEF SameFlags
<1>7. n \in 1..Len(d.concat) /\ d.concat[n] = e
  BY <1>2, <1>6
<1>8. \A i \in 1..Len(d.concat) : i # n => i \in 1..n /\ d.concat[i] = c.concat[i]
  BY <1>2, <1>4, <1>6
<1>9. /\ BelowConcat(d) \subseteq BelowConcat(c) \cup Below(e)
      /\ Hollow(c) /\ HollowEntry(e) => Hollow(d)
  <2> HIDE DEF n
  <2>1. \A i \in 1..Len(d.concat) : i # n => i \in 1..Len(c.concat) /\ d.concat[i] = c.concat[i]
    BY <1>8 DEF n
  <2> QED  BY <1>6, <1>7, <2>1, BelowOther
<1> QED  BY <1>2, <1>6, <1>9 DEF Back, Gained

(* New entries have nothing below them. *)
LEMMA NewEntries ==
  /\ IsEntry(ArrayEntry(<<>>)) /\ Below(ArrayEntry(<<>>)) = {}
  /\ IsEntry(ObjectEntry(EmptyObject)) /\ Below(ObjectEntry(EmptyObject)) = {}
  /\ IsEntry(AsteriskEntry(NewConcat)) /\ Below(AsteriskEntry(NewConcat)) = {NewConcat}
  /\ \A g \in Nat : IsConcat(NewConcat, g)
  /\ BelowConcat(NewConcat) = {} /\ NewConcat.generation = 0 /\ NewConcat.implicit = FALSE
  /\ NewConcat.concat = <<>>
<1>1. IsSeq(<<>>) /\ ToSet(<<>>) = {}
  BY DEF IsSeq, ToSet
<1>2. IsEntry(ArrayEntry(<<>>)) /\ Below(ArrayEntry(<<>>)) = {}
  BY <1>1 DEF IsEntry, ArrayEntry, FunctionEntry, Below
<1>3. IsEntry(ObjectEntry(EmptyObject)) /\ Below(ObjectEntry(EmptyObject)) = {}
  <2>1. DOMAIN EmptyObject = {} /\ EmptyObject = [n \in DOMAIN EmptyObject |-> EmptyObject[n]]
    BY DEF EmptyObject
  <2>2. ObjectEntry(EmptyObject).kind = "object" /\ ObjectEntry(EmptyObject).object = EmptyObject
    BY DEF ObjectEntry
  <2> HIDE DEF EmptyObject
  <2> QED  BY <2>1, <2>2 DEF IsEntry, ObjectEntry, Below
<1>4. BelowConcat(NewConcat) = {} /\ NewConcat.implicit = FALSE
  BY DEF NewConcat, BelowConcat
<1>5. IsEntry(AsteriskEntry(NewConcat)) /\ Below(AsteriskEntry(NewConcat)) = {NewConcat}
  <2>1. /\ AsteriskEntry(NewConcat).kind = "asterisk"
        /\ AsteriskEntry(NewConcat).asterisk = NewConcat
    BY DEF AsteriskEntry
  <2>2. Below(AsteriskEntry(NewConcat)) = {NewConcat}
    BY <2>1 DEF Below
  <2> QED  BY <1>4, <2>1, <2>2 DEF IsEntry, AsteriskEntry
<1>6. \A g \in Nat : IsConcat(NewConcat, g)
  BY <1>1 DEF IsConcat, NewConcat
<1> QED  BY <1>2, <1>3, <1>4, <1>5, <1>6 DEF NewConcat

LEMMA EnsureEntry ==
  ASSUME NEW c, NEW g, NEW e, NEW d, IsConcat(c, g), IsEntry(e), d = back_ensure_init(c, e)
  PROVE  /\ IsConcat(d, g) /\ SameFlags(d, c) /\ d.concat # <<>> /\ Back(d).kind = e.kind
         /\ Gained(d, c, e)
         /\ Hollow(c) /\ HollowEntry(e) => Hollow(d)
         /\ d = c \/ Back(d) = e
<1>1. CASE c.concat # <<>> /\ Back(c).kind = e.kind
  BY <1>1 DEF back_ensure_init, SameFlags, Gained
<1>2. CASE ~ (c.concat # <<>> /\ Back(c).kind = e.kind)
  <2>1. d = with_entry(c, e)
    BY <1>2 DEF back_ensure_init, with_entry
  <2> QED  BY <2>1, AppendEntry
<1> QED  BY <1>1, <1>2

-----------------------------------------------------------------------------
(* Where an index leads to. *)

size(e) == IF e.kind = "array" THEN Len(e.array) ELSE 0

(* The recursion of elements_before is a definition. *)
LEMMA BeforeIsDefined ==
  ASSUME NEW c, Len(c.concat) \in Nat
  PROVE  \E first : /\ \A i : elements_before(c, i) = first[i - 1]
                    /\ first[0] = 0
                    /\ \A i \in 1..Len(c.concat) : first[i] = first[i - 1] + size(c.concat[i])
<1> DEFINE n       == Len(c.concat)
           Up(s, i) == s + size(c.concat[i])
           IsFirst(f, m) == f = [i \in 0..m |-> IF i = 0 THEN 0 ELSE Up(f[i - 1], i)]
           T       == {m \in 0..n : \E f : IsFirst(f, m)}
<1>1. n \in Nat
  OBVIOUS
<1> HIDE DEF n, Up
<1>2. 0 \in T
  <2> DEFINE f == [i \in 0..0 |-> 0]
  <2>1. IsFirst(f, 0)
    OBVIOUS
  <2> HIDE DEF f, IsFirst
  <2>2. 0 \in 0..n
    BY <1>1
  <2> QED  BY <2>1, <2>2
<1>3. ASSUME NEW m \in 0..n, m < n, m \in T
      PROVE  m + 1 \in T
  <2>1. PICK f : IsFirst(f, m)
    BY <1>3
  <2> DEFINE g == [i \in 0..m + 1 |-> IF i = m + 1 THEN Up(f[m], m + 1) ELSE f[i]]
  <2>2. m \in Nat /\ m + 1 \in 0..n
    BY <1>1, <1>3
  <2>3. \A i \in 0..m : g[i] = f[i]
    BY <2>2
  <2>4. \A i \in 0..m : f[i] = IF i = 0 THEN 0 ELSE Up(f[i - 1], i)
    BY <2>1
  <2>5. ASSUME NEW i \in 0..m + 1
        PROVE  g[i] = IF i = 0 THEN 0 ELSE Up(g[i - 1], i)
    <3>1. CASE i = m + 1
      <4>1. g[i] = Up(f[m], m + 1) /\ i # 0 /\ i - 1 = m /\ g[m] = f[m]
        BY <2>2, <2>3, <3>1
      <4> QED  BY <4>1, <3>1
    <3>2. CASE i # m + 1
      <4>1. i \in 0..m /\ (i # 0 => i - 1 \in 0..m)
        BY <2>2, <3>2
      <4>2. g[i] = f[i] /\ (i # 0 => g[i - 1] = f[i - 1])
        BY <2>3, <4>1
      <4>3. f[i] = IF i = 0 THEN 0 ELSE Up(f[i - 1], i)
        BY <2>4, <4>1
      <4> HIDE DEF g
      <4> QED  BY <4>2, <4>3
    <3> QED  BY <3>1, <3>2
  <2>6. IsFirst(g, m + 1)
    <3>1. g = [i \in 0..m + 1 |-> g[i]]
      OBVIOUS
    <3> HIDE DEF g
    <3> QED  BY <2>5, <3>1
  <2> QED  BY <2>2, <2>6
<1>4. \A m \in 0..n : m \in T
  <2> HIDE DEF T
  <2> QED  BY <1>1, <1>2, <1>3, InductionUpTo
<1>5. \E f : IsFirst(f, n)
  <2>1. n \in T
    <3> HIDE DEF T
    <3> QED  BY <1>1, <1>4
  <2> HIDE DEF IsFirst
  <2> QED  BY <2>1
<1> DEFINE first == CHOOSE f : IsFirst(f, n)
<1>6. IsFirst(first, n)
  BY <1>5
<1>7. \A i : elements_before(c, i) = first[i - 1]
  BY DEF elements_before, n, Up, size
<1> HIDE DEF first
<1>8. \A i \in 0..n : first[i] = IF i = 0 THEN 0 ELSE Up(first[i - 1], i)
  BY <1>6
<1>9. first[0] = 0
  BY <1>1, <1>8
<1>10. \A i \in 1..n : first[i] = Up(first[i - 1], i)
  BY <1>1, <1>8
<1> QED  BY <1>7, <1>9, <1>10 DEF n, Up

(* The number of elements before each entry. *)
LEMMA ElementsBefore ==
  ASSUME NEW c, Len(c.concat) \in Nat, \A i \in 1..Len(c.concat) : size(c.concat[i]) \in Nat
  PROVE  /\ elements_before(c, 1) = 0
         /\ \A i \in 1..Len(c.concat) : elements_before(c, i) \in Nat
         /\ \A i \in 2..Len(c.concat) : elements_before(c, i) = elements_before(c, i - 1) + size(c.concat[i - 1])
<1> DEFINE n == Len(c.concat)
<1>1. PICK first : /\ \A i : elements_before(c, i) = first[i - 1]
                   /\ first[0] = 0
                   /\ \A i \in 1..Len(c.concat) : first[i] = first[i - 1] + size(c.concat[i])
  BY BeforeIsDefined
<1> DEFINE T == {m \in 0..n : first[m] \in Nat}
<1>2. 0 \in T
  BY <1>1
<1>3. ASSUME NEW m \in 0..n, m < n, m \in T PROVE m + 1 \in T
  <2>1. m + 1 \in 1..n /\ (m + 1) - 1 = m /\ m + 1 \in 0..n
    BY <1>3
  <2>2. first[m + 1] = first[m] + size(c.concat[m + 1])
    BY <1>1, <2>1
  <2> QED  BY <1>3, <2>1, <2>2
<1>4. \A m \in 0..n : m \in T
  <2> HIDE DEF T
  <2> QED  BY <1>2, <1>3, InductionUpTo
<1>5. elements_before(c, 1) = 0
  <2>1. elements_before(c, 1) = first[1 - 1]
    BY <1>1
  <2> QED  BY <1>1, <2>1
<1>6. ASSUME NEW i \in 1..n PROVE elements_before(c, i) \in Nat
  <2>1. elements_before(c, i) = first[i - 1] /\ i - 1 \in 0..n
    BY <1>1
  <2>2. i - 1 \in T
    <3> HIDE DEF T
    <3> QED  BY <1>4, <2>1
  <2> QED  BY <2>1, <2>2
<1>7. ASSUME NEW i \in 2..n
      PROVE  elements_before(c, i) = elements_before(c, i - 1) + size(c.concat[i - 1])
  <2>1. elements_before(c, i) = first[i - 1] /\ elements_before(c, i - 1) = first[(i - 1) - 1]
    BY <1>1
  <2>2. i - 1 \in 1..n
    OBVIOUS
  <2>3. first[i - 1] = first[(i - 1) - 1] + size(c.concat[i - 1])
    BY <1>1, <2>2
  <2> QED  BY <2>1, <2>3
<1> QED  BY <1>5, <1>6, <1>7

LEMMA LeastOf ==
  ASSUME NEW S, S \subseteq Nat, S # {}
  PROVE  Min(S) \in S /\ \A y \in S : Min(S) <= y
<1>1. \E x \in S : \A y \in S : x <= y
  BY LeastNatural
<1> QED  BY <1>1 DEF Min

LEMMA SizesAreNatural ==
  ASSUME NEW c, NEW g, IsConcat(c, g)
  PROVE  \A i \in 1..Len(c.concat) : size(c.concat[i]) \in Nat
<1>1. ASSUME NEW i \in 1..Len(c.concat) PROVE size(c.concat[i]) \in Nat
  <2>1. IsEntry(c.concat[i])
    BY DEF IsConcat
  <2>2. CASE c.concat[i].kind = "array"
    <3>1. PICK S : c.concat[i].array \in Seq(S)
      BY <2>1, <2>2 DEF IsEntry, IsSeq
    <3> QED  BY <2>2, <3>1 DEF size
  <2>3. CASE c.concat[i].kind # "array"
    BY <2>3 DEF size
  <2> QED  BY <2>2, <2>3
<1> QED  BY <1>1

(* The entry that an index stops at. *)
StopsAt(c, x) == Min(index_stops(c, x))

IsIndexed(c, x) == index_stops(c, x) # {} /\ c.concat[StopsAt(c, x)].kind = "array"

(* The element in the array of that entry. *)
Element(c, x) == x - elements_before(c, StopsAt(c, x)) + 1

LEMMA IndexPlace ==
  ASSUME NEW c, NEW g, NEW x \in Nat, IsConcat(c, g), IsIndexed(c, x)
  PROVE  /\ StopsAt(c, x) \in 1..Len(c.concat)
         /\ Element(c, x) \in 1..Len(c.concat[StopsAt(c, x)].array)
<1> DEFINE i == StopsAt(c, x)
           n == Len(c.concat)
<1>1. DOMAIN c.concat = 1..n /\ n \in Nat
  BY BelowEntries
<1>2. \A j \in 1..n : size(c.concat[j]) \in Nat
  BY SizesAreNatural
<1>3. index_stops(c, x) \subseteq Nat /\ index_stops(c, x) \subseteq 1..n
  BY <1>1 DEF index_stops
<1>4. i \in index_stops(c, x) /\ \A j \in index_stops(c, x) : i <= j
  BY <1>3, LeastOf DEF IsIndexed, StopsAt
<1>5. i \in 1..n /\ c.concat[i].kind = "array"
  BY <1>3, <1>4 DEF IsIndexed
<1>6. elements_before(c, i) \in Nat /\ elements_before(c, 1) = 0
  BY <1>1, <1>2, <1>5, ElementsBefore
<1>7. Len(c.concat[i].array) \in Nat
  BY <1>2, <1>5 DEF size
<1>8. elements_before(c, i) + Len(c.concat[i].array) > x
  BY <1>4, <1>5 DEF index_stops
<1>9. elements_before(c, i) <= x
  <2>1. CASE i = 1
    BY <1>6, <2>1
  <2>2. CASE i # 1
    <3> HIDE DEF i
    <3>1. i - 1 \in 1..n /\ ~ (i <= i - 1) /\ i \in 2..n
      BY <1>1, <1>5, <2>2
    <3>2. i - 1 \notin index_stops(c, x)
      BY <1>4, <3>1
    <3>3. /\ c.concat[i - 1].kind = "array"
          /\ ~ (elements_before(c, i - 1) + Len(c.concat[i - 1].array) > x)
      BY <1>1, <3>1, <3>2 DEF index_stops
    <3>4. elements_before(c, i) = elements_before(c, i - 1) + size(c.concat[i - 1])
      BY <1>1, <1>2, <3>1, ElementsBefore
    <3>5. elements_before(c, i - 1) \in Nat
      BY <1>1, <1>2, <3>1, ElementsBefore
    <3>6. size(c.concat[i - 1]) = Len(c.concat[i - 1].array) /\ size(c.concat[i - 1]) \in Nat
      BY <1>2, <3>1, <3>3 DEF size
    <3> QED  BY <3>3, <3>4, <3>5, <3>6
  <2> QED  BY <2>1, <2>2
<1>10. Element(c, x) = x - elements_before(c, i) + 1
  BY DEF Element
<1> HIDE DEF i
<1>11. Element(c, x) \in 1..Len(c.concat[i].array)
  BY <1>6, <1>7, <1>8, <1>9, <1>10
<1> QED  BY <1>5, <1>11 DEF i

(* An index stops at the same place when kinds and lengths are the same. *)
SameSizes(c, d) ==
  /\ Len(c.concat) = Len(d.concat) /\ DOMAIN c.concat = DOMAIN d.concat
  /\ \A i \in 1..Len(c.concat) :
       /\ c.concat[i].kind = "array" <=> d.concat[i].kind = "array"
       /\ size(c.concat[i]) = size(d.concat[i])

LEMMA SameBefore ==
  ASSUME NEW c, NEW d, NEW i \in 1..Len(c.concat), Len(c.concat) \in Nat, SameSizes(c, d),
         \A j \in 1..Len(c.concat) : size(c.concat[j]) \in Nat
  PROVE  elements_before(d, i) = elements_before(c, i)
<1> DEFINE n == Len(c.concat)
           T == {m \in 0..n : m = 0 \/ elements_before(d, m) = elements_before(c, m)}
<1>1. 0 \in T
  OBVIOUS
<1>2. ASSUME NEW m \in 0..n, m < n, m \in T PROVE m + 1 \in T
  <2>1. m + 1 \in 1..n /\ m + 1 \in 0..n
    BY <1>2
  <2>2. elements_before(c, 1) = 0 /\ elements_before(d, 1) = 0
    BY ElementsBefore DEF SameSizes
  <2>3. CASE m = 0
    BY <2>1, <2>2, <2>3
  <2>4. CASE m # 0
    <3>1. m + 1 \in 2..n /\ (m + 1) - 1 = m /\ m \in 1..n
      BY <1>2, <2>1, <2>4
    <3>2. elements_before(c, m + 1) = elements_before(c, (m + 1) - 1) + size(c.concat[(m + 1) - 1])
      BY <3>1, ElementsBefore
    <3>3. elements_before(d, m + 1) = elements_before(d, (m + 1) - 1) + size(d.concat[(m + 1) - 1])
      BY <3>1, ElementsBefore DEF SameSizes
    <3>4. elements_before(d, m) = elements_before(c, m) /\ size(c.concat[m]) = size(d.concat[m])
      BY <1>2, <2>4, <3>1 DEF SameSizes
    <3>5. elements_before(c, m + 1) = elements_before(d, m + 1)
      BY <3>1, <3>2, <3>3, <3>4
    <3> QED  BY <2>1, <3>5
  <2> QED  BY <2>3, <2>4
<1>3. \A m \in 0..n : m \in T
  <2> HIDE DEF T
  <2> QED  BY <1>1, <1>2, InductionUpTo
<1>4. i \in T /\ i # 0
  <2> HIDE DEF T
  <2> QED  BY <1>3
<1> QED  BY <1>4

LEMMA SameStops ==
  ASSUME NEW c, NEW d, NEW g, NEW x, IsConcat(c, g), SameSizes(c, d)
  PROVE  /\ StopsAt(d, x) = StopsAt(c, x) /\ (IsIndexed(d, x) <=> IsIndexed(c, x))
         /\ IsIndexed(c, x) => Element(d, x) = Element(c, x)
<1> DEFINE n == Len(c.concat)
<1>1. DOMAIN c.concat = 1..n /\ n \in Nat /\ DOMAIN d.concat = 1..n
  BY BelowEntries DEF SameSizes
<1>2. \A i \in 1..n : size(c.concat[i]) \in Nat
  BY SizesAreNatural
<1>3. \A i \in 1..n : elements_before(d, i) = elements_before(c, i)
  BY <1>1, <1>2, SameBefore
<1>4. ASSUME NEW i \in 1..n
      PROVE  i \in index_stops(c, x) <=> i \in index_stops(d, x)
  <2>1. c.concat[i].kind = "array" <=> d.concat[i].kind = "array"
    BY DEF SameSizes
  <2>2. CASE c.concat[i].kind = "array"
    <3>1. Len(c.concat[i].array) = Len(d.concat[i].array)
      BY <2>1, <2>2 DEF SameSizes, size
    <3> QED  BY <1>1, <1>3, <2>1, <3>1 DEF index_stops
  <2>3. CASE c.concat[i].kind # "array"
    BY <1>1, <2>1, <2>3 DEF index_stops
  <2> QED  BY <2>2, <2>3
<1>5. index_stops(c, x) = index_stops(d, x) /\ index_stops(c, x) \subseteq 1..n
  BY <1>1, <1>4 DEF index_stops
<1>6. StopsAt(d, x) = StopsAt(c, x)
  BY <1>5 DEF StopsAt
<1>7. index_stops(c, x) # {} => StopsAt(c, x) \in 1..n
  <2>1. index_stops(c, x) \subseteq Nat
    BY <1>5
  <2> QED  BY <1>5, <2>1, LeastOf DEF StopsAt
<1>8. IsIndexed(d, x) <=> IsIndexed(c, x)
  BY <1>5, <1>6, <1>7 DEF IsIndexed, SameSizes
<1>9. IsIndexed(c, x) => Element(d, x) = Element(c, x)
  BY <1>3, <1>6, <1>7 DEF Element, IsIndexed
<1> QED  BY <1>6, <1>8, <1>9

-----------------------------------------------------------------------------
(* Trees, in the same way. *)
TreeSet(F, g) ==
  \A c, m : <<c, m>> \in F =>
    /\ m \in Nat \ {0} /\ IsConcat(c, g) /\ (c.implicit => Hollow(c))
    /\ \A d \in BelowConcat(c) : <<d, m - 1>> \in F

(* Everything from c on has its shape, there are at most m levels of it,    *)
(* and what is implicit is hollow.                                          *)
Tree(c, m, g) == \E F : TreeSet(F, g) /\ <<c, m>> \in F

LEMMA TreeBelow ==
  ASSUME NEW c, NEW m, NEW g, Tree(c, m, g)
  PROVE  /\ m \in Nat \ {0} /\ IsConcat(c, g) /\ (c.implicit => Hollow(c))
         /\ \A d \in BelowConcat(c) : Tree(d, m - 1, g)
BY DEF Tree, TreeSet

LEMMA TreeAbove ==
  ASSUME NEW c, NEW m \in Nat \ {0}, NEW g, IsConcat(c, g), c.implicit => Hollow(c),
         \A d \in BelowConcat(c) : Tree(d, m - 1, g)
  PROVE  Tree(c, m, g)
<1> DEFINE FF(d) == CHOOSE F : TreeSet(F, g) /\ <<d, m - 1>> \in F
           G     == {<<c, m>>} \cup UNION {FF(d) : d \in BelowConcat(c)}
<1>1. \A d \in BelowConcat(c) : TreeSet(FF(d), g) /\ <<d, m - 1>> \in FF(d)
  BY DEF Tree
<1> HIDE DEF FF
<1>2. ASSUME NEW x, NEW k, <<x, k>> \in G
      PROVE  /\ k \in Nat \ {0} /\ IsConcat(x, g) /\ (x.implicit => Hollow(x))
             /\ \A d \in BelowConcat(x) : <<d, k - 1>> \in G
  <2>1. CASE <<x, k>> = <<c, m>>
    <3>1. x = c /\ k = m
      BY <2>1
    <3> QED  BY <1>1, <3>1
  <2>2. CASE <<x, k>> # <<c, m>>
    <3>1. PICK d \in BelowConcat(c) : <<x, k>> \in FF(d)
      BY <1>2, <2>2
    <3>2. TreeSet(FF(d), g) /\ FF(d) \subseteq G
      BY <1>1
    <3>3. /\ k \in Nat \ {0} /\ IsConcat(x, g) /\ (x.implicit => Hollow(x))
          /\ \A e \in BelowConcat(x) : <<e, k - 1>> \in FF(d)
      BY <3>1, <3>2 DEF TreeSet
    <3> HIDE DEF G
    <3> QED  BY <3>2, <3>3
  <2> QED  BY <2>1, <2>2
<1>3. <<c, m>> \in G
  OBVIOUS
<1> HIDE DEF G
<1>4. TreeSet(G, g)
  BY <1>2 DEF TreeSet
<1> QED  BY <1>3, <1>4 DEF Tree

LEMMA TreeLater ==
  ASSUME NEW c, NEW m, NEW g \in Nat, NEW h \in Nat, g <= h, Tree(c, m, g)
  PROVE  Tree(c, m, h)
<1>1. PICK F : TreeSet(F, g) /\ <<c, m>> \in F
  BY DEF Tree
<1>2. \A x : IsConcat(x, g) => IsConcat(x, h)
  <2>1. 0..g \subseteq 0..h
    OBVIOUS
  <2> QED  BY <2>1 DEF IsConcat
<1>3. TreeSet(F, h)
  BY <1>1, <1>2 DEF TreeSet
<1> QED  BY <1>1, <1>3 DEF Tree

(* What has just been made. *)
LEMMA NewTree ==
  ASSUME NEW m \in Nat \ {0}, NEW g \in Nat, NEW d, IsConcat(d, g), d.concat = <<>>
  PROVE  Tree(d, m, g) /\ Hollow(d)
<1>1. BelowConcat(d) = {} /\ implicit_entries(d)
  BY DEF BelowConcat, implicit_entries
<1>2. Hollow(d)
  BY <1>1, HollowAbove
<1> QED  BY <1>1, <1>2, TreeAbove

(* The implicit flag of a member is changed. *)
LEMMA FlagChanged ==
  ASSUME NEW d, NEW m, NEW g, NEW b \in BOOLEAN, NEW x, Tree(d, m, g), b => d.implicit,
         x = [d EXCEPT !.implicit = b]
  PROVE  /\ Tree(x, m, g) /\ (Hollow(d) => Hollow(x)) /\ x.implicit = b
         /\ x.concat = d.concat /\ x.generation = d.generation
<1>1. /\ m \in Nat \ {0} /\ IsConcat(d, g) /\ (d.implicit => Hollow(d))
      /\ \A e \in BelowConcat(d) : Tree(e, m - 1, g)
  BY TreeBelow
<1>2. IsConcat(x, g) /\ x.concat = d.concat /\ x.generation = d.generation /\ x.implicit = b
  BY <1>1 DEF IsConcat
<1>3. BelowConcat(x) = BelowConcat(d) /\ (implicit_entries(d) <=> implicit_entries(x))
  BY <1>2 DEF BelowConcat, implicit_entries
<1>4. Hollow(d) => Hollow(x)
  BY <1>3, HollowBelow, HollowAbove
<1> QED  BY <1>1, <1>2, <1>3, <1>4, TreeAbove

-----------------------------------------------------------------------------
(* What a part of a path leads to is there. *)
Present(c, part) ==
  CASE part.kind = "asterisk" -> c.concat # <<>> /\ Back(c).kind = "asterisk"
    [] part.kind = "name"     -> /\ c.concat # <<>> /\ Back(c).kind = "object"
                                 /\ part.name \in DOMAIN Back(c).object
    [] part.kind = "index"    -> IsIndexed(c, part.index)
    [] part.kind = "append"   -> /\ c.generation = part.generation /\ c.concat # <<>>
                                 /\ Back(c).kind = "array" /\ Back(c).array # <<>>

LEMMA PartKinds ==
  ASSUME NEW part \in PathPart
  PROVE  \/ part.kind = "asterisk"
         \/ part.kind = "name" /\ part = NamePart(part.name)
         \/ part.kind = "index" /\ part.index \in Nat
         \/ part.kind = "append" /\ part.generation \in Nat \ {0}
BY DEF PathPart, KeyPart, NamePart

(* The places of Front and Last in the array of the last entry. *)
LEMMA LastElement ==
  ASSUME NEW s, IsSeq(s), s # <<>>
  PROVE  Last(s) \in ToSet(s)
<1>1. PICK S : s \in Seq(S)
  BY DEF IsSeq
<1>2. Len(s) \in DOMAIN s
  BY <1>1
<1> QED  BY <1>2 DEF Last, ToSet

LEMMA AtPart ==
  ASSUME NEW c, NEW g, NEW part \in PathPart, IsConcat(c, g), Present(c, part)
  PROVE  /\ at_part(c, part) \in BelowConcat(c)
         /\ part.kind # "name" => ~ at_part(c, part).implicit
<1>1. CASE part.kind = "asterisk"
  <2>1. c.concat # <<>> /\ Back(c).kind = "asterisk" /\ at_part(c, part) = Back(c).asterisk
    BY <1>1 DEF Present, at_part
  <2>2. IsEntry(Back(c)) /\ Below(Back(c)) \subseteq BelowConcat(c)
    BY <2>1, BelowBack
  <2>3. at_part(c, part) \in Below(Back(c))
    BY <2>1 DEF Below
  <2> QED  BY <2>1, <2>2, <2>3 DEF IsEntry
<1>2. CASE part.kind = "name"
  <2>1. /\ c.concat # <<>> /\ Back(c).kind = "object" /\ at_part(c, part) = Back(c).object[part.name]
        /\ part.name \in DOMAIN Back(c).object
    BY <1>2 DEF Present, at_part
  <2>2. IsEntry(Back(c)) /\ Below(Back(c)) \subseteq BelowConcat(c)
    BY <2>1, BelowBack
  <2>3. at_part(c, part) \in Below(Back(c))
    BY <2>1 DEF Below
  <2> QED  BY <1>2, <2>2, <2>3
<1>3. CASE part.kind = "index"
  <2> DEFINE x == part.index
             i == StopsAt(c, x)
  <2>1. x \in Nat /\ IsIndexed(c, x) /\ at_part(c, part) = c.concat[i].array[Element(c, x)]
    BY <1>3, PartKinds DEF Present, at_part, StopsAt, Element
  <2>2. /\ i \in 1..Len(c.concat) /\ Element(c, x) \in 1..Len(c.concat[i].array)
        /\ c.concat[i].kind = "array"
    BY <2>1, IndexPlace DEF IsIndexed
  <2>3. IsEntry(c.concat[i]) /\ i \in DOMAIN c.concat
    BY <2>2, BelowEntries DEF IsConcat
  <2>4. PICK S : c.concat[i].array \in Seq(S)
    BY <2>2, <2>3 DEF IsEntry, IsSeq
  <2>5. at_part(c, part) \in ToSet(c.concat[i].array)
    BY <2>1, <2>2, <2>4 DEF ToSet
  <2>6. at_part(c, part) \in Below(c.concat[i])
    BY <2>2, <2>5 DEF Below
  <2>7. at_part(c, part) \in BelowConcat(c)
    BY <2>3, <2>6 DEF BelowConcat
  <2> QED  BY <2>2, <2>3, <2>6, <2>7 DEF IsEntry
<1>4. CASE part.kind = "append"
  <2>1. /\ c.concat # <<>> /\ Back(c).kind = "array" /\ at_part(c, part) = Last(Back(c).array)
        /\ Back(c).array # <<>>
    BY <1>4 DEF Present, at_part
  <2>2. IsEntry(Back(c)) /\ Below(Back(c)) \subseteq BelowConcat(c)
    BY <2>1, BelowBack
  <2>3. at_part(c, part) \in ToSet(Back(c).array)
    BY <2>1, <2>2, LastElement DEF IsEntry
  <2>4. at_part(c, part) \in Below(Back(c))
    BY <2>1, <2>3 DEF Below
  <2> QED  BY <2>1, <2>2, <2>4 DEF IsEntry
<1> QED  BY <1>1, <1>2, <1>3, <1>4, PartKinds

-----------------------------------------------------------------------------
(* One part of a path. *)

(* In v, made from c, there is what part leads to. *)
Opened(c, v, part, m, g) ==
  /\ IsConcat(v, g) /\ v.implicit = c.implicit /\ Present(v, part)
  /\ \A d \in BelowConcat(v) : Tree(d, m - 1, g)

SameContents(c, d) == c.concat = d.concat /\ c.generation = d.generation

(* The last array of c is there, and part is an element that is yet to be   *)
(* made in it.                                                              *)
Begins(c, part) ==
  c.generation < part.generation /\ c.concat # <<>> /\ Back(c).kind = "array"

(* How many elements that array has. *)
last_elements(c) == Len(Back(c).array)

IsCounted(c, v, part) ==
  last_elements(v) = IF Present(c, part) THEN last_elements(c) ELSE last_elements(c) + 1

LEMMA OpenAsterisk ==
  ASSUME NEW c, NEW m \in Nat \ {0, 1}, NEW g \in Nat, NEW part, NEW v,
         part.kind = "asterisk", Tree(c, m, g), v = back_ensure_init(c, AsteriskEntry(NewConcat))
  PROVE  /\ Opened(c, v, part, m, g) /\ (Hollow(c) => Hollow(v))
         /\ Present(c, part) => v = c
<1> DEFINE e == AsteriskEntry(NewConcat)
<1>1. IsConcat(c, g) /\ \A d \in BelowConcat(c) : Tree(d, m - 1, g)
  BY TreeBelow
<1>2. IsEntry(e) /\ Below(e) = {NewConcat} /\ e.kind = "asterisk"
  BY NewEntries DEF AsteriskEntry
<1>3. Tree(NewConcat, m - 1, g) /\ Hollow(NewConcat)
  <2>1. m - 1 \in Nat \ {0}
    OBVIOUS
  <2> QED  BY <2>1, NewTree, NewEntries
<1>4. HollowEntry(e)
  BY <1>2, <1>3 DEF HollowEntry
<1> HIDE DEF e
<1>5. /\ IsConcat(v, g) /\ SameFlags(v, c) /\ v.concat # <<>> /\ Back(v).kind = e.kind
      /\ Gained(v, c, e)
      /\ Hollow(c) /\ HollowEntry(e) => Hollow(v)
  BY <1>1, <1>2, EnsureEntry DEF e
<1>6. Present(v, part) /\ (Present(c, part) => v = c)
  BY <1>2, <1>5 DEF Present, back_ensure_init, e
<1> QED  BY <1>1, <1>2, <1>3, <1>4, <1>5, <1>6 DEF Opened, SameFlags, Gained

LEMMA OpenIndex ==
  ASSUME NEW c, NEW m, NEW g, NEW part, NEW r, part.kind = "index", Tree(c, m, g),
         r = phase1_append_index(c, part.index)
  PROVE  /\ r.val = c /\ r.error \in {"none", "parse_error"}
         /\ r.error = "none" => Opened(c, c, part, m, g)
         /\ Present(c, part) => r.error = "none"
<1>1. IsConcat(c, g) /\ \A d \in BelowConcat(c) : Tree(d, m - 1, g)
  BY TreeBelow
<1>2. CASE IsIndexed(c, part.index)
  <2>1. r = Returned(c)
    BY <1>2 DEF phase1_append_index, IsIndexed, StopsAt
  <2> QED  BY <1>1, <1>2, <2>1 DEF Returned, Opened, Present
<1>3. CASE ~ IsIndexed(c, part.index)
  <2>1. r = Thrown(c)
    BY <1>3 DEF phase1_append_index, IsIndexed, StopsAt
  <2> QED  BY <1>3, <2>1 DEF Thrown, Present
<1> QED  BY <1>2, <1>3

LEMMA OpenAppend ==
  ASSUME NEW c, NEW m \in Nat \ {0, 1}, NEW g \in Nat, NEW part, NEW r,
         part.kind = "append", part.generation \in 0..g, Tree(c, m, g),
         Begins(c, part) \/ Present(c, part),
         r = phase1_append_append(c, part.generation)
  PROVE  /\ r.error = "none" /\ Opened(c, r.val, part, m, g)
         /\ Present(c, part) => r.val = c
         /\ IsCounted(c, r.val, part)
<1> DEFINE e == ArrayEntry(<<>>)
           d == back_ensure_init(c, e)
<1>1. IsConcat(c, g) /\ \A x \in BelowConcat(c) : Tree(x, m - 1, g)
  BY TreeBelow
<1>2. c.generation \in Nat
  BY <1>1 DEF IsConcat
<1>3. IsEntry(e) /\ Below(e) = {} /\ e.kind = "array"
  BY NewEntries DEF ArrayEntry
<1>4. CASE Present(c, part)
  <2>1. /\ d = c /\ Back(d).array # <<>> /\ ~ is_new_generation(d, part.generation)
    BY <1>2, <1>3, <1>4 DEF Present, back_ensure_init, is_new_generation
  <2>2. r = Returned(c)
    <3>1. r = append_element(d, part.generation)
      BY DEF phase1_append_append
    <3> HIDE DEF d
    <3> QED  BY <2>1, <3>1 DEF append_element
  <2> QED  BY <1>1, <1>4, <2>2 DEF Returned, Opened, IsCounted
<1>5. CASE Begins(c, part)
  <2> DEFINE a  == Back(d).array
             dg == [d EXCEPT !.generation = part.generation]
             f  == [Back(d) EXCEPT !.array = Append(a, NewConcat)]
             v  == ReplaceBack(dg, f)
  <2>0. ~ Present(c, part)
    BY <1>2, <1>5 DEF Present, Begins
  <2>17. d = c
    BY <1>3, <1>5 DEF back_ensure_init, Begins
  <2>1. r = append_element(d, part.generation)
    BY DEF phase1_append_append
  <2> HIDE DEF e
  <2>19. d = back_ensure_init(c, e)
    OBVIOUS
  <2> HIDE DEF d
  <2>2. /\ IsConcat(d, g) /\ SameFlags(d, c) /\ d.concat # <<>> /\ Back(d).kind = "array"
        /\ Gained(d, c, e)
    <3>1. /\ IsConcat(d, g) /\ SameFlags(d, c) /\ d.concat # <<>> /\ Back(d).kind = e.kind
          /\ Gained(d, c, e)
      BY <1>1, <1>3, <2>19, EnsureEntry
    <3> QED  BY <1>3, <3>1
  <2>3. r = Returned(v)
    <3>1. is_new_generation(d, part.generation)
      BY <1>2, <1>5, <2>2 DEF is_new_generation, SameFlags, Begins
    <3> QED  BY <2>1, <3>1 DEF append_element
  <2>4. /\ IsConcat(dg, g) /\ dg.concat = d.concat /\ dg.implicit = c.implicit
        /\ dg.generation = part.generation /\ BelowConcat(dg) = BelowConcat(d)
    BY <2>2 DEF IsConcat, SameFlags, BelowConcat
  <2>5. Back(dg) = Back(d)
    BY <2>4 DEF Back
  <2> HIDE DEF dg
  <2>6. /\ IsEntry(Back(d)) /\ Below(Back(d)) \subseteq BelowConcat(d) /\ IsSeq(a)
        /\ Back(d) = FunctionEntry(Back(d).function, a)
    BY <2>2, BelowBack DEF IsEntry
  <2>7. f = FunctionEntry(Back(d).function, Append(a, NewConcat))
    BY <2>6 DEF FunctionEntry
  <2>8. /\ IsSeq(Append(a, NewConcat)) /\ Append(a, NewConcat) # <<>>
        /\ ToSet(Append(a, NewConcat)) \subseteq ToSet(a) \cup {NewConcat}
        /\ Len(Append(a, NewConcat)) = Len(a) + 1
    <3> HIDE DEF a
    <3>0. IsSeq(a)
      BY <2>6
    <3>1. /\ IsSeq(Append(a, NewConcat)) /\ Len(Append(a, NewConcat)) = Len(a) + 1 /\ Len(a) \in Nat
          /\ \A i \in 1..Len(a) : Append(a, NewConcat)[i] = a[i]
          /\ Append(a, NewConcat)[Len(a) + 1] = NewConcat /\ Append(a, NewConcat) # <<>>
      <4> HIDE DEF f, v
      <4>1. ASSUME NEW x
            PROVE  /\ IsSeq(Append(a, x)) /\ Len(Append(a, x)) = Len(a) + 1 /\ Len(a) \in Nat
                   /\ \A i \in 1..Len(a) : Append(a, x)[i] = a[i]
                   /\ Append(a, x)[Len(a) + 1] = x /\ Append(a, x) # <<>>
        BY <3>0, AppendSeq
      <4> QED  BY <4>1
    <3>2. PICK S : a \in Seq(S)
      BY <2>6 DEF IsSeq
    <3>3. DOMAIN a = 1..Len(a) /\ DOMAIN Append(a, NewConcat) = 1..Len(a) + 1
      BY <3>2
    <3>4. \A i \in 1..Len(a) + 1 : i \in 1..Len(a) \/ i = Len(a) + 1
      BY <3>1
    <3> QED  BY <3>1, <3>3, <3>4 DEF ToSet
  <2> HIDE DEF f, a
  <2>9. /\ f.kind = "array" /\ f.array = Append(a, NewConcat)
        /\ f.function = Back(d).function
    BY <2>7 DEF FunctionEntry
  <2>10. Below(f) \subseteq Below(Back(d)) \cup {NewConcat}
    <3>1. Below(Back(d)) = ToSet(a)
      BY <2>2 DEF Below, a
    <3>2. Below(f) = ToSet(Append(a, NewConcat))
      BY <2>9 DEF Below
    <3> QED  BY <2>8, <3>1, <3>2
  <2>11. IsEntry(f)
    <3>1. \A x \in Below(Back(d)) : ~ x.implicit
      BY <2>2, <2>6 DEF IsEntry
    <3>2. \A x \in Below(f) : ~ x.implicit
      BY <2>10, <3>1, NewEntries
    <3>3. f = FunctionEntry(f.function, f.array) /\ IsSeq(f.array)
      BY <2>7, <2>8, <2>9
    <3> QED  BY <2>9, <3>2, <3>3 DEF IsEntry
  <2>12. /\ IsConcat(v, g) /\ SameFlags(v, dg) /\ v.concat # <<>> /\ Back(v) = f
         /\ Gained(v, dg, f)
    <3>1. IsConcat(dg, g) /\ dg.concat # <<>>
      BY <2>2, <2>4
    <3>2. v = ReplaceBack(dg, f)
      OBVIOUS
    <3> HIDE DEF v
    <3> QED  BY <3>1, <3>2, <2>11, ReplaceEntry
  <2> HIDE DEF v
  <2>13. Tree(NewConcat, m - 1, g)
    <3>1. m - 1 \in Nat \ {0}
      OBVIOUS
    <3> QED  BY <3>1, NewTree, NewEntries
  <2>14. BelowConcat(v) \subseteq BelowConcat(c) \cup {NewConcat}
    BY <1>3, <2>2, <2>4, <2>6, <2>10, <2>12 DEF Gained
  <2>15. Present(v, part)
    BY <2>4, <2>8, <2>9, <2>12 DEF Present, SameFlags
  <2>16. Opened(c, v, part, m, g)
    BY <1>1, <2>4, <2>12, <2>13, <2>14, <2>15 DEF Opened, SameFlags
  <2>18. last_elements(v) = last_elements(c) + 1
    <3>1. last_elements(v) = Len(Append(a, NewConcat))
      BY <2>9, <2>12 DEF last_elements
    <3>2. last_elements(c) = Len(a)
      BY <2>17 DEF last_elements, a
    <3> QED  BY <2>8, <3>1, <3>2
  <2> QED  BY <2>0, <2>3, <2>16, <2>18 DEF Returned, IsCounted
<1> QED  BY <1>4, <1>5

(* An object with a member in the place of the one of that name. *)
with_member(o, name, x) == [n \in DOMAIN o \cup {name} |-> IF n = name THEN x ELSE o[n]]

(* The object f is e with the member x. *)
HasMember(f, e, name, x) ==
  /\ IsEntry(f) /\ f.kind = "object" /\ name \in DOMAIN f.object /\ f.object[name] = x
  /\ Below(f) \subseteq Below(e) \cup {x}
  /\ HollowEntry(e) /\ x.implicit /\ Hollow(x) => HollowEntry(f)

LEMMA WithMember ==
  ASSUME NEW e, NEW name, NEW x, NEW f, e.kind = "object",
         f = ObjectEntry(with_member(e.object, name, x))
  PROVE  HasMember(f, e, name, x)
<1> DEFINE o == e.object
           w == with_member(o, name, x)
<1>1. w = [n \in DOMAIN o \cup {name} |-> IF n = name THEN x ELSE o[n]]
  BY DEF with_member
<1> HIDE DEF w, o
<1>2. /\ DOMAIN w = DOMAIN o \cup {name} /\ w[name] = x
      /\ \A n \in DOMAIN o : n # name => w[n] = o[n]
      /\ w = [n \in DOMAIN w |-> w[n]]
  BY <1>1
<1>3. f.kind = "object" /\ f.object = w /\ f = ObjectEntry(f.object)
  BY DEF ObjectEntry, w, o
<1>4. Below(f) \subseteq Below(e) \cup {x}
  BY <1>2, <1>3 DEF Below, o
<1>5. IsEntry(f)
  BY <1>2, <1>3 DEF IsEntry
<1>6. HollowEntry(e) /\ x.implicit /\ Hollow(x) => HollowEntry(f)
  BY <1>3, <1>4 DEF HollowEntry
<1> QED  BY <1>2, <1>3, <1>4, <1>5, <1>6 DEF HasMember

LEMMA MemberReplaced ==
  ASSUME NEW e, NEW n, NEW d, IsEntry(e), e.kind = "object", n \in DOMAIN e.object
  PROVE  [e EXCEPT !.object[n] = d] = ObjectEntry(with_member(e.object, n, d))
<1> DEFINE o == e.object
<1>1. e = ObjectEntry(o) /\ o = [k \in DOMAIN o |-> o[k]] /\ n \in DOMAIN o
  BY DEF IsEntry
<1> HIDE DEF o
<1>2. [e EXCEPT !.object[n] = d] = ObjectEntry([o EXCEPT ![n] = d])
  BY <1>1 DEF ObjectEntry
<1>3. [o EXCEPT ![n] = d] = with_member(o, n, d)
  BY <1>1 DEF with_member
<1> QED  BY <1>2, <1>3 DEF o

(* The member that a name leads to, with its new flag. *)
member_at(o, name, mode) ==
  LET fresh == name \notin DOMAIN o
      m     == IF fresh THEN NewConcat ELSE o[name]
  IN  [m EXCEPT !.implicit = is_implicit(fresh, m.implicit, mode)]

MadeMember(x, e, name, mode, m, g) ==
  /\ Tree(x, m, g) /\ (mode = "manifest" => ~ x.implicit)
  /\ mode = "implicit" /\ HollowEntry(e) => x.implicit /\ Hollow(x)
  /\ name \in DOMAIN e.object => SameContents(x, e.object[name])

LEMMA MemberAt ==
  ASSUME NEW c, NEW m \in Nat \ {0, 1}, NEW g \in Nat, NEW e, NEW name,
         NEW mode \in {"implicit", "manifest"}, NEW x, Tree(c, m, g), e.kind = "object",
         Below(e) \subseteq BelowConcat(c), x = member_at(e.object, name, mode)
  PROVE  MadeMember(x, e, name, mode, m - 1, g)
<1> DEFINE fresh == name \notin DOMAIN e.object
<1>1. CASE fresh
  <2> DEFINE b == mode = "implicit"
  <2>1. x = [NewConcat EXCEPT !.implicit = b] /\ b \in BOOLEAN
    BY <1>1 DEF member_at, is_implicit
  <2>2. IsConcat(x, g) /\ x.concat = <<>> /\ x.implicit = b
    <3> HIDE DEF b
    <3>1. IsSeq(<<>>)
      BY DEF IsSeq
    <3>2. x = [remove |-> FALSE, implicit |-> b, temporary |-> FALSE, generation |-> 0, concat |-> <<>>]
      BY <2>1 DEF NewConcat
    <3>3. /\ x.remove = FALSE /\ x.implicit = b /\ x.temporary = FALSE /\ x.generation = 0
          /\ x.concat = <<>> /\ Len(x.concat) = 0
      BY <3>2
    <3>4. x = [remove |-> x.remove, implicit |-> x.implicit, temporary |-> x.temporary,
               generation |-> x.generation, concat |-> x.concat]
      BY <3>2
    <3>6. x.generation \in 0..g /\ IsSeq(x.concat)
      BY <3>1, <3>3
    <3>7. x.implicit \in BOOLEAN
      BY <2>1, <3>3
    <3>5. \A i \in 1..Len(x.concat) : IsEntry(x.concat[i])
      BY <3>3
    <3> QED  BY <3>3, <3>4, <3>5, <3>6, <3>7 DEF IsConcat
  <2>3. m - 1 \in Nat \ {0}
    OBVIOUS
  <2>4. Tree(x, m - 1, g) /\ Hollow(x)
    BY <2>2, <2>3, NewTree
  <2> QED  BY <1>1, <2>2, <2>4 DEF MadeMember
<1>2. CASE ~ fresh
  <2> DEFINE d == e.object[name]
             b == mode = "implicit" /\ d.implicit
  <2>1. d \in Below(e)
    BY <1>2 DEF Below
  <2>2. Tree(d, m - 1, g)
    BY <2>1, TreeBelow
  <2>3. d.implicit \in BOOLEAN
    BY <2>2, TreeBelow DEF IsConcat
  <2>4. x = [d EXCEPT !.implicit = b] /\ b \in BOOLEAN /\ (b => d.implicit)
    BY <1>2, <2>3 DEF member_at, is_implicit
  <2>5. /\ Tree(x, m - 1, g) /\ (Hollow(d) => Hollow(x)) /\ x.implicit = b
        /\ x.concat = d.concat /\ x.generation = d.generation
    <3> HIDE DEF b, d
    <3> QED  BY <2>2, <2>4, FlagChanged
  <2>6. HollowEntry(e) => d.implicit /\ Hollow(d)
    BY <2>1 DEF HollowEntry
  <2> QED  BY <2>5, <2>6 DEF SameContents, MadeMember
<1> QED  BY <1>1, <1>2

LEMMA OpenName ==
  ASSUME NEW c, NEW m \in Nat \ {0, 1}, NEW g \in Nat, NEW part,
         NEW mode \in {"implicit", "manifest"}, NEW r, part.kind = "name", Tree(c, m, g),
         r = phase1_append_name(c, part.name, mode)
  PROVE  /\ r.error = "none" /\ Opened(c, r.val, part, m, g)
         /\ mode = "manifest" => ~ at_part(r.val, part).implicit
         /\ mode = "implicit" /\ Hollow(c) => Hollow(r.val)
         /\ Present(c, part) => SameContents(at_part(r.val, part), at_part(c, part))
<1> DEFINE e == ObjectEntry(EmptyObject)
           d == back_ensure_init(c, e)
           x == member_at(Back(d).object, part.name, mode)
           f == ObjectEntry(with_member(Back(d).object, part.name, x))
           v == ReplaceBack(d, f)
<1>1. IsConcat(c, g) /\ \A y \in BelowConcat(c) : Tree(y, m - 1, g)
  BY TreeBelow
<1>2. IsEntry(e) /\ Below(e) = {} /\ e.kind = "object"
  BY NewEntries DEF ObjectEntry
<1>3. r = Returned(v)
  BY DEF phase1_append_name, append_member, with_member, member_at
<1>4. HollowEntry(e)
  BY <1>2 DEF HollowEntry
<1> HIDE DEF e
<1>5. /\ IsConcat(d, g) /\ SameFlags(d, c) /\ d.concat # <<>> /\ Back(d).kind = "object"
      /\ Gained(d, c, e)
      /\ Hollow(c) => Hollow(d)
  BY <1>1, <1>2, <1>4, EnsureEntry
<1>6. Present(c, part) => d = c
  BY <1>2 DEF Present, back_ensure_init
<1> HIDE DEF d
<1>7. IsEntry(Back(d)) /\ Below(Back(d)) \subseteq BelowConcat(d)
  BY <1>5, BelowBack
<1>8. MadeMember(x, Back(d), part.name, mode, m - 1, g)
  <2>1. Below(Back(d)) \subseteq BelowConcat(c)
    BY <1>2, <1>5, <1>7 DEF Gained
  <2> HIDE DEF f, v
  <2> QED  BY <1>5, <2>1, MemberAt
<1> HIDE DEF x
<1>9. HasMember(f, Back(d), part.name, x)
  <2> HIDE DEF v
  <2> QED  BY <1>5, WithMember
<1> HIDE DEF f
<1>10. /\ IsConcat(v, g) /\ SameFlags(v, d) /\ v.concat # <<>> /\ Back(v) = f
       /\ Gained(v, d, f)
       /\ Hollow(d) /\ HollowEntry(f) => Hollow(v)
  BY <1>5, <1>9, ReplaceEntry DEF HasMember
<1> HIDE DEF v
<1>11. Present(v, part) /\ at_part(v, part) = x
  BY <1>9, <1>10 DEF Present, at_part, HasMember
<1>12. Opened(c, v, part, m, g)
  <2>1. BelowConcat(v) \subseteq BelowConcat(c) \cup {x}
    BY <1>2, <1>5, <1>7, <1>9, <1>10 DEF Gained, HasMember
  <2> QED  BY <1>1, <1>5, <1>8, <1>10, <1>11, <2>1 DEF Opened, SameFlags, MadeMember
<1>13. ASSUME mode = "implicit", Hollow(c) PROVE Hollow(v)
  <2>1. Hollow(d)
    BY <1>5, <1>13
  <2>2. HollowEntry(Back(d))
    BY <1>5, <2>1, HollowBack
  <2> QED  BY <1>8, <1>9, <1>10, <1>13, <2>1, <2>2 DEF HasMember, MadeMember
<1>14. ASSUME Present(c, part) PROVE SameContents(at_part(v, part), at_part(c, part))
  <2>1. d = c /\ part.name \in DOMAIN Back(c).object /\ at_part(c, part) = Back(c).object[part.name]
    BY <1>6, <1>14 DEF Present, at_part
  <2> QED  BY <1>8, <1>11, <2>1 DEF MadeMember
<1> QED  BY <1>3, <1>8, <1>11, <1>12, <1>13, <1>14 DEF Returned, MadeMember

(* What append_part makes of c. *)
IsOpened(c, r, part, mode, m, g) ==
  /\ r.error \in {"none", "parse_error"} /\ (part.kind = "name" => r.error = "none")
  /\ r.error # "none" => r.val = c
  /\ r.error = "none" =>
       /\ Opened(c, r.val, part, m, g)
       /\ mode = "manifest" => ~ at_part(r.val, part).implicit
       /\ mode = "implicit" /\ Hollow(c) => Hollow(r.val)
  /\ Present(c, part) =>
       r.error = "none" /\ SameContents(at_part(r.val, part), at_part(c, part))
  /\ part.kind = "append" => IsCounted(c, r.val, part)

(* An append part leads to the last element or makes a new one. *)
Continues(c, part, mode) ==
  part.kind = "append" =>
    Present(c, part) \/ (mode = "manifest" /\ Begins(c, part))

LEMMA OpenPart ==
  ASSUME NEW c, NEW m \in Nat \ {0, 1}, NEW g \in Nat, NEW part \in PathPart,
         NEW mode \in {"implicit", "manifest"}, NEW r, Tree(c, m, g),
         part.kind = "append" => part.generation <= g, Continues(c, part, mode),
         r = append_part(c, part, mode)
  PROVE  IsOpened(c, r, part, mode, m, g)
<1>1. CASE part.kind = "asterisk"
  <2>1. r = Returned(back_ensure_init(c, AsteriskEntry(NewConcat)))
    BY <1>1 DEF append_part, phase1_append_asterisk
  <2>2. r.error = "none" /\ r.val = back_ensure_init(c, AsteriskEntry(NewConcat))
    BY <2>1 DEF Returned
  <2>3. /\ Opened(c, r.val, part, m, g) /\ (Hollow(c) => Hollow(r.val))
        /\ Present(c, part) => r.val = c
    BY <1>1, <2>2, OpenAsterisk
  <2>4. ~ at_part(r.val, part).implicit
    BY <1>1, <2>3, AtPart DEF Opened
  <2> QED  BY <1>1, <2>2, <2>3, <2>4 DEF IsOpened, SameContents
<1>2. CASE part.kind = "name"
  <2>1. r = phase1_append_name(c, part.name, mode)
    BY <1>2 DEF append_part
  <2> QED  BY <1>2, <2>1, OpenName DEF IsOpened
<1>3. CASE part.kind = "index"
  <2>1. r = phase1_append_index(c, part.index)
    BY <1>3 DEF append_part
  <2>2. /\ r.val = c /\ r.error \in {"none", "parse_error"}
        /\ r.error = "none" => Opened(c, c, part, m, g)
        /\ Present(c, part) => r.error = "none"
    BY <1>3, <2>1, OpenIndex
  <2>3. r.error = "none" => ~ at_part(c, part).implicit
    BY <1>3, <2>2, AtPart DEF Opened
  <2> QED  BY <1>3, <2>2, <2>3 DEF IsOpened, SameContents
<1>4. CASE part.kind = "append"
  <2>1. r = phase1_append_append(c, part.generation)
    BY <1>4 DEF append_part
  <2>0. part.generation \in 0..g
    BY <1>4, PartKinds
  <2>2. Begins(c, part) \/ Present(c, part)
    BY <1>4 DEF Continues
  <2>3. /\ r.error = "none" /\ Opened(c, r.val, part, m, g)
        /\ Present(c, part) => r.val = c
        /\ IsCounted(c, r.val, part)
    BY <1>4, <2>0, <2>1, <2>2, OpenAppend, SMTT(20)
  <2>4. ~ at_part(r.val, part).implicit
    BY <1>4, <2>3, AtPart DEF Opened
  <2>5. mode = "implicit" => r.val = c
    BY <1>4, <2>3 DEF Continues
  <2> QED  BY <2>3, <2>4, <2>5 DEF IsOpened, SameContents
<1> QED  BY <1>1, <1>2, <1>3, <1>4, PartKinds

-----------------------------------------------------------------------------
(* In w, made from v, there is d in the place that part leads to. *)
IsPut(v, part, d, w, m, g) ==
  /\ IsConcat(w, g) /\ w.implicit = v.implicit /\ Present(w, part) /\ at_part(w, part) = d
  /\ \A x \in BelowConcat(w) : x \in BelowConcat(v) \cup {d}
  /\ Hollow(v) /\ Hollow(d) => Hollow(w)
  /\ part.kind = "append" => last_elements(w) = last_elements(v)

LEMMA PutAsterisk ==
  ASSUME NEW v, NEW g, NEW m, NEW part, NEW d, NEW w, IsConcat(v, g), Present(v, part),
         part.kind = "asterisk", ~ d.implicit, w = with_part(v, part, d)
  PROVE  IsPut(v, part, d, w, m, g)
<1> DEFINE f == AsteriskEntry(d)
<1>1. w = ReplaceBack(v, f) /\ v.concat # <<>> /\ Back(v).kind = "asterisk"
  BY DEF with_part, Present
<1>2. f.kind = "asterisk" /\ f.asterisk = d /\ f = AsteriskEntry(f.asterisk)
  BY DEF AsteriskEntry
<1> HIDE DEF f
<1>3. Below(f) = {d}
  BY <1>2 DEF Below
<1>4. IsEntry(f) /\ (Hollow(d) => HollowEntry(f))
  BY <1>2, <1>3 DEF IsEntry, HollowEntry
<1>5. /\ IsConcat(w, g) /\ SameFlags(w, v) /\ w.concat # <<>> /\ Back(w) = f
      /\ Gained(w, v, f)
      /\ Hollow(v) /\ HollowEntry(f) => Hollow(w)
  BY <1>1, <1>4, ReplaceEntry
<1>6. Present(w, part) /\ at_part(w, part) = d
  BY <1>2, <1>5 DEF Present, at_part
<1> QED  BY <1>3, <1>4, <1>5, <1>6 DEF IsPut, SameFlags, Gained

LEMMA PutName ==
  ASSUME NEW v, NEW g, NEW m, NEW part, NEW d, NEW w, IsConcat(v, g), Present(v, part),
         part.kind = "name", d.implicit = at_part(v, part).implicit, w = with_part(v, part, d)
  PROVE  IsPut(v, part, d, w, m, g)
<1> DEFINE e == Back(v)
           f == [e EXCEPT !.object[part.name] = d]
           n == part.name
<1>1. /\ w = ReplaceBack(v, f) /\ v.concat # <<>> /\ e.kind = "object" /\ n \in DOMAIN e.object
      /\ at_part(v, part) = e.object[n]
  BY DEF with_part, Present, at_part
<1>2. IsEntry(e)
  BY <1>1, BelowBack
<1> HIDE DEF e, n
<1>3. f = ObjectEntry(with_member(e.object, n, d))
  BY <1>1, <1>2, MemberReplaced DEF n
<1> HIDE DEF f
<1>4. HasMember(f, e, n, d)
  BY <1>1, <1>3, WithMember
<1>5. /\ IsConcat(w, g) /\ SameFlags(w, v) /\ w.concat # <<>> /\ Back(w) = f
      /\ Gained(w, v, f)
      /\ Hollow(v) /\ HollowEntry(f) => Hollow(w)
  BY <1>1, <1>4, ReplaceEntry DEF HasMember
<1>6. Present(w, part) /\ at_part(w, part) = d
  BY <1>4, <1>5 DEF Present, at_part, HasMember, n
<1>7. \A x \in BelowConcat(w) : x \in BelowConcat(v) \cup {d}
  <2>1. Below(e) \subseteq BelowConcat(v)
    BY <1>1, BelowBack DEF e
  <2> QED  BY <1>4, <1>5, <2>1 DEF Gained, HasMember
<1>8. ASSUME Hollow(v), Hollow(d) PROVE Hollow(w)
  <2>1. HollowEntry(e)
    BY <1>1, <1>8, HollowBack DEF e
  <2>2. e.object[n] \in Below(e)
    BY <1>1 DEF Below
  <2>3. d.implicit
    BY <1>1, <2>1, <2>2 DEF HollowEntry
  <2> QED  BY <1>4, <1>5, <1>8, <2>1, <2>3 DEF HasMember
<1> QED  BY <1>5, <1>6, <1>7, <1>8 DEF IsPut, SameFlags

LEMMA HollowHasNoArray ==
  ASSUME NEW c, NEW i \in DOMAIN c.concat, c.concat[i].kind = "array"
  PROVE  ~ Hollow(c)
BY HollowBelow DEF implicit_entries

(* An array entry with other elements, none of them implicit. *)
LEMMA WithElements ==
  ASSUME NEW e, NEW a, NEW d, NEW f, IsEntry(e), e.kind = "array", IsSeq(a), a # <<>>,
         \A x \in ToSet(a) : x \in ToSet(e.array) \cup {d}, ~ d.implicit,
         f = [e EXCEPT !.array = a]
  PROVE  /\ IsEntry(f) /\ f.kind = "array" /\ f.array = a
         /\ \A x \in Below(f) : x \in Below(e) \cup {d}
<1>1. e = FunctionEntry(e.function, e.array) /\ \A x \in ToSet(e.array) : ~ x.implicit
  BY DEF IsEntry, Below
<1>2. f = FunctionEntry(e.function, a)
  BY <1>1 DEF FunctionEntry
<1>3. f.kind = "array" /\ f.array = a /\ f.function = e.function
  BY <1>2 DEF FunctionEntry
<1>4. Below(f) = ToSet(a) /\ Below(e) = ToSet(e.array)
  BY <1>3 DEF Below
<1> QED  BY <1>1, <1>2, <1>3, <1>4 DEF IsEntry

LEMMA PutAppend ==
  ASSUME NEW v, NEW g, NEW m, NEW part, NEW d, NEW w, IsConcat(v, g), Present(v, part),
         part.kind = "append", ~ d.implicit, w = with_part(v, part, d)
  PROVE  IsPut(v, part, d, w, m, g)
<1> DEFINE e == Back(v)
           a == Append(Front(e.array), d)
           f == [e EXCEPT !.array = a]
<1>1. /\ w = ReplaceBack(v, f) /\ v.concat # <<>> /\ e.kind = "array" /\ e.array # <<>>
      /\ v.generation = part.generation
  BY DEF with_part, Present
<1>2. IsEntry(e) /\ Below(e) \subseteq BelowConcat(v)
  BY <1>1, BelowBack
<1> HIDE DEF e
<1>3. IsSeq(e.array)
  BY <1>1, <1>2 DEF IsEntry
<1>4. /\ IsSeq(a) /\ Len(a) = Len(e.array) /\ Len(e.array) \in Nat \ {0} /\ a # <<>>
      /\ \A i \in 1..Len(e.array) - 1 : a[i] = e.array[i]
      /\ a[Len(e.array)] = d /\ Last(a) = d
  <2> DEFINE s == e.array
  <2>1. IsSeq(s) /\ s # <<>>
    BY <1>1, <1>3
  <2> HIDE DEF s
  <2>2. LET t == Append(Front(s), d)
        IN  /\ IsSeq(t) /\ Len(t) = Len(s) /\ Len(s) \in Nat \ {0} /\ t # <<>>
            /\ \A i \in 1..Len(s) - 1 : t[i] = s[i]
            /\ t[Len(s)] = d /\ Last(t) = d
    BY <2>1, ReplaceLastSeq
  <2> QED  BY <2>2 DEF s
<1>5. \A x \in ToSet(a) : x \in ToSet(e.array) \cup {d}
  <2> HIDE DEF a
  <2>1. PICK S : a \in Seq(S)
    BY <1>4 DEF IsSeq
  <2>2. PICK T : e.array \in Seq(T)
    BY <1>3 DEF IsSeq
  <2>3. DOMAIN a = 1..Len(e.array) /\ DOMAIN e.array = 1..Len(e.array)
    BY <1>4, <2>1, <2>2
  <2>4. \A i \in 1..Len(e.array) : i = Len(e.array) \/ i \in 1..Len(e.array) - 1
    BY <1>4
  <2> QED  BY <1>4, <2>3, <2>4 DEF ToSet
<1>6. f = [e EXCEPT !.array = a]
  OBVIOUS
<1> HIDE DEF a, f
<1>7. /\ IsEntry(f) /\ f.kind = "array" /\ f.array = a
      /\ \A x \in Below(f) : x \in Below(e) \cup {d}
  BY <1>1, <1>2, <1>4, <1>5, <1>6, WithElements
<1>8. /\ IsConcat(w, g) /\ SameFlags(w, v) /\ w.concat # <<>> /\ Back(w) = f
      /\ Gained(w, v, f)
  BY <1>1, <1>7, ReplaceEntry
<1>9. Present(w, part) /\ at_part(w, part) = d
  BY <1>1, <1>4, <1>7, <1>8 DEF Present, at_part, SameFlags
<1>10. \A x \in BelowConcat(w) : x \in BelowConcat(v) \cup {d}
  BY <1>2, <1>7, <1>8 DEF Gained
<1>11. ~ Hollow(v)
  BY <1>1, HollowBack DEF HollowEntry, e
<1>12. last_elements(w) = last_elements(v)
  BY <1>4, <1>7, <1>8 DEF last_elements, e
<1> QED  BY <1>8, <1>9, <1>10, <1>11, <1>12 DEF IsPut, SameFlags

with_element(s, n, e) == [s EXCEPT ![n] = e]

LEMMA WithElement ==
  ASSUME NEW s, NEW n, NEW e, NEW t, IsSeq(s), n \in 1..Len(s), t = with_element(s, n, e)
  PROVE  /\ IsSeq(t) /\ Len(t) = Len(s) /\ DOMAIN t = DOMAIN s /\ DOMAIN s = 1..Len(s)
         /\ t[n] = e /\ \A i \in 1..Len(s) : i # n => t[i] = s[i]
<1>1. PICK S : s \in Seq(S)
  BY DEF IsSeq
<1>2. s \in Seq(S \cup {e}) /\ e \in S \cup {e}
  BY <1>1
<1> DEFINE T == S \cup {e}
<1> HIDE DEF T
<1>3. t \in Seq(T)
  BY <1>2 DEF T, with_element
<1>4. DOMAIN s = 1..Len(s) /\ Len(s) \in Nat /\ s = [i \in DOMAIN s |-> s[i]]
  BY <1>1
<1>5. DOMAIN t = DOMAIN s /\ t[n] = e /\ \A i \in 1..Len(s) : i # n => t[i] = s[i]
  BY <1>4 DEF with_element
<1>6. DOMAIN t = 1..Len(t) /\ Len(t) \in Nat
  BY <1>3
<1>7. Len(t) = Len(s)
  BY <1>4, <1>5, <1>6
<1> QED  BY <1>3, <1>4, <1>5, <1>7 DEF IsSeq

LEMMA PutIndex ==
  ASSUME NEW v, NEW g, NEW m, NEW part, NEW d, NEW w, IsConcat(v, g), Present(v, part),
         part.kind = "index", part.index \in Nat, ~ d.implicit, w = with_part(v, part, d)
  PROVE  IsPut(v, part, d, w, m, g)
<1> DEFINE x == part.index
           i == StopsAt(v, x)
           n == Element(v, x)
           e == v.concat[i]
           a == [e.array EXCEPT ![n] = d]
           f == [e EXCEPT !.array = a]
           q == [v.concat EXCEPT ![i] = f]
<1>1. w = [v EXCEPT !.concat[i].array[n] = d] /\ IsIndexed(v, x)
  BY DEF with_part, Present, StopsAt, Element
<1>2. i \in 1..Len(v.concat) /\ n \in 1..Len(e.array) /\ e.kind = "array"
  BY <1>1, IndexPlace DEF IsIndexed
<1>3. IsEntry(e) /\ IsSeq(e.array) /\ IsSeq(v.concat) /\ DOMAIN v.concat = 1..Len(v.concat)
  BY <1>2, BelowEntries DEF IsConcat, IsEntry
<1> HIDE DEF x, i, n
<1>4. w = [v EXCEPT !.concat = q]
  <2>1. v = [remove |-> v.remove, implicit |-> v.implicit, temporary |-> v.temporary,
             generation |-> v.generation, concat |-> v.concat]
    BY DEF IsConcat
  <2> QED  BY <1>1, <2>1
<1> HIDE DEF e
<1>5. /\ IsSeq(a) /\ Len(a) = Len(e.array) /\ DOMAIN a = DOMAIN e.array /\ DOMAIN a = 1..Len(a)
      /\ a[n] = d /\ \A j \in 1..Len(e.array) : j # n => a[j] = e.array[j]
  <2>1. a = with_element(e.array, n, d)
    BY DEF with_element
  <2> HIDE DEF a, f, q
  <2> QED  BY <1>2, <1>3, <2>1, WithElement
<1> HIDE DEF a
<1>6. \A y \in ToSet(a) : y \in ToSet(e.array) \cup {d}
  BY <1>5 DEF ToSet
<1>7. a # <<>>
  BY <1>2, <1>5
<1>8. /\ IsEntry(f) /\ f.kind = "array" /\ f.array = a
      /\ \A y \in Below(f) : y \in Below(e) \cup {d}
  <2>1. f = [e EXCEPT !.array = a]
    OBVIOUS
  <2> HIDE DEF f, q
  <2> QED  BY <1>2, <1>3, <1>5, <1>6, <1>7, <2>1, WithElements
<1> HIDE DEF f
<1>9. /\ IsSeq(q) /\ Len(q) = Len(v.concat) /\ DOMAIN q = DOMAIN v.concat
      /\ q[i] = f /\ \A j \in 1..Len(v.concat) : j # i => q[j] = v.concat[j]
  <2>1. q = with_element(v.concat, i, f)
    BY DEF with_element
  <2> HIDE DEF q
  <2> QED  BY <1>2, <1>3, <2>1, WithElement
<1> HIDE DEF q
<1>10. IsConcat(w, g) /\ w.concat = q /\ w.implicit = v.implicit /\ w.generation = v.generation
  <2>1. \A j \in 1..Len(q) : IsEntry(q[j])
    BY <1>8, <1>9 DEF IsConcat
  <2> QED  BY <1>4, <1>9, <2>1, WithEntries
<1>11. \A y \in BelowConcat(w) : y \in BelowConcat(v) \cup {d}
  <2>1. i \in 1..Len(w.concat) /\ w.concat[i] = f
    BY <1>2, <1>9, <1>10
  <2>2. \A j \in 1..Len(w.concat) : j # i => j \in 1..Len(v.concat) /\ w.concat[j] = v.concat[j]
    BY <1>9, <1>10
  <2>3. BelowConcat(w) \subseteq BelowConcat(v) \cup Below(f)
    BY <1>10, <2>1, <2>2, BelowOther
  <2>4. Below(e) \subseteq BelowConcat(v)
    BY <1>2, <1>3 DEF BelowConcat, e
  <2> QED  BY <1>8, <2>3, <2>4
<1>12. SameSizes(v, w)
  <2>1. ASSUME NEW j \in 1..Len(v.concat)
        PROVE  /\ v.concat[j].kind = "array" <=> w.concat[j].kind = "array"
               /\ size(v.concat[j]) = size(w.concat[j])
    <3>1. CASE j = i
      BY <1>2, <1>5, <1>8, <1>9, <1>10, <3>1 DEF size, e
    <3>2. CASE j # i
      BY <1>9, <1>10, <3>2
    <3> QED  BY <3>1, <3>2
  <2> QED  BY <1>9, <1>10, <2>1 DEF SameSizes
<1>13. StopsAt(w, x) = i /\ IsIndexed(w, x) /\ Element(w, x) = n
  BY <1>1, <1>12, SameStops DEF i, n
<1>14. Present(w, part) /\ at_part(w, part) = d
  <2>1. at_part(w, part) = w.concat[StopsAt(w, x)].array[Element(w, x)]
    BY DEF at_part, StopsAt, Element, x
  <2>2. at_part(w, part) = d
    BY <1>5, <1>8, <1>9, <1>10, <1>13, <2>1
  <2>3. Present(w, part)
    BY <1>13 DEF Present, x
  <2> QED  BY <2>2, <2>3
<1>15. ~ Hollow(v)
  BY <1>2, <1>3, HollowHasNoArray DEF e
<1> QED  BY <1>10, <1>11, <1>14, <1>15 DEF IsPut

LEMMA PutPart ==
  ASSUME NEW v, NEW g, NEW m, NEW part \in PathPart, NEW d, NEW w, IsConcat(v, g),
         Present(v, part), d.implicit = at_part(v, part).implicit, w = with_part(v, part, d)
  PROVE  IsPut(v, part, d, w, m, g)
<1>1. part.kind # "name" => ~ d.implicit
  BY AtPart
<1>2. CASE part.kind = "asterisk"
  BY <1>1, <1>2, PutAsterisk
<1>3. CASE part.kind = "name"
  BY <1>3, PutName
<1>4. CASE part.kind = "index" /\ part.index \in Nat
  BY <1>1, <1>4, PutIndex
<1>5. CASE part.kind = "append"
  BY <1>1, <1>5, PutAppend
<1> QED  BY <1>2, <1>3, <1>4, <1>5, PartKinds

-----------------------------------------------------------------------------
(* The change at the end of the path. *)

ImplicitThing(thing) == thing = Clear \/ \E b \in BOOLEAN : thing = Temporary(b)

ManifestThing(thing) ==
  \/ \E e : IsEntry(e) /\ Below(e) = {} /\ (thing = Emplace(e) \/ thing = Ensure(e))
  \/ \E f : thing = Function(f)

Fits(thing, mode) ==
  \/ mode = "implicit" /\ ImplicitThing(thing)
  \/ mode = "manifest" /\ ManifestThing(thing)

(* What phase1_append makes of a concat. *)
IsChanged(c, d, mode, m, g) ==
  /\ Tree(d, m, g) /\ d.implicit = c.implicit
  /\ mode = "implicit" /\ Hollow(c) => Hollow(d)

LEMMA ApplyClear ==
  ASSUME NEW c, NEW m, NEW g, NEW d, Tree(c, m, g), d = Apply(Clear, c)
  PROVE  Tree(d, m, g) /\ d.implicit = c.implicit /\ Hollow(d)
<1>1. m \in Nat \ {0} /\ IsConcat(c, g)
  BY TreeBelow
<1>2. d = [c EXCEPT !.concat = <<>>, !.remove = TRUE]
  BY DEF Apply, Clear
<1>3. d = [remove |-> TRUE, implicit |-> c.implicit, temporary |-> c.temporary,
           generation |-> c.generation, concat |-> <<>>]
  BY <1>1, <1>2 DEF IsConcat
<1>4. /\ d.remove = TRUE /\ d.implicit = c.implicit /\ d.temporary = c.temporary
      /\ d.generation = c.generation /\ d.concat = <<>>
  BY <1>3
<1>5. d = [remove |-> d.remove, implicit |-> d.implicit, temporary |-> d.temporary,
           generation |-> d.generation, concat |-> d.concat]
  BY <1>3
<1>6. d.implicit \in BOOLEAN /\ d.generation \in 0..g
  BY <1>1, <1>4 DEF IsConcat
<1>7. IsSeq(d.concat) /\ \A i \in 1..Len(d.concat) : IsEntry(d.concat[i])
  BY <1>4 DEF IsSeq
<1>8. IsConcat(d, g)
  BY <1>5, <1>6, <1>7 DEF IsConcat
<1>9. BelowConcat(d) = {} /\ implicit_entries(d)
  BY <1>4 DEF BelowConcat, implicit_entries
<1>10. Hollow(d)
  BY <1>9, HollowAbove
<1> QED  BY <1>1, <1>4, <1>8, <1>9, <1>10, TreeAbove

LEMMA ApplyTemporary ==
  ASSUME NEW c, NEW m, NEW g, NEW b, NEW d, Tree(c, m, g), d = Apply(Temporary(b), c)
  PROVE  Tree(d, m, g) /\ d.implicit = c.implicit /\ (Hollow(c) => Hollow(d))
<1>1. /\ m \in Nat \ {0} /\ IsConcat(c, g) /\ (c.implicit => Hollow(c))
      /\ \A e \in BelowConcat(c) : Tree(e, m - 1, g)
  BY TreeBelow
<1>2. d = [c EXCEPT !.temporary = b]
  BY DEF Apply, Temporary
<1>3. IsConcat(d, g) /\ d.concat = c.concat /\ d.implicit = c.implicit
  BY <1>1, <1>2 DEF IsConcat
<1>4. BelowConcat(d) = BelowConcat(c) /\ (implicit_entries(c) <=> implicit_entries(d))
  BY <1>3 DEF BelowConcat, implicit_entries
<1>5. Hollow(c) => Hollow(d)
  BY <1>4, HollowBelow, HollowAbove
<1> QED  BY <1>1, <1>3, <1>4, <1>5, TreeAbove

(* An entry with nothing below it is added or is there already. *)
LEMMA WithLeaf ==
  ASSUME NEW c, NEW m, NEW g, NEW e, NEW d, Tree(c, m, g), ~ c.implicit, IsEntry(e), Below(e) = {},
         d = with_entry(c, e) \/ d = back_ensure_init(c, e)
  PROVE  /\ Tree(d, m, g) /\ d.implicit = c.implicit /\ d.concat # <<>>
         /\ d = back_ensure_init(c, e) => Back(d).kind = e.kind
<1>1. /\ m \in Nat \ {0} /\ IsConcat(c, g)
      /\ \A x \in BelowConcat(c) : Tree(x, m - 1, g)
  BY TreeBelow
<1>2. d = with_entry(c, e) => IsConcat(d, g) /\ SameFlags(d, c) /\ Gained(d, c, e) /\ d.concat # <<>>
  BY <1>1, AppendEntry
<1>3. d = back_ensure_init(c, e) =>
        /\ IsConcat(d, g) /\ SameFlags(d, c) /\ Gained(d, c, e) /\ d.concat # <<>>
        /\ Back(d).kind = e.kind
  BY <1>1, EnsureEntry
<1>4. \A x \in BelowConcat(d) : Tree(x, m - 1, g)
  BY <1>1, <1>2, <1>3 DEF Gained
<1>5. d.implicit = c.implicit /\ IsConcat(d, g) /\ m \in Nat \ {0}
  BY <1>1, <1>2, <1>3 DEF SameFlags
<1>6. Tree(d, m, g)
  BY <1>4, <1>5, TreeAbove
<1> QED  BY <1>2, <1>3, <1>5, <1>6

LEMMA ApplyFunction ==
  ASSUME NEW c, NEW m, NEW g, NEW name, NEW d, Tree(c, m, g), ~ c.implicit,
         d = back_emplace_func(c, name)
  PROVE  Tree(d, m, g) /\ d.implicit = c.implicit
<1> DEFINE a == ArrayEntry(<<>>)
           b == back_ensure_init(c, a)
           e == Back(b)
           f == [e EXCEPT !.function = name]
<1>1. d = ReplaceBack(b, f)
  BY DEF back_emplace_func
<1>2. IsEntry(a) /\ Below(a) = {} /\ a.kind = "array"
  BY NewEntries DEF ArrayEntry
<1> HIDE DEF a
<1>3. Tree(b, m, g) /\ b.implicit = c.implicit /\ b.concat # <<>> /\ e.kind = "array"
  BY <1>2, WithLeaf
<1> HIDE DEF b
<1>4. m \in Nat \ {0} /\ IsConcat(b, g) /\ \A x \in BelowConcat(b) : Tree(x, m - 1, g)
  BY <1>3, TreeBelow
<1>5. IsEntry(e) /\ Below(e) \subseteq BelowConcat(b)
  BY <1>3, <1>4, BelowBack
<1> HIDE DEF e
<1>6. f = FunctionEntry(name, e.array)
  BY <1>3, <1>5 DEF IsEntry, FunctionEntry
<1> HIDE DEF f
<1>7. f.kind = "array" /\ f.array = e.array /\ f.function = name
  BY <1>6 DEF FunctionEntry
<1>8. Below(f) = Below(e)
  BY <1>3, <1>7 DEF Below
<1>9. IsEntry(f)
  BY <1>3, <1>5, <1>6, <1>7, <1>8 DEF IsEntry
<1>10. IsConcat(d, g) /\ SameFlags(d, b) /\ Gained(d, b, f)
  BY <1>1, <1>3, <1>4, <1>9, ReplaceEntry
<1>11. \A x \in BelowConcat(d) : Tree(x, m - 1, g)
  BY <1>4, <1>5, <1>8, <1>10 DEF Gained
<1>12. d.implicit = c.implicit
  BY <1>3, <1>10 DEF SameFlags
<1> QED  BY <1>4, <1>10, <1>11, <1>12, TreeAbove

(* An array or a call is begun: an array is at the end. *)
LEMMA ListThing ==
  ASSUME NEW c, NEW g, NEW thing, NEW d, IsConcat(c, g), d = Apply(thing, c),
         thing = Ensure(ArrayEntry(<<>>)) \/ \E f : thing = Function(f)
  PROVE  d.concat # <<>> /\ Back(d).kind = "array"
<1> DEFINE a == ArrayEntry(<<>>)
           b == back_ensure_init(c, a)
           e == Back(b)
<1>1. IsEntry(a) /\ Below(a) = {} /\ a.kind = "array"
  BY NewEntries DEF ArrayEntry
<1>2. thing = Ensure(a) \/ \E f : thing = Function(f)
  OBVIOUS
<1> HIDE DEF a
<1>3. IsConcat(b, g) /\ b.concat # <<>> /\ e.kind = "array"
  BY <1>1, EnsureEntry
<1>4. CASE thing = Ensure(a)
  <2>1. thing.thing = "ensure" /\ thing.entry = a
    BY <1>4 DEF Ensure
  <2>2. d = b
    BY <2>1 DEF Apply
  <2> QED  BY <1>3, <2>2
<1>5. ASSUME NEW name, thing = Function(name)
      PROVE  d.concat # <<>> /\ Back(d).kind = "array"
  <2> DEFINE f == [e EXCEPT !.function = name]
  <2>1. d = ReplaceBack(b, f)
    BY <1>5 DEF Apply, Function, back_emplace_func, a
  <2> HIDE DEF b
  <2>2. IsEntry(e)
    BY <1>3, BelowBack
  <2> HIDE DEF e
  <2>3. f = FunctionEntry(name, e.array)
    BY <1>3, <2>2 DEF IsEntry, FunctionEntry
  <2> HIDE DEF f
  <2>4. f.kind = "array" /\ f.array = e.array /\ f.function = name
    BY <2>3 DEF FunctionEntry
  <2>5. Below(f) = Below(e)
    BY <1>3, <2>4 DEF Below
  <2>6. IsEntry(f)
    BY <1>3, <2>2, <2>3, <2>4, <2>5 DEF IsEntry
  <2>7. d.concat # <<>> /\ Back(d) = f
    BY <1>3, <2>1, <2>6, ReplaceEntry
  <2> QED  BY <2>4, <2>7
<1> QED  BY <1>2, <1>4, <1>5

LEMMA ApplyThing ==
  ASSUME NEW c, NEW m, NEW g, NEW thing, NEW mode \in {"implicit", "manifest"}, NEW d, Tree(c, m, g),
         Fits(thing, mode), mode = "manifest" => ~ c.implicit, d = Apply(thing, c)
  PROVE  IsChanged(c, d, mode, m, g)
<1>1. CASE mode = "implicit"
  <2>1. ImplicitThing(thing)
    BY <1>1 DEF Fits
  <2>2. CASE thing = Clear
    BY <2>2, ApplyClear DEF IsChanged
  <2>3. CASE \E b \in BOOLEAN : thing = Temporary(b)
    BY <2>3, ApplyTemporary DEF IsChanged
  <2> QED  BY <2>1, <2>2, <2>3 DEF ImplicitThing
<1>2. CASE mode = "manifest"
  <2>1. ManifestThing(thing) /\ ~ c.implicit
    BY <1>2 DEF Fits
  <2>2. ASSUME NEW e, IsEntry(e), Below(e) = {}, thing = Emplace(e) \/ thing = Ensure(e)
        PROVE  IsChanged(c, d, mode, m, g)
    <3>1. d = with_entry(c, e) \/ d = back_ensure_init(c, e)
      <4>1. CASE thing = Emplace(e)
        <5>1. thing.thing = "emplace" /\ thing.entry = e
          BY <4>1 DEF Emplace
        <5> QED  BY <5>1 DEF Apply, with_entry
      <4>2. CASE thing = Ensure(e)
        <5>1. thing.thing = "ensure" /\ thing.entry = e
          BY <4>2 DEF Ensure
        <5> QED  BY <5>1 DEF Apply
      <4> QED  BY <2>2, <4>1, <4>2
    <3>2. Tree(d, m, g) /\ d.implicit = c.implicit
      BY <2>1, <2>2, <3>1, WithLeaf
    <3> QED  BY <1>2, <3>2 DEF IsChanged
  <2>3. ASSUME NEW f, thing = Function(f)
        PROVE  IsChanged(c, d, mode, m, g)
    <3>1. d = back_emplace_func(c, f)
      BY <2>3 DEF Apply, Function
    <3>2. Tree(d, m, g) /\ d.implicit = c.implicit
      BY <2>1, <3>1, ApplyFunction
    <3> QED  BY <1>2, <3>2 DEF IsChanged
  <2> QED  BY <2>1, <2>2, <2>3 DEF ManifestThing
<1> QED  BY <1>1, <1>2

-----------------------------------------------------------------------------
(* Concats that are kept, in the same way: whatever is in c is in d, at its *)
(* place, on all levels. *)
KeepSet(R) ==
  \A c, d : <<c, d>> \in R =>
    /\ keeps(c, d) /\ c.generation \in Nat /\ d.generation \in Nat
    /\ \A x, y : <<x, y>> \in pairs_below(c, d) => <<x, y>> \in R

Kept(c, d) == \E R : KeepSet(R) /\ <<c, d>> \in R

KeptEntry(e, f) == stays(e, f) /\ \A x, y : <<x, y>> \in same_places(e, f) => Kept(x, y)

KeptFlags(c, d) ==
  /\ c.remove => d.remove
  /\ c.generation \in Nat /\ d.generation \in Nat /\ c.generation <= d.generation

LEMMA KeptBelow ==
  ASSUME NEW c, NEW d, Kept(c, d)
  PROVE  /\ keeps(c, d) /\ c.generation \in Nat /\ d.generation \in Nat
         /\ \A x, y : <<x, y>> \in pairs_below(c, d) => Kept(x, y)
BY DEF Kept, KeepSet

LEMMA PairsArePairs ==
  /\ \A e, f : \A p \in same_places(e, f) : p = <<p[1], p[2]>>
  /\ \A c, d : \A p \in pairs_below(c, d) : p = <<p[1], p[2]>>
<1>1. ASSUME NEW e, NEW f, NEW p \in same_places(e, f) PROVE p = <<p[1], p[2]>>
  <2>1. \E x, y : p = <<x, y>>
    <3>1. CASE e.kind = "array"
      BY <1>1, <3>1 DEF same_places
    <3>2. CASE e.kind = "object"
      BY <1>1, <3>2 DEF same_places
    <3>3. CASE e.kind = "asterisk"
      BY <1>1, <3>3 DEF same_places
    <3>4. CASE e.kind \notin {"array", "object", "asterisk"}
      BY <1>1, <3>4 DEF same_places
    <3> QED  BY <3>1, <3>2, <3>3, <3>4
  <2> QED  BY <2>1
<1> QED  BY <1>1 DEF pairs_below

LEMMA KeptAbove ==
  ASSUME NEW c, NEW d, keeps(c, d), c.generation \in Nat, d.generation \in Nat,
         \A x, y : <<x, y>> \in pairs_below(c, d) => Kept(x, y)
  PROVE  Kept(c, d)
<1> DEFINE B     == pairs_below(c, d)
           RR(p) == CHOOSE R : KeepSet(R) /\ p \in R
           G     == {<<c, d>>} \cup UNION {RR(p) : p \in B}
<1>1. \A p \in B : KeepSet(RR(p)) /\ p \in RR(p)
  <2> SUFFICES ASSUME NEW p \in B PROVE \E R : KeepSet(R) /\ p \in R
    OBVIOUS
  <2>1. p = <<p[1], p[2]>>
    BY PairsArePairs
  <2>2. Kept(p[1], p[2])
    BY <2>1
  <2> QED  BY <2>1, <2>2 DEF Kept
<1>2. \A x, y : <<x, y>> \in pairs_below(c, d) => <<x, y>> \in B
  OBVIOUS
<1> HIDE DEF RR, B
<1>3. ASSUME NEW u, NEW v, <<u, v>> \in G
      PROVE  /\ keeps(u, v) /\ u.generation \in Nat /\ v.generation \in Nat
             /\ \A x, y : <<x, y>> \in pairs_below(u, v) => <<x, y>> \in G
  <2>1. CASE <<u, v>> = <<c, d>>
    <3>1. u = c /\ v = d
      BY <2>1
    <3> QED  BY <1>1, <1>2, <3>1
  <2>2. CASE <<u, v>> # <<c, d>>
    <3>1. PICK p \in B : <<u, v>> \in RR(p)
      BY <1>3, <2>2
    <3>2. KeepSet(RR(p)) /\ RR(p) \subseteq G
      BY <1>1
    <3>3. /\ keeps(u, v) /\ u.generation \in Nat /\ v.generation \in Nat
          /\ \A x, y : <<x, y>> \in pairs_below(u, v) => <<x, y>> \in RR(p)
      BY <3>1, <3>2 DEF KeepSet
    <3> HIDE DEF G
    <3> QED  BY <3>2, <3>3
  <2> QED  BY <2>1, <2>2
<1>4. <<c, d>> \in G
  OBVIOUS
<1> HIDE DEF G
<1>5. KeepSet(G)
  BY <1>3 DEF KeepSet
<1> QED  BY <1>4, <1>5 DEF Kept

(* Entry by entry. *)
LEMMA KeptEntries ==
  ASSUME NEW c, NEW d, Kept(c, d)
  PROVE  /\ KeptFlags(c, d) /\ DOMAIN c.concat \subseteq DOMAIN d.concat
         /\ \A i \in DOMAIN c.concat : KeptEntry(c.concat[i], d.concat[i])
<1>1. /\ keeps(c, d) /\ c.generation \in Nat /\ d.generation \in Nat
      /\ \A x, y : <<x, y>> \in pairs_below(c, d) => Kept(x, y)
  BY KeptBelow
<1>2. KeptFlags(c, d) /\ DOMAIN c.concat \subseteq DOMAIN d.concat
  BY <1>1 DEF keeps, KeptFlags
<1>3. ASSUME NEW i \in DOMAIN c.concat PROVE KeptEntry(c.concat[i], d.concat[i])
  <2>1. stays(c.concat[i], d.concat[i])
    BY <1>1 DEF keeps
  <2>2. same_places(c.concat[i], d.concat[i]) \subseteq pairs_below(c, d)
    BY DEF pairs_below
  <2> QED  BY <1>1, <2>1, <2>2 DEF KeptEntry
<1> QED  BY <1>2, <1>3

LEMMA EntriesKept ==
  ASSUME NEW c, NEW d, KeptFlags(c, d), DOMAIN c.concat \subseteq DOMAIN d.concat,
         \A i \in DOMAIN c.concat : KeptEntry(c.concat[i], d.concat[i])
  PROVE  Kept(c, d)
<1>1. keeps(c, d) /\ c.generation \in Nat /\ d.generation \in Nat
  BY DEF keeps, KeptFlags, KeptEntry
<1>2. ASSUME NEW x, NEW y, <<x, y>> \in pairs_below(c, d) PROVE Kept(x, y)
  <2>1. PICK i \in DOMAIN c.concat : <<x, y>> \in same_places(c.concat[i], d.concat[i])
    BY <1>2 DEF pairs_below
  <2> QED  BY <2>1 DEF KeptEntry
<1> QED  BY <1>1, <1>2, KeptAbove

(* An entry whose place is kept twice. *)
LEMMA EntryTransitive ==
  ASSUME NEW e, NEW f, NEW h, stays(e, f), stays(f, h)
  PROVE  /\ stays(e, h)
         /\ \A x, z : <<x, z>> \in same_places(e, h) =>
              \E y : <<x, y>> \in same_places(e, f) /\ <<y, z>> \in same_places(f, h)
<1>1. CASE e.kind = "array"
  <2>1. /\ f.kind = "array" /\ h.kind = "array"
        /\ DOMAIN e.array \subseteq DOMAIN f.array /\ DOMAIN f.array \subseteq DOMAIN h.array
    BY <1>1 DEF stays
  <2>2. /\ same_places(e, h) = {<<e.array[j], h.array[j]>> : j \in DOMAIN e.array}
        /\ same_places(e, f) = {<<e.array[j], f.array[j]>> : j \in DOMAIN e.array}
        /\ same_places(f, h) = {<<f.array[j], h.array[j]>> : j \in DOMAIN f.array}
    BY <1>1, <2>1 DEF same_places
  <2>3. stays(e, h)
    BY <1>1, <2>1 DEF stays
  <2>4. ASSUME NEW x, NEW z, <<x, z>> \in same_places(e, h)
        PROVE  \E y : <<x, y>> \in same_places(e, f) /\ <<y, z>> \in same_places(f, h)
    <3>1. PICK j \in DOMAIN e.array : <<x, z>> = <<e.array[j], h.array[j]>>
      BY <2>2, <2>4
    <3>2. x = e.array[j] /\ z = h.array[j] /\ j \in DOMAIN f.array
      BY <2>1, <3>1
    <3>3. <<x, f.array[j]>> \in same_places(e, f) /\ <<f.array[j], z>> \in same_places(f, h)
      BY <2>2, <3>2
    <3> QED  BY <3>3
  <2> QED  BY <2>3, <2>4
<1>2. CASE e.kind = "object"
  <2>1. /\ f.kind = "object" /\ h.kind = "object"
        /\ DOMAIN e.object \subseteq DOMAIN f.object /\ DOMAIN f.object \subseteq DOMAIN h.object
    BY <1>2 DEF stays
  <2>2. /\ same_places(e, h) = {<<e.object[n], h.object[n]>> : n \in DOMAIN e.object}
        /\ same_places(e, f) = {<<e.object[n], f.object[n]>> : n \in DOMAIN e.object}
        /\ same_places(f, h) = {<<f.object[n], h.object[n]>> : n \in DOMAIN f.object}
    BY <1>2, <2>1 DEF same_places
  <2>3. stays(e, h)
    BY <1>2, <2>1 DEF stays
  <2>4. ASSUME NEW x, NEW z, <<x, z>> \in same_places(e, h)
        PROVE  \E y : <<x, y>> \in same_places(e, f) /\ <<y, z>> \in same_places(f, h)
    <3>1. PICK n \in DOMAIN e.object : <<x, z>> = <<e.object[n], h.object[n]>>
      BY <2>2, <2>4
    <3>2. x = e.object[n] /\ z = h.object[n] /\ n \in DOMAIN f.object
      BY <2>1, <3>1
    <3>3. <<x, f.object[n]>> \in same_places(e, f) /\ <<f.object[n], z>> \in same_places(f, h)
      BY <2>2, <3>2
    <3> QED  BY <3>3
  <2> QED  BY <2>3, <2>4
<1>3. CASE e.kind = "asterisk"
  <2>1. f.kind = "asterisk" /\ h.kind = "asterisk"
    BY <1>3 DEF stays
  <2>2. /\ same_places(e, h) = {<<e.asterisk, h.asterisk>>}
        /\ same_places(e, f) = {<<e.asterisk, f.asterisk>>}
        /\ same_places(f, h) = {<<f.asterisk, h.asterisk>>}
    BY <1>3, <2>1 DEF same_places
  <2>3. stays(e, h)
    BY <1>3, <2>1 DEF stays
  <2> QED  BY <2>2, <2>3
<1>4. CASE e.kind \notin {"array", "object", "asterisk"}
  <2>1. e = f /\ f = h /\ stays(e, h)
    BY <1>4 DEF stays
  <2>2. same_places(e, h) = {}
    BY <1>4 DEF same_places
  <2> QED  BY <2>1, <2>2
<1> QED  BY <1>1, <1>2, <1>3, <1>4

LEMMA KeptTransitive ==
  ASSUME NEW a, NEW b, NEW c, Kept(a, b), Kept(b, c)
  PROVE  Kept(a, c)
<1>1. PICK R : KeepSet(R) /\ <<a, b>> \in R
  BY DEF Kept
<1>2. PICK S : KeepSet(S) /\ <<b, c>> \in S
  BY DEF Kept
<1> DEFINE RP == {p \in R : p = <<p[1], p[2]>>}
           SP(p) == {q \in S : q = <<q[1], q[2]>> /\ q[1] = p[2]}
           G  == UNION {{<<p[1], q[2]>> : q \in SP(p)} : p \in RP}
<1>3. ASSUME NEW u, NEW w PROVE <<u, w>> \in G <=> \E v : <<u, v>> \in R /\ <<v, w>> \in S
  <2>1. ASSUME <<u, w>> \in G PROVE \E v : <<u, v>> \in R /\ <<v, w>> \in S
    <3>1. PICK p \in RP : \E q \in SP(p) : <<u, w>> = <<p[1], q[2]>>
      BY <2>1
    <3>2. PICK q \in SP(p) : <<u, w>> = <<p[1], q[2]>>
      BY <3>1
    <3>3. u = p[1] /\ w = q[2] /\ p = <<u, p[2]>> /\ q = <<p[2], w>> /\ p \in R /\ q \in S
      BY <3>2
    <3> QED  BY <3>3
  <2>2. ASSUME NEW v, <<u, v>> \in R, <<v, w>> \in S PROVE <<u, w>> \in G
    <3> DEFINE p == <<u, v>>
               q == <<v, w>>
    <3>1. p \in RP /\ q \in SP(p) /\ <<u, w>> = <<p[1], q[2]>>
      BY <2>2
    <3> HIDE DEF p, q, RP, SP
    <3> QED  BY <3>1
  <2> QED  BY <2>1, <2>2
<1> HIDE DEF G
<1>4. ASSUME NEW u, NEW w, <<u, w>> \in G
      PROVE  /\ keeps(u, w) /\ u.generation \in Nat /\ w.generation \in Nat
             /\ \A x, z : <<x, z>> \in pairs_below(u, w) => <<x, z>> \in G
  <2>1. PICK v : <<u, v>> \in R /\ <<v, w>> \in S
    BY <1>3, <1>4
  <2>2. /\ keeps(u, v) /\ u.generation \in Nat /\ v.generation \in Nat
        /\ \A x, y : <<x, y>> \in pairs_below(u, v) => <<x, y>> \in R
    BY <1>1, <2>1 DEF KeepSet
  <2>3. /\ keeps(v, w) /\ w.generation \in Nat
        /\ \A x, y : <<x, y>> \in pairs_below(v, w) => <<x, y>> \in S
    BY <1>2, <2>1 DEF KeepSet
  <2>4. ASSUME NEW i \in DOMAIN u.concat
        PROVE  /\ i \in DOMAIN v.concat /\ i \in DOMAIN w.concat
               /\ stays(u.concat[i], v.concat[i]) /\ stays(v.concat[i], w.concat[i])
    BY <2>2, <2>3 DEF keeps
  <2>5. keeps(u, w)
    <3>1. \A i \in DOMAIN u.concat : i \in DOMAIN w.concat /\ stays(u.concat[i], w.concat[i])
      BY <2>4, EntryTransitive
    <3>2. (u.remove => w.remove) /\ u.generation <= w.generation
      BY <2>2, <2>3 DEF keeps
    <3> QED  BY <3>1, <3>2 DEF keeps
  <2>6. ASSUME NEW x, NEW z, <<x, z>> \in pairs_below(u, w) PROVE <<x, z>> \in G
    <3>1. PICK i \in DOMAIN u.concat : <<x, z>> \in same_places(u.concat[i], w.concat[i])
      BY <2>6 DEF pairs_below
    <3>2. PICK y : /\ <<x, y>> \in same_places(u.concat[i], v.concat[i])
                   /\ <<y, z>> \in same_places(v.concat[i], w.concat[i])
      BY <2>4, <3>1, EntryTransitive
    <3>3. <<x, y>> \in pairs_below(u, v) /\ <<y, z>> \in pairs_below(v, w)
      BY <2>4, <3>2 DEF pairs_below
    <3> QED  BY <1>3, <2>2, <2>3, <3>3
  <2> QED  BY <2>2, <2>3, <2>5, <2>6
<1>5. KeepSet(G)
  BY <1>4 DEF KeepSet
<1>6. <<a, c>> \in G
  BY <1>1, <1>2, <1>3
<1> QED  BY <1>5, <1>6 DEF Kept

(* What keeps itself. *)
LEMMA EntrySame ==
  ASSUME NEW e
  PROVE  /\ stays(e, e)
         /\ \A x, y : <<x, y>> \in same_places(e, e) => x = y /\ x \in Below(e)
<1>1. stays(e, e)
  BY DEF stays
<1>2. CASE e.kind = "array"
  <2>1. same_places(e, e) = {<<e.array[j], e.array[j]>> : j \in DOMAIN e.array}
    BY <1>2 DEF same_places
  <2>2. \A j \in DOMAIN e.array : e.array[j] \in Below(e)
    BY <1>2 DEF Below, ToSet
  <2>3. ASSUME NEW x, NEW y, <<x, y>> \in same_places(e, e) PROVE x = y /\ x \in Below(e)
    <3>1. PICK j \in DOMAIN e.array : <<x, y>> = <<e.array[j], e.array[j]>>
      BY <2>1, <2>3
    <3> QED  BY <2>2, <3>1
  <2> QED  BY <1>1, <2>3
<1>3. CASE e.kind = "object"
  <2>1. same_places(e, e) = {<<e.object[n], e.object[n]>> : n \in DOMAIN e.object}
    BY <1>3 DEF same_places
  <2>2. \A n \in DOMAIN e.object : e.object[n] \in Below(e)
    BY <1>3 DEF Below
  <2>3. ASSUME NEW x, NEW y, <<x, y>> \in same_places(e, e) PROVE x = y /\ x \in Below(e)
    <3>1. PICK n \in DOMAIN e.object : <<x, y>> = <<e.object[n], e.object[n]>>
      BY <2>1, <2>3
    <3> QED  BY <2>2, <3>1
  <2> QED  BY <1>1, <2>3
<1>4. CASE e.kind = "asterisk"
  <2>1. same_places(e, e) = {<<e.asterisk, e.asterisk>>} /\ Below(e) = {e.asterisk}
    BY <1>4 DEF same_places, Below
  <2> QED  BY <1>1, <2>1
<1>5. CASE e.kind \notin {"array", "object", "asterisk"}
  <2>1. same_places(e, e) = {}
    BY <1>5 DEF same_places
  <2> QED  BY <1>1, <2>1
<1> QED  BY <1>2, <1>3, <1>4, <1>5

(* An entry keeps itself when all below it do. *)
LEMMA EntryKept ==
  ASSUME NEW e, \A y \in Below(e) : Kept(y, y)
  PROVE  KeptEntry(e, e)
<1>1. \A x, y : <<x, y>> \in same_places(e, e) => Kept(x, y)
  BY EntrySame
<1> QED  BY <1>1, EntrySame DEF KeptEntry

LEMMA ConcatFlags ==
  ASSUME NEW c, NEW g \in Nat, IsConcat(c, g)
  PROVE  KeptFlags(c, c)
BY DEF IsConcat, KeptFlags

(* c is a concat, and so is all directly below it, which keeps itself. *)
Whole(c, g) ==
  IsConcat(c, g) /\ \A x \in BelowConcat(c) : IsConcat(x, g) /\ Kept(x, x)

LEMMA WholeEntries ==
  ASSUME NEW c, NEW g, Whole(c, g), NEW i \in DOMAIN c.concat
  PROVE  KeptEntry(c.concat[i], c.concat[i])
<1>1. Below(c.concat[i]) \subseteq BelowConcat(c)
  BY DEF BelowConcat
<1> QED  BY <1>1, EntryKept DEF Whole

(* Other flags. *)
LEMMA OtherKept ==
  ASSUME NEW c, NEW g, NEW d, Whole(c, g), d.concat = c.concat, KeptFlags(c, d)
  PROVE  Kept(c, d)
BY WholeEntries, EntriesKept

LEMMA WholeKept ==
  ASSUME NEW c, NEW g \in Nat, Whole(c, g)
  PROVE  Kept(c, c)
BY ConcatFlags, OtherKept DEF Whole

LEMMA TreeKeepsItself ==
  ASSUME NEW c, NEW m, NEW g \in Nat, Tree(c, m, g)
  PROVE  Whole(c, g) /\ Kept(c, c)
<1>1. ASSUME NEW d, NEW k, Tree(d, k, g) PROVE Kept(d, d)
  <2>1. PICK F : TreeSet(F, g) /\ <<d, k>> \in F
    BY <1>1 DEF Tree
  <2> DEFINE G == {<<p[1], p[1]>> : p \in {p \in F : p = <<p[1], p[2]>>}}
  <2>2. ASSUME NEW x, NEW y PROVE <<x, y>> \in G <=> x = y /\ \E n : <<x, n>> \in F
    <3>1. ASSUME <<x, y>> \in G PROVE x = y /\ \E n : <<x, n>> \in F
      <4>1. PICK p \in F : p = <<p[1], p[2]>> /\ <<x, y>> = <<p[1], p[1]>>
        BY <3>1
      <4>2. x = p[1] /\ y = p[1]
        BY <4>1
      <4> QED  BY <4>1, <4>2
    <3>2. ASSUME NEW n, <<x, n>> \in F, x = y PROVE <<x, y>> \in G
      <4> DEFINE p == <<x, n>>
      <4>1. p \in F /\ p = <<p[1], p[2]>> /\ <<x, y>> = <<p[1], p[1]>>
        BY <3>2
      <4> HIDE DEF p
      <4> QED  BY <4>1
    <3> QED  BY <3>1, <3>2
  <2> HIDE DEF G
  <2>3. ASSUME NEW x, NEW y, <<x, y>> \in G
        PROVE  /\ keeps(x, y) /\ x.generation \in Nat /\ y.generation \in Nat
               /\ \A u, v : <<u, v>> \in pairs_below(x, y) => <<u, v>> \in G
    <3>1. PICK n : x = y /\ <<x, n>> \in F
      BY <2>2, <2>3
    <3>2. IsConcat(x, g) /\ \A z \in BelowConcat(x) : <<z, n - 1>> \in F
      BY <2>1, <3>1 DEF TreeSet
    <3>3. KeptFlags(x, x)
      BY <3>2, ConcatFlags
    <3>4. keeps(x, x) /\ x.generation \in Nat
      BY <3>3, EntrySame DEF keeps, KeptFlags
    <3>5. ASSUME NEW u, NEW v, <<u, v>> \in pairs_below(x, x) PROVE <<u, v>> \in G
      <4>1. PICK i \in DOMAIN x.concat : <<u, v>> \in same_places(x.concat[i], x.concat[i])
        BY <3>5 DEF pairs_below
      <4>2. u = v /\ u \in Below(x.concat[i])
        BY <4>1, EntrySame
      <4>3. u \in BelowConcat(x)
        BY <4>2 DEF BelowConcat
      <4> QED  BY <2>2, <3>2, <4>2, <4>3
    <3> QED  BY <3>1, <3>4, <3>5
  <2>4. KeepSet(G)
    BY <2>3 DEF KeepSet
  <2> QED  BY <2>1, <2>2, <2>4 DEF Kept
<1>2. IsConcat(c, g) /\ \A d \in BelowConcat(c) : Tree(d, m - 1, g)
  BY TreeBelow
<1>3. \A d \in BelowConcat(c) : IsConcat(d, g)
  BY <1>2, TreeBelow
<1> QED  BY <1>1, <1>2, <1>3 DEF Whole

LEMMA NewIsKept ==
  ASSUME NEW g \in Nat
  PROVE  Whole(NewConcat, g) /\ Kept(NewConcat, NewConcat)
<1>1. Whole(NewConcat, g)
  BY NewEntries DEF Whole
<1> QED  BY <1>1, WholeKept

(* An entry is added at the end. *)
LEMMA AppendKept ==
  ASSUME NEW c, NEW g \in Nat, NEW e, NEW d, Whole(c, g), IsEntry(e), d = with_entry(c, e),
         \A y \in Below(e) : IsConcat(y, g) /\ Kept(y, y)
  PROVE  Kept(c, d) /\ Whole(d, g)
<1>1. IsConcat(c, g) /\ IsSeq(c.concat)
  BY DEF Whole, IsConcat
<1>2. IsConcat(d, g) /\ Gained(d, c, e)
  BY <1>1, AppendEntry
<1>3. Whole(d, g)
  BY <1>2 DEF Whole, Gained
<1>4. d = [remove |-> c.remove, implicit |-> c.implicit, temporary |-> c.temporary,
           generation |-> c.generation, concat |-> Append(c.concat, e)]
  BY <1>1 DEF IsConcat, with_entry
<1>5. d.concat = Append(c.concat, e) /\ d.remove = c.remove /\ d.generation = c.generation
  BY <1>4
<1>6. KeptFlags(c, d)
  BY <1>1, <1>5, ConcatFlags DEF KeptFlags
<1>7. /\ Len(d.concat) = Len(c.concat) + 1 /\ Len(c.concat) \in Nat
      /\ \A i \in 1..Len(c.concat) : d.concat[i] = c.concat[i]
  BY <1>1, <1>5, AppendSeq
<1>8. DOMAIN c.concat = 1..Len(c.concat) /\ DOMAIN d.concat = 1..Len(d.concat)
  BY <1>1, <1>2, BelowEntries
<1>9. DOMAIN c.concat \subseteq DOMAIN d.concat
  BY <1>7, <1>8
<1>10. \A i \in DOMAIN c.concat : KeptEntry(c.concat[i], d.concat[i])
  BY <1>7, <1>8, WholeEntries
<1> QED  BY <1>3, <1>6, <1>9, <1>10, EntriesKept

(* The last entry is replaced by one that keeps it. *)
LEMMA ReplaceKept ==
  ASSUME NEW v, NEW g \in Nat, NEW f, NEW w, Whole(v, g), v.concat # <<>>, KeptEntry(Back(v), f),
         w = ReplaceBack(v, f)
  PROVE  Kept(v, w)
<1> DEFINE q == Append(Front(v.concat), f)
           n == Len(v.concat)
<1>1. IsConcat(v, g) /\ IsSeq(v.concat)
  BY DEF Whole, IsConcat
<1>2. /\ IsSeq(q) /\ Len(q) = n /\ n \in Nat \ {0}
      /\ \A i \in 1..n - 1 : q[i] = v.concat[i]
      /\ q[n] = f
  <2> DEFINE s == v.concat
  <2>1. IsSeq(s) /\ s # <<>>
    BY <1>1
  <2> HIDE DEF s
  <2>2. LET t == Append(Front(s), f)
        IN  /\ IsSeq(t) /\ Len(t) = Len(s) /\ Len(s) \in Nat \ {0} /\ t # <<>>
            /\ \A i \in 1..Len(s) - 1 : t[i] = s[i]
            /\ t[Len(s)] = f /\ Last(t) = f
    BY <2>1, ReplaceLastSeq
  <2> QED  BY <2>2 DEF s
<1>3. w = [remove |-> v.remove, implicit |-> v.implicit, temporary |-> v.temporary,
           generation |-> v.generation, concat |-> q]
  BY <1>1 DEF IsConcat, ReplaceBack
<1> HIDE DEF q
<1>4. w.concat = q /\ w.remove = v.remove /\ w.generation = v.generation
  BY <1>3
<1>5. KeptFlags(v, w)
  BY <1>1, <1>4, ConcatFlags DEF KeptFlags
<1>6. DOMAIN v.concat = 1..n /\ DOMAIN q = 1..n
  <2>1. PICK S : q \in Seq(S)
    BY <1>2 DEF IsSeq
  <2>2. DOMAIN q = 1..Len(q)
    BY <2>1
  <2> QED  BY <1>1, <1>2, <2>2, BelowEntries
<1>7. ASSUME NEW i \in DOMAIN v.concat PROVE KeptEntry(v.concat[i], w.concat[i])
  <2>1. CASE i = n
    <3>1. Back(v) = v.concat[i]
      BY <2>1 DEF Back, Last
    <3> QED  BY <1>2, <1>4, <2>1, <3>1
  <2>2. CASE i # n
    <3>1. i \in 1..n - 1
      BY <1>2, <1>6, <2>2
    <3>2. w.concat[i] = v.concat[i]
      BY <1>2, <1>4, <3>1
    <3> QED  BY <3>2, WholeEntries
  <2> QED  BY <2>1, <2>2
<1>8. DOMAIN v.concat \subseteq DOMAIN w.concat
  BY <1>4, <1>6
<1> QED  BY <1>5, <1>7, <1>8, EntriesKept

LEMMA EnsureKept ==
  ASSUME NEW c, NEW g \in Nat, NEW e, NEW d, Whole(c, g), IsEntry(e), d = back_ensure_init(c, e),
         \A y \in Below(e) : IsConcat(y, g) /\ Kept(y, y)
  PROVE  Kept(c, d) /\ Whole(d, g)
<1>1. CASE d = c
  BY <1>1, WholeKept
<1>2. CASE d # c
  <2>1. d = with_entry(c, e)
    BY <1>2 DEF back_ensure_init, with_entry
  <2> QED  BY <2>1, AppendKept
<1> QED  BY <1>1, <1>2

(* Whole concats, whatever else is done to them. *)
LEMMA WholeBack ==
  ASSUME NEW c, NEW g, Whole(c, g), c.concat # <<>>
  PROVE  IsEntry(Back(c)) /\ \A y \in Below(Back(c)) : IsConcat(y, g) /\ Kept(y, y)
BY BelowBack DEF Whole

(* An array whose elements are kept. *)
LEMMA ElementsAreKept ==
  ASSUME NEW e, NEW f, e.kind = "array", f.kind = "array",
         DOMAIN e.array \subseteq DOMAIN f.array,
         \A j \in DOMAIN e.array : Kept(e.array[j], f.array[j])
  PROVE  KeptEntry(e, f)
<1>1. stays(e, f)
  BY DEF stays
<1>2. same_places(e, f) = {<<e.array[j], f.array[j]>> : j \in DOMAIN e.array}
  BY DEF same_places
<1>3. ASSUME NEW x, NEW y, <<x, y>> \in same_places(e, f) PROVE Kept(x, y)
  <2>1. PICK j \in DOMAIN e.array : <<x, y>> = <<e.array[j], f.array[j]>>
    BY <1>2, <1>3
  <2>2. x = e.array[j] /\ y = f.array[j]
    BY <2>1
  <2> QED  BY <2>2
<1> QED  BY <1>1, <1>3 DEF KeptEntry

(* An object with a member that keeps the one of that name. *)
LEMMA MemberKept ==
  ASSUME NEW e, NEW name, NEW x, NEW f, e.kind = "object", \A y \in Below(e) : Kept(y, y),
         f = ObjectEntry(with_member(e.object, name, x)),
         name \in DOMAIN e.object => Kept(e.object[name], x)
  PROVE  KeptEntry(e, f)
<1> DEFINE o == e.object
           w == with_member(o, name, x)
<1>1. w = [n \in DOMAIN o \cup {name} |-> IF n = name THEN x ELSE o[n]]
  BY DEF with_member
<1> HIDE DEF w
<1>2. DOMAIN o \subseteq DOMAIN w /\ \A n \in DOMAIN o : w[n] = IF n = name THEN x ELSE o[n]
  BY <1>1
<1>3. f.kind = "object" /\ f.object = w
  BY DEF ObjectEntry, w
<1>4. stays(e, f)
  BY <1>2, <1>3 DEF stays
<1>5. same_places(e, f) = {<<o[n], w[n]>> : n \in DOMAIN o}
  BY <1>3 DEF same_places
<1>6. \A n \in DOMAIN o : o[n] \in Below(e)
  BY DEF Below
<1>7. ASSUME NEW n \in DOMAIN o PROVE Kept(o[n], w[n])
  BY <1>2, <1>6
<1>8. ASSUME NEW y, NEW z, <<y, z>> \in same_places(e, f) PROVE Kept(y, z)
  <2> HIDE DEF o
  <2>1. PICK n \in DOMAIN o : <<y, z>> = <<o[n], w[n]>>
    BY <1>5, <1>8
  <2>2. y = o[n] /\ z = w[n]
    BY <2>1
  <2> QED  BY <1>7, <2>2
<1> QED  BY <1>4, <1>8 DEF KeptEntry

-----------------------------------------------------------------------------
(* What one part of a path keeps. *)
LEMMA MemberAtKept ==
  ASSUME NEW c, NEW m, NEW g \in Nat, NEW e, NEW name, NEW mode, NEW x, Tree(c, m, g),
         e.kind = "object", Below(e) \subseteq BelowConcat(c), x = member_at(e.object, name, mode),
         name \in DOMAIN e.object
  PROVE  Kept(e.object[name], x)
<1> DEFINE d == e.object[name]
           b == is_implicit(FALSE, d.implicit, mode)
<1>1. d \in BelowConcat(c)
  BY DEF Below
<1>2. x = [d EXCEPT !.implicit = b]
  BY DEF member_at
<1> HIDE DEF d, b
<1>3. Tree(d, m - 1, g)
  BY <1>1, TreeBelow
<1>4. IsConcat(d, g)
  BY <1>3, TreeBelow
<1>5. x = [remove |-> d.remove, implicit |-> b, temporary |-> d.temporary,
           generation |-> d.generation, concat |-> d.concat]
  BY <1>2, <1>4 DEF IsConcat
<1>6. x.concat = d.concat /\ x.remove = d.remove /\ x.generation = d.generation
  BY <1>5
<1>7. KeptFlags(d, x)
  BY <1>4, <1>6, ConcatFlags DEF KeptFlags
<1>8. Kept(d, x)
  BY <1>3, <1>6, <1>7, TreeKeepsItself, OtherKept
<1> QED  BY <1>8 DEF d

LEMMA OpenNameKept ==
  ASSUME NEW c, NEW m, NEW g \in Nat, NEW name, NEW mode, NEW r, Tree(c, m, g),
         r = phase1_append_name(c, name, mode)
  PROVE  Kept(c, r.val)
<1> DEFINE e == ObjectEntry(EmptyObject)
           d == back_ensure_init(c, e)
           x == member_at(Back(d).object, name, mode)
           f == ObjectEntry(with_member(Back(d).object, name, x))
           v == ReplaceBack(d, f)
<1>1. r.val = v
  BY DEF phase1_append_name, append_member, with_member, member_at, Returned
<1>2. IsEntry(e) /\ Below(e) = {} /\ e.kind = "object"
  BY NewEntries DEF ObjectEntry
<1> HIDE DEF e
<1>3. Whole(c, g) /\ IsConcat(c, g)
  BY TreeKeepsItself DEF Whole
<1>4. d.concat # <<>> /\ Back(d).kind = "object" /\ BelowConcat(d) \subseteq BelowConcat(c)
  <2>1. ASSUME NEW y, y = back_ensure_init(c, e)
        PROVE  y.concat # <<>> /\ Back(y).kind = "object" /\ BelowConcat(y) \subseteq BelowConcat(c)
    <3>1. /\ IsConcat(y, g) /\ SameFlags(y, c) /\ y.concat # <<>> /\ Back(y).kind = e.kind
          /\ Gained(y, c, e)
      BY <1>2, <1>3, <2>1, EnsureEntry
    <3> QED  BY <1>2, <3>1 DEF Gained
  <2> QED  BY <2>1
<1>5. Kept(c, d) /\ Whole(d, g)
  BY <1>2, <1>3, EnsureKept
<1> HIDE DEF d
<1>6. IsEntry(Back(d)) /\ \A y \in Below(Back(d)) : Kept(y, y)
  BY <1>4, <1>5, WholeBack
<1>7. Below(Back(d)) \subseteq BelowConcat(c)
  BY <1>4, <1>5, BelowBack DEF Whole
<1>8. name \in DOMAIN Back(d).object => Kept(Back(d).object[name], x)
  <2> HIDE DEF f, v
  <2> QED  BY <1>4, <1>7, MemberAtKept
<1> HIDE DEF x
<1>9. KeptEntry(Back(d), f)
  <2> HIDE DEF v
  <2> QED  BY <1>4, <1>6, <1>8, MemberKept
<1> HIDE DEF f
<1>10. Kept(d, v)
  BY <1>4, <1>5, <1>9, ReplaceKept
<1> QED  BY <1>1, <1>5, <1>10, KeptTransitive

LEMMA OpenAppendKept ==
  ASSUME NEW c, NEW m, NEW g \in Nat, NEW h, NEW r, Tree(c, m, g), h \in Nat,
         r = phase1_append_append(c, h)
  PROVE  Kept(c, r.val)
<1> DEFINE e == ArrayEntry(<<>>)
           d == back_ensure_init(c, e)
           b == [d EXCEPT !.generation = h]
           a == Back(d).array
           f == [Back(d) EXCEPT !.array = Append(a, NewConcat)]
           v == ReplaceBack(b, f)
<1>1. r = append_element(d, h)
  BY DEF phase1_append_append
<1>2. IsEntry(e) /\ Below(e) = {} /\ e.kind = "array"
  BY NewEntries DEF ArrayEntry
<1> HIDE DEF e
<1>3. Whole(c, g) /\ IsConcat(c, g)
  BY TreeKeepsItself DEF Whole
<1>4. d.concat # <<>> /\ Back(d).kind = "array"
  <2>1. ASSUME NEW y, y = back_ensure_init(c, e) PROVE y.concat # <<>> /\ Back(y).kind = "array"
    <3>1. IsConcat(y, g) /\ SameFlags(y, c) /\ y.concat # <<>> /\ Back(y).kind = e.kind
      BY <1>2, <1>3, <2>1, EnsureEntry
    <3> QED  BY <1>2, <3>1
  <2> QED  BY <2>1
<1>5. Kept(c, d) /\ Whole(d, g)
  BY <1>2, <1>3, EnsureKept
<1> HIDE DEF d
<1>6. IsEntry(Back(d)) /\ \A y \in Below(Back(d)) : Kept(y, y)
  BY <1>4, <1>5, WholeBack
<1>7. CASE is_new_generation(d, h)
  <2>1. r.val = v
    BY <1>1, <1>7 DEF append_element, Returned
  <2>2. IsSeq(a) /\ Back(d) = FunctionEntry(Back(d).function, a)
    BY <1>4, <1>6 DEF IsEntry
  <2> DEFINE q == Append(a, NewConcat)
  <2>3. /\ IsSeq(q) /\ Len(q) = Len(a) + 1 /\ Len(a) \in Nat
        /\ \A j \in 1..Len(a) : q[j] = a[j]
    <3> HIDE DEF a
    <3> QED  BY <2>2, AppendSeq
  <2>4. f.kind = "array" /\ f.array = q
    BY <2>2 DEF FunctionEntry
  <2>5. DOMAIN a = 1..Len(a) /\ DOMAIN q = 1..Len(q)
    <3> HIDE DEF a, q
    <3> QED  BY <2>2, <2>3 DEF IsSeq
  <2>6. \A j \in DOMAIN a : a[j] \in Below(Back(d))
    BY <1>4 DEF Below, ToSet
  <2>7. DOMAIN a \subseteq DOMAIN q /\ \A j \in DOMAIN a : Kept(a[j], q[j])
    <3> HIDE DEF a, q
    <3> QED  BY <1>6, <2>3, <2>5, <2>6
  <2>8. KeptEntry(Back(d), f)
    <3> HIDE DEF q, f
    <3> QED  BY <1>4, <2>4, <2>7, ElementsAreKept
  <2> HIDE DEF f, v
  <2>9. IsConcat(d, g) /\ h > d.generation
    BY <1>5, <1>7 DEF Whole, is_new_generation
  <2>10. b = [remove |-> d.remove, implicit |-> d.implicit, temporary |-> d.temporary,
              generation |-> h, concat |-> d.concat]
    BY <2>9 DEF IsConcat
  <2>11. b.concat = d.concat /\ b.remove = d.remove /\ b.generation = h
    BY <2>10
  <2> DEFINE w == ReplaceBack(d, f)
  <2>12. Kept(d, w)
    BY <1>4, <1>5, <2>8, ReplaceKept
  <2>13. v.concat = w.concat /\ v.remove = w.remove /\ v.generation = h
         /\ w.generation = d.generation /\ w.remove = d.remove
    <3> DEFINE z == Append(Front(d.concat), f)
    <3>1. v = [b EXCEPT !.concat = z] /\ w = [d EXCEPT !.concat = z]
      BY <2>11 DEF ReplaceBack, v
    <3> HIDE DEF z, b, v, w
    <3>2. v = [remove |-> d.remove, implicit |-> d.implicit, temporary |-> d.temporary,
               generation |-> h, concat |-> z]
      BY <2>10, <3>1
    <3>3. w = [remove |-> d.remove, implicit |-> d.implicit, temporary |-> d.temporary,
               generation |-> d.generation, concat |-> z]
      BY <2>9, <3>1 DEF IsConcat
    <3> QED  BY <3>2, <3>3
  <2> HIDE DEF w
  <2>14. /\ KeptFlags(d, w) /\ DOMAIN d.concat \subseteq DOMAIN w.concat
         /\ \A i \in DOMAIN d.concat : KeptEntry(d.concat[i], w.concat[i])
    BY <2>12, KeptEntries
  <2>15. KeptFlags(d, v)
    <3>1. d.generation \in Nat
      BY <2>14 DEF KeptFlags
    <3> QED  BY <2>9, <2>13, <3>1 DEF KeptFlags
  <2>16. Kept(d, v)
    BY <2>13, <2>14, <2>15, EntriesKept
  <2> QED  BY <1>5, <2>1, <2>16, KeptTransitive
<1>8. CASE ~ is_new_generation(d, h)
  <2>1. r.val = d
    BY <1>1, <1>8 DEF append_element, Returned, Asserted
  <2> QED  BY <1>5, <2>1
<1> QED  BY <1>7, <1>8

LEMMA OpenKept ==
  ASSUME NEW c, NEW m, NEW g \in Nat, NEW part \in PathPart, NEW mode, NEW r, Tree(c, m, g),
         r = append_part(c, part, mode)
  PROVE  Kept(c, r.val)
<1>1. Whole(c, g) /\ Kept(c, c) /\ IsConcat(c, g)
  BY TreeKeepsItself DEF Whole
<1>2. CASE part.kind = "asterisk"
  <2>1. r.val = back_ensure_init(c, AsteriskEntry(NewConcat))
    BY <1>2 DEF append_part, phase1_append_asterisk, Returned
  <2> QED  BY <1>1, <2>1, NewEntries, NewIsKept, EnsureKept
<1>3. CASE part.kind = "name"
  <2>1. r = phase1_append_name(c, part.name, mode)
    BY <1>3 DEF append_part
  <2> QED  BY <2>1, OpenNameKept
<1>4. CASE part.kind = "index"
  <2>1. r.val = c
    BY <1>4 DEF append_part, phase1_append_index, Returned, Thrown
  <2> QED  BY <1>1, <2>1
<1>5. CASE part.kind = "append" /\ part.generation \in Nat
  <2>1. r = phase1_append_append(c, part.generation)
    BY <1>5 DEF append_part
  <2> QED  BY <1>5, <2>1, OpenAppendKept
<1> QED  BY <1>2, <1>3, <1>4, <1>5, PartKinds

LEMMA OpenedIsWhole ==
  ASSUME NEW c, NEW v, NEW part, NEW m, NEW g \in Nat, Opened(c, v, part, m, g)
  PROVE  Whole(v, g)
BY TreeKeepsItself DEF Opened, Whole

LEMMA PutAsteriskKept ==
  ASSUME NEW v, NEW g \in Nat, NEW part, NEW d, Whole(v, g), Present(v, part),
         part.kind = "asterisk", Kept(at_part(v, part), d)
  PROVE  Kept(v, with_part(v, part, d))
<1> DEFINE e == Back(v)
           f == AsteriskEntry(d)
<1>1. /\ with_part(v, part, d) = ReplaceBack(v, f) /\ v.concat # <<>> /\ e.kind = "asterisk"
      /\ Kept(e.asterisk, d)
  BY DEF with_part, Present, at_part
<1>2. f.kind = "asterisk" /\ f.asterisk = d
  BY DEF AsteriskEntry
<1> HIDE DEF e, f
<1>3. stays(e, f)
  BY <1>1, <1>2 DEF stays
<1>4. same_places(e, f) = {<<e.asterisk, d>>}
  BY <1>1, <1>2 DEF same_places
<1>5. ASSUME NEW x, NEW y, <<x, y>> \in same_places(e, f) PROVE Kept(x, y)
  <2>1. x = e.asterisk /\ y = d
    BY <1>4, <1>5
  <2> QED  BY <1>1, <2>1
<1>6. KeptEntry(e, f)
  BY <1>3, <1>5 DEF KeptEntry
<1>7. KeptEntry(Back(v), f) /\ v.concat # <<>>
  BY <1>1, <1>6 DEF e
<1>8. Kept(v, ReplaceBack(v, f))
  BY <1>7, ReplaceKept
<1> QED  BY <1>1, <1>8

LEMMA PutNameKept ==
  ASSUME NEW v, NEW g \in Nat, NEW part, NEW d, Whole(v, g), Present(v, part),
         part.kind = "name", Kept(at_part(v, part), d)
  PROVE  Kept(v, with_part(v, part, d))
<1> DEFINE e == Back(v)
           n == part.name
           f == ObjectEntry(with_member(e.object, n, d))
<1>1. /\ with_part(v, part, d) = ReplaceBack(v, [e EXCEPT !.object[n] = d]) /\ v.concat # <<>>
      /\ e.kind = "object" /\ n \in DOMAIN e.object /\ Kept(e.object[n], d)
  BY DEF with_part, Present, at_part
<1>2. IsEntry(e) /\ \A y \in Below(e) : Kept(y, y)
  BY <1>1, WholeBack
<1> HIDE DEF e, n
<1>3. [e EXCEPT !.object[n] = d] = f
  BY <1>1, <1>2, MemberReplaced
<1>4. KeptEntry(e, f)
  BY <1>1, <1>2, MemberKept
<1> HIDE DEF f
<1>5. KeptEntry(Back(v), f) /\ v.concat # <<>>
  BY <1>1, <1>4 DEF e
<1>6. Kept(v, ReplaceBack(v, f))
  BY <1>5, ReplaceKept
<1> QED  BY <1>1, <1>3, <1>6

LEMMA PutAppendKept ==
  ASSUME NEW v, NEW g \in Nat, NEW part, NEW d, Whole(v, g), Present(v, part),
         part.kind = "append", Kept(at_part(v, part), d)
  PROVE  Kept(v, with_part(v, part, d))
<1> DEFINE e == Back(v)
           s == e.array
           q == Append(Front(s), d)
           f == [e EXCEPT !.array = q]
<1>1. /\ with_part(v, part, d) = ReplaceBack(v, f) /\ v.concat # <<>> /\ e.kind = "array"
      /\ s # <<>> /\ Kept(Last(s), d)
  BY DEF with_part, Present, at_part
<1>2. IsEntry(e) /\ \A y \in Below(e) : Kept(y, y)
  BY <1>1, WholeBack
<1> HIDE DEF e
<1>3. IsSeq(s) /\ e = FunctionEntry(e.function, s)
  BY <1>1, <1>2 DEF IsEntry
<1>4. f.kind = "array" /\ f.array = q
  BY <1>3 DEF FunctionEntry
<1>5. \A j \in DOMAIN s : s[j] \in Below(e)
  BY <1>1 DEF Below, ToSet
<1> HIDE DEF s
<1>6. /\ IsSeq(q) /\ Len(q) = Len(s) /\ Len(s) \in Nat \ {0}
      /\ \A i \in 1..Len(s) - 1 : q[i] = s[i]
      /\ q[Len(s)] = d
  <2>1. IsSeq(s) /\ s # <<>>
    BY <1>1, <1>3
  <2> QED  BY <2>1, ReplaceLastSeq, ZenonT(40)
<1> HIDE DEF q, f
<1>7. DOMAIN s = 1..Len(s) /\ DOMAIN q = 1..Len(s)
  BY <1>3, <1>6 DEF IsSeq
<1>8. ASSUME NEW j \in DOMAIN s PROVE Kept(s[j], q[j])
  <2>1. CASE j = Len(s)
    BY <1>1, <1>6, <2>1 DEF Last
  <2>2. CASE j # Len(s)
    <3>1. j \in 1..Len(s) - 1
      BY <1>6, <1>7, <2>2
    <3> QED  BY <1>2, <1>5, <1>6, <3>1
  <2> QED  BY <2>1, <2>2
<1>9. KeptEntry(e, f)
  <2>1. DOMAIN s \subseteq DOMAIN q
    BY <1>7
  <2> QED  BY <1>1, <1>4, <1>8, <2>1, ElementsAreKept DEF s
<1>10. KeptEntry(Back(v), f) /\ v.concat # <<>>
  BY <1>1, <1>9 DEF e
<1>11. Kept(v, ReplaceBack(v, f))
  BY <1>10, ReplaceKept
<1> QED  BY <1>1, <1>11

LEMMA PutIndexKept ==
  ASSUME NEW v, NEW g \in Nat, NEW part, NEW d, Whole(v, g), Present(v, part),
         part.kind = "index", part.index \in Nat, Kept(at_part(v, part), d)
  PROVE  Kept(v, with_part(v, part, d))
<1> DEFINE w == with_part(v, part, d)
           i == StopsAt(v, part.index)
           n == Element(v, part.index)
           e == v.concat[i]
           a == [e.array EXCEPT ![n] = d]
           f == [e EXCEPT !.array = a]
           q == [v.concat EXCEPT ![i] = f]
<1>1. w = [v EXCEPT !.concat[i].array[n] = d] /\ IsIndexed(v, part.index) /\ Kept(e.array[n], d)
  BY DEF with_part, Present, at_part, StopsAt, Element
<1>2. IsConcat(v, g)
  BY DEF Whole
<1>3. i \in 1..Len(v.concat) /\ n \in 1..Len(e.array) /\ e.kind = "array"
  BY <1>1, <1>2, IndexPlace DEF IsIndexed
<1> HIDE DEF i, n, w
<1>4. IsEntry(e) /\ IsSeq(e.array) /\ IsSeq(v.concat) /\ DOMAIN v.concat = 1..Len(v.concat)
  BY <1>2, <1>3, BelowEntries DEF IsConcat, IsEntry
<1>5. w = [remove |-> v.remove, implicit |-> v.implicit, temporary |-> v.temporary,
           generation |-> v.generation, concat |-> q]
  BY <1>1, <1>2 DEF IsConcat
<1>6. w.concat = q /\ w.remove = v.remove /\ w.generation = v.generation
  <2> HIDE DEF q
  <2> QED  BY <1>5
<1>7. KeptFlags(v, w)
  <2> HIDE DEF q
  <2> QED  BY <1>2, <1>6, ConcatFlags DEF KeptFlags
<1>8. \A y \in Below(e) : Kept(y, y)
  BY <1>3, <1>4 DEF Whole, BelowConcat
<1> HIDE DEF e
<1>9. e = FunctionEntry(e.function, e.array)
  BY <1>3, <1>4 DEF IsEntry
<1>10. f.kind = "array" /\ f.array = a
  BY <1>9 DEF FunctionEntry
<1>11. DOMAIN a = DOMAIN e.array /\ \A j \in DOMAIN e.array : Kept(e.array[j], a[j])
  <2>1. \A j \in DOMAIN e.array : e.array[j] \in Below(e)
    BY <1>3 DEF Below, ToSet
  <2>2. Kept(e.array[n], d)
    BY <1>1 DEF e
  <2>3. /\ DOMAIN a = DOMAIN e.array /\ a[n] = d
        /\ \A j \in 1..Len(e.array) : j # n => a[j] = e.array[j]
    <3>1. a = with_element(e.array, n, d)
      BY DEF with_element
    <3> HIDE DEF a, f, q
    <3> QED  BY <1>3, <1>4, <3>1, WithElement
  <2>4. DOMAIN e.array = 1..Len(e.array)
    BY <1>4 DEF IsSeq
  <2> HIDE DEF a
  <2> QED  BY <1>8, <2>1, <2>2, <2>3, <2>4
<1> HIDE DEF a
<1>12. KeptEntry(e, f)
  <2> HIDE DEF f
  <2> QED  BY <1>3, <1>10, <1>11, ElementsAreKept
<1> HIDE DEF f
<1>13. DOMAIN q = DOMAIN v.concat /\ q[i] = f /\ \A j \in DOMAIN v.concat : j # i => q[j] = v.concat[j]
  BY <1>3, <1>4
<1> HIDE DEF q
<1>14. \A j \in DOMAIN v.concat : KeptEntry(v.concat[j], w.concat[j])
  <2>1. KeptEntry(v.concat[i], f)
    BY <1>12 DEF e
  <2> QED  BY <1>6, <1>13, <2>1, WholeEntries
<1>15. DOMAIN v.concat \subseteq DOMAIN w.concat
  BY <1>6, <1>13
<1>16. Kept(v, w)
  BY <1>7, <1>14, <1>15, EntriesKept
<1> QED  BY <1>16 DEF w

LEMMA PutKept ==
  ASSUME NEW v, NEW g \in Nat, NEW part \in PathPart, NEW d, Whole(v, g), Present(v, part),
         Kept(at_part(v, part), d)
  PROVE  Kept(v, with_part(v, part, d))
BY PartKinds, PutAsteriskKept, PutNameKept, PutIndexKept, PutAppendKept

(* What is done at the end of a path, but for "=". *)
LEMMA ApplyKept ==
  ASSUME NEW c, NEW m, NEW g \in Nat, NEW thing, NEW mode, Tree(c, m, g), Fits(thing, mode),
         thing # Clear
  PROVE  Kept(c, Apply(thing, c))
<1>1. Whole(c, g) /\ IsConcat(c, g)
  BY TreeKeepsItself DEF Whole
<1>2. ASSUME NEW b, thing = Temporary(b) PROVE Kept(c, Apply(thing, c))
  <2> DEFINE d == Apply(thing, c)
  <2>1. d = [c EXCEPT !.temporary = b]
    BY <1>2 DEF Apply, Temporary
  <2> HIDE DEF d
  <2>2. d = [remove |-> c.remove, implicit |-> c.implicit, temporary |-> b,
             generation |-> c.generation, concat |-> c.concat]
    BY <1>1, <2>1 DEF IsConcat
  <2>3. d.concat = c.concat /\ d.remove = c.remove /\ d.generation = c.generation
    BY <2>2
  <2>4. KeptFlags(c, d)
    BY <1>1, <2>3, ConcatFlags DEF KeptFlags
  <2>5. Kept(c, d)
    BY <1>1, <2>3, <2>4, OtherKept
  <2> QED  BY <2>5 DEF d
<1>3. ASSUME NEW e, IsEntry(e), Below(e) = {}, thing = Emplace(e) \/ thing = Ensure(e)
      PROVE  Kept(c, Apply(thing, c))
  <2>1. CASE thing = Emplace(e)
    <3>1. thing.thing = "emplace" /\ thing.entry = e
      BY <2>1 DEF Emplace
    <3>2. Apply(thing, c) = with_entry(c, e)
      BY <3>1 DEF Apply, with_entry
    <3> QED  BY <1>1, <1>3, <3>2, AppendKept
  <2>2. CASE thing = Ensure(e)
    <3>1. thing.thing = "ensure" /\ thing.entry = e
      BY <2>2 DEF Ensure
    <3>2. Apply(thing, c) = back_ensure_init(c, e)
      BY <3>1 DEF Apply
    <3> QED  BY <1>1, <1>3, <3>2, EnsureKept
  <2> QED  BY <1>3, <2>1, <2>2
<1>4. ASSUME NEW name, thing = Function(name) PROVE Kept(c, Apply(thing, c))
  <2> DEFINE a == ArrayEntry(<<>>)
             b == back_ensure_init(c, a)
             e == Back(b)
             f == [e EXCEPT !.function = name]
  <2>1. Apply(thing, c) = ReplaceBack(b, f)
    BY <1>4 DEF Apply, Function, back_emplace_func
  <2>2. IsEntry(a) /\ Below(a) = {} /\ a.kind = "array"
    BY NewEntries DEF ArrayEntry
  <2> HIDE DEF a
  <2>3. Kept(c, b) /\ Whole(b, g)
    BY <1>1, <2>2, EnsureKept
  <2>4. b.concat # <<>> /\ e.kind = "array"
    <3>1. ASSUME NEW y, y = back_ensure_init(c, a) PROVE y.concat # <<>> /\ Back(y).kind = a.kind
      <4>1. IsConcat(y, g) /\ SameFlags(y, c) /\ y.concat # <<>> /\ Back(y).kind = a.kind
        BY <1>1, <2>2, <3>1, EnsureEntry
      <4> QED  BY <4>1
    <3> QED  BY <2>2, <3>1
  <2> HIDE DEF b
  <2>5. IsEntry(e) /\ \A y \in Below(e) : Kept(y, y)
    BY <2>3, <2>4, WholeBack
  <2> HIDE DEF e
  <2>6. e = FunctionEntry(e.function, e.array)
    BY <2>4, <2>5 DEF IsEntry
  <2>7. f.kind = "array" /\ f.array = e.array
    BY <2>6 DEF FunctionEntry
  <2> HIDE DEF f
  <2>8. \A j \in DOMAIN e.array : e.array[j] \in Below(e)
    BY <2>4 DEF Below, ToSet
  <2>9. KeptEntry(e, f)
    BY <2>4, <2>5, <2>7, <2>8, ElementsAreKept
  <2>10. KeptEntry(Back(b), f) /\ b.concat # <<>>
    BY <2>4, <2>9 DEF e
  <2>11. Kept(b, ReplaceBack(b, f))
    BY <2>3, <2>10, ReplaceKept
  <2> QED  BY <2>1, <2>3, <2>11, KeptTransitive
<1> QED  BY <1>2, <1>3, <1>4 DEF Fits, ImplicitThing, ManifestThing

(* A concat with an object at its end, as the root has it. *)
IsObject(c) == c.concat # <<>> /\ Back(c).kind = "object"

LEMMA ReplaceLength ==
  ASSUME NEW c, NEW g, NEW e, IsConcat(c, g), c.concat # <<>>
  PROVE  /\ Len(ReplaceBack(c, e).concat) = Len(c.concat)
         /\ ReplaceBack(c, e).concat # <<>> /\ Back(ReplaceBack(c, e)) = e
<1> DEFINE s == c.concat
           q == Append(Front(s), e)
           w == ReplaceBack(c, e)
<1>1. IsSeq(s) /\ s # <<>>
  BY DEF IsConcat
<1>2. w = [remove |-> c.remove, implicit |-> c.implicit, temporary |-> c.temporary,
           generation |-> c.generation, concat |-> q]
  BY DEF IsConcat, ReplaceBack
<1> HIDE DEF s, w
<1>3. Len(q) = Len(s) /\ q # <<>> /\ Last(q) = e
  BY <1>1, ReplaceLastSeq, ZenonT(40)
<1> HIDE DEF q
<1>4. w.concat = q
  BY <1>2
<1>5. Len(w.concat) = Len(s) /\ w.concat # <<>> /\ Last(w.concat) = e
  BY <1>3, <1>4
<1> QED  BY <1>5 DEF Back, s, w

(* A name leads through the object that is there. *)
LEMMA OpensInObject ==
  ASSUME NEW c, NEW g, NEW part, NEW mode, part.kind = "name", IsConcat(c, g), IsObject(c)
  PROVE  /\ Len(append_part(c, part, mode).val.concat) = Len(c.concat)
         /\ IsObject(append_part(c, part, mode).val)
<1>1. back_ensure_init(c, ObjectEntry(EmptyObject)) = c
  BY DEF back_ensure_init, ObjectEntry, IsObject
<1> DEFINE f == ObjectEntry(append_member(Back(c).object, part.name, mode))
<1>2. append_part(c, part, mode).val = ReplaceBack(c, f)
  BY <1>1 DEF append_part, phase1_append_name, Returned
<1>3. f.kind = "object"
  BY DEF ObjectEntry
<1> HIDE DEF f
<1>4. /\ Len(ReplaceBack(c, f).concat) = Len(c.concat)
      /\ ReplaceBack(c, f).concat # <<>> /\ Back(ReplaceBack(c, f)) = f
  BY ReplaceLength DEF IsObject
<1> QED  BY <1>2, <1>3, <1>4 DEF IsObject

LEMMA PutsInObject ==
  ASSUME NEW c, NEW g, NEW part, NEW d, part.kind = "name", IsConcat(c, g), IsObject(c)
  PROVE  Len(with_part(c, part, d).concat) = Len(c.concat)
<1> DEFINE f == [Back(c) EXCEPT !.object[part.name] = d]
<1>1. with_part(c, part, d) = ReplaceBack(c, f)
  BY DEF with_part
<1> HIDE DEF f
<1>2. Len(ReplaceBack(c, f).concat) = Len(c.concat)
  BY ReplaceLength DEF IsObject
<1> QED  BY <1>1, <1>2

-----------------------------------------------------------------------------
(* The walk along a path and back. *)

step_of(path, thing, mode, c, i) ==
  IF i = Len(path) THEN Returned(Apply(thing, c)) ELSE append_part(c, path[i + 1], mode)

next_of(path, thing, mode, above, i) ==
  IF above.error # "none" THEN above ELSE step_of(path, thing, mode, at_part(above.val, path[i]), i)

(* The recursions of walk and walked_back are definitions. *)
LEMMA WalkIsDefined ==
  ASSUME NEW concat, NEW path, NEW thing, NEW mode, NEW made, Len(path) \in Nat,
         made = walk(concat, path, thing, mode)
  PROVE  /\ made[0] = step_of(path, thing, mode, concat, 0)
         /\ \A i \in 1..Len(path) : made[i] = next_of(path, thing, mode, made[i - 1], i)
<1> DEFINE n       == Len(path)
           a       == step_of(path, thing, mode, concat, 0)
           Up(s, i) == next_of(path, thing, mode, s, i)
           IsFirst(f, m) == f = [i \in 0..m |-> IF i = 0 THEN a ELSE Up(f[i - 1], i)]
           T       == {m \in 0..n : \E f : IsFirst(f, m)}
<1>1. n \in Nat
  OBVIOUS
<1> HIDE DEF n, a, Up
<1>2. 0 \in T
  <2> DEFINE f == [i \in 0..0 |-> a]
  <2>1. IsFirst(f, 0)
    OBVIOUS
  <2> HIDE DEF f, IsFirst
  <2>2. 0 \in 0..n
    BY <1>1
  <2> QED  BY <2>1, <2>2
<1>3. ASSUME NEW m \in 0..n, m < n, m \in T
      PROVE  m + 1 \in T
  <2>1. PICK f : IsFirst(f, m)
    BY <1>3
  <2> DEFINE g == [i \in 0..m + 1 |-> IF i = m + 1 THEN Up(f[m], m + 1) ELSE f[i]]
  <2>2. m \in Nat /\ m + 1 \in 0..n
    BY <1>1, <1>3
  <2>3. \A i \in 0..m : g[i] = f[i]
    BY <2>2
  <2>4. \A i \in 0..m : f[i] = IF i = 0 THEN a ELSE Up(f[i - 1], i)
    BY <2>1
  <2>5. ASSUME NEW i \in 0..m + 1
        PROVE  g[i] = IF i = 0 THEN a ELSE Up(g[i - 1], i)
    <3>1. CASE i = m + 1
      <4>1. g[i] = Up(f[m], m + 1) /\ i # 0 /\ i - 1 = m /\ g[m] = f[m]
        BY <2>2, <2>3, <3>1
      <4> QED  BY <4>1, <3>1
    <3>2. CASE i # m + 1
      <4>1. i \in 0..m /\ (i # 0 => i - 1 \in 0..m)
        BY <2>2, <3>2
      <4>2. g[i] = f[i] /\ (i # 0 => g[i - 1] = f[i - 1])
        BY <2>3, <4>1
      <4>3. f[i] = IF i = 0 THEN a ELSE Up(f[i - 1], i)
        BY <2>4, <4>1
      <4> HIDE DEF g
      <4> QED  BY <4>2, <4>3
    <3> QED  BY <3>1, <3>2
  <2>6. IsFirst(g, m + 1)
    <3>1. g = [i \in 0..m + 1 |-> g[i]]
      OBVIOUS
    <3> HIDE DEF g
    <3> QED  BY <2>5, <3>1
  <2> QED  BY <2>2, <2>6
<1>4. \A m \in 0..n : m \in T
  <2> HIDE DEF T
  <2> QED  BY <1>1, <1>2, <1>3, InductionUpTo
<1>5. \E f : IsFirst(f, n)
  <2>1. n \in T
    <3> HIDE DEF T
    <3> QED  BY <1>1, <1>4
  <2> HIDE DEF IsFirst
  <2> QED  BY <2>1
<1> DEFINE first == CHOOSE f : IsFirst(f, n)
<1>6. IsFirst(first, n)
  BY <1>5
<1>7. made = first
  BY DEF walk, n, a, Up, step_of, next_of
<1> HIDE DEF first
<1>8. \A i \in 0..n : first[i] = IF i = 0 THEN a ELSE Up(first[i - 1], i)
  BY <1>6
<1>9. first[0] = a
  BY <1>1, <1>8
<1>10. \A i \in 1..n : first[i] = Up(first[i - 1], i)
  BY <1>1, <1>8
<1> QED  BY <1>7, <1>9, <1>10 DEF n, a, Up

back_of(made, path, n, below, j) ==
  IF made[n - j].error # "none" THEN made[n - j].val
  ELSE with_part(made[n - j].val, path[n - j + 1], below)

LEMMA WalkedBackIsDefined ==
  ASSUME NEW made, NEW path, NEW changed, Len(path) \in Nat, changed = walked_back(made, path)
  PROVE  /\ changed[0] = made[Len(path)].val
         /\ \A j \in 1..Len(path) : changed[j] = back_of(made, path, Len(path), changed[j - 1], j)
<1> DEFINE n       == Len(path)
           a       == made[Len(path)].val
           Up(s, i) == back_of(made, path, Len(path), s, i)
           IsFirst(f, m) == f = [i \in 0..m |-> IF i = 0 THEN a ELSE Up(f[i - 1], i)]
           T       == {m \in 0..n : \E f : IsFirst(f, m)}
<1>1. n \in Nat
  OBVIOUS
<1> HIDE DEF n, a, Up
<1>2. 0 \in T
  <2> DEFINE f == [i \in 0..0 |-> a]
  <2>1. IsFirst(f, 0)
    OBVIOUS
  <2> HIDE DEF f, IsFirst
  <2>2. 0 \in 0..n
    BY <1>1
  <2> QED  BY <2>1, <2>2
<1>3. ASSUME NEW m \in 0..n, m < n, m \in T
      PROVE  m + 1 \in T
  <2>1. PICK f : IsFirst(f, m)
    BY <1>3
  <2> DEFINE g == [i \in 0..m + 1 |-> IF i = m + 1 THEN Up(f[m], m + 1) ELSE f[i]]
  <2>2. m \in Nat /\ m + 1 \in 0..n
    BY <1>1, <1>3
  <2>3. \A i \in 0..m : g[i] = f[i]
    BY <2>2
  <2>4. \A i \in 0..m : f[i] = IF i = 0 THEN a ELSE Up(f[i - 1], i)
    BY <2>1
  <2>5. ASSUME NEW i \in 0..m + 1
        PROVE  g[i] = IF i = 0 THEN a ELSE Up(g[i - 1], i)
    <3>1. CASE i = m + 1
      <4>1. g[i] = Up(f[m], m + 1) /\ i # 0 /\ i - 1 = m /\ g[m] = f[m]
        BY <2>2, <2>3, <3>1
      <4> QED  BY <4>1, <3>1
    <3>2. CASE i # m + 1
      <4>1. i \in 0..m /\ (i # 0 => i - 1 \in 0..m)
        BY <2>2, <3>2
      <4>2. g[i] = f[i] /\ (i # 0 => g[i - 1] = f[i - 1])
        BY <2>3, <4>1
      <4>3. f[i] = IF i = 0 THEN a ELSE Up(f[i - 1], i)
        BY <2>4, <4>1
      <4> HIDE DEF g
      <4> QED  BY <4>2, <4>3
    <3> QED  BY <3>1, <3>2
  <2>6. IsFirst(g, m + 1)
    <3>1. g = [i \in 0..m + 1 |-> g[i]]
      OBVIOUS
    <3> HIDE DEF g
    <3> QED  BY <2>5, <3>1
  <2> QED  BY <2>2, <2>6
<1>4. \A m \in 0..n : m \in T
  <2> HIDE DEF T
  <2> QED  BY <1>1, <1>2, <1>3, InductionUpTo
<1>5. \E f : IsFirst(f, n)
  <2>1. n \in T
    <3> HIDE DEF T
    <3> QED  BY <1>1, <1>4
  <2> HIDE DEF IsFirst
  <2> QED  BY <2>1
<1> DEFINE first == CHOOSE f : IsFirst(f, n)
<1>6. IsFirst(first, n)
  BY <1>5
<1>7. changed = first
  <2> DEFINE IsBack(f) == f = [j \in 0..n |-> IF j = 0 \/ made[n - j].error # "none" THEN made[n - j].val
                                              ELSE with_part(made[n - j].val, path[n - j + 1], f[j - 1])]
  <2>1. changed = CHOOSE f : IsBack(f)
    BY DEF walked_back, n
  <2>2. ASSUME NEW f PROVE IsBack(f) <=> IsFirst(f, n)
    <3>1. ASSUME NEW j \in 0..n
          PROVE  (IF j = 0 \/ made[n - j].error # "none" THEN made[n - j].val
                  ELSE with_part(made[n - j].val, path[n - j + 1], f[j - 1]))
                 = IF j = 0 THEN a ELSE Up(f[j - 1], j)
      <4>1. CASE j = 0
        <5>1. n - j = n
          BY <1>1, <4>1
        <5> QED  BY <4>1, <5>1 DEF a, n
      <4>2. CASE j # 0
        BY <4>2 DEF Up, back_of, n
      <4> QED  BY <4>1, <4>2
    <3> QED  BY <3>1
  <2> HIDE DEF IsBack, IsFirst
  <2>3. (CHOOSE f : IsBack(f)) = CHOOSE f : IsFirst(f, n)
    BY <2>2
  <2> QED  BY <2>1, <2>3
<1> HIDE DEF first
<1>8. \A i \in 0..n : first[i] = IF i = 0 THEN a ELSE Up(first[i - 1], i)
  BY <1>6
<1>9. first[0] = a
  BY <1>1, <1>8
<1>10. \A i \in 1..n : first[i] = Up(first[i - 1], i)
  BY <1>1, <1>8
<1> QED  BY <1>7, <1>9, <1>10 DEF n, a, Up

-----------------------------------------------------------------------------
(* Along path, p holds the concats that are there up to part number j. *)
StandsTo(c, path, j, p) ==
  /\ p[0] = c
  /\ \A i \in 1..j : Present(p[i - 1], path[i]) /\ p[i] = at_part(p[i - 1], path[i])

(* All elements that the path goes on with are there, or one is made. *)
AppendsStand(path, mode, j, p) ==
  \A i \in 1..Len(path) : path[i].kind = "append" =>
    i <= j \/ (mode = "manifest" /\ i = j + 1 /\ Begins(p[j], path[i]))

(* Of the arrays along the path the one in which an element is made has one *)
(* more in q, the others have as many as in p.                              *)
IsGrown(path, j, p, q) ==
  \A i \in 0..j : i < Len(path) /\ path[i + 1].kind = "append" =>
    last_elements(q[i]) = IF i < j THEN last_elements(p[i]) ELSE last_elements(p[i]) + 1

LEMMA SamePlace ==
  ASSUME NEW c, NEW d, NEW g, NEW part \in PathPart, IsConcat(c, g), SameContents(c, d)
  PROVE  /\ Present(c, part) <=> Present(d, part)
         /\ Present(c, part) => at_part(c, part) = at_part(d, part)
<1>1. c.concat = d.concat /\ c.generation = d.generation /\ Back(c) = Back(d)
  BY DEF SameContents, Back
<1>2. CASE part.kind = "asterisk"
  BY <1>1, <1>2 DEF Present, at_part
<1>3. CASE part.kind = "name"
  BY <1>1, <1>3 DEF Present, at_part
<1>4. CASE part.kind = "append"
  BY <1>1, <1>4 DEF Present, at_part
<1>5. CASE part.kind = "index"
  <2> DEFINE x == part.index
  <2>1. SameSizes(c, d)
    BY <1>1 DEF SameSizes
  <2>2. /\ StopsAt(d, x) = StopsAt(c, x) /\ (IsIndexed(d, x) <=> IsIndexed(c, x))
        /\ IsIndexed(c, x) => Element(d, x) = Element(c, x)
    BY <2>1, SameStops
  <2>3. /\ at_part(c, part) = c.concat[StopsAt(c, x)].array[Element(c, x)]
        /\ at_part(d, part) = d.concat[StopsAt(d, x)].array[Element(d, x)]
        /\ Present(c, part) <=> IsIndexed(c, x)
        /\ Present(d, part) <=> IsIndexed(d, x)
    BY <1>5 DEF at_part, StopsAt, Element, Present
  <2> HIDE DEF x
  <2> QED  BY <1>1, <2>2, <2>3
<1> QED  BY <1>2, <1>3, <1>4, <1>5, PartKinds

(* The concats q along the path in c, where the change has been made at the *)
(* end and one element at most on the way.                                  *)
IsWalked(c, path, thing, g, j, p, q) ==
  /\ StandsTo(c, path, Len(path), q) /\ IsGrown(path, j, p, q)
  /\ \E x : IsConcat(x, g) /\ q[Len(path)] = Apply(thing, x)

(* phase1_append below a concat: it keeps the tree, and what it walked      *)
(* along without an error is there afterwards.                              *)
IsAppended(c, path, thing, mode, m, g, j, p, r) ==
  /\ IsChanged(c, r.val, mode, m, g) /\ r.error \in {"none", "parse_error"}
  /\ thing # Clear => Kept(c, r.val)
  /\ path # <<>> /\ Head(path).kind = "name" =>
       /\ Present(r.val, Head(path))
       /\ IsObject(c) /\ Len(c.concat) = 1 => Len(r.val.concat) = 1
  /\ r.error = "none" => \E q : IsWalked(r.val, path, thing, g, j, p, q)

LEMMA Walk ==
  ASSUME NEW c, NEW path \in Seq(PathPart), NEW thing, NEW mode \in {"implicit", "manifest"},
         NEW m \in Nat, NEW g \in Nat, NEW j \in 0..Len(path), NEW p, NEW r,
         Tree(c, m, g), Len(path) < m, UpTo(path, g), Fits(thing, mode),
         mode = "manifest" => ~ c.implicit,
         StandsTo(c, path, j, p), AppendsStand(path, mode, j, p),
         r = phase1_append_concat(c, path, thing, mode)
  PROVE  IsAppended(c, path, thing, mode, m, g, j, p, r)
<1> DEFINE n       == Len(path)
           made    == walk(c, path, thing, mode)
           changed == walked_back(made, path)
           e(i)    == IF i = 0 THEN c ELSE at_part(made[i - 1].val, path[i])
           Fine(i) == \A k \in 0..n : k < i => made[k].error = "none"
           Entered(i) == /\ Tree(e(i), m - i, g) /\ (mode = "manifest" => ~ e(i).implicit)
                         /\ i <= j => SameContents(e(i), p[i])
           Stepped(i) == IF i < n
                         THEN /\ made[i] = append_part(e(i), path[i + 1], mode)
                              /\ IsOpened(e(i), made[i], path[i + 1], mode, m - i, g)
                         ELSE made[i] = Returned(Apply(thing, e(i)))
<1>1. /\ n \in Nat /\ \A i \in 1..n : path[i] \in PathPart
      /\ \A i \in 1..n : path[i].kind = "append" => path[i].generation <= g
  BY DEF UpTo
<1>2. r = [val |-> changed[n], error |-> made[n].error]
  BY DEF phase1_append_concat
<1>3. /\ made[0] = step_of(path, thing, mode, c, 0)
      /\ \A i \in 1..n : made[i] = next_of(path, thing, mode, made[i - 1], i)
  BY <1>1, WalkIsDefined
<1>4. /\ changed[0] = made[n].val
      /\ \A i \in 1..n : changed[i] = back_of(made, path, n, changed[i - 1], i)
  <2>1. Len(path) \in Nat /\ changed = walked_back(made, path)
    BY <1>1
  <2> HIDE DEF made, changed, n
  <2>2. /\ changed[0] = made[Len(path)].val
        /\ \A i \in 1..Len(path) : changed[i] = back_of(made, path, Len(path), changed[i - 1], i)
    BY <2>1, WalkedBackIsDefined
  <2> QED  BY <2>2 DEF n
<1> HIDE DEF made, changed, n
<1>5. ASSUME NEW i \in 0..n, i < n PROVE i + 1 \in 1..n /\ (i + 1) - 1 = i /\ i + 1 \in 0..n
  BY <1>1, <1>5
<1>6. ASSUME NEW i \in 0..n, i < n PROVE e(i + 1) = at_part(made[i].val, path[i + 1])
  BY <1>5, <1>6
<1>7. e(0) = c /\ Entered(0)
  BY DEF StandsTo, SameContents
<1> HIDE DEF e
<1>8. ASSUME NEW i \in 0..n, Entered(i), made[i] = step_of(path, thing, mode, e(i), i)
      PROVE  Stepped(i)
  <2>1. CASE i < n
    <3> DEFINE part == path[i + 1]
    <3>1. part \in PathPart /\ (part.kind = "append" => part.generation <= g)
      BY <1>1, <1>5, <2>1
    <3>2. made[i] = append_part(e(i), part, mode)
      BY <1>1, <1>8, <2>1 DEF step_of, n
    <3>3. m - i \in Nat \ {0, 1}
      BY <1>1, <2>1 DEF n
    <3>4. Continues(e(i), part, mode)
      <4> SUFFICES ASSUME part.kind = "append"
                   PROVE  Present(e(i), part) \/ (mode = "manifest" /\ Begins(e(i), part))
        BY DEF Continues
      <4>1. i + 1 <= j \/ (mode = "manifest" /\ i + 1 = j + 1 /\ Begins(p[j], part))
        BY <1>5, <2>1 DEF AppendsStand, n
      <4>2. CASE i + 1 <= j
        <5>1. i + 1 \in 1..j /\ i <= j
          BY <1>1, <4>2
        <5>2. Present(p[i], part) /\ SameContents(e(i), p[i])
          BY <1>5, <1>8, <2>1, <5>1 DEF StandsTo
        <5>3. IsConcat(e(i), g)
          BY <1>8, TreeBelow
        <5> QED  BY <3>1, <5>2, <5>3, SamePlace
      <4>3. CASE mode = "manifest" /\ i + 1 = j + 1 /\ Begins(p[j], part)
        <5>1. i = j /\ i <= j
          BY <1>1, <4>3
        <5>2. SameContents(e(i), p[j])
          BY <1>8, <5>1
        <5> QED  BY <4>3, <5>2 DEF SameContents, Begins, Back
      <4> QED  BY <4>1, <4>2, <4>3
    <3>5. Tree(e(i), m - i, g)
      BY <1>8
    <3> HIDE DEF part
    <3>6. IsOpened(e(i), made[i], part, mode, m - i, g)
      BY <3>1, <3>2, <3>3, <3>4, <3>5, OpenPart
    <3> QED  BY <2>1, <3>2, <3>6 DEF part
  <2>2. CASE ~ (i < n)
    <3>1. i = n
      BY <1>1, <2>2
    <3> QED  BY <1>8, <2>2, <3>1 DEF step_of, n
  <2> QED  BY <2>1, <2>2
<1>9. ASSUME NEW i \in 0..n, i < n, Entered(i), Stepped(i), made[i].error = "none"
      PROVE  Entered(i + 1)
  <2> DEFINE part == path[i + 1]
             v    == made[i].val
  <2>1. part \in PathPart /\ e(i + 1) = at_part(v, part)
    BY <1>1, <1>5, <1>6, <1>9
  <2>2. IsOpened(e(i), made[i], part, mode, m - i, g)
    BY <1>9
  <2> HIDE DEF part, v
  <2>3. /\ Opened(e(i), v, part, m - i, g)
        /\ mode = "manifest" => ~ at_part(v, part).implicit
        /\ Present(e(i), part) => SameContents(at_part(v, part), at_part(e(i), part))
    BY <1>9, <2>2 DEF IsOpened, v
  <2>4. Tree(e(i + 1), m - (i + 1), g)
    <3>1. at_part(v, part) \in BelowConcat(v)
      BY <2>1, <2>3, AtPart DEF Opened
    <3>2. Tree(e(i + 1), (m - i) - 1, g)
      BY <2>1, <2>3, <3>1 DEF Opened
    <3>3. (m - i) - 1 = m - (i + 1)
      BY <1>1
    <3> QED  BY <3>2, <3>3
  <2>5. ASSUME i + 1 <= j PROVE SameContents(e(i + 1), p[i + 1])
    <3>1. i + 1 \in 1..j /\ i <= j
      BY <1>1, <2>5
    <3>2. Present(p[i], part) /\ SameContents(e(i), p[i]) /\ p[i + 1] = at_part(p[i], part)
      BY <1>5, <1>9, <3>1 DEF StandsTo, part
    <3>3. IsConcat(e(i), g)
      BY <1>9, TreeBelow
    <3>4. Present(e(i), part) /\ at_part(e(i), part) = at_part(p[i], part)
      BY <2>1, <3>2, <3>3, SamePlace
    <3> QED  BY <2>1, <2>3, <3>2, <3>4 DEF SameContents
  <2> QED  BY <2>1, <2>3, <2>4, <2>5
<1> HIDE DEF Entered
<1>10. ASSUME NEW i \in 0..n, Stepped(i)
       PROVE  made[i].error \in {"none", "parse_error"}
  BY <1>10 DEF IsOpened, Returned
<1> DEFINE F == {i \in 0..n : /\ made[i].error \in {"none", "parse_error"}
                              /\ made[i].error = "none" => Fine(i + 1)
                              /\ Fine(i) => Entered(i) /\ Stepped(i)}
<1> HIDE DEF Stepped
<1>11. 0 \in F
  <2>1. Stepped(0) /\ 0 \in 0..n
    BY <1>1, <1>3, <1>7, <1>8
  <2>2. made[0].error = "none" => Fine(0 + 1)
    BY <1>1
  <2> HIDE DEF Fine
  <2> QED  BY <1>7, <1>10, <2>1, <2>2
<1>12. ASSUME NEW i \in 0..n, i < n, i \in F PROVE i + 1 \in F
  <2>1. /\ made[i].error \in {"none", "parse_error"}
        /\ made[i].error = "none" => Fine(i + 1)
        /\ Fine(i) => Entered(i) /\ Stepped(i)
    BY <1>12
  <2>2. made[i + 1] = next_of(path, thing, mode, made[i], i + 1) /\ i + 1 \in 0..n
    BY <1>3, <1>5, <1>12
  <2>3. CASE made[i].error # "none"
    <3>1. made[i + 1] = made[i]
      BY <2>2, <2>3 DEF next_of
    <3>2. ~ Fine(i + 1)
      BY <1>1, <2>3
    <3> HIDE DEF Fine
    <3> QED  BY <2>1, <2>2, <2>3, <3>1, <3>2
  <2>4. CASE made[i].error = "none"
    <3>1. Fine(i + 1) /\ Fine(i)
      <4>1. \A k \in 0..n : k < i => k < i + 1
        BY <1>1
      <4> QED  BY <2>1, <2>4, <4>1
    <3>2. Entered(i + 1)
      <4> HIDE DEF Fine
      <4> QED  BY <1>9, <1>12, <2>1, <2>4, <3>1
    <3>3. made[i + 1] = step_of(path, thing, mode, e(i + 1), i + 1)
      BY <1>6, <1>12, <2>2, <2>4 DEF next_of
    <3>4. Stepped(i + 1)
      BY <1>8, <2>2, <3>2, <3>3
    <3>5. made[i + 1].error = "none" => Fine((i + 1) + 1)
      <4>1. \A k \in 0..n : k < (i + 1) + 1 => k < i + 1 \/ k = i + 1
        BY <1>1
      <4> QED  BY <3>1, <4>1
    <3> HIDE DEF Fine
    <3> QED  BY <1>10, <2>2, <3>2, <3>4, <3>5
  <2> QED  BY <2>1, <2>3, <2>4
<1>13. \A i \in 0..n : i \in F
  <2> HIDE DEF F
  <2> QED  BY <1>1, <1>11, <1>12, InductionUpTo
<1>14. ASSUME NEW i \in 0..n
       PROVE  /\ made[i].error \in {"none", "parse_error"}
              /\ made[i].error = "none" => Fine(i + 1)
              /\ Fine(i) => Entered(i) /\ Stepped(i)
  BY <1>13
<1> HIDE DEF F
<1> DEFINE d(i) == changed[n - i]
<1>15. d(n) = made[n].val /\ r.val = d(0)
  <2>1. n - n = 0 /\ n - 0 = n
    BY <1>1
  <2> QED  BY <1>2, <1>4, <2>1
<1>16. ASSUME NEW i \in 0..n, i < n
       PROVE  d(i) = IF made[i].error # "none" THEN made[i].val
                     ELSE with_part(made[i].val, path[i + 1], d(i + 1))
  <2>1. n - i \in 1..n /\ n - (n - i) = i /\ (n - i) - 1 = n - (i + 1)
    BY <1>1, <1>16
  <2>2. changed[n - i] = back_of(made, path, n, changed[(n - i) - 1], n - i)
    BY <1>4, <2>1
  <2> QED  BY <2>1, <2>2 DEF back_of
<1> HIDE DEF d
<1> DEFINE Good(i) == /\ IsChanged(e(i), d(i), mode, m - i, g)
                      /\ thing # Clear => Kept(e(i), d(i))
           IsThere(i) == /\ Present(d(i), path[i + 1]) /\ at_part(d(i), path[i + 1]) = d(i + 1)
<1>17. ASSUME Fine(n) PROVE Good(n)
  <2>1. n \in 0..n
    BY <1>1
  <2>2. Entered(n) /\ Stepped(n)
    <3> HIDE DEF Fine
    <3> QED  BY <1>14, <1>17, <2>1
  <2>3. d(n) = Apply(thing, e(n))
    BY <1>1, <1>15, <2>2 DEF Stepped, Returned
  <2>4. Tree(e(n), m - n, g) /\ (mode = "manifest" => ~ e(n).implicit)
    BY <2>2 DEF Entered
  <2>5. IsChanged(e(n), d(n), mode, m - n, g)
    BY <2>3, <2>4, ApplyThing
  <2>6. thing # Clear => Kept(e(n), d(n))
    BY <2>3, <2>4, ApplyKept
  <2> QED  BY <2>5, <2>6
<1>18. ASSUME NEW i \in 0..n, i < n, Fine(i), Fine(i + 1) => Good(i + 1)
       PROVE  Good(i) /\ (made[i].error = "none" => IsThere(i))
  <2> DEFINE part == path[i + 1]
             v    == made[i].val
  <2>1. /\ Entered(i) /\ IsOpened(e(i), made[i], part, mode, m - i, g)
        /\ made[i] = append_part(e(i), part, mode)
    <3> HIDE DEF Fine
    <3> QED  BY <1>14, <1>18 DEF Stepped
  <2>2. /\ Tree(e(i), m - i, g) /\ (mode = "manifest" => ~ e(i).implicit)
        /\ part \in PathPart
    BY <1>1, <1>5, <1>18, <2>1 DEF Entered
  <2>3. CASE made[i].error # "none"
    <3>1. d(i) = e(i)
      BY <1>16, <1>18, <2>1, <2>3 DEF IsOpened
    <3> QED  BY <2>2, <2>3, <3>1, TreeKeepsItself DEF IsChanged
  <2>4. CASE made[i].error = "none"
    <3>1. Good(i + 1)
      <4> HIDE DEF Fine
      <4> QED  BY <1>14, <1>18, <2>4
    <3>2. d(i) = with_part(v, part, d(i + 1)) /\ e(i + 1) = at_part(v, part)
      BY <1>6, <1>16, <1>18, <2>4
    <3> HIDE DEF part, v
    <3>3. /\ Opened(e(i), v, part, m - i, g)
          /\ mode = "implicit" /\ Hollow(e(i)) => Hollow(v)
      BY <2>1, <2>4 DEF IsOpened, v
    <3>4. /\ Tree(d(i + 1), m - (i + 1), g) /\ d(i + 1).implicit = e(i + 1).implicit
          /\ mode = "implicit" /\ Hollow(e(i + 1)) => Hollow(d(i + 1))
      BY <3>1 DEF IsChanged
    <3>5. IsPut(v, part, d(i + 1), d(i), m, g)
      BY <2>2, <3>2, <3>3, <3>4, PutPart DEF Opened
    <3>6. \A x \in BelowConcat(d(i)) : Tree(x, (m - i) - 1, g)
      <4>1. (m - i) - 1 = m - (i + 1)
        BY <1>1
      <4> QED  BY <3>3, <3>4, <3>5, <4>1 DEF IsPut, Opened
    <3>7. IsConcat(d(i), g) /\ d(i).implicit = e(i).implicit
      BY <3>3, <3>5 DEF IsPut, Opened
    <3>8. ASSUME mode = "implicit", Hollow(e(i)) PROVE Hollow(d(i))
      <4>1. Hollow(v)
        BY <3>3, <3>8
      <4>2. e(i + 1) \in BelowConcat(v)
        BY <2>2, <3>2, <3>3, AtPart DEF Opened
      <4>3. Hollow(e(i + 1))
        BY <4>1, <4>2, HollowBelow
      <4> QED  BY <3>4, <3>5, <3>8, <4>1, <4>3 DEF IsPut
    <3>9. Tree(d(i), m - i, g)
      <4>1. m - i \in Nat \ {0}
        BY <1>1, <1>18 DEF n
      <4>2. d(i).implicit => Hollow(d(i))
        BY <2>2, <3>7, <3>8, TreeBelow
      <4> QED  BY <3>6, <3>7, <4>1, <4>2, TreeAbove
    <3>10. IsThere(i)
      BY <3>5 DEF IsPut, part
    <3>11. ASSUME thing # Clear PROVE Kept(e(i), d(i))
      <4>1. Kept(e(i), v)
        BY <2>1, <2>2, OpenKept DEF v
      <4>2. Kept(at_part(v, part), d(i + 1))
        BY <3>1, <3>2, <3>11
      <4>3. Whole(v, g) /\ Present(v, part)
        BY <3>3, OpenedIsWhole DEF Opened
      <4>4. Kept(v, d(i))
        BY <2>2, <3>2, <4>2, <4>3, PutKept
      <4> QED  BY <4>1, <4>4, KeptTransitive
    <3> QED  BY <3>7, <3>8, <3>9, <3>10, <3>11 DEF IsChanged
  <2> QED  BY <2>3, <2>4
<1> HIDE DEF Good, IsThere
<1> DEFINE B == {k \in 0..n : Fine(n - k) => Good(n - k)}
<1>19. 0 \in B
  <2>1. n - 0 = n
    BY <1>1
  <2> HIDE DEF Fine
  <2> QED  BY <1>1, <1>17, <2>1
<1>20. ASSUME NEW k \in 0..n, k < n, k \in B PROVE k + 1 \in B
  <2> DEFINE i == n - (k + 1)
  <2>1. i \in 0..n /\ i < n /\ i + 1 = n - k /\ k + 1 \in 0..n
    BY <1>1, <1>20
  <2>2. Fine(i + 1) => Good(i + 1)
    BY <1>20, <2>1
  <2> HIDE DEF i, Fine
  <2>3. Fine(i) => Good(i)
    BY <1>18, <2>1, <2>2
  <2> QED  BY <2>1, <2>3 DEF i
<1>21. \A k \in 0..n : k \in B
  <2> HIDE DEF B
  <2> QED  BY <1>1, <1>19, <1>20, InductionUpTo
<1>22. ASSUME NEW i \in 0..n PROVE Fine(i) => Good(i)
  <2>1. n - i \in 0..n /\ n - (n - i) = i
    BY <1>1
  <2>2. n - i \in B
    BY <1>21, <2>1
  <2> HIDE DEF Fine
  <2> QED  BY <2>1, <2>2
<1> HIDE DEF B
<1>23. Fine(0) /\ 0 \in 0..n /\ n \in 0..n
  BY <1>1
<1>24. IsChanged(c, r.val, mode, m, g) /\ (thing # Clear => Kept(c, r.val))
  <2>1. Good(0)
    BY <1>22, <1>23
  <2>2. m - 0 = m
    OBVIOUS
  <2> QED  BY <1>7, <1>15, <2>1, <2>2 DEF Good
<1>25. r.error \in {"none", "parse_error"}
  BY <1>2, <1>14, <1>23
<1>26. ASSUME path # <<>>, Head(path).kind = "name"
       PROVE  /\ Present(r.val, Head(path))
              /\ IsObject(c) /\ Len(c.concat) = 1 => Len(r.val.concat) = 1
  <2>1. 0 < n /\ Head(path) = path[0 + 1]
    BY <1>1, <1>26 DEF n
  <2>2. Stepped(0) /\ Entered(0)
    BY <1>14, <1>23
  <2>3. made[0].error = "none"
    BY <1>26, <2>1, <2>2 DEF Stepped, IsOpened
  <2>4. Fine(0 + 1) => Good(0 + 1)
    BY <1>5, <1>22, <1>23, <2>1
  <2>5. IsThere(0)
    BY <1>18, <1>23, <2>1, <2>3, <2>4
  <2>6. ASSUME IsObject(c), Len(c.concat) = 1 PROVE Len(r.val.concat) = 1
    <3> DEFINE part == path[0 + 1]
               v    == made[0].val
    <3>1. /\ part.kind = "name" /\ made[0] = append_part(c, part, mode) /\ IsConcat(c, g)
          /\ Opened(c, v, part, m - 0, g)
      <4>1. IsConcat(c, g)
        BY TreeBelow
      <4> QED  BY <1>7, <1>26, <2>1, <2>2, <2>3, <4>1 DEF Stepped, IsOpened
    <3>2. r.val = with_part(v, part, d(0 + 1))
      BY <1>15, <1>16, <1>23, <2>1, <2>3
    <3> HIDE DEF part
    <3>3. Len(v.concat) = 1 /\ IsObject(v)
      BY <2>6, <3>1, OpensInObject
    <3> HIDE DEF v
    <3> DEFINE w == with_part(v, part, d(0 + 1))
    <3>4. IsConcat(v, g)
      BY <3>1 DEF Opened
    <3>5. Len(w.concat) = Len(v.concat)
      BY <3>1, <3>3, <3>4, PutsInObject
    <3> QED  BY <3>2, <3>3, <3>5
  <2> QED  BY <1>15, <2>1, <2>5, <2>6 DEF IsThere
<1>27. ASSUME r.error = "none" PROVE \E q : IsWalked(r.val, path, thing, g, j, p, q)
  <2> DEFINE q == [i \in 0..n |-> d(i)]
  <2>1. Fine(n + 1)
    BY <1>2, <1>14, <1>23, <1>27
  <2>2. ASSUME NEW i \in 0..n, i < n PROVE IsThere(i)
    <3>1. Fine(i) /\ made[i].error = "none"
      <4>1. \A k \in 0..n : k < n + 1
        BY <1>1
      <4> QED  BY <2>1, <2>2, <4>1
    <3>2. Fine(i + 1) => Good(i + 1)
      <4> HIDE DEF Fine
      <4> QED  BY <1>5, <1>22, <2>2
    <3> HIDE DEF Fine
    <3> QED  BY <1>18, <2>2, <3>1, <3>2
  <2>3. q[0] = r.val
    BY <1>15, <1>23
  <2>4. ASSUME NEW i \in 1..n
        PROVE  Present(q[i - 1], path[i]) /\ q[i] = at_part(q[i - 1], path[i])
    <3>1. i - 1 \in 0..n /\ i - 1 < n /\ (i - 1) + 1 = i /\ i \in 0..n
      BY <1>1
    <3>2. IsThere(i - 1)
      BY <2>2, <3>1
    <3>3. q[i - 1] = d(i - 1) /\ q[i] = d(i)
      BY <3>1
    <3> HIDE DEF q
    <3> QED  BY <3>1, <3>2, <3>3 DEF IsThere
  <2>6. ASSUME NEW i \in 0..n PROVE Fine(i) /\ Entered(i) /\ Stepped(i)
    <3>1. Fine(i)
      <4>1. \A k \in 0..n : k < n + 1
        BY <1>1
      <4> QED  BY <2>1, <2>6, <4>1
    <3> HIDE DEF Fine
    <3> QED  BY <1>14, <2>6, <3>1
  <2>7. IsConcat(e(n), g) /\ q[n] = Apply(thing, e(n))
    <3>1. made[n] = Returned(Apply(thing, e(n))) /\ Tree(e(n), m - n, g)
      BY <1>1, <1>23, <2>6 DEF Stepped, Entered
    <3>2. q[n] = Apply(thing, e(n))
      BY <1>15, <1>23, <3>1 DEF Returned
    <3> QED  BY <3>1, <3>2, TreeBelow
  <2>8. ASSUME NEW i \in 0..j, i < n, path[i + 1].kind = "append"
        PROVE  last_elements(q[i]) = IF i < j THEN last_elements(p[i]) ELSE last_elements(p[i]) + 1
    <3> DEFINE part == path[i + 1]
               v    == made[i].val
    <3>1. i \in 0..n /\ i <= j /\ i + 1 \in 1..n /\ part \in PathPart /\ part.kind = "append"
      BY <1>1, <1>5, <2>8
    <3>2. Entered(i) /\ IsOpened(e(i), made[i], part, mode, m - i, g)
      <4>1. Entered(i) /\ Stepped(i)
        BY <2>6, <3>1
      <4> HIDE DEF Fine
      <4> QED  BY <2>8, <4>1 DEF Stepped
    <3>3. made[i].error = "none"
      <4>1. i < n + 1
        BY <1>1, <2>8, <3>1
      <4> QED  BY <2>1, <3>1, <4>1
    <3>4. IsConcat(e(i), g) /\ SameContents(e(i), p[i])
      BY <3>1, <3>2, TreeBelow DEF Entered
    <3>5. q[i] = with_part(v, part, d(i + 1))
      BY <1>16, <2>8, <3>1, <3>3
    <3>6. Opened(e(i), v, part, m - i, g) /\ IsCounted(e(i), v, part)
      BY <3>1, <3>2, <3>3 DEF IsOpened
    <3>7. d(i + 1).implicit = at_part(v, part).implicit
      <4>1. Good(i + 1)
        BY <1>5, <1>22, <2>6, <2>8, <3>1
      <4> QED  BY <1>6, <2>8, <3>1, <4>1 DEF Good, IsChanged
    <3> HIDE DEF part, v, q, Fine
    <3>8. last_elements(q[i]) = last_elements(v)
      <4>1. IsConcat(v, g) /\ Present(v, part)
        BY <3>6 DEF Opened
      <4> QED  BY <3>1, <3>5, <3>7, <4>1, PutPart DEF IsPut
    <3>9. last_elements(e(i)) = last_elements(p[i]) /\ (Present(e(i), part) <=> Present(p[i], part))
      <4>1. Back(e(i)) = Back(p[i])
        BY <3>4 DEF SameContents, Back
      <4> QED  BY <3>1, <3>4, <4>1, SamePlace DEF last_elements
    <3>10. Present(p[i], part) <=> i < j
      <4>1. CASE i < j
        <5>1. i + 1 \in 1..j /\ (i + 1) - 1 = i
          BY <1>1, <3>1, <4>1
        <5> QED  BY <4>1, <5>1 DEF StandsTo, part
      <4>2. CASE ~ (i < j)
        <5>1. i = j /\ ~ (i + 1 <= j)
          BY <1>1, <3>1, <4>2
        <5>2. Begins(p[i], part)
          BY <1>1, <3>1, <5>1 DEF AppendsStand, part, n
        <5>3. p[i].generation \in Nat
          BY <3>4 DEF SameContents, IsConcat
        <5> QED  BY <3>1, <4>2, <5>2, <5>3 DEF Begins, Present
      <4> QED  BY <4>1, <4>2
    <3> QED  BY <3>6, <3>8, <3>9, <3>10 DEF IsCounted
  <2> HIDE DEF q
  <2>5. StandsTo(r.val, path, n, q)
    BY <2>3, <2>4 DEF StandsTo
  <2>9. IsGrown(path, j, p, q)
    BY <2>8 DEF IsGrown, n
  <2> QED  BY <2>5, <2>7, <2>9 DEF n, IsWalked
<1> QED  BY <1>24, <1>25, <1>26, <1>27 DEF IsAppended

-----------------------------------------------------------------------------
(* phase1_append, from the root on. *)

(* The object at the end of a concat, as the root of a tree. *)
LEMMA RootOf ==
  ASSUME NEW v, NEW m, NEW g \in Nat, NEW c, Tree(v, m, g), v.concat # <<>>, Back(v).kind = "object",
         c = root_concat(Back(v).object)
  PROVE  Tree(c, m, g) /\ Back(c) = Back(v) /\ c.concat # <<>> /\ c.implicit = FALSE
<1> DEFINE e == Back(v)
<1>1. /\ m \in Nat \ {0} /\ IsConcat(v, g)
      /\ \A d \in BelowConcat(v) : Tree(d, m - 1, g)
  BY TreeBelow
<1>2. IsEntry(e) /\ Below(e) \subseteq BelowConcat(v) /\ e = ObjectEntry(e.object)
  BY <1>1, BelowBack DEF IsEntry
<1>3. c = [NewConcat EXCEPT !.concat = <<e>>]
  BY <1>2 DEF root_concat
<1> HIDE DEF e
<1>4. c = with_entry(NewConcat, e)
  <2>1. Append(NewConcat.concat, e) = <<e>>
    BY NewEntries
  <2> QED  BY <1>3, <2>1 DEF with_entry
<1>5. IsConcat(NewConcat, g) /\ BelowConcat(NewConcat) = {} /\ NewConcat.implicit = FALSE
  BY NewEntries
<1>6. /\ IsConcat(c, g) /\ SameFlags(c, NewConcat) /\ c.concat # <<>> /\ Back(c) = e
      /\ Gained(c, NewConcat, e)
  BY <1>2, <1>4, <1>5, AppendEntry
<1>7. c.implicit = FALSE /\ \A d \in BelowConcat(c) : Tree(d, m - 1, g)
  BY <1>1, <1>2, <1>5, <1>6 DEF SameFlags, Gained
<1> QED  BY <1>1, <1>6, <1>7, TreeAbove DEF e

LEMMA RootKept ==
  ASSUME NEW o, NEW v, NEW g, NEW c, IsConcat(v, g), Kept(root_concat(o), v), Len(v.concat) = 1,
         IsObject(v), c = root_concat(Back(v).object)
  PROVE  Kept(root_concat(o), c)
<1> DEFINE a == root_concat(o)
           e == ObjectEntry(o)
           f == Back(v)
<1>1. /\ a.concat = <<e>> /\ a.remove = FALSE /\ a.generation = 0
      /\ c.concat = <<ObjectEntry(f.object)>> /\ c.remove = FALSE /\ c.generation = 0
  BY DEF root_concat, NewConcat
<1>2. IsEntry(f) /\ f.kind = "object"
  BY BelowBack DEF IsObject
<1>3. f = v.concat[1]
  BY DEF Back, Last
<1>4. Kept(a, v)
  OBVIOUS
<1> HIDE DEF a, e, f
<1>5. ObjectEntry(f.object) = f
  BY <1>2 DEF IsEntry
<1>6. DOMAIN a.concat = {1} /\ a.concat[1] = e /\ DOMAIN c.concat = {1} /\ c.concat[1] = f
  BY <1>1, <1>5
<1>7. KeptEntry(a.concat[1], v.concat[1])
  BY <1>4, <1>6, KeptEntries
<1>8. KeptFlags(a, c)
  BY <1>1 DEF KeptFlags
<1>9. Kept(a, c)
  BY <1>3, <1>6, <1>7, <1>8, EntriesKept
<1> QED  BY <1>9 DEF a

(* What phase1_append leaves of a tree. *)
IsRooted(o, path, thing, g, j, p, r) ==
  /\ thing # Clear => Kept(root_concat(o), root_concat(r.val))
  /\ Tree(root_concat(r.val), global_nesting_limit + 1, g)
  /\ r.error \in {"none", "parse_error"}
  /\ r.error = "none" => \E q : IsWalked(root_concat(r.val), path, thing, g, j, p, q)

LEMMA Rooted ==
  ASSUME NEW o, NEW path \in Seq(PathPart), NEW thing, NEW mode \in {"implicit", "manifest"},
         NEW g \in Nat, NEW j \in 0..Len(path), NEW p, NEW r,
         path # <<>>, Tree(root_concat(o), global_nesting_limit + 1, g), UpTo(path, g),
         Fits(thing, mode), StandsTo(root_concat(o), path, j, p), AppendsStand(path, mode, j, p),
         r = phase1_append(o, path, thing, mode)
  PROVE  IsRooted(o, path, thing, g, j, p, r)
<1> DEFINE m == global_nesting_limit + 1
           s == phase1_append_concat(root_concat(o), path, thing, mode)
           n == Len(path)
<1>1. m \in Nat /\ n \in Nat \ {0}
  BY NestingAssumption
<1>2. CASE too_deep(path) \/ Head(path).kind # "name"
  <2>1. r = Thrown(o)
    BY <1>2 DEF phase1_append
  <2>2. Kept(root_concat(o), root_concat(o))
    BY TreeKeepsItself
  <2> QED  BY <2>1, <2>2 DEF Thrown, IsRooted
<1>3. CASE ~ (too_deep(path) \/ Head(path).kind # "name")
  <2>1. n < m
    BY <1>1, <1>3, NestingAssumption DEF too_deep
  <2>2. root_concat(o).implicit = FALSE
    BY DEF root_concat, NewConcat
  <2>3. IsAppended(root_concat(o), path, thing, mode, m, g, j, p, s)
    <3> HIDE DEF m, n
    <3> QED  BY <1>1, <2>1, <2>2, Walk DEF m, n
  <2>4. r.val = Back(s.val).object /\ r.error = s.error
    <3>1. r = [s EXCEPT !.val = Back(@).object]
      BY <1>3 DEF phase1_append
    <3>2. s = [val |-> s.val, error |-> s.error]
      BY DEF phase1_append_concat
    <3> HIDE DEF s
    <3> QED  BY <3>1, <3>2
  <2> HIDE DEF s, m, n
  <2>5. Present(s.val, Head(path)) /\ Head(path).kind = "name" /\ Head(path) = path[1]
    BY <1>3, <2>3 DEF IsAppended
  <2>6. s.val.concat # <<>> /\ Back(s.val).kind = "object"
    BY <2>5 DEF Present
  <2>7. Tree(s.val, m, g)
    BY <2>3 DEF IsAppended, IsChanged
  <2> DEFINE c == root_concat(r.val)
  <2>8. Tree(c, m, g) /\ Back(c) = Back(s.val) /\ c.concat # <<>>
    <3>1. c = root_concat(Back(s.val).object)
      BY <2>4
    <3> HIDE DEF c
    <3>2. \A v : v.concat # <<>> /\ Back(v).kind = "object" /\ Tree(v, m, g) /\ c = root_concat(Back(v).object)
                => Tree(c, m, g) /\ Back(c) = Back(v) /\ c.concat # <<>>
      BY RootOf
    <3> QED  BY <2>6, <2>7, <3>1, <3>2, Zenon
  <2> HIDE DEF c
  <2>9. ASSUME r.error = "none" PROVE \E q : IsWalked(c, path, thing, g, j, p, q)
    <3>0. PICK q : IsWalked(s.val, path, thing, g, j, p, q)
      BY <2>3, <2>4, <2>9 DEF IsAppended
    <3>1. StandsTo(s.val, path, n, q)
      BY <3>0 DEF IsWalked, n
    <3> DEFINE t == [i \in 0..n |-> IF i = 0 THEN c ELSE q[i]]
    <3>2. t[0] = c /\ \A i \in 1..n : t[i] = q[i]
      BY <1>1
    <3> HIDE DEF t
    <3>3. ASSUME NEW i \in 1..n
          PROVE  Present(t[i - 1], path[i]) /\ t[i] = at_part(t[i - 1], path[i])
      <4>1. CASE i = 1
        <5>1. t[i - 1] = c /\ path[i] = Head(path) /\ q[i - 1] = s.val /\ t[i] = q[i]
          BY <2>5, <3>1, <3>2, <4>1 DEF StandsTo
        <5>2. q[i] = at_part(s.val, path[i])
          BY <3>1, <5>1 DEF StandsTo
        <5>3. Present(c, Head(path)) /\ at_part(c, Head(path)) = at_part(s.val, Head(path))
          BY <2>5, <2>8 DEF Present, at_part
        <5> QED  BY <5>1, <5>2, <5>3
      <4>2. CASE i # 1
        <5>1. i - 1 \in 1..n
          BY <1>1, <4>2
        <5> QED  BY <3>1, <3>2, <5>1 DEF StandsTo
      <4> QED  BY <4>1, <4>2
    <3>4. StandsTo(c, path, n, t)
      BY <3>2, <3>3 DEF StandsTo
    <3>5. IsGrown(path, j, p, t)
      <4> SUFFICES ASSUME NEW i \in 0..j, i < n, path[i + 1].kind = "append"
                   PROVE  t[i] = q[i]
        BY <3>0 DEF IsWalked, IsGrown, n
      <4>1. i # 0
        BY <2>5
      <4>2. i \in 1..n
        BY <1>1, <4>1
      <4> QED  BY <3>2, <4>2
    <3>6. t[n] = q[n]
      BY <1>1, <3>2
    <3> QED  BY <3>0, <3>4, <3>5, <3>6 DEF IsWalked, n
  <2>10. r.error \in {"none", "parse_error"}
    BY <2>3, <2>4 DEF IsAppended
  <2>11. ASSUME thing # Clear PROVE Kept(root_concat(o), c)
    <3> DEFINE b == root_concat(o)
    <3>1. IsObject(b) /\ Len(b.concat) = 1
      <4>1. b.concat = <<ObjectEntry(o)>> /\ ObjectEntry(o).kind = "object"
        BY DEF root_concat, NewConcat, ObjectEntry
      <4> HIDE DEF b
      <4>2. Len(b.concat) = 1 /\ b.concat # <<>> /\ Last(b.concat) = ObjectEntry(o)
        BY <4>1 DEF Last
      <4> QED  BY <4>1, <4>2 DEF IsObject, Back
    <3>2. Kept(b, s.val) /\ Len(s.val.concat) = 1
      <4> HIDE DEF b
      <4>1. IsAppended(b, path, thing, mode, m, g, j, p, s)
        BY <2>3 DEF b
      <4> QED  BY <1>3, <2>11, <3>1, <4>1 DEF IsAppended
    <3>3. IsObject(s.val) /\ IsConcat(s.val, g) /\ c = root_concat(Back(s.val).object)
      BY <2>4, <2>6, <2>7, TreeBelow DEF IsObject, c
    <3> QED  BY <3>2, <3>3, RootKept
  <2> QED  BY <2>8, <2>9, <2>10, <2>11 DEF IsRooted, c, m, n
<1> QED  BY <1>2, <1>3

-----------------------------------------------------------------------------
(* The changes that the grammar actions make. *)
LEMMA ThingsFit ==
  /\ Fits(Clear, "implicit") /\ \A b \in BOOLEAN : Fits(Temporary(b), "implicit")
  /\ \A e \in Atoms \cup References : Fits(Emplace(e), "manifest")
  /\ Fits(Ensure(ArrayEntry(<<>>)), "manifest") /\ Fits(Ensure(ObjectEntry(EmptyObject)), "manifest")
  /\ \A f : Fits(Function(f), "manifest")
<1>1. Fits(Clear, "implicit") /\ \A b \in BOOLEAN : Fits(Temporary(b), "implicit")
  BY DEF Fits, ImplicitThing
<1>2. ASSUME NEW e \in Atoms \cup References PROVE Fits(Emplace(e), "manifest")
  <2>1. e.kind \in AtomKinds \cup {"reference"}
    BY EntriesAssumption DEF IsAtom
  <2>2. e.kind \notin {"array", "object", "asterisk"}
    BY <2>1 DEF AtomKinds
  <2>3. Below(e) = {}
    BY <2>2 DEF Below
  <2>4. IsEntry(e)
    BY <2>1, <2>2, <2>3 DEF IsEntry
  <2> QED  BY <2>3, <2>4 DEF Fits, ManifestThing
<1>3. /\ Fits(Ensure(ArrayEntry(<<>>)), "manifest")
      /\ Fits(Ensure(ObjectEntry(EmptyObject)), "manifest")
  BY NewEntries DEF Fits, ManifestThing
<1>4. \A f : Fits(Function(f), "manifest")
  BY DEF Fits, ManifestThing
<1> QED  BY <1>1, <1>2, <1>3, <1>4

-----------------------------------------------------------------------------
(* The path that the parser is at. *)

LEMMA StandsBefore ==
  ASSUME NEW c, NEW path, NEW other, NEW j \in Nat, NEW k \in 0..j, NEW p, StandsTo(c, path, j, p),
         \A i \in 1..k : other[i] = path[i]
  PROVE  StandsTo(c, other, k, p)
<1>1. \A i \in 1..k : i \in 1..j
  OBVIOUS
<1> QED  BY <1>1 DEF StandsTo

(* No concat on the path has a later generation than the parser. *)
LEMMA StandsEarlier ==
  ASSUME NEW c, NEW path \in Seq(PathPart), NEW m, NEW g, NEW j \in 0..Len(path), NEW p,
         Tree(c, m, g), StandsTo(c, path, j, p)
  PROVE  \A i \in 0..j : p[i].generation \in 0..g
<1> DEFINE T == {i \in 0..j : \E k : Tree(p[i], k, g)}
<1>1. j \in Nat /\ 0 \in T
  BY DEF StandsTo
<1>2. ASSUME NEW i \in 0..j, i < j, i \in T PROVE i + 1 \in T
  <2>1. PICK k : Tree(p[i], k, g)
    BY <1>2
  <2>2. /\ i + 1 \in 1..j /\ (i + 1) - 1 = i /\ i + 1 \in 0..j
        /\ path[i + 1] \in PathPart
    BY <1>1, <1>2
  <2>3. Present(p[i], path[i + 1]) /\ p[i + 1] = at_part(p[i], path[i + 1])
    BY <2>2 DEF StandsTo
  <2>4. p[i + 1] \in BelowConcat(p[i])
    BY <2>1, <2>2, <2>3, TreeBelow, AtPart
  <2>5. Tree(p[i + 1], k - 1, g)
    BY <2>1, <2>4, TreeBelow
  <2> QED  BY <2>2, <2>5
<1>3. \A i \in 0..j : i \in T
  <2> HIDE DEF T
  <2> QED  BY <1>1, <1>2, InductionUpTo
<1>4. ASSUME NEW i \in 0..j PROVE p[i].generation \in 0..g
  <2>1. PICK k : Tree(p[i], k, g)
    BY <1>3
  <2> QED  BY <2>1, TreeBelow DEF IsConcat
<1> QED  BY <1>4

-----------------------------------------------------------------------------
(* The inductive invariant: IInv, and what it needs for the tree. *)

TreeStands == Tree(root_concat(root), global_nesting_limit + 1, generation)

(* An object or a list is in a member or in a list. *)
RulesNest ==
  /\ \A i \in 1..Len(stack) - 1 :
       stack[i + 1].rule \in {"object", "elements"} => stack[i].rule \in GuardRules
  /\ status = "parsing" /\ at # "members" => Top.rule \in GuardRules

(* At the beginning of an element it is the next value that makes it. *)
AtPath(path, elements, j, p) ==
  \A i \in 1..Len(path) : path[i].kind = "append" =>
    IF elements /\ i = Len(path) THEN i = j + 1 /\ Begins(p[j], path[i]) ELSE i <= j

(* All elements that the parser is in are there. *)
Standing(path, elements) ==
  \E j, p : j \in 0..Len(path) /\ StandsTo(root_concat(root), path, j, p) /\ AtPath(path, elements, j, p)

PathStands == status = "parsing" => Standing(position, at = "elements")

(* In a list the path goes on with one of its elements. *)
IsAppendSuffix(s) == Len(s) = 1 /\ s[1].kind = "append"

ListsNest ==
  /\ \A i \in 1..Len(stack) - 1 :
       stack[i].rule = "elements" => IsAppendSuffix(stack[i + 1].outer.suffix)
  /\ stack # <<>> /\ Top.rule = "elements" => IsAppendSuffix(suffix)

TreeInv == TreeStands /\ RulesNest /\ PathStands /\ ContinuedElementExists
TInv    == IInv /\ ListsNest /\ TreeInv

LEMMA TypesOfPath ==
  ASSUME IInv
  PROVE  /\ prefix \in Seq(PathPart) /\ suffix \in Seq(PathPart) /\ position \in Seq(PathPart)
         /\ generation \in Nat \ {0} /\ UpTo(position, generation)
         /\ Len(position) \in Nat
<1>1. /\ prefix \in Seq(PathPart) /\ suffix \in Seq(PathPart) /\ generation \in Nat \ {0}
      /\ position = prefix \o suffix
  BY DEF IInv, Scopes, TypeOK, position
<1>2. UpTo(prefix, generation) /\ UpTo(suffix, generation)
  BY DEF IInv
<1>3. position \in Seq(PathPart)
  BY <1>1
<1>4. Len(position) \in Nat
  BY <1>3
<1>5. UpTo(position, generation)
  BY <1>1, <1>2, UpToConcat
<1> QED  BY <1>1, <1>3, <1>4, <1>5

(* The path of a member or list is not empty. *)
LEMMA PathOfGuard ==
  ASSUME IInv, stack # <<>>, Top.rule \in GuardRules
  PROVE  position # <<>> /\ suffix # <<>> /\ Len(prefix) < Len(position)
<1>1. /\ prefix \in Seq(PathPart) /\ suffix \in Seq(PathPart) /\ suffix # <<>>
  BY DEF IInv, Scopes, TypeOK, ScopeIsInside, Inside
<1> QED  BY <1>1 DEF position

-----------------------------------------------------------------------------
(* Steps that leave the tree alone. *)
LEMMA TreeKept ==
  ASSUME TInv, UNCHANGED root, generation' \in {generation, generation + 1}
  PROVE  TreeStands'
<1>1. generation \in Nat /\ generation' \in Nat /\ generation <= generation'
  BY TypesOfPath DEF TInv
<1>2. Tree(root_concat(root), global_nesting_limit + 1, generation)
  BY DEF TInv, TreeInv, TreeStands
<1>3. Tree(root_concat(root), global_nesting_limit + 1, generation')
  BY <1>1, <1>2, TreeLater
<1> QED  BY <1>3 DEF TreeStands

(* The path stays the same and no new element begins or has begun. *)
LEMMA PathKept ==
  ASSUME TInv, UNCHANGED <<root, prefix, suffix>>, status = "parsing", at # "elements", at' # "elements"
  PROVE  PathStands'
<1>1. Standing(position, FALSE)
  BY DEF TInv, TreeInv, PathStands
<1>2. position' = position
  BY DEF position
<1>3. Standing(position, at' = "elements")
  BY <1>1 DEF Standing, AtPath
<1> HIDE DEF position
<1> QED  BY <1>2, <1>3 DEF PathStands, Standing

(* A rule is left: the path is what it was before, or its beginning. *)
LEMMA PathLeft ==
  ASSUME TInv, UNCHANGED root, status = "parsing", stack # <<>>, LeaveRule, at' # "elements",
         Top.rule \in GuardRules \/ at # "elements"
  PROVE  PathStands'
<1>1. IInv /\ Standing(position, at = "elements")
  BY DEF TInv, TreeInv, PathStands
<1>2. PICK j, p :
        j \in 0..Len(position) /\ StandsTo(root_concat(root), position, j, p) /\ AtPath(position, at = "elements", j, p)
  BY <1>1 DEF Standing
<1>3. /\ prefix \in Seq(PathPart) /\ suffix \in Seq(PathPart) /\ position \in Seq(PathPart)
      /\ Len(position) \in Nat /\ position = prefix \o suffix
  BY <1>1, TypesOfPath DEF position
<1>5. Inside(Top, prefix, suffix) /\ prefix' = Top.outer.prefix /\ suffix' = Top.outer.suffix
  BY <1>1, LeaveRuleNests DEF IInv, Scopes, ScopeIsInside
<1>6. CASE Top.rule \in GuardRules
  <2>1. position' = prefix
    BY <1>5, <1>6 DEF Inside, position
  <2>2. /\ Len(prefix) \in Nat /\ Len(prefix) < Len(position)
        /\ \A i \in 1..Len(prefix) : prefix[i] = position[i]
    <3> HIDE DEF position
    <3> QED  BY <1>1, <1>3, <1>6, PathOfGuard
  <2> DEFINE k == IF j <= Len(prefix) THEN j ELSE Len(prefix)
  <2>3. k \in 0..Len(prefix) /\ k \in 0..j
    BY <1>2, <1>3, <2>2
  <2>4. StandsTo(root_concat(root), prefix, k, p)
    <3>1. \A i \in 1..k : prefix[i] = position[i]
      BY <2>2, <2>3
    <3>2. j \in Nat
      BY <1>2, <1>3
    <3> HIDE DEF k, position
    <3> QED  BY <1>2, <2>3, <3>1, <3>2, StandsBefore
  <2>5. \A i \in 1..Len(prefix) : prefix[i].kind = "append" => i <= k
    <3> SUFFICES ASSUME NEW i \in 1..Len(prefix), prefix[i].kind = "append" PROVE i <= k
      OBVIOUS
    <3>1. i \in 1..Len(position) /\ position[i].kind = "append" /\ i # Len(position)
      BY <1>3, <2>2
    <3>2. i <= j
      BY <1>2, <3>1 DEF AtPath
    <3> QED  BY <1>2, <2>2, <3>2
  <2> HIDE DEF k
  <2>6. AtPath(prefix, at' = "elements", k, p)
    BY <2>5 DEF AtPath
  <2> HIDE DEF position
  <2> QED  BY <2>1, <2>3, <2>4, <2>6 DEF PathStands, Standing
<1>7. CASE Top.rule \notin GuardRules
  <2>1. prefix' = prefix /\ suffix' = suffix
    BY <1>5, <1>7 DEF Inside
  <2> QED  BY <1>7, <2>1, PathKept
<1> QED  BY <1>6, <1>7

(* A key without appends is added to the path. *)
LEMMA PathExtended ==
  ASSUME TInv, UNCHANGED root, status = "parsing", at # "elements", at' # "elements",
         NEW key \in Seq(KeyPart), position' = position \o key
  PROVE  PathStands'
<1>1. IInv /\ Standing(position, FALSE)
  BY DEF TInv, TreeInv, PathStands
<1>2. PICK j, p :
        j \in 0..Len(position) /\ StandsTo(root_concat(root), position, j, p) /\ AtPath(position, FALSE, j, p)
  BY <1>1 DEF Standing
<1>3. position \in Seq(PathPart) /\ Len(position) \in Nat
  BY <1>1, TypesOfPath
<1> DEFINE n == Len(position)
           k == Len(key)
<1> HIDE DEF position
<1>4. /\ k \in Nat /\ Len(position') = n + k
      /\ \A i \in 1..n : position'[i] = position[i]
      /\ \A i \in 1..n + k : i \notin 1..n => position'[i] \in KeyPart
  <2>1. key \in Seq(PathPart)
    BY SeqMonotonic DEF PathPart
  <2>2. ASSUME NEW i \in 1..n + k, i \notin 1..n PROVE position'[i] \in KeyPart
    <3>1. i - n \in 1..k
      BY <1>3, <2>2
    <3> QED  BY <1>3, <2>1, <2>2, <3>1
  <2> QED  BY <1>3, <2>1, <2>2
<1>5. j \in Nat /\ j \in 0..j /\ j \in 0..Len(position')
  BY <1>2, <1>3, <1>4
<1> HIDE DEF n, k
<1>6. StandsTo(root_concat(root), position', j, p)
  <2>1. \A i \in 1..j : position'[i] = position[i]
    BY <1>2, <1>3, <1>4 DEF n
  <2> QED  BY <1>2, <1>5, <2>1, StandsBefore
<1>7. AtPath(position', at' = "elements", j, p)
  <2>1. ASSUME NEW i \in 1..Len(position'), position'[i].kind = "append" PROVE i <= j
    <3>1. i \in 1..n
      BY <1>4, <2>1, KeyPartIsNoAppend
    <3> QED  BY <1>2, <1>4, <2>1, <3>1 DEF AtPath, n
  <2> QED  BY <2>1 DEF AtPath
<1> QED  BY <1>5, <1>6, <1>7 DEF PathStands, Standing

-----------------------------------------------------------------------------
(* Steps that change the tree. *)

(* What phase1_append makes of the tree at the parser's position, and how   *)
(* it gets along path.                                                      *)
IsMoved(path, thing, r) ==
  /\ thing # Clear => Kept(root_concat(root), root_concat(r.val))
  /\ Tree(root_concat(r.val), global_nesting_limit + 1, generation)
  /\ r.error \in {"none", "parse_error"}
  /\ r.error = "none" => \E j, p, q :
       /\ j \in 0..Len(position) /\ StandsTo(root_concat(root), position, j, p)
       /\ AtPath(position, at = "elements", j, p)
       /\ IsWalked(root_concat(r.val), path, thing, generation, j, p, q)

LEMMA AppendRooted ==
  ASSUME TInv, status = "parsing", NEW key \in Seq(KeyPart), NEW path, path = position \o key, path # <<>>,
         NEW thing, NEW mode \in {"implicit", "manifest"}, Fits(thing, mode),
         at = "elements" => mode = "manifest" /\ key = <<>>,
         NEW r, r = phase1_append(root, path, thing, mode)
  PROVE  IsMoved(path, thing, r) /\ path \in Seq(PathPart) /\ Len(position) <= Len(path)
<1> DEFINE elements == at = "elements"
<1>1. IInv /\ Standing(position, elements) /\ Tree(root_concat(root), global_nesting_limit + 1, generation)
  BY DEF TInv, TreeInv, PathStands, TreeStands
<1>2. PICK j, p :
        j \in 0..Len(position) /\ StandsTo(root_concat(root), position, j, p) /\ AtPath(position, elements, j, p)
  BY <1>1 DEF Standing
<1>3. /\ position \in Seq(PathPart) /\ Len(position) \in Nat /\ generation \in Nat
      /\ UpTo(position, generation)
  BY <1>1, TypesOfPath
<1> DEFINE n == Len(position)
           k == Len(key)
<1> HIDE DEF position, elements
<1>4. key \in Seq(PathPart)
  BY SeqMonotonic DEF PathPart
<1>5. /\ path \in Seq(PathPart) /\ k \in Nat /\ Len(path) = n + k
      /\ \A i \in 1..n : path[i] = position[i]
      /\ \A i \in 1..n + k : i \notin 1..n => path[i] \in KeyPart
      /\ key = <<>> => k = 0
  <2>1. ASSUME NEW i \in 1..n + k, i \notin 1..n PROVE path[i] \in KeyPart
    <3>1. i - n \in 1..k
      BY <1>3, <2>1
    <3> QED  BY <1>3, <1>4, <2>1, <3>1
  <2> QED  BY <1>3, <1>4, <2>1
<1> HIDE DEF n, k
<1>6. /\ j \in 0..Len(path) /\ j \in Nat /\ j \in 0..j /\ n \in Nat
      /\ \A i \in 1..j : i \in 1..n
  BY <1>2, <1>3, <1>5 DEF n
<1>7. StandsTo(root_concat(root), path, j, p)
  BY <1>2, <1>5, <1>6, StandsBefore
<1>8. ASSUME NEW i \in 1..Len(path), path[i].kind = "append"
      PROVE  /\ path[i].generation <= generation
             /\ i <= j \/ (mode = "manifest" /\ i = j + 1 /\ Begins(p[j], path[i]))
  <2>1. i \in 1..n
    BY <1>5, <1>8, KeyPartIsNoAppend
  <2>2. position[i].kind = "append" /\ position[i] = path[i]
    BY <1>5, <1>8, <2>1
  <2>3. i <= j \/ (elements /\ i = j + 1 /\ Begins(p[j], position[i]))
    BY <1>2, <2>1, <2>2 DEF AtPath, n
  <2>4. position[i].generation <= generation
    BY <1>3, <2>1, <2>2 DEF UpTo, n
  <2> QED  BY <2>2, <2>3, <2>4 DEF elements
<1>9. UpTo(path, generation)
  BY <1>8 DEF UpTo
<1>10. AppendsStand(path, mode, j, p)
  BY <1>8 DEF AppendsStand
<1>11. IsRooted(root, path, thing, generation, j, p, r)
  BY <1>1, <1>3, <1>5, <1>6, <1>7, <1>9, <1>10, Rooted
<1>12. Len(position) <= Len(path)
  BY <1>5, <1>6 DEF n
<1>13. IsMoved(path, thing, r)
  BY <1>2, <1>11 DEF IsRooted, IsMoved, elements
<1> QED  BY <1>5, <1>12, <1>13

LEMMA ChangeStep ==
  ASSUME TInv, NEW key \in Seq(KeyPart), NEW path, path = position \o key, NEW thing, NEW r,
         IsMoved(path, thing, r), Len(position) <= Len(path),
         root' = r.val, status' = StatusAfter(r.error)
  PROVE  /\ ContinuedElementExists'
         /\ generation' \in {generation, generation + 1} => TreeStands'
         /\ UNCHANGED <<prefix, suffix>> /\ (status' = "parsing" => at' # "elements") => PathStands'
<1>1. IInv
  BY DEF TInv
<1>2. /\ position \in Seq(PathPart) /\ Len(position) \in Nat /\ generation \in Nat
  BY <1>1, TypesOfPath
<1>3. ContinuedElementExists' /\ (status' = "parsing" => r.error = "none")
  BY DEF IsMoved, StatusAfter, ContinuedElementExists
<1>4. ASSUME generation' \in {generation, generation + 1} PROVE TreeStands'
  <2>1. generation' \in Nat /\ generation <= generation'
    BY <1>2, <1>4
  <2>2. Tree(root_concat(root'), global_nesting_limit + 1, generation)
    BY DEF IsMoved
  <2>3. Tree(root_concat(root'), global_nesting_limit + 1, generation')
    BY <1>2, <2>1, <2>2, TreeLater
  <2> QED  BY <2>3 DEF TreeStands
<1>5. ASSUME status' = "parsing" PROVE \E q : StandsTo(root_concat(root'), position, Len(position), q)
  <2>1. PICK q : StandsTo(root_concat(root'), path, Len(path), q)
    BY <1>3, <1>5 DEF IsMoved, IsWalked
  <2> HIDE DEF position
  <2>2. Len(path) \in Nat /\ Len(position) \in 0..Len(path) /\ \A i \in 1..Len(position) : position[i] = path[i]
    <3>1. key \in Seq(PathPart)
      BY SeqMonotonic DEF PathPart
    <3> QED  BY <1>2, <3>1
  <2> QED  BY <2>1, <2>2, StandsBefore
<1>6. ASSUME UNCHANGED <<prefix, suffix>>, status' = "parsing" => at' # "elements" PROVE PathStands'
  <2>1. position' = position
    BY <1>6 DEF position
  <2> HIDE DEF position
  <2> SUFFICES ASSUME status' = "parsing" PROVE Standing(position, at = "elements")'
    BY DEF PathStands
  <2>2. PICK q : StandsTo(root_concat(root'), position, Len(position), q)
    BY <1>5
  <2>3. Len(position) \in 0..Len(position) /\ AtPath(position, at' = "elements", Len(position), q)
    BY <1>2, <1>6 DEF AtPath
  <2> QED  BY <2>1, <2>2, <2>3 DEF Standing
<1> QED  BY <1>3, <1>4, <1>6

(* The whole path stands, with a list at its end. *)
ListStands ==
  \E q : /\ StandsTo(root_concat(root'), position, Len(position), q)
         /\ q[Len(position)].concat # <<>> /\ Back(q[Len(position)]).kind = "array"

(* A list begins: its first element will be made by the first value in it. *)
LEMMA ListBegins ==
  ASSUME TInv, ListStands, TreeStands', generation' = generation + 1,
         Tree(root_concat(root'), global_nesting_limit + 1, generation),
         position' = position \o <<AppendPart(generation + 1)>>, at' = "elements"
  PROVE  PathStands'
<1>1. IInv
  BY DEF TInv
<1> DEFINE n    == Len(position)
           part == AppendPart(generation + 1)
<1>2. position \in Seq(PathPart) /\ n \in Nat /\ generation \in Nat /\ UpTo(position, generation)
  BY <1>1, TypesOfPath
<1>3. part.kind = "append" /\ part.generation = generation + 1
  BY DEF AppendPart
<1> HIDE DEF position, part
<1>4. PICK q : /\ StandsTo(root_concat(root'), position, n, q)
               /\ q[n].concat # <<>> /\ Back(q[n]).kind = "array"
  BY DEF ListStands
<1>5. /\ Len(position') = n + 1 /\ position'[n + 1] = part
      /\ \A i \in 1..n : position'[i] = position[i]
  BY <1>2 DEF part
<1>6. n \in 0..n /\ n \in 0..Len(position')
  BY <1>2, <1>5
<1>7. q[n].generation \in 0..generation
  BY <1>2, <1>4, <1>6, StandsEarlier
<1> HIDE DEF n
<1>8. StandsTo(root_concat(root'), position', n, q)
  BY <1>2, <1>4, <1>5, <1>6, StandsBefore
<1>9. Begins(q[n], part)
  BY <1>2, <1>3, <1>4, <1>7 DEF Begins
<1>10. AtPath(position', TRUE, n, q)
  <2>1. ASSUME NEW i \in 1..Len(position') PROVE i <= n \/ i = n + 1
    BY <1>2, <1>5
  <2> QED  BY <1>5, <1>9, <2>1 DEF AtPath
<1> QED  BY <1>6, <1>8, <1>10 DEF PathStands, Standing

(* Two sequences that are the same but for the last element. *)
EndsWith(w, v, e) ==
  /\ Len(w) = Len(v) /\ Len(v) \in Nat \ {0}
  /\ \A i \in 1..Len(v) - 1 : w[i] = v[i]
  /\ w[Len(v)] = e

LEMMA OtherEnd ==
  ASSUME NEW S, NEW p \in Seq(S), NEW s \in Seq(S), NEW t \in Seq(S), NEW e, s # <<>>, EndsWith(t, s, e)
  PROVE  EndsWith(p \o t, p \o s, e)
<1> DEFINE k == Len(p)
           l == Len(s)
           n == k + l
<1>1. k \in Nat /\ l \in Nat \ {0} /\ Len(t) = l
  BY DEF EndsWith
<1>2. Len(p \o s) = n /\ Len(p \o t) = n /\ n \in Nat \ {0}
  BY <1>1
<1>3. ASSUME NEW i \in 1..n
      PROVE  IF i <= k THEN (p \o s)[i] = p[i] /\ (p \o t)[i] = p[i]
             ELSE i - k \in 1..l /\ (p \o s)[i] = s[i - k] /\ (p \o t)[i] = t[i - k]
  BY <1>1
<1>4. t[l] = e /\ \A i \in 1..l - 1 : t[i] = s[i]
  BY DEF EndsWith
<1> HIDE DEF k, l
<1>5. ASSUME NEW i \in 1..n - 1 PROVE (p \o t)[i] = (p \o s)[i]
  <2>1. i \in 1..n
    BY <1>1
  <2>2. CASE i <= k
    BY <1>3, <2>1, <2>2
  <2>3. CASE ~ (i <= k)
    <3>1. (p \o s)[i] = s[i - k] /\ (p \o t)[i] = t[i - k]
      BY <1>3, <2>1, <2>3
    <3>2. i - k \in 1..l - 1
      BY <1>1, <2>3
    <3> QED  BY <1>4, <3>1, <3>2
  <2> QED  BY <2>2, <2>3
<1>6. (p \o t)[n] = e
  <2>1. n \in 1..n /\ ~ (n <= k) /\ n - k = l
    BY <1>1
  <2> QED  BY <1>3, <1>4, <2>1
<1> HIDE DEF n
<1> QED  BY <1>2, <1>5, <1>6 DEF EndsWith

(* A list goes on: its next element will be made by the next value in it. *)
LEMMA ListGoesOn ==
  ASSUME TInv, status = "parsing", at # "elements", stack # <<>>, Top.rule = "elements",
         UNCHANGED <<root, prefix>>, suffix' = set_generation(suffix, generation + 1),
         at' = "elements"
  PROVE  PathStands'
<1>1. IInv /\ Standing(position, FALSE)
  BY DEF TInv, TreeInv, PathStands
<1>2. PICK j, p :
        j \in 0..Len(position) /\ StandsTo(root_concat(root), position, j, p) /\ AtPath(position, FALSE, j, p)
  BY <1>1 DEF Standing
<1>3. /\ prefix \in Seq(PathPart) /\ suffix \in Seq(PathPart) /\ suffix # <<>>
      /\ position \in Seq(PathPart) /\ Len(position) \in Nat /\ generation \in Nat
      /\ position = prefix \o suffix
  BY <1>1, TypesOfPath, PathOfGuard DEF position, GuardRules
<1> DEFINE n    == Len(position)
           part == AppendPart(generation + 1)
<1>5. Last(suffix).kind = "append"
  BY DEF TInv, ListsNest, IsAppendSuffix, Last
<1> QED
  <2>1. suffix' = Append(Front(suffix), part)
    BY <1>5 DEF set_generation
  <2>2. part \in PathPart /\ part.generation = generation + 1
    BY <1>3 DEF AppendPart, PathPart
  <2> HIDE DEF part
  <2>3. suffix' \in Seq(PathPart) /\ EndsWith(suffix', suffix, part)
    <3>1. ASSUME NEW t, t = Append(Front(suffix), part)
          PROVE  t \in Seq(PathPart) /\ EndsWith(t, suffix, part)
      <4>1. suffix \in Seq(PathPart) /\ suffix # <<>> /\ part \in PathPart /\ Len(suffix) \in Nat \ {0}
        BY <1>3, <2>2
      <4>2. t \in Seq(PathPart)
        BY <3>1, <4>1, ReplaceLast
      <4>3. Len(t) = Len(suffix)
        BY <3>1, <4>1, ReplaceLast
      <4>4. t[Len(t)] = part
        BY <3>1, <4>1, ReplaceLast
      <4>5. \A i \in 1..(Len(t) - 1) : t[i] = suffix[i]
        BY <3>1, <4>1, ReplaceLast
      <4> QED  BY <4>1, <4>2, <4>3, <4>4, <4>5 DEF EndsWith
    <3> QED  BY <2>1, <3>1, Zenon
  <2>4. EndsWith(position', position, part) /\ position[n] = Last(suffix)
    <3>1. position' = prefix \o suffix' /\ position = prefix \o suffix
      BY DEF position
    <3>2. (prefix \o suffix)[Len(prefix \o suffix)] = Last(suffix)
      <4>1. Len(prefix) \in Nat /\ Len(suffix) \in Nat \ {0} /\ Len(prefix \o suffix) = Len(prefix) + Len(suffix)
        BY <1>3
      <4> QED  BY <1>3, <4>1 DEF Last
    <3>3. EndsWith(prefix \o suffix', prefix \o suffix, part)
      BY <1>3, <2>3, OtherEnd
    <3> HIDE DEF position
    <3> QED  BY <3>1, <3>2, <3>3, Zenon
  <2> HIDE DEF position
  <2>5. /\ Len(position') = n /\ position'[n] = part /\ n \in Nat \ {0}
        /\ \A i \in 1..n - 1 : position'[i] = position[i]
    BY <2>4 DEF EndsWith
  <2>6. j = n
    <3>1. n \in 1..Len(position) /\ position[n].kind = "append"
      BY <1>3, <1>5, <2>4, <2>5
    <3>2. n <= j
      BY <1>2, <3>1 DEF AtPath
    <3>3. j \in 0..n /\ n \in Nat
      BY <1>2, <1>3
    <3> HIDE DEF n
    <3> QED  BY <3>2, <3>3
  <2>7. n - 1 \in 0..j /\ n - 1 \in 0..Len(position') /\ j \in Nat /\ (n - 1) + 1 = n
    BY <2>4, <2>5, <2>6
  <2>8. p[n - 1].generation \in 0..generation
    <3>1. Tree(root_concat(root), global_nesting_limit + 1, generation)
      BY DEF TInv, TreeInv, TreeStands
    <3> QED  BY <1>2, <1>3, <2>7, <3>1, StandsEarlier
  <2> HIDE DEF n
  <2>9. StandsTo(root_concat(root'), position', n - 1, p)
    <3>1. StandsTo(root_concat(root), position', n - 1, p)
      BY <1>2, <2>4, <2>5, <2>7, StandsBefore
    <3> QED  BY <3>1
  <2>10. Begins(p[n - 1], part)
    <3>1. n \in 1..j /\ position[n].kind = "append"
      BY <1>5, <2>4, <2>6, <2>7
    <3>2. Present(p[n - 1], position[n])
      BY <1>2, <3>1 DEF StandsTo
    <3>3. part.kind = "append"
      BY DEF part, AppendPart
    <3> QED  BY <1>3, <2>2, <2>8, <3>1, <3>2 DEF Begins, Present
  <2>11. AtPath(position', TRUE, n - 1, p)
    <3>1. ASSUME NEW i \in 1..Len(position') PROVE i <= n - 1 \/ i = n
      BY <2>4, <2>5
    <3> QED  BY <2>4, <2>5, <2>7, <2>10, <3>1 DEF AtPath
  <2> QED  BY <2>7, <2>9, <2>11 DEF PathStands, Standing

-----------------------------------------------------------------------------
(* How the open rules nest. *)
LEMMA RulesSame ==
  ASSUME TInv, UNCHANGED stack, status' = "parsing" /\ at' # "members" => Top.rule \in GuardRules
  PROVE  RulesNest'
  BY DEF TInv, TreeInv, RulesNest, Top

LEMMA RulesPushed ==
  ASSUME TInv, NEW rule \in Rules, stack' = Append(stack, Open(rule)),
         rule \in {"object", "elements"} => stack # <<>> /\ Top.rule \in GuardRules,
         at' # "members" => rule \in GuardRules
  PROVE  RulesNest'
<1> DEFINE n == Len(stack)
           f == Open(rule)
<1>1. stack \in Seq(Frame) /\ n \in Nat
  BY DEF TInv, IInv, Scopes, TypeOK
<1>2. f.rule = rule
  BY DEF Open
<1> HIDE DEF f
<1>3. Len(stack') = n + 1 /\ stack'[n + 1] = f /\ \A i \in 1..n : stack'[i] = stack[i]
  BY <1>1 DEF f
<1>4. stack # <<>> => Top = stack[n] /\ n \in Nat \ {0}
  BY <1>1 DEF Top, Last
<1>5. Last(stack') = f
  BY <1>3 DEF Last
<1>6. ASSUME NEW i \in 1..n, stack'[i + 1].rule \in {"object", "elements"}
      PROVE  stack'[i].rule \in GuardRules
  <2>1. stack'[i] = stack[i] /\ stack # <<>>
    BY <1>1, <1>3
  <2>2. CASE i = n
    BY <1>2, <1>3, <1>4, <1>6, <2>1, <2>2
  <2>3. CASE i # n
    <3>1. i \in 1..n - 1 /\ i + 1 \in 1..n
      BY <1>1, <2>3
    <3>2. stack'[i + 1] = stack[i + 1]
      BY <1>3, <3>1
    <3> QED  BY <1>6, <2>1, <3>1, <3>2 DEF TInv, TreeInv, RulesNest
  <2> QED  BY <2>2, <2>3
<1>7. Len(stack') - 1 = n
  BY <1>1, <1>3
<1> HIDE DEF n
<1> QED  BY <1>2, <1>5, <1>6, <1>7 DEF RulesNest, Top

LEMMA RulesLeft ==
  ASSUME TInv, stack # <<>>, LeaveRule,
         Top.rule \in {"object", "elements"} \/ at' = "members" \/ status' # "parsing"
  PROVE  RulesNest'
<1> DEFINE n == Len(stack)
<1>1. stack \in Seq(Frame) /\ n \in Nat \ {0} /\ Top = stack[n]
  BY DEF TInv, IInv, Scopes, TypeOK, Top, Last
<1>2. /\ Len(stack') = n - 1 /\ \A i \in 1..n - 1 : stack'[i] = stack[i]
  BY <1>1, FrontOfSeq DEF LeaveRule
<1>3. \A i \in 1..n - 1 : stack[i + 1].rule \in {"object", "elements"} => stack[i].rule \in GuardRules
  BY DEF TInv, TreeInv, RulesNest
<1>4. ASSUME NEW i \in 1..Len(stack') - 1, stack'[i + 1].rule \in {"object", "elements"}
      PROVE  stack'[i].rule \in GuardRules
  <2>1. i \in 1..n - 1 /\ i + 1 \in 1..n - 1
    BY <1>1, <1>2
  <2> QED  BY <1>2, <1>3, <1>4, <2>1
<1>5. ASSUME status' = "parsing", at' # "members" PROVE Last(stack').rule \in GuardRules
  <2>1. Top.rule \in {"object", "elements"}
    BY <1>5
  <2>2. n # 1 /\ n \in Nat \ {0}
    BY <1>1, <2>1, InnerRule DEF TInv
  <2>3. n - 1 \in 1..n - 1 /\ (n - 1) + 1 = n
    <3> HIDE DEF n
    <3> QED  BY <2>2
  <2>4. stack[n - 1].rule \in GuardRules /\ stack'[n - 1] = stack[n - 1]
    BY <1>1, <1>2, <1>3, <2>1, <2>3
  <2> QED  BY <1>2, <2>4 DEF Last
<1> QED  BY <1>4, <1>5 DEF RulesNest, Top

-----------------------------------------------------------------------------
(* How the lists nest. *)
LEMMA ListsPushed ==
  ASSUME TInv, NEW rule \in Rules, stack' = Append(stack, Open(rule)),
         rule = "elements" => IsAppendSuffix(suffix')
  PROVE  ListsNest'
<1> DEFINE n == Len(stack)
           f == Open(rule)
<1>1. stack \in Seq(Frame) /\ n \in Nat
  BY DEF TInv, IInv, Scopes, TypeOK
<1>2. f.rule = rule /\ f.outer.suffix = suffix
  BY DEF Open
<1> HIDE DEF f
<1>3. Len(stack') = n + 1 /\ stack'[n + 1] = f /\ \A i \in 1..n : stack'[i] = stack[i]
  BY <1>1 DEF f
<1>4. Last(stack') = f /\ Len(stack') - 1 = n
  BY <1>1, <1>3 DEF Last
<1>5. ASSUME NEW i \in 1..n, stack'[i].rule = "elements"
      PROVE  IsAppendSuffix(stack'[i + 1].outer.suffix)
  <2>1. CASE i = n
    <3>1. Top = stack[n] /\ stack # <<>>
      BY <1>1, <2>1 DEF Top, Last
    <3>2. Top.rule = "elements" /\ stack'[i + 1].outer.suffix = suffix
      BY <1>2, <1>3, <1>5, <2>1, <3>1
    <3> QED  BY <3>1, <3>2 DEF TInv, ListsNest
  <2>2. CASE i # n
    <3>1. i \in 1..n - 1 /\ i + 1 \in 1..n
      BY <1>1, <2>2
    <3>2. stack'[i] = stack[i] /\ stack'[i + 1] = stack[i + 1]
      BY <1>3, <3>1
    <3> QED  BY <1>5, <3>1, <3>2 DEF TInv, ListsNest
  <2> QED  BY <2>1, <2>2
<1> HIDE DEF n
<1> QED  BY <1>2, <1>4, <1>5 DEF ListsNest, Top, IsAppendSuffix

LEMMA ListsLeft ==
  ASSUME TInv, stack # <<>>, LeaveRule
  PROVE  ListsNest'
<1> DEFINE n == Len(stack)
<1>1. stack \in Seq(Frame) /\ n \in Nat \ {0} /\ Top = stack[n]
  BY DEF TInv, IInv, Scopes, TypeOK, Top, Last
<1>2. /\ Len(stack') = n - 1 /\ \A i \in 1..n - 1 : stack'[i] = stack[i]
  BY <1>1, FrontOfSeq DEF LeaveRule
<1>3. suffix' = stack[n].outer.suffix
  BY <1>1, LeaveRuleNests DEF TInv, IInv
<1>4. \A i \in 1..n - 1 : stack[i].rule = "elements" => IsAppendSuffix(stack[i + 1].outer.suffix)
  BY DEF TInv, ListsNest
<1>5. ASSUME NEW i \in 1..Len(stack') - 1, stack'[i].rule = "elements"
      PROVE  IsAppendSuffix(stack'[i + 1].outer.suffix)
  <2>1. i \in 1..n - 1 /\ i + 1 \in 1..n - 1
    BY <1>1, <1>2
  <2> QED  BY <1>2, <1>4, <1>5, <2>1
<1>6. ASSUME stack' # <<>>, Last(stack').rule = "elements" PROVE IsAppendSuffix(suffix')
  <2>1. n # 1
    <3>1. stack' \in Seq(Frame)
      BY LeaveRuleNests DEF TInv, IInv
    <3> QED  BY <1>2, <1>6, <3>1
  <2>2. n - 1 \in 1..n - 1 /\ (n - 1) + 1 = n
    <3> HIDE DEF n
    <3> QED  BY <1>1, <2>1
  <2>3. Last(stack') = stack[n - 1]
    BY <1>2, <2>2 DEF Last
  <2> QED  BY <1>3, <1>4, <1>6, <2>2, <2>3
<1> QED  BY <1>5, <1>6 DEF ListsNest, Top, IsAppendSuffix

(* The next element of a list has an append part of its own. *)
LEMMA ListsGoOn ==
  ASSUME TInv, stack # <<>>, Top.rule = "elements", UNCHANGED stack,
         suffix' = set_generation(suffix, generation')
  PROVE  ListsNest'
<1> DEFINE part == AppendPart(generation')
<1>1. IsAppendSuffix(suffix) /\ suffix \in Seq(PathPart)
  BY DEF TInv, ListsNest, IInv, Scopes, TypeOK
<1>2. Last(suffix).kind = "append" /\ Len(suffix) = 1 /\ suffix # <<>>
  BY <1>1 DEF IsAppendSuffix, Last
<1>3. suffix' = Append(Front(suffix), part)
  BY <1>2 DEF set_generation
<1>4. part.kind = "append"
  BY DEF AppendPart
<1> HIDE DEF part
<1>5. Len(suffix') = 1 /\ suffix'[1] = part
  <2>1. Front(suffix) \in Seq(PathPart) /\ Len(Front(suffix)) = 0
    BY <1>1, <1>2, FrontOfSeq
  <2> QED  BY <1>3, <2>1
<1>6. IsAppendSuffix(suffix')
  BY <1>4, <1>5 DEF IsAppendSuffix
<1> QED  BY <1>6 DEF TInv, ListsNest, Top, IsAppendSuffix

LEMMA StepLists ==
  ASSUME TInv, [Next]_vars
  PROVE  ListsNest'
<1>1. CASE UNCHANGED <<stack, suffix>>
  BY <1>1 DEF TInv, ListsNest, Top, IsAppendSuffix
<1>2. CASE stack # <<>> /\ LeaveRule
  BY <1>2, ListsLeft
<1>3. ASSUME NEW rule \in Rules \ {"elements"}, stack' = Append(stack, Open(rule)) PROVE ListsNest'
  BY <1>3, ListsPushed
<1>4. ASSUME EnterGuard("elements", <<AppendPart(generation + 1)>>) PROVE ListsNest'
  <2>1. IsAppendSuffix(suffix')
    BY <1>4 DEF EnterGuard, IsAppendSuffix, AppendPart
  <2> QED  BY <1>4, <2>1, ListsPushed DEF EnterGuard, Rules, GuardRules
<1>5. CASE EndValueList
  <2>1. stack # <<>>
    BY <1>5 DEF EndValueList, TInv, IInv, Scopes, StatusFitsStack
  <2> QED  BY <1>2, <1>5, <2>1, ListsGoOn DEF EndValueList
<1>6. status \in {"parsing", "throwing"} => stack # <<>>
  BY DEF TInv, IInv, Scopes, StatusFitsStack
<1>7. CASE EndFile \/ Delete \/ EndObject \/ EndElements \/ Unwind
  BY <1>2, <1>6, <1>7 DEF EndFile, Delete, EndObject, EndElements, Unwind, InMembers
<1>8. CASE ParseFile \/ Include \/ \E key \in Keys : MemberKey(key)
  <2>1. {"file", "member", "object"} \subseteq Rules \ {"elements"}
    BY DEF Rules, GuardRules
  <2> QED  BY <1>1, <1>3, <1>8, <2>1 DEF ParseFile, Include, MemberKey, EnterPlain, EnterGuard, key1s
<1>9. CASE ValuePart
  <2>1. "object" \in Rules \ {"elements"}
    BY DEF Rules, GuardRules
  <2>2. CASE OpenElements
    BY <1>1, <1>4, <2>2 DEF OpenElements, key1s, control
  <2>3. CASE BeginObject
    BY <1>1, <1>3, <2>1, <2>3 DEF BeginObject, EnterPlain, key1s, control
  <2> QED  BY <1>1, <1>9, <2>2, <2>3 DEF ValuePart, Literal, BeginArray, FunctionName, key1s
<1>10. CASE UNCHANGED vars \/ AssignHead \/ AppendHead \/ Plus \/ SyntaxError
  BY <1>1, <1>10 DEF vars, AssignHead, AppendHead, Plus, SyntaxError, key1s, control
<1>11. ASSUME NEW key \in Keys, NEW temporary \in BOOLEAN, Mark(key, temporary) PROVE ListsNest'
  BY <1>1, <1>11 DEF Mark, key1s, control
<1> QED  BY <1>5, <1>7, <1>8, <1>9, <1>10, <1>11 DEF Next

-----------------------------------------------------------------------------
(* The steps. *)

(* Where the parser is in a member or in a list. *)
LEMMA PathThere ==
  ASSUME TInv, status = "parsing", at # "members"
  PROVE  stack # <<>> /\ Top.rule \in GuardRules /\ position # <<>>
<1>1. stack # <<>> /\ Top.rule \in GuardRules
  BY DEF TInv, TreeInv, RulesNest, IInv, Scopes, StatusFitsStack
<1> QED  BY <1>1, PathOfGuard DEF TInv

LEMMA PositionIsPath ==
  ASSUME TInv
  PROVE  position = position \o <<>> /\ <<>> \in Seq(KeyPart)
<1>1. position \in Seq(PathPart)
  BY TypesOfPath DEF TInv
<1> QED  BY <1>1

(* The change at the position that the parser is at. *)
LEMMA ChangeHere ==
  ASSUME TInv, status = "parsing", at # "members",
         NEW thing, NEW mode \in {"implicit", "manifest"}, Fits(thing, mode),
         at = "elements" => mode = "manifest",
         NEW r, r = phase1_append(root, position, thing, mode),
         root' = r.val, status' = StatusAfter(r.error)
  PROVE  /\ ContinuedElementExists'
         /\ generation' \in {generation, generation + 1} => TreeStands'
         /\ Tree(root_concat(root'), global_nesting_limit + 1, generation)
         /\ IsMoved(position, thing, r)
         /\ UNCHANGED <<prefix, suffix>> /\ (status' = "parsing" => at' # "elements") => PathStands'
<1> DEFINE path == position
<1>1. path = position \o <<>> /\ <<>> \in Seq(KeyPart) /\ path # <<>>
  BY PositionIsPath, PathThere
<1>2. r = phase1_append(root, path, thing, mode)
  OBVIOUS
<1> HIDE DEF path
<1>3. IsMoved(path, thing, r) /\ Len(position) <= Len(path)
  BY <1>1, <1>2, AppendRooted
<1>4. Tree(root_concat(root'), global_nesting_limit + 1, generation)
  BY <1>3 DEF IsMoved
<1>5. IsMoved(position, thing, r)
  BY <1>3 DEF path
<1> QED  BY <1>1, <1>3, <1>4, <1>5, ChangeStep

LEMMA ParseFileTree ==
  ASSUME TInv, ParseFile
  PROVE  TreeInv'
<1>1. /\ UNCHANGED <<root, generation, prefix, suffix>> /\ at' = "members" /\ status' = "parsing"
      /\ stack = <<>> /\ stack' = Append(stack, Open("file")) /\ prefix = <<>> /\ suffix = <<>>
  BY DEF ParseFile, EnterPlain, key1s, TInv, IInv, Scopes, StatusFitsStack, ScopeIsInside
<1>2. TreeStands'
  BY <1>1, TreeKept
<1>3. RulesNest'
  BY <1>1, RulesPushed DEF Rules, GuardRules
<1>4. PathStands'
  <2> DEFINE p == [i \in {0} |-> root_concat(root')]
  <2>1. position' = <<>> /\ 0 \in 0..Len(position')
    BY <1>1 DEF position
  <2>2. StandsTo(root_concat(root'), position', 0, p) /\ AtPath(position', at' = "elements", 0, p)
    BY <2>1 DEF StandsTo, AtPath
  <2> HIDE DEF p, position
  <2> QED  BY <2>1, <2>2 DEF PathStands, Standing
<1>5. ContinuedElementExists'
  BY <1>1 DEF ContinuedElementExists
<1> QED  BY <1>2, <1>3, <1>4, <1>5 DEF TreeInv

(* A rule is left in the course of a file. *)
LEMMA LeaveTree ==
  ASSUME TInv, stack # <<>>, LeaveRule, UNCHANGED root, generation' \in {generation, generation + 1},
         status = "parsing", status' # "assert_append", at' # "elements",
         at = "members" \/ Top.rule \in GuardRules,
         Top.rule \in {"object", "elements"} \/ at' = "members"
  PROVE  TreeInv'
<1>1. TreeStands'
  BY TreeKept
<1>2. RulesNest'
  BY RulesLeft
<1>3. PathStands'
  BY PathLeft
<1> QED  BY <1>1, <1>2, <1>3 DEF TreeInv, ContinuedElementExists

LEMMA LeavingTree ==
  ASSUME TInv, EndFile \/ Delete \/ EndObject \/ EndElements
  PROVE  TreeInv'
<1>1. status = "parsing" => stack # <<>>
  BY DEF TInv, IInv, Scopes, StatusFitsStack
<1>2. CASE EndFile
  BY <1>1, <1>2, LeaveTree DEF EndFile, InMembers
<1>3. CASE Delete
  BY <1>1, <1>3, LeaveTree DEF Delete, GuardRules
<1>4. CASE EndObject
  BY <1>1, <1>4, LeaveTree DEF EndObject, InMembers
<1>5. CASE EndElements
  BY <1>1, <1>5, LeaveTree DEF EndElements, GuardRules
<1> QED  BY <1>2, <1>3, <1>4, <1>5

LEMMA QuietTree ==
  ASSUME TInv, Include \/ AppendHead \/ Plus
  PROVE  TreeInv'
<1>1. /\ UNCHANGED <<root, generation, prefix, suffix>> /\ status = "parsing"
      /\ at # "elements" /\ at' # "elements" /\ status' # "assert_append"
  BY DEF Include, InMembers, EnterPlain, key1s, AppendHead, Plus
<1>2. TreeStands' /\ PathStands'
  BY <1>1, TreeKept, PathKept
<1>3. RulesNest'
  <2>1. CASE UNCHANGED stack
    <3>1. at' # "members" => at # "members"
      BY DEF Include, InMembers, AppendHead, Plus
    <3> QED  BY <1>1, <2>1, <3>1, PathThere, RulesSame
  <2>2. CASE Include /\ EnterPlain("file")
    BY <2>2, RulesPushed DEF Include, InMembers, EnterPlain, Rules
  <2>3. UNCHANGED stack \/ (Include /\ EnterPlain("file"))
    BY DEF Include, AppendHead, Plus
  <2> QED  BY <2>1, <2>2, <2>3
<1> QED  BY <1>1, <1>2, <1>3 DEF TreeInv, ContinuedElementExists

LEMMA ThrowingTree ==
  ASSUME TInv, SyntaxError \/ Unwind
  PROVE  TreeInv'
<1>1. UNCHANGED <<root, generation>> /\ status' \in {"throwing", "failed"} /\ stack # <<>>
  BY DEF SyntaxError, Unwind, TInv, IInv, Scopes, StatusFitsStack
<1>2. TreeStands'
  BY <1>1, TreeKept
<1>3. RulesNest'
  <2>1. CASE SyntaxError
    BY <1>1, <2>1, RulesSame DEF SyntaxError, control
  <2>2. CASE Unwind
    BY <1>1, <2>2, RulesLeft DEF Unwind
  <2> QED  BY <2>1, <2>2
<1> QED  BY <1>1, <1>2, <1>3 DEF TreeInv, PathStands, ContinuedElementExists

LEMMA MemberKeyTree ==
  ASSUME TInv, NEW key \in Keys, MemberKey(key)
  PROVE  TreeInv'
<1>1. /\ UNCHANGED <<root, generation>> /\ status = "parsing" /\ status' = "parsing"
      /\ at = "members" /\ at' = "head" /\ EnterGuard("member", key)
  BY DEF MemberKey, InMembers
<1>2. key \in Seq(KeyPart)
  BY KeysAssumption
<1>3. position' = position \o key
  BY <1>1 DEF EnterGuard, position
<1>4. PathStands'
  <2> HIDE DEF position
  <2> QED  BY <1>1, <1>2, <1>3, PathExtended
<1>5. RulesNest'
  BY <1>1, RulesPushed DEF EnterGuard, Rules, GuardRules
<1>6. TreeStands'
  BY <1>1, TreeKept
<1> QED  BY <1>1, <1>4, <1>5, <1>6 DEF TreeInv, ContinuedElementExists

LEMMA MarkTree ==
  ASSUME TInv, NEW key \in Keys, NEW temporary \in BOOLEAN, Mark(key, temporary)
  PROVE  TreeInv'
<1> DEFINE path == position \o key
           r    == phase1_append(root, path, Temporary(temporary), "implicit")
<1>1. /\ UNCHANGED <<prefix, suffix, generation, stack, at>> /\ status = "parsing" /\ at = "members"
  BY DEF Mark, InMembers, key1s, control
<1>2. RulesNest'
  BY <1>1, RulesSame
<1>3. CASE member # <<>>
  <2>1. UNCHANGED root /\ status' = "assert_member"
    BY <1>3 DEF Mark
  <2>2. TreeStands'
    BY <1>1, <2>1, TreeKept
  <2> QED  BY <1>2, <2>1, <2>2 DEF TreeInv, PathStands, ContinuedElementExists
<1>4. CASE member = <<>>
  <2>1. root' = r.val /\ status' = StatusAfter(r.error)
    BY <1>4 DEF Mark
  <2>2. key \in Seq(KeyPart) /\ key # <<>>
    BY KeysAssumption
  <2>3. path # <<>>
    <3>1. key \in Seq(PathPart) /\ position \in Seq(PathPart)
      BY <2>2, TypesOfPath, SeqMonotonic DEF TInv, PathPart
    <3> HIDE DEF position
    <3> QED  BY <2>2, <3>1
  <2>4. path = position \o key /\ r = phase1_append(root, path, Temporary(temporary), "implicit")
    OBVIOUS
  <2> HIDE DEF path, r
  <2>5. IsMoved(path, Temporary(temporary), r) /\ Len(position) <= Len(path)
    BY <1>1, <2>2, <2>3, <2>4, ThingsFit, AppendRooted
  <2>6. ContinuedElementExists' /\ TreeStands' /\ PathStands'
    BY <1>1, <2>1, <2>2, <2>4, <2>5, ChangeStep
  <2> QED  BY <1>2, <2>6 DEF TreeInv
<1> QED  BY <1>3, <1>4

LEMMA AssignHeadTree ==
  ASSUME TInv, AssignHead
  PROVE  TreeInv'
<1> DEFINE r == phase1_append(root, position, Clear, "implicit")
<1>1. /\ UNCHANGED <<prefix, suffix, generation, stack>> /\ status = "parsing" /\ at = "head"
      /\ root' = r.val /\ status' = StatusAfter(r.error) /\ at' = "assigned"
  BY DEF AssignHead, key1s
<1>2. r = phase1_append(root, position, Clear, "implicit")
  OBVIOUS
<1> HIDE DEF r
<1>3. ContinuedElementExists' /\ TreeStands' /\ PathStands'
  BY <1>1, <1>2, ThingsFit, ChangeHere
<1>4. RulesNest'
  BY <1>1, PathThere, RulesSame
<1> QED  BY <1>3, <1>4 DEF TreeInv

(* The first part of every value part. *)
LEMMA AddValueTree ==
  ASSUME TInv, NEW thing, Fits(thing, "manifest"), AddValue(thing)
  PROVE  /\ ContinuedElementExists' /\ status = "parsing"
         /\ generation' \in {generation, generation + 1} => TreeStands'
         /\ Tree(root_concat(root'), global_nesting_limit + 1, generation)
         /\ thing # Clear => Kept(root_concat(root), root_concat(root'))
         /\ status' = "parsing" => \E r : r.error = "none" /\ r.val = root' /\ IsMoved(position, thing, r)
         /\ UNCHANGED <<prefix, suffix>> /\ (status' = "parsing" => at' # "elements") => PathStands'
         /\ stack # <<>> /\ Top.rule \in GuardRules
<1> DEFINE r == phase1_append(root, position, thing, "manifest")
<1>1. /\ status = "parsing" /\ at # "members"
      /\ root' = r.val /\ status' = StatusAfter(r.error)
  BY DEF AddValue, InValue
<1>2. r = phase1_append(root, position, thing, "manifest")
  OBVIOUS
<1> HIDE DEF r
<1>3. /\ ContinuedElementExists' /\ IsMoved(position, thing, r)
      /\ generation' \in {generation, generation + 1} => TreeStands'
      /\ Tree(root_concat(root'), global_nesting_limit + 1, generation)
      /\ UNCHANGED <<prefix, suffix>> /\ (status' = "parsing" => at' # "elements") => PathStands'
  BY <1>1, <1>2, ChangeHere
<1>4. status' = "parsing" => r.error = "none"
  BY <1>1, <1>3 DEF StatusAfter, IsMoved
<1>5. thing # Clear => Kept(root_concat(root), root_concat(root'))
  BY <1>1, <1>3 DEF IsMoved
<1> QED  BY <1>1, <1>3, <1>4, <1>5, PathThere

ListThings == {Ensure(ArrayEntry(<<>>))} \cup {Function(f) : f \in Functions}

LEMMA ListTree ==
  ASSUME TInv, NEW thing \in ListThings, Fits(thing, "manifest"), AddValue(thing), OpenElements
  PROVE  TreeInv'
<1>1. CASE status' = "parsing"
  <2> DEFINE inner == <<AppendPart(generation + 1)>>
  <2>1. /\ generation' = generation + 1 /\ EnterGuard("elements", inner) /\ at' = "elements"
    BY <1>1 DEF OpenElements
  <2>2. position' = position \o inner
    BY <2>1 DEF EnterGuard, position
  <2>3. /\ ContinuedElementExists' /\ TreeStands'
        /\ \E r : r.error = "none" /\ r.val = root' /\ IsMoved(position, thing, r)
        /\ stack # <<>> /\ Top.rule \in GuardRules
        /\ Tree(root_concat(root'), global_nesting_limit + 1, generation)
    BY <1>1, <2>1, AddValueTree
  <2>6. ListStands
    <3>1. thing = Ensure(ArrayEntry(<<>>)) \/ \E f : thing = Function(f)
      BY DEF ListThings
    <3> HIDE DEF position
    <3>2. PICK j, p, q : IsWalked(root_concat(root'), position, thing, generation, j, p, q)
      BY <2>3 DEF IsMoved
    <3>3. PICK x : IsConcat(x, generation) /\ q[Len(position)] = Apply(thing, x)
      BY <3>2 DEF IsWalked
    <3>4. q[Len(position)].concat # <<>> /\ Back(q[Len(position)]).kind = "array"
      BY <3>1, <3>3, ListThing
    <3> QED  BY <3>2, <3>4 DEF ListStands, IsWalked
  <2>4. PathStands'
    <3> HIDE DEF position
    <3> QED  BY <2>1, <2>2, <2>3, <2>6, ListBegins
  <2>5. RulesNest'
    BY <2>1, <2>3, RulesPushed DEF EnterGuard, Rules, GuardRules
  <2> QED  BY <2>3, <2>4, <2>5 DEF TreeInv
<1>2. CASE status' # "parsing"
  <2>1. UNCHANGED <<generation, prefix, suffix, stack, at>>
    BY <1>2 DEF OpenElements, key1s, control
  <2>2. /\ ContinuedElementExists' /\ TreeStands' /\ PathStands'
    BY <1>2, <2>1, AddValueTree
  <2>3. RulesNest'
    BY <1>2, <2>1, RulesSame
  <2> QED  BY <2>2, <2>3 DEF TreeInv
<1> QED  BY <1>1, <1>2

LEMMA ValuePartTree ==
  ASSUME TInv, ValuePart
  PROVE  TreeInv'
<1>1. ASSUME NEW e \in Atoms \cup References, Literal(e) PROVE TreeInv'
  <2>1. AddValue(Emplace(e)) /\ UNCHANGED <<prefix, suffix, generation, stack>> /\ at' = "after"
    BY <1>1 DEF Literal, key1s
  <2>2. Fits(Emplace(e), "manifest")
    BY ThingsFit
  <2>3. /\ ContinuedElementExists' /\ TreeStands' /\ PathStands' /\ Top.rule \in GuardRules
    BY <2>1, <2>2, AddValueTree
  <2>4. RulesNest'
    BY <2>1, <2>3, RulesSame
  <2> QED  BY <2>3, <2>4 DEF TreeInv
<1>2. CASE BeginArray
  BY <1>2, ThingsFit, ListTree DEF BeginArray, ListThings
<1>3. ASSUME NEW f \in Functions, FunctionName(f) PROVE TreeInv'
  BY <1>3, ThingsFit, ListTree DEF FunctionName, ListThings
<1>4. CASE BeginObject
  <2> DEFINE thing == Ensure(ObjectEntry(EmptyObject))
  <2>1. AddValue(thing) /\ UNCHANGED generation /\ (status' = "parsing" => at' = "members")
    BY <1>4 DEF BeginObject
  <2>2. Fits(thing, "manifest")
    BY ThingsFit
  <2> HIDE DEF thing
  <2>3. UNCHANGED <<prefix, suffix>>
    BY <1>4 DEF BeginObject, EnterPlain, key1s
  <2>4. /\ ContinuedElementExists' /\ TreeStands' /\ PathStands'
        /\ stack # <<>> /\ Top.rule \in GuardRules
    BY <2>1, <2>2, <2>3, AddValueTree
  <2>5. RulesNest'
    <3>1. CASE status' = "parsing"
      BY <1>4, <2>4, <3>1, RulesPushed DEF BeginObject, EnterPlain, Rules
    <3>2. CASE status' # "parsing"
      BY <1>4, <3>2, RulesSame DEF BeginObject, control
    <3> QED  BY <3>1, <3>2
  <2> QED  BY <2>4, <2>5 DEF TreeInv
<1> QED  BY <1>1, <1>2, <1>3, <1>4 DEF ValuePart

LEMMA EndValueListTree ==
  ASSUME TInv, EndValueList
  PROVE  TreeInv'
<1>1. /\ generation' = generation + 1 /\ status = "parsing" /\ at = "after" /\ UNCHANGED root
      /\ stack # <<>> /\ status' # "assert_append"
  BY PathThere DEF EndValueList
<1>2. CASE Top.rule = "member" /\ LeaveRule /\ at' = "members"
  BY <1>1, <1>2, LeaveTree DEF GuardRules
<1>3. CASE /\ Top.rule = "elements" /\ at' = "elements"
           /\ suffix' = set_generation(suffix, generation')
           /\ UNCHANGED <<stack, prefix>>
  <2>1. Top.rule \in GuardRules /\ suffix' = set_generation(suffix, generation + 1)
    BY <1>1, <1>3 DEF GuardRules
  <2>2. PathStands'
    BY <1>1, <1>3, <2>1, ListGoesOn
  <2>3. RulesNest'
    BY <1>3, <2>1, RulesSame
  <2>4. TreeStands'
    BY <1>1, TreeKept
  <2> QED  BY <1>1, <2>2, <2>3, <2>4 DEF TreeInv, ContinuedElementExists
<1> QED  BY <1>2, <1>3 DEF EndValueList

-----------------------------------------------------------------------------
(* The levels of a tree. *)

level_below(concats) == UNION {BelowConcat(c) : c \in concats}
next_level(above)    == Append(above, level_below(Last(above)))

(* The recursion of Levels is a definition. *)
GoesDown(first, concats, top) ==
  /\ Levels(concats, top) = first[top]
  /\ first[0] = <<concats>>
  /\ \A i \in 1..top : first[i] = next_level(first[i - 1])

LEMMA LevelsIsDefined ==
  ASSUME NEW concats, NEW top \in Nat
  PROVE  \E first : GoesDown(first, concats, top)
<1> DEFINE n       == top
           a       == <<concats>>
           Up(s, i) == next_level(s)
           IsFirst(f, m) == f = [i \in 0..m |-> IF i = 0 THEN a ELSE Up(f[i - 1], i)]
           T       == {m \in 0..n : \E f : IsFirst(f, m)}
<1>1. n \in Nat
  OBVIOUS
<1> HIDE DEF n, a, Up
<1>2. 0 \in T
  <2> DEFINE f == [i \in 0..0 |-> a]
  <2>1. IsFirst(f, 0)
    OBVIOUS
  <2> HIDE DEF f, IsFirst
  <2>2. 0 \in 0..n
    BY <1>1
  <2> QED  BY <2>1, <2>2
<1>3. ASSUME NEW m \in 0..n, m < n, m \in T
      PROVE  m + 1 \in T
  <2>1. PICK f : IsFirst(f, m)
    BY <1>3
  <2> DEFINE g == [i \in 0..m + 1 |-> IF i = m + 1 THEN Up(f[m], m + 1) ELSE f[i]]
  <2>2. m \in Nat /\ m + 1 \in 0..n
    BY <1>1, <1>3
  <2>3. \A i \in 0..m : g[i] = f[i]
    BY <2>2
  <2>4. \A i \in 0..m : f[i] = IF i = 0 THEN a ELSE Up(f[i - 1], i)
    BY <2>1
  <2>5. ASSUME NEW i \in 0..m + 1
        PROVE  g[i] = IF i = 0 THEN a ELSE Up(g[i - 1], i)
    <3>1. CASE i = m + 1
      <4>1. g[i] = Up(f[m], m + 1) /\ i # 0 /\ i - 1 = m /\ g[m] = f[m]
        BY <2>2, <2>3, <3>1
      <4> QED  BY <4>1, <3>1
    <3>2. CASE i # m + 1
      <4>1. i \in 0..m /\ (i # 0 => i - 1 \in 0..m)
        BY <2>2, <3>2
      <4>2. g[i] = f[i] /\ (i # 0 => g[i - 1] = f[i - 1])
        BY <2>3, <4>1
      <4>3. f[i] = IF i = 0 THEN a ELSE Up(f[i - 1], i)
        BY <2>4, <4>1
      <4> HIDE DEF g
      <4> QED  BY <4>2, <4>3
    <3> QED  BY <3>1, <3>2
  <2>6. IsFirst(g, m + 1)
    <3>1. g = [i \in 0..m + 1 |-> g[i]]
      OBVIOUS
    <3> HIDE DEF g
    <3> QED  BY <2>5, <3>1
  <2> QED  BY <2>2, <2>6
<1>4. \A m \in 0..n : m \in T
  <2> HIDE DEF T
  <2> QED  BY <1>1, <1>2, <1>3, InductionUpTo
<1>5. \E f : IsFirst(f, n)
  <2>1. n \in T
    <3> HIDE DEF T
    <3> QED  BY <1>1, <1>4
  <2> HIDE DEF IsFirst
  <2> QED  BY <2>1
<1> DEFINE first == CHOOSE f : IsFirst(f, n)
<1>6. IsFirst(first, n)
  BY <1>5
<1>7. Levels(concats, top) = first[n]
  BY DEF Levels, n, a, Up, next_level, level_below
<1> HIDE DEF first
<1>8. \A i \in 0..n : first[i] = IF i = 0 THEN a ELSE Up(first[i - 1], i)
  BY <1>6
<1>9. first[0] = a
  BY <1>1, <1>8
<1>10. \A i \in 1..n : first[i] = Up(first[i - 1], i)
  BY <1>1, <1>8
<1>11. GoesDown(first, concats, top)
  BY <1>7, <1>9, <1>10 DEF GoesDown, n, a, Up
<1> QED  BY <1>11

(* The sequence levels goes down from concats. *)
AreLevels(levels, concats, n) ==
  /\ IsSeq(levels) /\ Len(levels) = n + 1
  /\ levels[1] = concats
  /\ \A k \in 1..n : levels[k + 1] = level_below(levels[k])

LEMMA LevelsGoDown ==
  ASSUME NEW concats, NEW n \in Nat
  PROVE  AreLevels(Levels(concats, n), concats, n)
<1>0. PICK first : GoesDown(first, concats, n)
  BY LevelsIsDefined
<1>1. /\ Levels(concats, n) = first[n]
      /\ first[0] = <<concats>>
      /\ \A i \in 1..n : first[i] = next_level(first[i - 1])
  BY <1>0 DEF GoesDown
<1> DEFINE T == {m \in 0..n : AreLevels(first[m], concats, m)}
<1>2. 0 \in T
  <2>1. IsSeq(<<concats>>) /\ Len(<<concats>>) = 0 + 1 /\ <<concats>>[1] = concats
    <3>1. <<concats>> \in Seq({concats})
      OBVIOUS
    <3>2. IsSeq(<<concats>>)
      BY <3>1 DEF IsSeq
    <3>3. Len(<<concats>>) = 0 + 1 /\ <<concats>>[1] = concats
      OBVIOUS
    <3> QED  BY <3>2, <3>3
  <2>2. AreLevels(first[0], concats, 0)
    BY <1>1, <2>1 DEF AreLevels
  <2> QED  BY <2>2
<1>3. ASSUME NEW m \in 0..n, m < n, m \in T PROVE m + 1 \in T
  <2> DEFINE f == first[m]
             g == first[m + 1]
  <2>1. m \in Nat /\ m + 1 \in 1..n /\ (m + 1) - 1 = m /\ m + 1 \in 0..n
    BY <1>3
  <2>2. g = next_level(f) /\ AreLevels(f, concats, m)
    BY <1>1, <1>3, <2>1
  <2> HIDE DEF f, g
  <2>3. IsSeq(f) /\ Len(f) = m + 1 /\ f[1] = concats /\ \A k \in 1..m : f[k + 1] = level_below(f[k])
    BY <2>2 DEF AreLevels
  <2> DEFINE e == level_below(Last(f))
  <2> HIDE DEF e
  <2>4. g = Append(f, e)
    BY <2>2 DEF next_level, e
  <2>5. /\ IsSeq(g) /\ Len(g) = Len(f) + 1 /\ g[Len(f) + 1] = e
        /\ \A i \in 1..Len(f) : g[i] = f[i]
    BY <2>3, <2>4, AppendSeq
  <2>6. Last(f) = f[m + 1]
    BY <2>3 DEF Last
  <2>7. ASSUME NEW k \in 1..m + 1 PROVE g[k + 1] = level_below(g[k])
    <3>1. k \in 1..Len(f) /\ g[k] = f[k]
      BY <2>3, <2>5
    <3>2. CASE k = m + 1
      <4>1. g[k + 1] = e
        BY <2>3, <2>5, <3>2
      <4> QED  BY <2>6, <3>1, <3>2, <4>1 DEF e
    <3>3. CASE k # m + 1
      <4>1. k \in 1..m /\ k + 1 \in 1..Len(f)
        BY <2>1, <2>3, <3>3
      <4> QED  BY <2>3, <2>5, <3>1, <4>1
    <3> QED  BY <3>2, <3>3
  <2>8. g[1] = concats /\ Len(g) = (m + 1) + 1
    BY <2>1, <2>3, <2>5
  <2>9. AreLevels(g, concats, m + 1)
    BY <2>5, <2>7, <2>8 DEF AreLevels
  <2> QED  BY <2>1, <2>9 DEF g
<1>4. \A m \in 0..n : m \in T
  <2> HIDE DEF T
  <2> QED  BY <1>2, <1>3, InductionUpTo
<1>5. n \in T
  <2> HIDE DEF T
  <2> QED  BY <1>4
<1> QED  BY <1>1, <1>5

(* What is on each level of a set of trees. *)
LEMMA LevelsOfTrees ==
  ASSUME NEW concats, NEW n \in Nat, NEW m, NEW g, NEW levels, levels = Levels(concats, n),
         m \in Int, \A c \in concats : Tree(c, m, g)
  PROVE  \A k \in 1..n + 1 : \A c \in levels[k] : Tree(c, m - (k - 1), g)
<1>1. AreLevels(levels, concats, n)
  BY LevelsGoDown
<1> DEFINE T == {i \in 0..n : \A c \in levels[i + 1] : Tree(c, m - i, g)}
<1>2. 0 \in T
  <2>1. m - 0 = m /\ 0 + 1 = 1 /\ levels[1] = concats
    BY <1>1 DEF AreLevels
  <2> QED  BY <2>1
<1>3. ASSUME NEW i \in 0..n, i < n, i \in T PROVE i + 1 \in T
  <2>1. i + 1 \in 1..n /\ i + 1 \in 0..n /\ (m - i) - 1 = m - (i + 1)
    BY <1>3
  <2>2. levels[(i + 1) + 1] = level_below(levels[i + 1])
    BY <1>1, <2>1 DEF AreLevels
  <2>3. ASSUME NEW d \in levels[(i + 1) + 1] PROVE Tree(d, m - (i + 1), g)
    <3>1. PICK c \in levels[i + 1] : d \in BelowConcat(c)
      BY <2>2, <2>3 DEF level_below
    <3>2. Tree(c, m - i, g)
      BY <1>3
    <3>3. Tree(d, (m - i) - 1, g)
      BY <3>1, <3>2, TreeBelow
    <3> QED  BY <2>1, <3>3
  <2> QED  BY <2>1, <2>3
<1>4. \A i \in 0..n : i \in T
  <2> HIDE DEF T
  <2> QED  BY <1>2, <1>3, InductionUpTo
<1>5. ASSUME NEW k \in 1..n + 1 PROVE \A c \in levels[k] : Tree(c, m - (k - 1), g)
  <2>1. k - 1 \in 0..n /\ (k - 1) + 1 = k
    OBVIOUS
  <2>2. k - 1 \in T
    <3> HIDE DEF T
    <3> QED  BY <1>4, <2>1
  <2> QED  BY <2>1, <2>2
<1> QED  BY <1>5

(* What is hollow holds only implicit members, down to every level. *)
LEMMA HollowIsImplicit ==
  ASSUME NEW c, Hollow(c)
  PROVE  only_implicit(c)
<1> DEFINE n == global_nesting_limit
           levels == Levels({c}, n)
           T == {i \in 0..n : \A d \in levels[i + 1] : Hollow(d)}
<1>1. n \in Nat
  BY NestingAssumption
<1>2. AreLevels(levels, {c}, n)
  BY <1>1, LevelsGoDown
<1>3. DOMAIN levels = 1..n + 1
  <2> HIDE DEF levels
  <2>1. PICK S : levels \in Seq(S)
    BY <1>2 DEF AreLevels, IsSeq
  <2> QED  BY <1>2, <2>1 DEF AreLevels
<1> HIDE DEF levels
<1>4. 0 \in T
  <2>1. 0 + 1 = 1 /\ levels[1] = {c}
    BY <1>2 DEF AreLevels
  <2> QED  BY <1>1, <2>1
<1>5. ASSUME NEW i \in 0..n, i < n, i \in T PROVE i + 1 \in T
  <2>1. i + 1 \in 1..n /\ i + 1 \in 0..n
    BY <1>1, <1>5
  <2>2. levels[(i + 1) + 1] = level_below(levels[i + 1])
    BY <1>2, <2>1 DEF AreLevels
  <2>3. ASSUME NEW d \in levels[(i + 1) + 1] PROVE Hollow(d)
    <3>1. PICK b \in levels[i + 1] : d \in BelowConcat(b)
      BY <2>2, <2>3 DEF level_below
    <3>2. Hollow(b)
      BY <1>5
    <3> QED  BY <3>1, <3>2, HollowBelow
  <2> QED  BY <2>1, <2>3
<1>6. \A i \in 0..n : i \in T
  <2> HIDE DEF T
  <2> QED  BY <1>1, <1>4, <1>5, InductionUpTo
<1>7. ASSUME NEW k \in DOMAIN levels, NEW d \in levels[k] PROVE implicit_entries(d)
  <2>1. k - 1 \in 0..n /\ (k - 1) + 1 = k
    BY <1>1, <1>3
  <2>2. k - 1 \in T
    <3> HIDE DEF T
    <3> QED  BY <1>6, <2>1
  <2> QED  BY <2>1, <2>2, HollowBelow
<1> HIDE DEF n
<1> QED  BY <1>7 DEF only_implicit, levels, n

-----------------------------------------------------------------------------
(* The invariant holds. *)
LEMMA InitTree == Init => TInv
<1> SUFFICES ASSUME Init PROVE TInv
  OBVIOUS
<1>1. /\ root = EmptyObject /\ prefix = <<>> /\ suffix = <<>> /\ generation = 1
      /\ stack = <<>> /\ at = "members" /\ status = "idle"
  BY DEF Init
<1>2. IInv
  BY InitInvariant
<1>3. TreeStands
  <2> DEFINE e == ObjectEntry(EmptyObject)
             c == root_concat(root)
  <2>1. IsEntry(e) /\ Below(e) = {} /\ IsConcat(NewConcat, 1) /\ BelowConcat(NewConcat) = {}
        /\ NewConcat.concat = <<>> /\ NewConcat.implicit = FALSE
    BY NewEntries
  <2> HIDE DEF e
  <2>2. c = with_entry(NewConcat, e)
    <3>1. c = [NewConcat EXCEPT !.concat = <<e>>] /\ Append(NewConcat.concat, e) = <<e>>
      BY <1>1, <2>1 DEF root_concat, e
    <3> HIDE DEF c
    <3> QED  BY <3>1 DEF with_entry
  <2> HIDE DEF c
  <2>3. IsConcat(c, 1) /\ SameFlags(c, NewConcat) /\ Gained(c, NewConcat, e)
    BY <2>1, <2>2, AppendEntry
  <2>4. BelowConcat(c) = {} /\ c.implicit = FALSE
    BY <2>1, <2>3 DEF Gained, SameFlags
  <2>5. global_nesting_limit + 1 \in Nat \ {0}
    BY NestingAssumption
  <2>6. Tree(c, global_nesting_limit + 1, 1)
    BY <2>3, <2>4, <2>5, TreeAbove
  <2> QED  BY <1>1, <2>6 DEF TreeStands, c
<1>4. RulesNest /\ ListsNest
  BY <1>1 DEF RulesNest, ListsNest
<1> QED  BY <1>1, <1>2, <1>3, <1>4 DEF TInv, TreeInv, PathStands, ContinuedElementExists

LEMMA StepTree == TInv /\ [Next]_vars => TInv'
<1> SUFFICES ASSUME TInv, [Next]_vars PROVE TreeInv'
  BY StepInvariant, StepLists DEF TInv
<1>1. CASE UNCHANGED vars
  <2>1. UNCHANGED <<root, prefix, suffix, generation, stack, at, status, position>>
    BY <1>1 DEF vars, position
  <2> HIDE DEF position
  <2> QED  BY <2>1 DEF TInv, TreeInv, TreeStands, RulesNest, Top, PathStands, Standing,
                       ContinuedElementExists
<1>2. CASE ParseFile
  BY <1>2, ParseFileTree
<1>3. CASE EndFile \/ Delete \/ EndObject \/ EndElements
  BY <1>3, LeavingTree
<1>4. CASE Include \/ AppendHead \/ Plus
  BY <1>4, QuietTree
<1>5. CASE SyntaxError \/ Unwind
  BY <1>5, ThrowingTree
<1>6. CASE \E key \in Keys : MemberKey(key)
  BY <1>6, MemberKeyTree
<1>7. CASE \E key \in Keys, temporary \in BOOLEAN : Mark(key, temporary)
  BY <1>7, MarkTree
<1>8. CASE AssignHead
  BY <1>8, AssignHeadTree
<1>9. CASE ValuePart
  BY <1>9, ValuePartTree
<1>10. CASE EndValueList
  BY <1>10, EndValueListTree
<1> QED
  BY <1>1, <1>2, <1>3, <1>4, <1>5, <1>6, <1>7, <1>8, <1>9, <1>10 DEF Next

LEMMA TreeInvariance == Spec => []TInv
<1>1. Init => TInv
  BY InitTree
<1>2. TInv /\ [Next]_vars => TInv'
  BY StepTree
<1> QED  BY <1>1, <1>2, PTL DEF Spec

(* The members of the root are trees of as many levels as the limit allows. *)
LEMMA MembersAreTrees ==
  ASSUME TInv
  PROVE  \A c \in Members : Tree(c, global_nesting_limit, generation)
<1> DEFINE c == root_concat(root)
           e == ObjectEntry(root)
<1>1. Tree(c, global_nesting_limit + 1, generation)
  BY DEF TInv, TreeInv, TreeStands
<1>2. c.concat = <<e>>
  BY DEF root_concat, NewConcat
<1>3. e.kind = "object" /\ e.object = root
  BY DEF ObjectEntry
<1> HIDE DEF c, e
<1>4. Below(e) = Members
  BY <1>3 DEF Below, Members
<1>5. c.concat # <<>> /\ Back(c) = e
  <2>1. <<e>> # <<>> /\ Last(<<e>>) = e
    BY DEF Last
  <2> QED  BY <1>2, <2>1 DEF Back
<1>6. Members \subseteq BelowConcat(c)
  BY <1>1, <1>4, <1>5, TreeBelow, BelowBack
<1>7. (global_nesting_limit + 1) - 1 = global_nesting_limit
  BY NestingAssumption
<1>8. \A d \in BelowConcat(c) : Tree(d, (global_nesting_limit + 1) - 1, generation)
  BY <1>1, TreeBelow
<1> QED  BY <1>6, <1>7, <1>8

(* phase1_append_append: the element that a list goes on with is always     *)
(* there, also after objects, lists, calls and includes within it, so its   *)
(* assertion never fails.                                                   *)
THEOREM ListsContinue == Spec => []ContinuedElementExists
<1>1. TInv => ContinuedElementExists
  BY DEF TInv, TreeInv
<1> QED  BY <1>1, TreeInvariance, PTL

(* phase1_append checks the length of one path only, and still no sequence  *)
(* of keys, brackets, calls and includes, also over several files, makes    *)
(* the tree deeper than the nesting limit.                                  *)
THEOREM TreeIsBounded == Spec => []NestingBounded
<1>1. TInv => NestingBounded
  <2> SUFFICES ASSUME TInv PROVE NestingBounded
    OBVIOUS
  <2> DEFINE n      == global_nesting_limit
             levels == Levels(Members, n)
  <2>1. n \in Nat /\ n \in Int /\ n + 1 \in 1..n + 1 /\ n - ((n + 1) - 1) = 0
    BY NestingAssumption
  <2>2. AreLevels(levels, Members, n)
    BY <2>1, LevelsGoDown
  <2>3. \A k \in 1..n + 1 : \A c \in levels[k] : Tree(c, n - (k - 1), generation)
    BY <2>1, MembersAreTrees, LevelsOfTrees
  <2> HIDE DEF levels
  <2>4. Last(levels) = levels[n + 1]
    BY <2>2 DEF AreLevels, Last
  <2>5. \A c \in Last(levels) : Tree(c, 0, generation)
    <3> HIDE DEF n
    <3>1. \A c \in levels[n + 1] : Tree(c, n - ((n + 1) - 1), generation)
      BY <2>1, <2>3
    <3> QED  BY <2>1, <2>4, <3>1
  <2>6. Last(levels) = {}
    BY <2>5, TreeBelow
  <2> QED  BY <2>6 DEF NestingBounded, levels
<1> QED  BY <1>1, TreeInvariance, PTL

(* phase1_append_member: the implicit flag of a member is reset by every    *)
(* value below it, so what phase 3 omits as implicit holds no value.        *)
THEOREM NoValueIsImplicit == Spec => []ImplicitHoldsNoValue
<1>1. TInv => ImplicitHoldsNoValue
  <2> SUFFICES ASSUME TInv PROVE ImplicitHoldsNoValue
    OBVIOUS
  <2> DEFINE n      == global_nesting_limit
             levels == Levels(Members, n)
  <2>1. n \in Nat /\ n \in Int
    BY NestingAssumption
  <2>2. AreLevels(levels, Members, n)
    BY <2>1, LevelsGoDown
  <2>3. \A k \in 1..n + 1 : \A c \in levels[k] : Tree(c, n - (k - 1), generation)
    BY <2>1, MembersAreTrees, LevelsOfTrees
  <2> HIDE DEF levels, n
  <2>4. DOMAIN levels = 1..n + 1
    <3>1. PICK S : levels \in Seq(S)
      BY <2>2 DEF AreLevels, IsSeq
    <3> QED  BY <2>2, <3>1 DEF AreLevels
  <2>5. ASSUME NEW k \in DOMAIN levels, NEW c \in levels[k], c.implicit PROVE only_implicit(c)
    <3>1. Tree(c, n - (k - 1), generation)
      BY <2>3, <2>4
    <3> QED  BY <2>5, <3>1, TreeBelow, HollowIsImplicit
  <2> QED  BY <2>5 DEF ImplicitHoldsNoValue, levels, n
<1> QED  BY <1>1, TreeInvariance, PTL
-----------------------------------------------------------------------------
(* How many elements the lists have that the parser is in. *)

list_path(i) == stack[i].outer.prefix \o stack[i].outer.suffix

(* The path goes on with an element of the list at the other path. *)
GoesInto(path, list) ==
  /\ Len(list) \in Nat /\ Len(list) < Len(path)
  /\ \A l \in 1..Len(list) : path[l] = list[l]
  /\ path[Len(list) + 1].kind = "append"

LEMMA GoesFurther ==
  ASSUME NEW path \in Seq(PathPart), NEW s \in Seq(PathPart), NEW list, GoesInto(path, list)
  PROVE  GoesInto(path \o s, list) /\ (s # <<>> => Len(list) + 1 < Len(path \o s))
<1> DEFINE k == Len(list)
           n == Len(path)
<1>1. k \in Nat /\ n \in Nat /\ k < n
  BY DEF GoesInto
<1>2. /\ Len(path \o s) = n + Len(s) /\ Len(s) \in Nat /\ (s # <<>> => Len(s) > 0)
      /\ \A l \in 1..n : (path \o s)[l] = path[l]
  OBVIOUS
<1>3. \A l \in 1..k + 1 : (path \o s)[l] = path[l]
  <2> HIDE DEF k, n
  <2> QED  BY <1>1, <1>2
<1>4. k + 1 \in 1..k + 1 /\ \A l \in 1..k : l \in 1..k + 1
  BY <1>1
<1> QED  BY <1>1, <1>2, <1>3, <1>4 DEF GoesInto

(* Every path is in the list that is open, through all rules inside it. *)
LEMMA PathInList ==
  ASSUME TInv, NEW i \in 1..Len(stack), stack[i].rule = "elements"
  PROVE  /\ GoesInto(position, list_path(i))
         /\ i = Len(stack) => Len(list_path(i)) + 1 = Len(position)
         /\ i # Len(stack) /\ Top.rule \in GuardRules => Len(list_path(i)) + 1 < Len(position)
<1> DEFINE n        == Len(stack)
           list     == list_path(i)
           inner(l) == IF l = n THEN suffix ELSE stack[l + 1].outer.suffix
           front(l) == IF l = n THEN prefix ELSE stack[l + 1].outer.prefix
           path(l)  == front(l) \o inner(l)
<1>1. stack \in Seq(Frame) /\ n \in Nat \ {0} /\ Top = stack[n] /\ stack # <<>>
  BY DEF TInv, IInv, Scopes, TypeOK, Top, Last
<1>2. prefix \in Seq(PathPart) /\ suffix \in Seq(PathPart)
  BY DEF TInv, IInv, Scopes, TypeOK
<1>3. ASSUME NEW l \in 1..n
      PROVE  stack[l].outer.prefix \in Seq(PathPart) /\ stack[l].outer.suffix \in Seq(PathPart)
  <2>1. stack[l] \in Frame
    BY <1>1
  <2> QED  BY <2>1 DEF Frame
<1>4. \A l \in 1..n : list_path(l) \in Seq(PathPart)
  BY <1>3 DEF list_path
<1>5. ASSUME NEW l \in 1..n
      PROVE  /\ front(l) \in Seq(PathPart) /\ inner(l) \in Seq(PathPart)
             /\ Inside(stack[l], front(l), inner(l))
             /\ stack[l].rule = "elements" => IsAppendSuffix(inner(l))
  <2>1. CASE l = n
    BY <1>1, <1>2, <2>1 DEF TInv, IInv, Scopes, ScopeIsInside, ListsNest
  <2>2. CASE l # n
    <3>1. l \in 1..n - 1 /\ l + 1 \in 1..n
      BY <1>1, <2>2
    <3> QED  BY <1>3, <2>2, <3>1 DEF TInv, IInv, Scopes, FramesNest, ListsNest
  <2> QED  BY <2>1, <2>2
<1>6. \A l \in 1..n : path(l) \in Seq(PathPart)
  BY <1>5
<1>7. ASSUME NEW l \in 1..n - 1 PROVE l + 1 \in 1..n /\ path(l) = list_path(l + 1)
  <2>1. l # n /\ l + 1 \in 1..n
    BY <1>1
  <2> QED  BY <2>1 DEF list_path
<1>8. path(n) = position
  BY DEF position
<1>9. ASSUME NEW l \in 1..n
      PROVE  IF stack[l].rule \in GuardRules
             THEN path(l) = list_path(l) \o inner(l) /\ inner(l) # <<>>
             ELSE path(l) = list_path(l)
  BY <1>5 DEF Inside, list_path
<1> HIDE DEF list, inner, front, path, position, list_path
<1>10. GoesInto(path(i), list) /\ Len(path(i)) = Len(list) + 1
  <2>1. path(i) = list \o inner(i) /\ IsAppendSuffix(inner(i)) /\ inner(i) \in Seq(PathPart)
        /\ list \in Seq(PathPart)
    BY <1>4, <1>5, <1>9 DEF list, GuardRules
  <2>2. Len(inner(i)) = 1 /\ inner(i)[1].kind = "append"
    BY <2>1 DEF IsAppendSuffix
  <2>3. ASSUME NEW t \in Seq(PathPart), NEW s \in Seq(PathPart), Len(s) = 1
        PROVE  /\ Len(t \o s) = Len(t) + 1 /\ Len(t) \in Nat
               /\ \A l \in 1..Len(t) : (t \o s)[l] = t[l]
               /\ (t \o s)[Len(t) + 1] = s[1]
    <3>1. /\ Len(t \o s) = Len(t) + Len(s) /\ Len(t) \in Nat
          /\ \A l \in 1..Len(t) : (t \o s)[l] = t[l]
          /\ \A l \in 1..Len(s) : (t \o s)[Len(t) + l] = s[l]
      OBVIOUS
    <3>2. 1 \in 1..Len(s)
      BY <2>3
    <3> QED  BY <2>3, <3>1, <3>2
  <2> QED  BY <2>1, <2>2, <2>3 DEF GoesInto
<1>11. ASSUME NEW l \in 1..n - 1, GoesInto(path(l), list)
       PROVE  /\ GoesInto(path(l + 1), list)
              /\ stack[l + 1].rule \in GuardRules => Len(list) + 1 < Len(path(l + 1))
  <2>1. l + 1 \in 1..n /\ path(l) = list_path(l + 1) /\ path(l) \in Seq(PathPart)
        /\ inner(l + 1) \in Seq(PathPart)
    BY <1>4, <1>5, <1>7
  <2> QED  BY <1>9, <1>11, <2>1, GoesFurther
<1> DEFINE T == {m \in 0..n - i : GoesInto(path(i + m), list)}
<1>12. n - i \in Nat /\ i \in Nat
  BY <1>1
<1>13. 0 \in T
  BY <1>10, <1>12
<1>14. ASSUME NEW m \in 0..n - i, m < n - i, m \in T PROVE m + 1 \in T
  <2>1. i + m \in 1..n - 1 /\ (i + m) + 1 = i + (m + 1) /\ m + 1 \in 0..n - i
    BY <1>1, <1>14
  <2> QED  BY <1>11, <1>14, <2>1
<1>15. \A m \in 0..n - i : m \in T
  <2> HIDE DEF T
  <2> QED  BY <1>12, <1>13, <1>14, InductionUpTo
<1>16. \A l \in 1..n : i <= l => GoesInto(path(l), list)
  <2> SUFFICES ASSUME NEW l \in 1..n, i <= l PROVE GoesInto(path(l), list)
    OBVIOUS
  <2>1. l - i \in 0..n - i /\ i + (l - i) = l
    BY <1>1, <1>12
  <2>2. l - i \in T
    <3> HIDE DEF T
    <3> QED  BY <1>15, <2>1
  <2> QED  BY <2>1, <2>2
<1> HIDE DEF T
<1>17. GoesInto(position, list)
  BY <1>1, <1>8, <1>12, <1>16
<1>18. i = n => Len(list) + 1 = Len(position)
  BY <1>8, <1>10
<1>19. i # n /\ stack[n].rule \in GuardRules => Len(list) + 1 < Len(position)
  <2> SUFFICES ASSUME i # n, stack[n].rule \in GuardRules PROVE Len(list) + 1 < Len(position)
    OBVIOUS
  <2>1. n - 1 \in 1..n - 1 /\ (n - 1) + 1 = n /\ i <= n - 1 /\ n - 1 \in 1..n
    <3> HIDE DEF n
    <3>1. i \in 1..n
      BY DEF n
    <3> QED  BY <1>1, <3>1
  <2> QED  BY <1>8, <1>11, <1>16, <2>1
<1> QED  BY <1>1, <1>17, <1>18, <1>19 DEF list

(* The concat at a path that stands. *)
LEMMA ConcatAt ==
  ASSUME NEW object, NEW list, Len(list) \in Nat, NEW p,
         StandsTo(root_concat(object), list, Len(list), p)
  PROVE  concat_at(object, list) = p[Len(list)]
<1> DEFINE n        == Len(list)
           IsLed(f) == f = [i \in 0..n |-> IF i = 0 THEN root_concat(object) ELSE at_part(f[i - 1], list[i])]
           led      == CHOOSE f : IsLed(f)
<1>1. n \in Nat
  OBVIOUS
<1>2. concat_at(object, list) = led[n]
  BY DEF concat_at
<1>3. p[0] = root_concat(object) /\ \A i \in 1..n : p[i] = at_part(p[i - 1], list[i])
  BY DEF StandsTo
<1> HIDE DEF n
<1>4. \E f : IsLed(f)
  <2> DEFINE f == [i \in 0..n |-> p[i]]
  <2>1. ASSUME NEW i \in 0..n
        PROVE  p[i] = IF i = 0 THEN root_concat(object) ELSE at_part(f[i - 1], list[i])
    <3>1. CASE i = 0
      BY <1>3, <3>1
    <3>2. CASE i # 0
      <4>1. i \in 1..n /\ i - 1 \in 0..n
        BY <1>1, <3>2
      <4>2. f[i - 1] = p[i - 1]
        BY <4>1
      <4> HIDE DEF f
      <4> QED  BY <1>3, <3>2, <4>1, <4>2
    <3> QED  BY <3>1, <3>2
  <2>2. f = [i \in 0..n |-> p[i]]
    OBVIOUS
  <2> HIDE DEF f
  <2>3. IsLed(f)
    BY <2>1, <2>2
  <2> QED  BY <2>3
<1>5. IsLed(led)
  BY <1>4
<1> HIDE DEF led
<1>6. \A i \in 0..n : led[i] = IF i = 0 THEN root_concat(object) ELSE at_part(led[i - 1], list[i])
  BY <1>5
<1> DEFINE T == {m \in 0..n : led[m] = p[m]}
<1>7. 0 \in T
  BY <1>1, <1>3, <1>6
<1>8. ASSUME NEW m \in 0..n, m < n, m \in T PROVE m + 1 \in T
  <2>1. m + 1 \in 1..n /\ m + 1 \in 0..n /\ (m + 1) - 1 = m /\ m + 1 # 0
    BY <1>1, <1>8
  <2>2. led[m + 1] = at_part(led[(m + 1) - 1], list[m + 1])
    BY <1>6, <2>1
  <2> QED  BY <1>3, <1>8, <2>1, <2>2
<1>9. \A m \in 0..n : m \in T
  <2> HIDE DEF T
  <2> QED  BY <1>1, <1>7, <1>8, InductionUpTo
<1>10. n \in T
  <2> HIDE DEF T
  <2> QED  BY <1>1, <1>9
<1> QED  BY <1>2, <1>10 DEF n

(* The list that an element begins in. *)
IsFirstPart(i) == i = Len(stack) /\ at = "elements"

ElementsStep ==
  status' = "parsing" =>
    \A i \in 1..Min({Len(stack), Len(stack')}) :
      stack[i].rule = "elements" =>
        LET path  == stack[i].outer.prefix \o stack[i].outer.suffix
            first == i = Len(stack) /\ at = "elements"
        IN  Elements(root', path) = IF first THEN Elements(root, path) + 1
                                    ELSE Elements(root, path)

(* A change of the tree at the parser's position or below it. *)
LEMMA ElementsMoved ==
  ASSUME TInv, status = "parsing", NEW key \in Seq(KeyPart), NEW path, path = position \o key,
         NEW thing, NEW r, IsMoved(path, thing, r), r.error = "none", root' = r.val,
         NEW i \in 1..Len(stack), stack[i].rule = "elements"
  PROVE  Elements(root', list_path(i)) = IF IsFirstPart(i) THEN Elements(root, list_path(i)) + 1
                                         ELSE Elements(root, list_path(i))
<1> DEFINE n    == Len(position)
           list == list_path(i)
           k    == Len(list)
<1>1. position \in Seq(PathPart) /\ n \in Nat
  BY TypesOfPath DEF TInv
<1>2. /\ GoesInto(position, list)
      /\ i = Len(stack) => k + 1 = n
      /\ i # Len(stack) /\ Top.rule \in GuardRules => k + 1 < n
  BY PathInList
<1>3. at = "elements" => Top.rule \in GuardRules
  BY DEF TInv, TreeInv, RulesNest
<1> HIDE DEF position, list
<1>4. PICK j, p, q :
        /\ j \in 0..n /\ StandsTo(root_concat(root), position, j, p)
        /\ AtPath(position, at = "elements", j, p)
        /\ IsWalked(root_concat(root'), path, thing, generation, j, p, q)
  BY DEF IsMoved
<1>5. /\ k \in Nat /\ k < n /\ \A l \in 1..k : position[l] = list[l]
      /\ position[k + 1].kind = "append"
  BY <1>2 DEF GoesInto
<1>6. /\ Len(path) \in Nat /\ n <= Len(path)
      /\ \A l \in 1..n : path[l] = position[l]
  <2>1. key \in Seq(PathPart)
    BY SeqMonotonic DEF PathPart
  <2> QED  BY <1>1, <2>1
<1>7. StandsTo(root_concat(root'), path, Len(path), q) /\ IsGrown(path, j, p, q)
  BY <1>4 DEF IsWalked
<1> HIDE DEF n, k
<1>8. j \in Nat /\ j <= n
  BY <1>1, <1>4
<1>9. k + 1 \in 1..n
  BY <1>1, <1>5
<1>10. IF at = "elements" /\ k + 1 = n THEN k = j ELSE k < j
  <2>1. IF at = "elements" /\ k + 1 = n THEN k + 1 = j + 1 ELSE k + 1 <= j
    BY <1>4, <1>5, <1>9 DEF AtPath, n
  <2> QED  BY <1>5, <1>8, <2>1
<1>11. k \in 0..j /\ k \in 0..Len(path)
  BY <1>1, <1>5, <1>6, <1>8, <1>10
<1>12. concat_at(root, list) = p[k]
  <2>1. \A l \in 1..k : list[l] = position[l]
    BY <1>5
  <2>2. StandsTo(root_concat(root), list, k, p)
    BY <1>4, <1>8, <1>11, <2>1, StandsBefore
  <2> QED  BY <1>5, <2>2, ConcatAt DEF k
<1>13. concat_at(root', list) = q[k]
  <2>1. \A l \in 1..k : list[l] = path[l]
    BY <1>1, <1>5, <1>6
  <2>2. StandsTo(root_concat(root'), list, k, q)
    BY <1>6, <1>7, <1>11, <2>1, StandsBefore
  <2> QED  BY <1>5, <2>2, ConcatAt DEF k
<1>14. last_elements(q[k]) = IF k < j THEN last_elements(p[k]) ELSE last_elements(p[k]) + 1
  <2>1. k < Len(path) /\ path[k + 1].kind = "append"
    BY <1>1, <1>5, <1>6, <1>9
  <2> QED  BY <1>7, <1>11, <2>1 DEF IsGrown
<1>15. IsFirstPart(i) <=> ~ (k < j)
  <2>1. IsFirstPart(i) <=> at = "elements" /\ k + 1 = n
    BY <1>1, <1>2, <1>3, <1>5 DEF IsFirstPart, n, k
  <2> QED  BY <1>5, <1>8, <1>10, <2>1
<1> QED  BY <1>12, <1>13, <1>14, <1>15 DEF Elements, last_elements, list

(* The bound of a quantifier over rules that stay open. *)
LEMMA StaysOpen ==
  ASSUME TInv, TInv', NEW i \in 1..Min({Len(stack), Len(stack')})
  PROVE  i \in 1..Len(stack) /\ i <= Len(stack')
<1>1. Len(stack) \in Nat /\ Len(stack') \in Nat
  BY DEF TInv, IInv, Scopes, TypeOK
<1>2. /\ Min({Len(stack), Len(stack')}) \in {Len(stack), Len(stack')}
      /\ \A y \in {Len(stack), Len(stack')} : Min({Len(stack), Len(stack')}) <= y
  BY <1>1, LeastOf
<1> DEFINE m == Min({Len(stack), Len(stack')})
<1>3. m \in Nat /\ m <= Len(stack) /\ m <= Len(stack') /\ i \in 1..m
  BY <1>1, <1>2
<1> HIDE DEF m
<1> QED  BY <1>1, <1>3

(* A step that leaves the tree alone. *)
LEMMA ElementsKept ==
  ASSUME TInv, TInv', UNCHANGED root, at # "elements" \/ Len(stack') < Len(stack) \/ status' # "parsing"
  PROVE  ElementsStep
<1> SUFFICES ASSUME status' = "parsing", NEW i \in 1..Min({Len(stack), Len(stack')})
             PROVE  ~ (i = Len(stack) /\ at = "elements")
  BY DEF ElementsStep
<1>1. i \in 1..Len(stack) /\ i <= Len(stack')
  BY StaysOpen
<1>2. Len(stack) \in Nat /\ Len(stack') \in Nat
  BY DEF TInv, IInv, Scopes, TypeOK
<1> QED  BY <1>1, <1>2

LEMMA ElementsChanged ==
  ASSUME TInv, TInv', status = "parsing", NEW key \in Seq(KeyPart), NEW thing, NEW r,
         status' = "parsing" => /\ IsMoved(position \o key, thing, r)
                                /\ r.error = "none" /\ root' = r.val
  PROVE  ElementsStep
<1> SUFFICES ASSUME status' = "parsing", NEW i \in 1..Min({Len(stack), Len(stack')}),
                    stack[i].rule = "elements"
             PROVE  Elements(root', list_path(i)) = IF IsFirstPart(i) THEN Elements(root, list_path(i)) + 1
                                                    ELSE Elements(root, list_path(i))
  BY DEF ElementsStep, list_path, IsFirstPart
<1>1. i \in 1..Len(stack)
  BY StaysOpen
<1> HIDE DEF position
<1> QED  BY <1>1, ElementsMoved

LEMMA StepElements ==
  ASSUME TInv, TInv', [Next]_vars
  PROVE  [ElementsStep]_vars
<1> SUFFICES ASSUME Next PROVE ElementsStep
  OBVIOUS
<1>1. CASE ParseFile
  <2>1. UNCHANGED root /\ stack = <<>>
    BY <1>1 DEF ParseFile, TInv, IInv, Scopes, StatusFitsStack
  <2>2. ElementsStep
    <3> SUFFICES ASSUME NEW i \in 1..Min({Len(stack), Len(stack')}) PROVE FALSE
      BY DEF ElementsStep
    <3>1. i \in 1..Len(stack)
      BY StaysOpen
    <3> QED  BY <2>1, <3>1
  <2> QED  BY <2>2
<1>2. CASE EndFile \/ Include \/ AppendHead \/ Plus \/ EndObject \/ SyntaxError \/ Unwind
  <2>1. UNCHANGED root /\ (at # "elements" \/ status' # "parsing")
    BY <1>2 DEF EndFile, Include, AppendHead, Plus, EndObject, SyntaxError, Unwind, InMembers
  <2> QED  BY <2>1, ElementsKept
<1>3. CASE Delete \/ EndElements \/ EndValueList
  <2>1. UNCHANGED root /\ status = "parsing"
    BY <1>3 DEF Delete, EndElements, EndValueList
  <2>2. at # "elements" \/ LeaveRule
    BY <1>3 DEF Delete, EndElements, EndValueList
  <2>3. CASE LeaveRule
    <3>1. Len(stack') = Len(stack) - 1 /\ Len(stack) \in Nat
      BY <2>1, <2>3, LeaveRuleNests DEF TInv, IInv, Scopes, StatusFitsStack, TypeOK
    <3>2. Len(stack') < Len(stack)
      BY <3>1
    <3> QED  BY <2>1, <3>2, ElementsKept
  <2> QED  BY <2>1, <2>2, <2>3, ElementsKept
<1>4. ASSUME NEW key \in Keys, MemberKey(key) PROVE ElementsStep
  <2>1. UNCHANGED root /\ at # "elements"
    BY <1>4 DEF MemberKey, InMembers
  <2> QED  BY <2>1, ElementsKept
<1>5. ASSUME NEW key \in Keys, NEW temporary \in BOOLEAN, Mark(key, temporary) PROVE ElementsStep
  <2> DEFINE path == position \o key
             r    == phase1_append(root, path, Temporary(temporary), "implicit")
  <2>1. status = "parsing" /\ at = "members"
    BY <1>5 DEF Mark, InMembers
  <2>2. CASE member # <<>>
    <3>1. UNCHANGED root
      BY <1>5, <2>2 DEF Mark
    <3> QED  BY <2>1, <3>1, ElementsKept
  <2>3. CASE member = <<>>
    <3>1. root' = r.val /\ status' = StatusAfter(r.error)
      BY <1>5, <2>3 DEF Mark
    <3>2. key \in Seq(KeyPart) /\ key # <<>>
      BY KeysAssumption
    <3>3. path # <<>>
      <4>1. key \in Seq(PathPart) /\ position \in Seq(PathPart)
        BY <3>2, TypesOfPath, SeqMonotonic DEF TInv, PathPart
      <4> HIDE DEF position
      <4> QED  BY <3>2, <4>1
    <3>4. path = position \o key /\ r = phase1_append(root, path, Temporary(temporary), "implicit")
      OBVIOUS
    <3> HIDE DEF path, r
    <3>5. IsMoved(path, Temporary(temporary), r)
      BY <2>1, <3>2, <3>3, <3>4, ThingsFit, AppendRooted
    <3>6. status' = "parsing" => r.error = "none"
      BY <3>1, <3>5 DEF StatusAfter, IsMoved
    <3> QED  BY <2>1, <3>1, <3>2, <3>4, <3>5, <3>6, ElementsChanged
  <2> QED  BY <2>2, <2>3
<1>6. position = position \o <<>> /\ <<>> \in Seq(KeyPart)
  BY PositionIsPath
<1>7. CASE AssignHead
  <2>1. status = "parsing" /\ at = "head"
    BY <1>7 DEF AssignHead
  <2> DEFINE r == phase1_append(root, position, Clear, "implicit")
  <2>2. root' = r.val /\ status' = StatusAfter(r.error)
    BY <1>7 DEF AssignHead
  <2>3. r = phase1_append(root, position, Clear, "implicit")
    OBVIOUS
  <2> HIDE DEF r, position
  <2>4. IsMoved(position, Clear, r)
    BY <2>1, <2>2, <2>3, ThingsFit, ChangeHere
  <2>5. status' = "parsing" => r.error = "none"
    BY <2>2, <2>4 DEF StatusAfter, IsMoved
  <2> QED  BY <1>6, <2>1, <2>2, <2>4, <2>5, ElementsChanged
<1>8. ASSUME NEW thing, Fits(thing, "manifest"), AddValue(thing) PROVE ElementsStep
  <2>1. /\ status = "parsing"
        /\ status' = "parsing" => \E r : r.error = "none" /\ r.val = root' /\ IsMoved(position, thing, r)
    BY <1>8, AddValueTree
  <2> HIDE DEF position
  <2>2. CASE status' # "parsing"
    BY <2>2 DEF ElementsStep
  <2>3. CASE status' = "parsing"
    <3>1. PICK r : r.error = "none" /\ r.val = root' /\ IsMoved(position, thing, r)
      BY <2>1, <2>3
    <3> QED  BY <1>6, <2>1, <3>1, ElementsChanged
  <2> QED  BY <2>2, <2>3
<1>9. CASE ValuePart
  <2>1. PICK thing : Fits(thing, "manifest") /\ AddValue(thing)
    BY <1>9, ThingsFit DEF ValuePart, Literal, BeginArray, BeginObject, FunctionName
  <2> QED  BY <1>8, <2>1
<1> QED  BY <1>1, <1>2, <1>3, <1>4, <1>5, <1>7, <1>9 DEF Next

(* element_list, extension_list, value_list and phase1_append_append: the   *)
(* first part of a value in square brackets or in an argument list makes    *)
(* the one element that the whole value becomes; further parts of it, and   *)
(* whatever is nested in it at any depth, leave the number of elements of   *)
(* every list around them as it is.                                         *)
THEOREM OneElementPerValue == Spec => ElementPerValue
<1>1. TInv /\ TInv' /\ [Next]_vars => [ElementsStep]_vars
  BY StepElements
<1>2. ElementPerValue <=> [][ElementsStep]_vars
  BY PTL DEF ElementPerValue, ElementsStep
<1> QED  BY <1>1, <1>2, TreeInvariance, PTL DEF Spec

-----------------------------------------------------------------------------
(* What the steps keep. *)
next_pairs(pairs) == UNION {pairs_below(p[1], p[2]) : p \in {p \in pairs : p[1] # p[2]}}

(* The recursion of grows is a definition. *)
PairsGoDown(first, old, new) ==
  /\ first[0] = {<<old, new>>}
  /\ \A i \in 1..global_nesting_limit : first[i] = next_pairs(first[i - 1])
  /\ grows(old, new) <=>
       \A i \in 0..global_nesting_limit : \A p \in first[i] : keeps(p[1], p[2])

LEMMA PairsAreDefined ==
  ASSUME NEW old, NEW new
  PROVE  \E first : PairsGoDown(first, old, new)
<1> DEFINE n       == global_nesting_limit
           a       == {<<old, new>>}
           Up(s, i) == next_pairs(s)
           IsFirst(f, m) == f = [i \in 0..m |-> IF i = 0 THEN a ELSE Up(f[i - 1], i)]
           T       == {m \in 0..n : \E f : IsFirst(f, m)}
<1>1. n \in Nat
  BY NestingAssumption
<1> HIDE DEF n, a, Up
<1>2. 0 \in T
  <2> DEFINE f == [i \in 0..0 |-> a]
  <2>1. IsFirst(f, 0)
    OBVIOUS
  <2> HIDE DEF f, IsFirst
  <2>2. 0 \in 0..n
    BY <1>1
  <2> QED  BY <2>1, <2>2
<1>3. ASSUME NEW m \in 0..n, m < n, m \in T
      PROVE  m + 1 \in T
  <2>1. PICK f : IsFirst(f, m)
    BY <1>3
  <2> DEFINE g == [i \in 0..m + 1 |-> IF i = m + 1 THEN Up(f[m], m + 1) ELSE f[i]]
  <2>2. m \in Nat /\ m + 1 \in 0..n
    BY <1>1, <1>3
  <2>3. \A i \in 0..m : g[i] = f[i]
    BY <2>2
  <2>4. \A i \in 0..m : f[i] = IF i = 0 THEN a ELSE Up(f[i - 1], i)
    BY <2>1
  <2>5. ASSUME NEW i \in 0..m + 1
        PROVE  g[i] = IF i = 0 THEN a ELSE Up(g[i - 1], i)
    <3>1. CASE i = m + 1
      <4>1. g[i] = Up(f[m], m + 1) /\ i # 0 /\ i - 1 = m /\ g[m] = f[m]
        BY <2>2, <2>3, <3>1
      <4> QED  BY <4>1, <3>1
    <3>2. CASE i # m + 1
      <4>1. i \in 0..m /\ (i # 0 => i - 1 \in 0..m)
        BY <2>2, <3>2
      <4>2. g[i] = f[i] /\ (i # 0 => g[i - 1] = f[i - 1])
        BY <2>3, <4>1
      <4>3. f[i] = IF i = 0 THEN a ELSE Up(f[i - 1], i)
        BY <2>4, <4>1
      <4> HIDE DEF g
      <4> QED  BY <4>2, <4>3
    <3> QED  BY <3>1, <3>2
  <2>6. IsFirst(g, m + 1)
    <3>1. g = [i \in 0..m + 1 |-> g[i]]
      OBVIOUS
    <3> HIDE DEF g
    <3> QED  BY <2>5, <3>1
  <2> QED  BY <2>2, <2>6
<1>4. \A m \in 0..n : m \in T
  <2> HIDE DEF T
  <2> QED  BY <1>1, <1>2, <1>3, InductionUpTo
<1>5. \E f : IsFirst(f, n)
  <2>1. n \in T
    <3> HIDE DEF T
    <3> QED  BY <1>1, <1>4
  <2> HIDE DEF IsFirst
  <2> QED  BY <2>1
<1> DEFINE first == CHOOSE f : IsFirst(f, n)
<1>6. IsFirst(first, n)
  BY <1>5
<1>7. grows(old, new) <=> \A i \in 0..n : \A p \in first[i] : keeps(p[1], p[2])
  BY DEF grows, n, a, Up, next_pairs
<1> HIDE DEF first
<1>8. \A i \in 0..n : first[i] = IF i = 0 THEN a ELSE Up(first[i - 1], i)
  BY <1>6
<1>9. first[0] = a
  BY <1>1, <1>8
<1>10. \A i \in 1..n : first[i] = Up(first[i - 1], i)
  BY <1>1, <1>8
<1>11. PairsGoDown(first, old, new)
  BY <1>7, <1>9, <1>10 DEF PairsGoDown, n, a, Up
<1> QED  BY <1>11

LEMMA KeptGrows ==
  ASSUME NEW old, NEW new, Kept(old, new)
  PROVE  grows(old, new)
<1> DEFINE n             == global_nesting_limit
           IsKept(pairs) == \A p \in pairs : p = <<p[1], p[2]>> /\ Kept(p[1], p[2])
<1>1. n \in Nat
  BY NestingAssumption
<1>0. PICK first : PairsGoDown(first, old, new)
  BY PairsAreDefined
<1>2. /\ first[0] = {<<old, new>>}
      /\ \A i \in 1..n : first[i] = next_pairs(first[i - 1])
      /\ grows(old, new) <=> \A i \in 0..n : \A p \in first[i] : keeps(p[1], p[2])
  BY <1>0 DEF PairsGoDown
<1> HIDE DEF n
<1> DEFINE B == {i \in 0..n : IsKept(first[i])}
<1>3. 0 \in B
  <2>1. IsKept(first[0])
    BY <1>2
  <2> HIDE DEF IsKept
  <2> QED  BY <1>1, <2>1
<1>4. ASSUME NEW i \in 0..n, i < n, i \in B PROVE i + 1 \in B
  <2>1. i + 1 \in 1..n /\ (i + 1) - 1 = i
    BY <1>1, <1>4
  <2>2. first[i + 1] = next_pairs(first[i])
    BY <1>2, <2>1
  <2>3. ASSUME NEW p \in first[i + 1] PROVE p = <<p[1], p[2]>> /\ Kept(p[1], p[2])
    <3>1. PICK u \in first[i] : p \in pairs_below(u[1], u[2])
      BY <2>2, <2>3 DEF next_pairs
    <3>2. Kept(u[1], u[2])
      BY <1>4, <3>1
    <3>3. p = <<p[1], p[2]>>
      BY <3>1, PairsArePairs
    <3>4. <<p[1], p[2]>> \in pairs_below(u[1], u[2])
      BY <3>1, <3>3
    <3>5. Kept(p[1], p[2])
      BY <3>2, <3>4, KeptBelow
    <3> QED  BY <3>3, <3>5
  <2>4. IsKept(first[i + 1])
    BY <2>3
  <2> HIDE DEF IsKept
  <2> QED  BY <1>1, <2>1, <2>4
<1>5. \A i \in 0..n : i \in B
  <2> HIDE DEF B
  <2> QED  BY <1>1, <1>3, <1>4, InductionUpTo
<1>6. ASSUME NEW i \in 0..n, NEW p \in first[i] PROVE keeps(p[1], p[2])
  BY <1>5, KeptBelow
<1> QED  BY <1>2, <1>6

LEMMA OthersDoNotClear ==
  /\ \A b : Temporary(b) # Clear
  /\ \A e : Emplace(e) # Clear /\ Ensure(e) # Clear
  /\ \A f : Function(f) # Clear
<1>1. Clear.thing = "clear"
  BY DEF Clear
<1>2. \A b : Temporary(b).thing = "temporary"
  BY DEF Temporary
<1>3. \A e : Emplace(e).thing = "emplace" /\ Ensure(e).thing = "ensure"
  BY DEF Emplace, Ensure
<1>4. \A f : Function(f).thing = "function"
  BY DEF Function
<1> HIDE DEF Clear, Temporary, Emplace, Ensure, Function
<1> QED  BY <1>1, <1>2, <1>3, <1>4

GrowsOrAssigns == at = "head" \/ grows(root_concat(root), root_concat(root'))

(* Every step keeps the tree but AssignHead, whose place is the head. *)
LEMMA StepGrows ==
  ASSUME TInv, [Next]_vars
  PROVE  [GrowsOrAssigns]_root
<1> SUFFICES ASSUME Next, root' # root PROVE GrowsOrAssigns
  BY DEF vars
<1>1. ASSUME NEW key \in Keys, NEW temporary \in BOOLEAN, Mark(key, temporary) PROVE GrowsOrAssigns
  <2> DEFINE path == position \o key
             r    == phase1_append(root, path, Temporary(temporary), "implicit")
  <2>1. status = "parsing" /\ at = "members" /\ root' = r.val
    BY <1>1 DEF Mark, InMembers
  <2>2. key \in Seq(KeyPart) /\ key # <<>>
    BY KeysAssumption
  <2>3. path # <<>>
    <3>1. key \in Seq(PathPart) /\ position \in Seq(PathPart)
      BY <2>2, TypesOfPath, SeqMonotonic DEF TInv, PathPart
    <3> HIDE DEF position
    <3> QED  BY <2>2, <3>1
  <2>4. path = position \o key /\ r = phase1_append(root, path, Temporary(temporary), "implicit")
    OBVIOUS
  <2> HIDE DEF path, r
  <2>5. IsMoved(path, Temporary(temporary), r)
    BY <2>1, <2>2, <2>3, <2>4, ThingsFit, AppendRooted
  <2>6. Kept(root_concat(root), root_concat(root'))
    BY <2>1, <2>5, OthersDoNotClear DEF IsMoved
  <2> QED  BY <2>6, KeptGrows DEF GrowsOrAssigns
<1>2. CASE AssignHead
  BY <1>2 DEF AssignHead, GrowsOrAssigns
<1>3. CASE ValuePart
  <2>1. PICK thing : Fits(thing, "manifest") /\ AddValue(thing) /\ thing # Clear
    BY <1>3, ThingsFit, OthersDoNotClear DEF ValuePart, Literal, BeginArray, BeginObject, FunctionName
  <2>2. Kept(root_concat(root), root_concat(root'))
    BY <2>1, AddValueTree
  <2> QED  BY <2>2, KeptGrows DEF GrowsOrAssigns
<1>4. CASE ParseFile \/ EndFile \/ Include \/ AppendHead \/ Delete \/ EndObject \/ EndElements
           \/ Plus \/ EndValueList \/ SyntaxError \/ Unwind
  BY <1>4 DEF ParseFile, EndFile, Include, AppendHead, Delete, EndObject, EndElements, Plus,
              EndValueList, SyntaxError, Unwind
<1>5. ASSUME NEW key \in Keys, MemberKey(key) PROVE FALSE
  BY <1>5 DEF MemberKey
<1> QED  BY <1>1, <1>2, <1>3, <1>4, <1>5 DEF Next

(* phase1_append and the "=" after a key: no step of phase 1 but that one   *)
(* removes anything, changes it or moves it to another place, on any level  *)
(* of the tree; a change that throws half way has added less, and nothing   *)
(* is lost by it either.                                                    *)
THEOREM NothingIsLost == Spec => OnlyAssignRemoves
<1>1. TInv /\ [Next]_vars => [GrowsOrAssigns]_root
  BY StepGrows
<1>2. OnlyAssignRemoves <=> [][GrowsOrAssigns]_root
  BY PTL DEF OnlyAssignRemoves, GrowsOrAssigns
<1> QED  BY <1>1, <1>2, TreeInvariance, PTL DEF Spec
=============================================================================
