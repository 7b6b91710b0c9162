------------------------- MODULE ConfigValuesProofs --------------------------
(***************************************************************************)
(* Proofs about ConfigValues.                                              *)
(***************************************************************************)
EXTENDS ConfigValues, KeyTextsProofs, FiniteSetTheorems

-----------------------------------------------------------------------------
(* What a part of a key leads to. *)
under(d, part, call) == IF call = "assign" THEN made_at(d, part) ELSE at_part_of(d, part)

further(s, part, call) == UNION {under(d, part, call) : d \in s}

(* The recursion of way is a definition. *)
LEMMA WayIsDefined ==
  ASSUME NEW v, NEW k, NEW call, Len(k) \in Nat
  PROVE  LET place == way(v, k, call)
         IN  /\ place[0] = {v}
             /\ \A i \in 1..Len(k) : place[i] = further(place[i - 1], k[i], call)
<1> DEFINE n       == Len(k)
           Up(s, i) == further(s, k[i], call)
           IsWay(f, m) == f = [i \in 0..m |-> IF i = 0 THEN {v} ELSE Up(f[i - 1], i)]
           T       == {m \in 0..n : \E f : IsWay(f, m)}
<1>1. n \in Nat
  OBVIOUS
<1> HIDE DEF n, Up
<1>2. 0 \in T
  <2> DEFINE f == [i \in 0..0 |-> {v}]
  <2>1. IsWay(f, 0)
    OBVIOUS
  <2> HIDE DEF f, IsWay
  <2>2. 0 \in 0..n
    BY <1>1
  <2> QED  BY <2>1, <2>2
<1>3. ASSUME NEW m \in 0..n, m < n, m \in T
      PROVE  m + 1 \in T
  <2>1. PICK f : IsWay(f, m)
    BY <1>3
  <2> DEFINE g == [i \in 0..m + 1 |-> IF i = m + 1 THEN Up(f[m], m + 1) ELSE f[i]]
  <2>2. m \in Nat /\ m + 1 \in 0..n
    BY <1>1, <1>3
  <2>3. \A i \in 0..m : g[i] = f[i]
    BY <2>2
  <2>4. \A i \in 0..m : f[i] = IF i = 0 THEN {v} ELSE Up(f[i - 1], i)
    BY <2>1
  <2>5. ASSUME NEW i \in 0..m + 1
        PROVE  g[i] = IF i = 0 THEN {v} ELSE Up(g[i - 1], i)
    <3>1. CASE i = m + 1
      <4>1. g[i] = Up(f[m], m + 1) /\ i # 0 /\ i - 1 = m /\ g[m] = f[m]
        BY <2>2, <2>3, <3>1
      <4> QED  BY <4>1, <3>1
    <3>2. CASE i # m + 1
      <4>1. i \in 0..m /\ (i # 0 => i - 1 \in 0..m)
        BY <2>2, <3>2
      <4>2. g[i] = f[i] /\ (i # 0 => g[i - 1] = f[i - 1])
        BY <2>3, <4>1
      <4>3. f[i] = IF i = 0 THEN {v} ELSE Up(f[i - 1], i)
        BY <2>4, <4>1
      <4> HIDE DEF g
      <4> QED  BY <4>2, <4>3
    <3> QED  BY <3>1, <3>2
  <2>6. IsWay(g, m + 1)
    <3>1. g = [i \in 0..m + 1 |-> g[i]]
      OBVIOUS
    <3> HIDE DEF g
    <3> QED  BY <2>5, <3>1
  <2> QED  BY <2>2, <2>6
<1>4. \A m \in 0..n : m \in T
  <2> HIDE DEF T
  <2> QED  BY <1>1, <1>2, <1>3, InductionUpTo
<1>5. \E f : IsWay(f, n)
  <2>1. n \in T
    <3> HIDE DEF T
    <3> QED  BY <1>1, <1>4
  <2> HIDE DEF IsWay
  <2> QED  BY <2>1
<1> DEFINE place == CHOOSE f : IsWay(f, n)
<1>6. IsWay(place, n)
  BY <1>5
<1>7. place = way(v, k, call)
  BY DEF way, n, Up, further, under
<1>8. place[0] = {v} /\ \A i \in 1..n : place[i] = Up(place[i - 1], i)
  <2> HIDE DEF place
  <2>1. \A i \in 0..n : place[i] = IF i = 0 THEN {v} ELSE Up(place[i - 1], i)
    BY <1>6
  <2>2. 0 \in 0..n /\ \A i \in 1..n : i \in 0..n /\ i # 0
    BY <1>1
  <2> HIDE DEF IsWay
  <2>3. place[0] = {v}
    BY <2>1, <2>2
  <2>4. \A i \in 1..n : place[i] = Up(place[i - 1], i)
    BY <2>1, <2>2
  <2> QED  BY <2>3, <2>4
<1> HIDE DEF place
<1> QED  BY <1>7, <1>8 DEF Up, n

LEMMA WayBegins ==
  ASSUME NEW v, NEW k, NEW call, Len(k) \in Nat
  PROVE  way(v, k, call)[0] = {v}
BY WayIsDefined

LEMMA WayGoesOn ==
  ASSUME NEW v, NEW k, NEW call, Len(k) \in Nat, NEW i \in 1..Len(k)
  PROVE  way(v, k, call)[i] = further(way(v, k, call)[i - 1], k[i], call)
BY WayIsDefined

(* A part leads to one value at most, and so does a key. *)
AtMostOne(S) == \A x, y \in S : x = y

One(S) == \E d : S = {d}

LEMMA IsOne ==
  ASSUME NEW S, AtMostOne(S), S # {}
  PROVE  One(S)
BY DEF AtMostOne, One

LEMMA UnderAtMostOne ==
  ASSUME NEW d, NEW part, NEW call
  PROVE  AtMostOne(under(d, part, call))
BY DEF AtMostOne, under, made_at, at_part_of

LEMMA WayAtMostOne ==
  ASSUME NEW v, NEW k, NEW call, Len(k) \in Nat, NEW i \in 0..Len(k)
  PROVE  AtMostOne(way(v, k, call)[i])
<1> DEFINE n     == Len(k)
           place == way(v, k, call)
           T     == {m \in 0..n : AtMostOne(place[m])}
<1>1. /\ place[0] = {v}
      /\ \A m \in 1..n : place[m] = further(place[m - 1], k[m], call)
  BY WayIsDefined
<1>2. n \in Nat /\ i \in 0..n
  OBVIOUS
<1> HIDE DEF n, place
<1>3. 0 \in T
  BY <1>1, <1>2 DEF AtMostOne
<1>4. ASSUME NEW m \in 0..n, m < n, m \in T
      PROVE  m + 1 \in T
  <2>1. m + 1 \in 1..n /\ (m + 1) - 1 = m /\ m + 1 \in 0..n
    BY <1>2, <1>4
  <2>2. place[m + 1] = further(place[m], k[m + 1], call)
    BY <1>1, <2>1
  <2>3. AtMostOne(place[m]) /\ \A d \in place[m] : AtMostOne(under(d, k[m + 1], call))
    BY <1>4, UnderAtMostOne
  <2>4. AtMostOne(place[m + 1])
    BY <2>2, <2>3 DEF AtMostOne, further
  <2> QED  BY <2>1, <2>4
<1>5. \A m \in 0..n : m \in T
  <2> HIDE DEF T
  <2> QED  BY <1>2, <1>3, <1>4, InductionUpTo
<1> QED  BY <1>2, <1>5 DEF place

(* From where two ways are at the same place, the same parts lead to the    *)
(* same places.                                                             *)
LEMMA WaysAgree ==
  ASSUME NEW v, NEW w, NEW k, NEW l, NEW call, Len(k) \in Nat, Len(l) \in Nat,
         NEW i \in Nat, NEW j \in Nat, i <= j, j <= Len(k), j <= Len(l),
         way(v, k, call)[i] = way(w, l, call)[i], \A m \in i + 1..j : k[m] = l[m]
  PROVE  way(v, k, call)[j] = way(w, l, call)[j]
<1> DEFINE p == way(v, k, call)
           q == way(w, l, call)
           n == j - i
           T == {m \in 0..n : p[i + m] = q[i + m]}
<1>1. /\ \A m \in 1..Len(k) : p[m] = further(p[m - 1], k[m], call)
      /\ \A m \in 1..Len(l) : q[m] = further(q[m - 1], l[m], call)
  BY WayIsDefined
<1>2. n \in Nat /\ i + n = j /\ p[i] = q[i] /\ i + 0 = i
  OBVIOUS
<1> HIDE DEF n, p, q
<1>3. 0 \in T
  BY <1>2
<1>4. ASSUME NEW m \in 0..n, m < n, m \in T
      PROVE  m + 1 \in T
  <2> DEFINE r == i + (m + 1)
  <2>1. r \in 1..Len(k) /\ r \in 1..Len(l) /\ r - 1 = i + m /\ r \in i + 1..j /\ m + 1 \in 0..n
    BY <1>2, <1>4
  <2> HIDE DEF r
  <2>2. p[r - 1] = q[r - 1] /\ k[r] = l[r]
    BY <1>4, <2>1
  <2>3. p[r] = further(p[r - 1], k[r], call) /\ q[r] = further(q[r - 1], l[r], call)
    BY <1>1, <2>1
  <2>4. p[r] = q[r]
    BY <2>2, <2>3
  <2> QED  BY <2>1, <2>4 DEF r
<1>5. \A m \in 0..n : m \in T
  <2> HIDE DEF T
  <2> QED  BY <1>2, <1>3, <1>4, InductionUpTo
<1>6. n \in T
  <2> HIDE DEF T
  <2> QED  BY <1>2, <1>5
<1> QED  BY <1>2, <1>6 DEF p, q

(* A way that ends is not taken up again. *)
LEMMA WayEnds ==
  ASSUME NEW v, NEW k, NEW call, Len(k) \in Nat,
         NEW i \in Nat, NEW j \in Nat, i <= j, j <= Len(k), way(v, k, call)[j] # {}
  PROVE  way(v, k, call)[i] # {}
<1> SUFFICES ASSUME way(v, k, call)[i] = {} PROVE FALSE
  OBVIOUS
<1> DEFINE p == way(v, k, call)
           n == j - i
           T == {m \in 0..n : p[i + m] = {}}
<1>1. \A m \in 1..Len(k) : p[m] = further(p[m - 1], k[m], call)
  BY WayIsDefined
<1>2. n \in Nat /\ i + n = j /\ p[i] = {} /\ i + 0 = i
  OBVIOUS
<1> HIDE DEF n, p
<1>3. 0 \in T
  BY <1>2
<1>4. ASSUME NEW m \in 0..n, m < n, m \in T
      PROVE  m + 1 \in T
  <2> DEFINE r == i + (m + 1)
  <2>1. r \in 1..Len(k) /\ r - 1 = i + m /\ m + 1 \in 0..n
    BY <1>2, <1>4
  <2> HIDE DEF r
  <2>2. p[r - 1] = {}
    BY <1>4, <2>1
  <2>3. p[r] = {}
    BY <1>1, <2>1, <2>2 DEF further
  <2> QED  BY <2>1, <2>3 DEF r
<1>5. \A m \in 0..n : m \in T
  <2> HIDE DEF T
  <2> QED  BY <1>2, <1>3, <1>4, InductionUpTo
<1>6. n \in T
  <2> HIDE DEF T
  <2> QED  BY <1>2, <1>5
<1> QED  BY <1>2, <1>6 DEF p

LEMMA UnderOne ==
  ASSUME NEW S, NEW part, NEW call, AtMostOne(S), further(S, part, call) # {}
  PROVE  \E d : S = {d} /\ further(S, part, call) = under(d, part, call)
<1>1. PICK d \in S : TRUE
  BY DEF further
<1>2. S = {d}
  BY <1>1 DEF AtMostOne
<1> QED  BY <1>2 DEF further

LEMMA MadeWhereItIs ==
  ASSUME NEW d, NEW part, at_part_of(d, part) # {}
  PROVE  made_at(d, part) = at_part_of(d, part)
<1>1. CASE part.kind = "name" /\ d.kind = "object"
  <2>1. at_part_of(d, part) = {d.object[n] : n \in DOMAIN d.object \cap {part.name}}
    BY <1>1 DEF at_part_of
  <2>2. part.name \in DOMAIN d.object
    BY <2>1
  <2>3. at_part_of(d, part) = {d.object[part.name]}
    BY <2>1, <2>2
  <2> QED  BY <1>1, <2>2, <2>3 DEF made_at, member_at
<1>2. CASE ~ (part.kind = "name" /\ d.kind = "object")
  BY <1>2 DEF made_at
<1> QED  BY <1>1, <1>2

(* Nothing is made where there is something. *)
LEMMA MadeWay ==
  ASSUME NEW v, NEW k, Len(k) \in Nat, NEW i \in 0..Len(k), way(v, k, "access")[i] # {}
  PROVE  way(v, k, "assign")[i] = way(v, k, "access")[i]
<1> DEFINE n == Len(k)
           p == way(v, k, "access")
           q == way(v, k, "assign")
           T == {m \in 0..n : p[m] # {} => q[m] = p[m]}
<1>0. p[0] = {v} /\ \A m \in 1..n : p[m] = further(p[m - 1], k[m], "access")
  BY WayIsDefined
<1>1. q[0] = {v} /\ \A m \in 1..n : q[m] = further(q[m - 1], k[m], "assign")
  BY WayIsDefined
<1>2. \A m \in 0..n : AtMostOne(p[m])
  BY WayAtMostOne
<1>3. n \in Nat /\ i \in 0..n /\ p[i] # {}
  OBVIOUS
<1> HIDE DEF n, p, q
<1>4. 0 \in T
  <2>1. p[0] = q[0] /\ 0 \in 0..n
    BY <1>0, <1>1, <1>3
  <2> QED  BY <2>1
<1>5. ASSUME NEW m \in 0..n, m < n, m \in T
      PROVE  m + 1 \in T
  <2> DEFINE part == k[m + 1]
  <2>1. m + 1 \in 1..n /\ (m + 1) - 1 = m /\ m + 1 \in 0..n
    BY <1>3, <1>5
  <2>2. /\ p[m + 1] = further(p[m], part, "access")
        /\ q[m + 1] = further(q[m], part, "assign")
    BY <1>0, <1>1, <2>1
  <2> HIDE DEF part
  <2>3. ASSUME p[m + 1] # {} PROVE q[m + 1] = p[m + 1]
    <3>1. PICK d : p[m] = {d} /\ p[m + 1] = under(d, part, "access")
      BY <1>2, <2>2, <2>3, UnderOne
    <3>2. q[m] = {d}
      BY <1>5, <3>1
    <3>3. q[m + 1] = under(d, part, "assign")
      BY <2>2, <3>2 DEF further
    <3>4. at_part_of(d, part) # {}
      BY <2>3, <3>1 DEF under
    <3> QED  BY <3>1, <3>3, <3>4, MadeWhereItIs DEF under
  <2> QED  BY <2>1, <2>3
<1>6. \A m \in 0..n : m \in T
  <2> HIDE DEF T
  <2> QED  BY <1>3, <1>4, <1>5, InductionUpTo
<1> QED  BY <1>3, <1>6 DEF p, q
-----------------------------------------------------------------------------
(* The recursion of back is a definition: the place i parts into k, when    *)
(* new was written at its end.                                              *)
after(v, k, new, i) == back(v, k, new)[Len(k) - i]

with_parts(s, part, t) == {with_part(d, part, e) : d \in s, e \in t}

IsBackFrom(changed, place, k, new, n) ==
  /\ changed[0] = IF place[n] = {} THEN {} ELSE {new}
  /\ \A j \in 1..n :
       changed[j] = IF place[n - j + 1] = {} THEN place[n - j]
                    ELSE with_parts(place[n - j], k[n - j + 1], changed[j - 1])

LEMMA BackIsDefined ==
  ASSUME NEW v, NEW k, NEW new, Len(k) \in Nat
  PROVE  IsBackFrom(back(v, k, new), way(v, k, "assign"), k, new, Len(k))
<1> DEFINE n     == Len(k)
           place == way(v, k, "assign")
           First == IF place[n] = {} THEN {} ELSE {new}
           Up(s, j) == IF place[n - j + 1] = {} THEN place[n - j]
                       ELSE with_parts(place[n - j], k[n - j + 1], s)
           IsBack(f, m) == f = [j \in 0..m |-> IF j = 0 THEN First ELSE Up(f[j - 1], j)]
           T     == {m \in 0..n : \E f : IsBack(f, m)}
<1>1. n \in Nat
  OBVIOUS
<1> HIDE DEF n, Up, First
<1>2. 0 \in T
  <2> DEFINE f == [j \in 0..0 |-> First]
  <2>1. IsBack(f, 0)
    OBVIOUS
  <2> HIDE DEF f, IsBack
  <2>2. 0 \in 0..n
    BY <1>1
  <2> QED  BY <2>1, <2>2
<1>3. ASSUME NEW m \in 0..n, m < n, m \in T
      PROVE  m + 1 \in T
  <2>1. PICK f : IsBack(f, m)
    BY <1>3
  <2> DEFINE g == [j \in 0..m + 1 |-> IF j = m + 1 THEN Up(f[m], m + 1) ELSE f[j]]
  <2>2. m \in Nat /\ m + 1 \in 0..n
    BY <1>1, <1>3
  <2>3. \A j \in 0..m : g[j] = f[j]
    BY <2>2
  <2>4. \A j \in 0..m : f[j] = IF j = 0 THEN First ELSE Up(f[j - 1], j)
    BY <2>1
  <2>5. ASSUME NEW j \in 0..m + 1
        PROVE  g[j] = IF j = 0 THEN First ELSE Up(g[j - 1], j)
    <3>1. CASE j = m + 1
      <4>1. g[j] = Up(f[m], m + 1) /\ j # 0 /\ j - 1 = m /\ g[m] = f[m]
        BY <2>2, <2>3, <3>1
      <4> QED  BY <4>1, <3>1
    <3>2. CASE j # m + 1
      <4>1. j \in 0..m /\ (j # 0 => j - 1 \in 0..m)
        BY <2>2, <3>2
      <4>2. g[j] = f[j] /\ (j # 0 => g[j - 1] = f[j - 1])
        BY <2>3, <4>1
      <4>3. f[j] = IF j = 0 THEN First ELSE Up(f[j - 1], j)
        BY <2>4, <4>1
      <4> HIDE DEF g
      <4> QED  BY <4>2, <4>3
    <3> QED  BY <3>1, <3>2
  <2>6. IsBack(g, m + 1)
    <3>1. g = [j \in 0..m + 1 |-> g[j]]
      OBVIOUS
    <3> HIDE DEF g
    <3> QED  BY <2>5, <3>1
  <2> QED  BY <2>2, <2>6
<1>4. \A m \in 0..n : m \in T
  <2> HIDE DEF T
  <2> QED  BY <1>1, <1>2, <1>3, InductionUpTo
<1>5. \E f : IsBack(f, n)
  <2>1. n \in T
    <3> HIDE DEF T
    <3> QED  BY <1>1, <1>4
  <2> HIDE DEF IsBack
  <2> QED  BY <2>1
<1> DEFINE changed == CHOOSE f : IsBack(f, n)
<1>6. IsBack(changed, n)
  BY <1>5
<1>7. changed = back(v, k, new)
  BY DEF back, n, Up, First, with_parts
<1>8. changed[0] = First /\ \A j \in 1..n : changed[j] = Up(changed[j - 1], j)
  <2> HIDE DEF changed
  <2>1. \A j \in 0..n : changed[j] = IF j = 0 THEN First ELSE Up(changed[j - 1], j)
    BY <1>6
  <2> QED  BY <1>1, <2>1
<1> HIDE DEF changed, place
<1>9. IsBackFrom(changed, place, k, new, n)
  BY <1>8 DEF Up, First, IsBackFrom
<1> QED  BY <1>7, <1>9 DEF n, place

(* The same from the other end. *)
LEMMA AfterEnds ==
  ASSUME NEW v, NEW k, NEW new, Len(k) \in Nat
  PROVE  after(v, k, new, Len(k)) = IF way(v, k, "assign")[Len(k)] = {} THEN {} ELSE {new}
<1>1. IsBackFrom(back(v, k, new), way(v, k, "assign"), k, new, Len(k))
  BY BackIsDefined
<1>2. back(v, k, new)[0] = IF way(v, k, "assign")[Len(k)] = {} THEN {} ELSE {new}
  BY <1>1 DEF IsBackFrom
<1>3. after(v, k, new, Len(k)) = back(v, k, new)[0]
  BY DEF after
<1> QED  BY <1>2, <1>3

LEMMA AfterGoesOn ==
  ASSUME NEW v, NEW k, NEW new, Len(k) \in Nat, NEW i \in 0..Len(k), i < Len(k)
  PROVE  after(v, k, new, i) = IF way(v, k, "assign")[i + 1] = {} THEN way(v, k, "assign")[i]
                               ELSE with_parts(way(v, k, "assign")[i], k[i + 1], after(v, k, new, i + 1))
<1> DEFINE n       == Len(k)
           place   == way(v, k, "assign")
           changed == back(v, k, new)
           j       == n - i
<1>1. IsBackFrom(changed, place, k, new, n)
  BY BackIsDefined
<1>2. j \in 1..n /\ n - j = i /\ n - j + 1 = i + 1 /\ j - 1 = n - (i + 1)
  OBVIOUS
<1>3. after(v, k, new, i) = changed[j] /\ after(v, k, new, i + 1) = changed[n - (i + 1)]
  BY DEF after
<1> HIDE DEF n, place, changed, j
<1>4. changed[j] = IF place[i + 1] = {} THEN place[i]
                   ELSE with_parts(place[i], k[i + 1], changed[n - (i + 1)])
  BY <1>1, <1>2 DEF IsBackFrom
<1>5. after(v, k, new, i) = IF place[i + 1] = {} THEN place[i]
                            ELSE with_parts(place[i], k[i + 1], after(v, k, new, i + 1))
  BY <1>3, <1>4
<1> QED  BY <1>5 DEF place

LEMMA WithPartsOne ==
  ASSUME NEW d, NEW part, NEW e
  PROVE  with_parts({d}, part, {e}) = {with_part(d, part, e)}
BY DEF with_parts

(* There is one value at every place that the way reached. *)
LEMMA AfterIsOne ==
  ASSUME NEW v, NEW k, NEW new, Len(k) \in Nat, NEW i \in 0..Len(k), way(v, k, "assign")[i] # {}
  PROVE  One(after(v, k, new, i))
<1> DEFINE n     == Len(k)
           place == way(v, k, "assign")
           a(m)  == after(v, k, new, m)
           T     == {j \in 0..n : place[n - j] # {} => One(a(n - j))}
<1>0. a(n) = IF place[n] = {} THEN {} ELSE {new}
  BY AfterEnds
<1>1. \A m \in 0..n : m < n => a(m) = IF place[m + 1] = {} THEN place[m]
                                     ELSE with_parts(place[m], k[m + 1], a(m + 1))
  BY AfterGoesOn
<1>2. \A m \in 0..n : place[m] # {} => One(place[m])
  BY WayAtMostOne, IsOne
<1>3. n \in Nat /\ i \in 0..n
  OBVIOUS
<1> HIDE DEF n, place, a
<1>4. 0 \in T
  <2>1. 0 \in 0..n /\ n - 0 = n
    BY <1>3
  <2>2. place[n] # {} => One(a(n))
    BY <1>0 DEF One
  <2> QED  BY <2>1, <2>2
<1>5. ASSUME NEW j \in 0..n, j < n, j \in T
      PROVE  j + 1 \in T
  <2> DEFINE m == n - (j + 1)
  <2>1. m \in 0..n /\ m < n /\ m + 1 = n - j /\ j + 1 \in 0..n
    BY <1>3, <1>5
  <2> HIDE DEF m
  <2>2. ASSUME place[m] # {} PROVE One(a(m))
    <3>1. CASE place[m + 1] = {}
      BY <1>1, <1>2, <2>1, <2>2, <3>1
    <3>2. CASE place[m + 1] # {}
      <4>1. PICK d : place[m] = {d}
        BY <1>2, <2>1, <2>2 DEF One
      <4>2. PICK e : a(m + 1) = {e}
        BY <1>5, <2>1, <3>2 DEF One
      <4>3. a(m) = with_parts(place[m], k[m + 1], a(m + 1))
        BY <1>1, <2>1, <3>2
      <4>4. a(m) = {with_part(d, k[m + 1], e)}
        BY <4>1, <4>2, <4>3, WithPartsOne
      <4> QED  BY <4>4 DEF One
    <3> QED  BY <3>1, <3>2
  <2> QED  BY <2>1, <2>2 DEF m
<1>6. \A j \in 0..n : j \in T
  <2> HIDE DEF T
  <2> QED  BY <1>3, <1>4, <1>5, InductionUpTo
<1>7. n - i \in 0..n /\ n - (n - i) = i
  BY <1>3
<1> QED  BY <1>6, <1>7 DEF place, a
-----------------------------------------------------------------------------
(* A part of a key of a value. *)
IsPart(q) ==
  \/ q.kind = "name" /\ q = NamePart(q.name)
  \/ q.kind = "index" /\ q = IndexPart(q.index) /\ q.index \in Nat

LEMMA PartsDiffer ==
  ASSUME NEW q, NEW r, IsPart(q), IsPart(r), q # r
  PROVE  \/ q.kind # r.kind
         \/ q.kind = "name" /\ r.kind = "name" /\ q.name # r.name
         \/ q.kind = "index" /\ r.kind = "index" /\ q.index + 1 # r.index + 1
BY DEF IsPart, NamePart, IndexPart

(* with_part changes what the part leads to, and nothing else. *)
LEMMA WithPart ==
  ASSUME NEW d, NEW q, NEW e, IsPart(q), made_at(d, q) # {}
  PROVE  /\ with_part(d, q, e).kind = d.kind
         /\ at_part_of(with_part(d, q, e), q) = {e}
         /\ \A r : IsPart(r) /\ r # q => at_part_of(with_part(d, q, e), r) = at_part_of(d, r)
<1> DEFINE w == with_part(d, q, e)
<1>1. CASE q.kind = "name"
  <2>1. d.kind = "object"
    BY <1>1 DEF made_at, at_part_of
  <2> DEFINE members == [n \in DOMAIN d.object \cup {q.name} |-> IF n = q.name THEN e ELSE d.object[n]]
  <2>2. w.kind = "object" /\ w.object = members
    BY <1>1 DEF with_part
  <2>3. DOMAIN members = DOMAIN d.object \cup {q.name} /\ members[q.name] = e
        /\ \A n \in DOMAIN d.object : n # q.name => members[n] = d.object[n]
    OBVIOUS
  <2> HIDE DEF w, members
  <2>4. at_part_of(w, q) = {e}
    <3>1. at_part_of(w, q) = {members[n] : n \in DOMAIN members \cap {q.name}}
      BY <1>1, <2>2 DEF at_part_of
    <3>2. DOMAIN members \cap {q.name} = {q.name}
      BY <2>3
    <3> QED  BY <2>3, <3>1, <3>2
  <2>5. ASSUME NEW r, IsPart(r), r # q PROVE at_part_of(w, r) = at_part_of(d, r)
    <3>1. CASE r.kind = "name"
      <4>1. r.name # q.name
        BY <1>1, <2>5, <3>1, PartsDiffer
      <4>2. at_part_of(w, r) = {members[n] : n \in DOMAIN members \cap {r.name}}
        BY <2>2, <3>1 DEF at_part_of
      <4>3. at_part_of(d, r) = {d.object[n] : n \in DOMAIN d.object \cap {r.name}}
        BY <2>1, <3>1 DEF at_part_of
      <4>4. DOMAIN members \cap {r.name} = DOMAIN d.object \cap {r.name}
        BY <2>3, <4>1
      <4>5. \A n \in DOMAIN d.object \cap {r.name} : members[n] = d.object[n]
        BY <2>3, <4>1
      <4> QED  BY <4>2, <4>3, <4>4, <4>5
    <3>2. CASE r.kind # "name"
      BY <2>1, <2>2, <3>2 DEF at_part_of
    <3> QED  BY <3>1, <3>2
  <2> QED  BY <2>1, <2>2, <2>4, <2>5 DEF w
<1>2. CASE q.kind = "index"
  <2> DEFINE i == q.index + 1
             elements == [d.array EXCEPT ![i] = e]
  <2>1. d.kind = "array" /\ i \in DOMAIN d.array
    <3>1. at_part_of(d, q) # {}
      BY <1>2 DEF made_at
    <3>2. d.kind = "array" /\ at_part_of(d, q) = {d.array[j] : j \in DOMAIN d.array \cap {i}}
      BY <1>2, <3>1 DEF at_part_of
    <3> QED  BY <3>1, <3>2
  <2>2. w.kind = "array" /\ w.array = elements
    BY <1>2 DEF with_part
  <2>3. /\ DOMAIN elements = DOMAIN d.array
        /\ elements[i] = e
        /\ \A j \in DOMAIN d.array : j # i => elements[j] = d.array[j]
    BY <2>1
  <2> HIDE DEF w, elements
  <2>4. at_part_of(w, q) = {e}
    <3>1. at_part_of(w, q) = {elements[j] : j \in DOMAIN elements \cap {i}}
      BY <1>2, <2>2 DEF at_part_of
    <3>2. DOMAIN elements \cap {i} = {i}
      BY <2>1, <2>3
    <3> HIDE DEF i
    <3> QED  BY <2>3, <3>1, <3>2
  <2>5. ASSUME NEW r, IsPart(r), r # q PROVE at_part_of(w, r) = at_part_of(d, r)
    <3>1. CASE r.kind = "index"
      <4> DEFINE l == r.index + 1
      <4>1. l # i
        BY <1>2, <2>5, <3>1, PartsDiffer
      <4>2. at_part_of(w, r) = {elements[j] : j \in DOMAIN elements \cap {l}}
        BY <2>2, <3>1 DEF at_part_of
      <4>3. at_part_of(d, r) = {d.array[j] : j \in DOMAIN d.array \cap {l}}
        BY <2>1, <3>1 DEF at_part_of
      <4> HIDE DEF i, l
      <4>4. \A j \in DOMAIN d.array \cap {l} : elements[j] = d.array[j]
        BY <2>3, <4>1
      <4> QED  BY <2>3, <4>2, <4>3, <4>4
    <3>2. CASE r.kind # "index"
      BY <2>1, <2>2, <3>2 DEF at_part_of
    <3> QED  BY <3>1, <3>2
  <2> QED  BY <2>1, <2>2, <2>4, <2>5 DEF w
<1> QED  BY <1>1, <1>2 DEF IsPart
-----------------------------------------------------------------------------
(* assign returns what the way back came to, and throws when the way ended. *)
LEMMA AssignedValue ==
  ASSUME NEW v, NEW k, NEW new, Len(k) \in Nat
  PROVE  /\ after(v, k, new, 0) = {assign(v, k, new).val}
         /\ assign(v, k, new).error = "none" <=> way(v, k, "assign")[Len(k)] # {}
<1> DEFINE r == CHOOSE e \in after(v, k, new, 0) : TRUE
<1>1. PICK e : after(v, k, new, 0) = {e}
  <2>1. way(v, k, "assign")[0] # {}
    BY WayBegins
  <2>2. 0 \in 0..Len(k)
    OBVIOUS
  <2>3. One(after(v, k, new, 0))
    BY <2>1, <2>2, AfterIsOne
  <2> QED  BY <2>3 DEF One
<1>2. Len(k) - 0 = Len(k)
  OBVIOUS
<1>3. assign(v, k, new) = IF way(v, k, "assign")[Len(k)] = {} THEN Failed(r, "runtime_error") ELSE Walked(r)
  BY <1>2 DEF assign, after
<1>4. r = e
  BY <1>1
<1> HIDE DEF r
<1> QED  BY <1>1, <1>3, <1>4 DEF Failed, Walked

IsKey(k) == \E S : k \in Seq(S) /\ \A q \in S : IsPart(q)

LEMMA KeyParts ==
  ASSUME NEW k, IsKey(k)
  PROVE  Len(k) \in Nat /\ \A i \in 1..Len(k) : IsPart(k[i])
<1>1. PICK S : k \in Seq(S) /\ \A q \in S : IsPart(q)
  BY DEF IsKey
<1>2. \A i \in 1..Len(k) : k[i] \in S
  BY <1>1
<1> QED  BY <1>1, <1>2

(* As far as assign came on its way, access finds afterwards what assign    *)
(* left there.                                                              *)
LEMMA AlongTheWay ==
  ASSUME NEW v, NEW k, NEW new, IsKey(k), NEW i \in 0..Len(k), way(v, k, "assign")[i] # {}
  PROVE  way(assign(v, k, new).val, k, "access")[i] = after(v, k, new, i)
<1> DEFINE n     == Len(k)
           x     == assign(v, k, new).val
           place == way(v, k, "assign")
           found == way(x, k, "access")
           a(m)  == after(v, k, new, m)
           T     == {m \in 0..n : place[m] # {} => found[m] = a(m)}
<1>1. n \in Nat /\ \A m \in 1..n : IsPart(k[m])
  BY KeyParts
<1>2. \A m \in 1..n : place[m] = further(place[m - 1], k[m], "assign")
  BY <1>1, WayGoesOn
<1>3. \A m \in 1..n : found[m] = further(found[m - 1], k[m], "access")
  BY <1>1, WayGoesOn
<1>0. found[0] = {x}
  BY <1>1, WayBegins
<1>4. \A m \in 0..n : m < n => a(m) = IF place[m + 1] = {} THEN place[m]
                                   ELSE with_parts(place[m], k[m + 1], a(m + 1))
  BY <1>1, AfterGoesOn
<1>5. \A m \in 0..n : AtMostOne(place[m])
  BY <1>1, WayAtMostOne
<1>6. \A m \in 0..n : place[m] # {} => One(a(m))
  BY <1>1, AfterIsOne
<1>7. a(0) = {x}
  BY <1>1, AssignedValue
<1>8. i \in 0..n /\ place[i] # {}
  OBVIOUS
<1> HIDE DEF n, x, place, found, a
<1>9. 0 \in T
  <2>1. 0 \in 0..n
    BY <1>1
  <2> QED  BY <1>0, <1>7, <2>1
<1>10. ASSUME NEW m \in 0..n, m < n, m \in T
       PROVE  m + 1 \in T
  <2> DEFINE part == k[m + 1]
  <2>1. m + 1 \in 1..n /\ (m + 1) - 1 = m /\ m + 1 \in 0..n
    BY <1>1, <1>10
  <2>2. /\ place[m + 1] = further(place[m], part, "assign")
        /\ found[m + 1] = further(found[m], part, "access")
        /\ IsPart(part)
    BY <1>1, <1>2, <1>3, <2>1
  <2>3. place[m + 1] # {} => a(m) = with_parts(place[m], part, a(m + 1))
    BY <1>4, <1>10
  <2> HIDE DEF part
  <2>4. ASSUME place[m + 1] # {} PROVE found[m + 1] = a(m + 1)
    <3>1. PICK d : place[m] = {d} /\ place[m + 1] = under(d, part, "assign")
      BY <1>5, <2>2, <2>4, UnderOne
    <3>2. PICK e : a(m + 1) = {e}
      BY <1>6, <2>1, <2>4 DEF One
    <3>3. a(m) = {with_part(d, part, e)}
      <4>1. a(m) = with_parts({d}, part, {e})
        BY <2>3, <2>4, <3>1, <3>2
      <4> QED  BY <4>1, WithPartsOne
    <3>4. found[m] = {with_part(d, part, e)}
      BY <1>10, <3>1, <3>3
    <3>5. found[m + 1] = at_part_of(with_part(d, part, e), part)
      BY <2>2, <3>4 DEF further, under
    <3>6. made_at(d, part) # {}
      BY <2>4, <3>1 DEF under
    <3>7. found[m + 1] = {e}
      BY <2>2, <3>5, <3>6, WithPart
    <3> QED  BY <3>2, <3>7
  <2> QED  BY <2>1, <2>4
<1>11. \A m \in 0..n : m \in T
  <2> HIDE DEF T
  <2> QED  BY <1>1, <1>9, <1>10, InductionUpTo
<1> QED  BY <1>8, <1>11 DEF x, place, found, a

(* What was written is found where it was written. *)
LEMMA WrittenIsFound ==
  ASSUME NEW v, NEW k, NEW new, IsKey(k), assign(v, k, new).error = "none"
  PROVE  access(assign(v, k, new).val, k) = {new}
<1>1. Len(k) \in Nat
  BY KeyParts
<1>2. way(v, k, "assign")[Len(k)] # {}
  BY <1>1, AssignedValue
<1>3. after(v, k, new, Len(k)) = {new}
  BY <1>1, <1>2, AfterEnds
<1>4. Len(k) \in 0..Len(k)
  BY <1>1
<1> QED  BY <1>2, <1>3, <1>4, AlongTheWay DEF access

(* Where two keys part. *)
PartAt(p, k, i) == i \in 1..Len(k) /\ i <= Len(p) /\ p[i] # k[i] /\ \A m \in 1..i - 1 : p[m] = k[m]

(* A key that leads to where it leaves the way of assign finds what it      *)
(* found, also when assign throws.                                          *)
LEMMA ElsewhereSame ==
  ASSUME NEW v, NEW k, NEW new, IsKey(k), NEW p, IsKey(p), NEW i, PartAt(p, k, i),
         way(v, p, "access")[i - 1] # {}
  PROVE  access(assign(v, k, new).val, p) = access(v, p)
<1>0. i \in 1..Len(k) /\ i <= Len(p) /\ p[i] # k[i] /\ \A m \in 1..i - 1 : p[m] = k[m]
  BY DEF PartAt
<1> DEFINE x      == assign(v, k, new).val
           n      == Len(p)
           before == way(v, p, "access")
           place  == way(v, k, "assign")
           found  == way(x, p, "access")
           h      == i - 1
<1>1. Len(k) \in Nat /\ n \in Nat /\ i \in 1..n /\ h \in Nat /\ h \in 0..Len(k) /\ h + 1 = i /\ i \in Nat
      /\ h \in 0..n /\ h < Len(k) /\ 0 \in Nat
  BY <1>0, KeyParts
<1>2. IsPart(k[i]) /\ IsPart(p[i])
  BY <1>0, <1>1, KeyParts
<1>4. before[h] # {}
  OBVIOUS
<1>5. way(v, k, "access")[h] = before[h]
  <2>1. way(v, k, "access")[0] = way(v, p, "access")[0]
    <3>1. way(v, k, "access")[0] = {v} /\ way(v, p, "access")[0] = {v}
      BY <1>1, WayBegins
    <3> QED  BY <3>1
  <2>2. \A m \in 0 + 1..h : k[m] = p[m]
    BY <1>0
  <2> QED  BY <1>1, <2>1, <2>2, WaysAgree
<1>6. place[h] = before[h]
  BY <1>1, <1>4, <1>5, MadeWay
<1>7. way(x, k, "access")[h] = after(v, k, new, h)
  BY <1>1, <1>4, <1>6, AlongTheWay
<1>8. found[h] = after(v, k, new, h)
  <2>1. way(x, k, "access")[0] = way(x, p, "access")[0]
    <3>1. way(x, k, "access")[0] = {x} /\ way(x, p, "access")[0] = {x}
      <4> HIDE DEF x
      <4> QED  BY <1>1, WayBegins
    <3> QED  BY <3>1
  <2>2. \A m \in 0 + 1..h : k[m] = p[m]
    BY <1>0
  <2>3. way(x, k, "access")[h] = way(x, p, "access")[h]
    <3>1. 0 <= h /\ h <= Len(k) /\ h <= Len(p)
      BY <1>1
    <3> HIDE DEF x, h
    <3> QED  BY <1>1, <2>1, <2>2, <3>1, WaysAgree
  <2> QED  BY <1>7, <2>3
<1>9. /\ before[i] = further(before[h], p[i], "access")
      /\ found[i] = further(found[h], p[i], "access")
      /\ place[i] = further(place[h], k[i], "assign")
  <2>1. before[i] = further(before[h], p[i], "access")
    BY <1>1, WayGoesOn
  <2>2. found[i] = further(found[h], p[i], "access")
    <3> HIDE DEF x
    <3> QED  BY <1>1, WayGoesOn
  <2>3. place[i] = further(place[h], k[i], "assign")
    BY <1>1, WayGoesOn
  <2> QED  BY <2>1, <2>2, <2>3
<1>10. after(v, k, new, h) = IF place[i] = {} THEN place[h]
                             ELSE with_parts(place[h], k[i], after(v, k, new, i))
  <2>1. after(v, k, new, h) = IF place[h + 1] = {} THEN place[h]
                             ELSE with_parts(place[h], k[h + 1], after(v, k, new, h + 1))
    BY <1>1, AfterGoesOn
  <2> HIDE DEF h, place
  <2> QED  BY <1>1, <2>1
<1>11. One(before[h])
  <2>1. AtMostOne(before[h])
    BY <1>1, WayAtMostOne
  <2> QED  BY <1>4, <2>1, IsOne
<1>12. place[i] # {} => One(after(v, k, new, i))
  <2>1. i \in 0..Len(k)
    BY <1>1
  <2> SUFFICES ASSUME place[i] # {} PROVE One(after(v, k, new, i))
    OBVIOUS
  <2> QED  BY <1>1, <2>1, AfterIsOne
<1>13. found[i] = before[i]
  <2> HIDE DEF found, before, place, h, n, x
  <2>1. PICK d : before[h] = {d}
    BY <1>11 DEF One
  <2>2. CASE place[i] = {}
    BY <1>6, <1>8, <1>9, <1>10, <2>2
  <2>3. CASE place[i] # {}
    <3>1. PICK f : after(v, k, new, i) = {f}
      BY <1>12, <2>3 DEF One
    <3>2. found[h] = {with_part(d, k[i], f)}
      <4>1. found[h] = with_parts({d}, k[i], {f})
        BY <1>6, <1>8, <1>10, <2>1, <2>3, <3>1
      <4> QED  BY <4>1, WithPartsOne
    <3>3. made_at(d, k[i]) # {}
      BY <1>6, <1>9, <2>1, <2>3 DEF further, under
    <3>4. at_part_of(with_part(d, k[i], f), p[i]) = at_part_of(d, p[i])
      BY <1>0, <1>2, <3>3, WithPart
    <3> QED  BY <1>9, <2>1, <3>2, <3>4 DEF further, under
  <2> QED  BY <2>2, <2>3
<1>14. found[n] = before[n]
  <2>1. \A m \in i + 1..n : p[m] = p[m]
    OBVIOUS
  <2>2. i <= n /\ n <= Len(p)
    BY <1>1
  <2> HIDE DEF x
  <2> QED  BY <1>1, <1>13, <2>1, <2>2, WaysAgree
<1> QED  BY <1>14 DEF access
-----------------------------------------------------------------------------
LEMMA ElsewhereStays ==
  ASSUME NEW v, NEW k, NEW new, IsKey(k), NEW p, IsKey(p), NEW i, PartAt(p, k, i),
         NEW e, access(v, p) = {e}
  PROVE  access(assign(v, k, new).val, p) = {e}
<1>1. Len(p) \in Nat /\ i - 1 \in Nat /\ i - 1 <= Len(p) /\ Len(p) <= Len(p)
  BY KeyParts DEF PartAt
<1>2. way(v, p, "access")[Len(p)] # {}
  BY DEF access
<1>3. way(v, p, "access")[i - 1] # {}
  BY <1>1, <1>2, WayEnds
<1> QED  BY <1>3, ElsewhereSame

(* Two keys of which none begins with the other have the same parts up to   *)
(* where they part.                                                         *)
LEMMA KeysPart ==
  ASSUME NEW p, NEW k, IsKey(p), IsKey(k), ~ IsPrefix(p, k), ~ IsPrefix(k, p)
  PROVE  \E i : PartAt(p, k, i)
<1> DEFINE T == {i \in 1..Len(k) : i <= Len(p) /\ p[i] # k[i]}
<1>1. Len(p) \in Nat /\ Len(k) \in Nat
  BY KeyParts
<1>2. (\E S : p \in Seq(S)) /\ \E S : k \in Seq(S)
  BY DEF IsKey
<1>3. T # {}
  <2> SUFFICES ASSUME T = {} PROVE FALSE
    OBVIOUS
  <2>1. \A i \in 1..Len(k) : i <= Len(p) => p[i] = k[i]
    OBVIOUS
  <2> HIDE DEF T
  <2>2. CASE Len(p) <= Len(k)
    <3>1. SubSeq(p, 1, Len(p)) = SubSeq(k, 1, Len(p))
      BY <1>1, <1>2, <2>1, <2>2
    <3> QED  BY <2>2, <3>1 DEF IsPrefix
  <2>3. CASE Len(k) <= Len(p)
    <3>1. SubSeq(k, 1, Len(k)) = SubSeq(p, 1, Len(k))
      BY <1>1, <1>2, <2>1, <2>3
    <3> QED  BY <2>3, <3>1 DEF IsPrefix
  <2> QED  BY <1>1, <2>2, <2>3
<1>4. T \subseteq Nat
  BY <1>1
<1>5. PICK i \in T : \A m \in T : i <= m
  <2> HIDE DEF T
  <2> QED  BY <1>3, <1>4, LeastNatural
<1>6. ASSUME NEW m \in 1..i - 1 PROVE p[m] = k[m]
  <2>1. m \in 1..Len(k) /\ m <= Len(p) /\ ~ (i <= m)
    BY <1>1, <1>5
  <2> QED  BY <1>5, <2>1
<1> QED  BY <1>5, <1>6 DEF PartAt

LEMMA PrefixParts ==
  ASSUME NEW p, NEW k, IsKey(p), IsKey(k), IsPrefix(p, k)
  PROVE  Len(p) <= Len(k) /\ \A m \in 1..Len(p) : p[m] = k[m]
<1>1. Len(p) <= Len(k) /\ SubSeq(p, 1, Len(p)) = SubSeq(k, 1, Len(p))
  BY DEF IsPrefix
<1>2. (\E S : p \in Seq(S)) /\ \E S : k \in Seq(S)
  BY DEF IsKey
<1>3. ASSUME NEW m \in 1..Len(p) PROVE p[m] = k[m]
  <2>1. SubSeq(p, 1, Len(p))[m] = p[m] /\ SubSeq(k, 1, Len(p))[m] = k[m]
    BY <1>1, <1>2
  <2> QED  BY <1>1, <2>1
<1> QED  BY <1>1, <1>3

(* The way of a key is the beginning of the way of a longer one. *)
LEMMA PrefixWay ==
  ASSUME NEW v, NEW p, NEW k, IsKey(p), IsKey(k), IsPrefix(p, k), NEW call, NEW i \in 0..Len(p)
  PROVE  way(v, p, call)[i] = way(v, k, call)[i]
<1>1. Len(p) \in Nat /\ Len(k) \in Nat /\ i \in Nat /\ i <= Len(p) /\ i <= Len(k) /\ 0 \in Nat /\ 0 <= i
  BY KeyParts, PrefixParts
<1>2. \A m \in 0 + 1..i : p[m] = k[m]
  BY <1>1, PrefixParts
<1>3. way(v, p, call)[0] = way(v, k, call)[0]
  <2>1. way(v, p, call)[0] = {v} /\ way(v, k, call)[0] = {v}
    BY <1>1, WayBegins
  <2> QED  BY <2>1
<1> QED  BY <1>1, <1>2, <1>3, WaysAgree

LEMMA PrefixAccess ==
  ASSUME NEW v, NEW p, NEW k, IsKey(p), IsKey(k), IsPrefix(p, k)
  PROVE  access(v, p) = way(v, k, "access")[Len(p)]
<1>1. Len(p) \in 0..Len(p)
  BY KeyParts
<1>2. way(v, p, "access")[Len(p)] = way(v, k, "access")[Len(p)]
  BY <1>1, PrefixWay
<1> QED  BY <1>2 DEF access

(* assign does not throw on the way to something that is there. *)
LEMMA NoThrowBelow ==
  ASSUME NEW v, NEW k, NEW new, NEW p, IsKey(p), IsKey(k), IsPrefix(k, p), access(v, p) # {}
  PROVE  assign(v, k, new).error = "none"
<1>1. /\ Len(p) \in Nat /\ Len(k) \in Nat /\ Len(k) <= Len(p) /\ Len(k) \in 0..Len(k)
      /\ Len(p) <= Len(p)
  BY KeyParts, PrefixParts
<1>2. way(v, p, "access")[Len(p)] # {}
  BY DEF access
<1>3. way(v, p, "access")[Len(k)] # {}
  BY <1>1, <1>2, WayEnds
<1>4. way(v, k, "access")[Len(k)] # {}
  <2>1. way(v, k, "access")[Len(k)] = way(v, p, "access")[Len(k)]
    BY <1>1, PrefixWay
  <2> QED  BY <1>3, <2>1
<1>5. way(v, k, "assign")[Len(k)] # {}
  BY <1>1, <1>4, MadeWay
<1> QED  BY <1>1, <1>5, AssignedValue

(* What the program knows stays known. *)
LEMMA KnownStays ==
  ASSUME NEW v, NEW k, NEW new, NEW p, IsKey(p), IsKey(k), ~ IsPrefix(p, k),
         ~ IsPrefix(k, p) \/ assign(v, k, new).error # "none",
         NEW e, access(v, p) = {e}
  PROVE  access(assign(v, k, new).val, p) = {e}
<1>1. ~ IsPrefix(k, p)
  BY NoThrowBelow
<1>2. PICK i : PartAt(p, k, i)
  BY <1>1, KeysPart
<1> QED  BY <1>2, ElsewhereStays
-----------------------------------------------------------------------------
LEMMA KeyAppend ==
  ASSUME NEW k, IsKey(k), NEW q, IsPart(q)
  PROVE  /\ IsKey(Append(k, q)) /\ Len(Append(k, q)) = Len(k) + 1
         /\ Append(k, q)[Len(k) + 1] = q /\ \A i \in 1..Len(k) : Append(k, q)[i] = k[i]
<1>1. PICK S : k \in Seq(S) /\ \A r \in S : IsPart(r)
  BY DEF IsKey
<1> DEFINE R == S \cup {q}
<1>2. k \in Seq(R) /\ q \in R
  BY <1>1
<1>3. \A r \in R : IsPart(r)
  BY <1>1
<1> HIDE DEF R
<1>4. Append(k, q) \in Seq(R)
  BY <1>2
<1>5. IsKey(Append(k, q))
  BY <1>3, <1>4 DEF IsKey
<1> QED  BY <1>2, <1>5

(* A key that leads to a value leads with one more part to what is there. *)
LEMMA AccessAppend ==
  ASSUME NEW v, NEW k, IsKey(k), NEW q, IsPart(q), NEW d, access(v, k) = {d}
  PROVE  access(v, Append(k, q)) = at_part_of(d, q)
<1> DEFINE l == Append(k, q)
<1>1. /\ Len(k) \in Nat /\ Len(l) = Len(k) + 1 /\ l[Len(k) + 1] = q /\ \A i \in 1..Len(k) : l[i] = k[i]
      /\ Len(k) + 1 \in 1..Len(l) /\ (Len(k) + 1) - 1 = Len(k) /\ 0 \in Nat /\ 0 <= Len(k)
      /\ Len(k) <= Len(l) /\ Len(k) <= Len(k) /\ Len(l) \in Nat
  BY KeyAppend, KeyParts
<1> HIDE DEF l
<1>2. way(v, l, "access")[Len(k)] = way(v, k, "access")[Len(k)]
  <2>1. way(v, l, "access")[0] = way(v, k, "access")[0]
    <3>1. way(v, l, "access")[0] = {v} /\ way(v, k, "access")[0] = {v}
      BY <1>1, WayBegins
    <3> QED  BY <3>1
  <2>2. \A i \in 0 + 1..Len(k) : l[i] = k[i]
    BY <1>1
  <2> QED  BY <1>1, <2>1, <2>2, WaysAgree
<1>3. way(v, l, "access")[Len(k)] = {d}
  BY <1>2 DEF access
<1>4. way(v, l, "access")[Len(k) + 1] = further(way(v, l, "access")[(Len(k) + 1) - 1], l[Len(k) + 1], "access")
  BY <1>1, WayGoesOn
<1>5. further({d}, q, "access") = at_part_of(d, q)
  BY DEF further, under
<1>6. access(v, l) = way(v, l, "access")[Len(k) + 1]
  BY <1>1 DEF access
<1>7. (Len(k) + 1) - 1 = Len(k) /\ l[Len(k) + 1] = q
  BY <1>1
<1> QED  BY <1>3, <1>4, <1>5, <1>6, <1>7 DEF l
-----------------------------------------------------------------------------
under_part(p, part) == {<<Append(p[1], part), d>> : d \in at_part_of(p[2], part)}
under_parts(p)      == UNION {under_part(p, part) : part \in parts_of(p[2])}
next_level(s)       == UNION {under_parts(p) : p \in s}

LEMMA NextLevel ==
  ASSUME NEW s, NEW r \in next_level(s)
  PROVE  \E p \in s : \E part \in parts_of(p[2]) : \E d \in at_part_of(p[2], part) :
           r = <<Append(p[1], part), d>>
<1>1. PICK p \in s : r \in under_parts(p)
  BY DEF next_level
<1>2. PICK part \in parts_of(p[2]) : r \in under_part(p, part)
  BY <1>1 DEF under_parts
<1>3. PICK d \in at_part_of(p[2], part) : r = <<Append(p[1], part), d>>
  BY <1>2 DEF under_part
<1> QED  BY <1>3

(* The recursion of leads is a definition. *)
LEMMA LeadsIsDefined ==
  ASSUME NEW v
  PROVE  \E level : /\ leads(v) = UNION {level[i] : i \in 0..MaxLevels}
                    /\ level[0] = {<< <<>>, v >>}
                    /\ \A i \in 1..MaxLevels : level[i] = next_level(level[i - 1])
<1> DEFINE n     == MaxLevels
           First == {<< <<>>, v >>}
           IsLevels(f, m) == f = [i \in 0..m |-> IF i = 0 THEN First ELSE next_level(f[i - 1])]
           T     == {m \in 0..n : \E f : IsLevels(f, m)}
<1>1. n \in Nat
  BY ValuesAssumption
<1> HIDE DEF n, First
<1>2. 0 \in T
  <2> DEFINE f == [i \in 0..0 |-> First]
  <2>1. IsLevels(f, 0)
    OBVIOUS
  <2> HIDE DEF f, IsLevels
  <2>2. 0 \in 0..n
    BY <1>1
  <2> QED  BY <2>1, <2>2
<1>3. ASSUME NEW m \in 0..n, m < n, m \in T
      PROVE  m + 1 \in T
  <2>1. PICK f : IsLevels(f, m)
    BY <1>3
  <2> DEFINE g == [i \in 0..m + 1 |-> IF i = m + 1 THEN next_level(f[m]) ELSE f[i]]
  <2>2. m \in Nat /\ m + 1 \in 0..n
    BY <1>1, <1>3
  <2>3. \A i \in 0..m : g[i] = f[i]
    BY <2>2
  <2>4. \A i \in 0..m : f[i] = IF i = 0 THEN First ELSE next_level(f[i - 1])
    BY <2>1
  <2>5. ASSUME NEW i \in 0..m + 1
        PROVE  g[i] = IF i = 0 THEN First ELSE next_level(g[i - 1])
    <3>1. CASE i = m + 1
      <4>1. g[i] = next_level(f[m]) /\ i # 0 /\ i - 1 = m /\ g[m] = f[m]
        BY <2>2, <2>3, <3>1
      <4> QED  BY <4>1, <3>1
    <3>2. CASE i # m + 1
      <4>1. i \in 0..m /\ (i # 0 => i - 1 \in 0..m)
        BY <2>2, <3>2
      <4>2. g[i] = f[i] /\ (i # 0 => g[i - 1] = f[i - 1])
        BY <2>3, <4>1
      <4>3. f[i] = IF i = 0 THEN First ELSE next_level(f[i - 1])
        BY <2>4, <4>1
      <4> HIDE DEF g
      <4> QED  BY <4>2, <4>3
    <3> QED  BY <3>1, <3>2
  <2>6. IsLevels(g, m + 1)
    <3>1. g = [i \in 0..m + 1 |-> g[i]]
      OBVIOUS
    <3> HIDE DEF g
    <3> QED  BY <2>5, <3>1
  <2> QED  BY <2>2, <2>6
<1>4. \A m \in 0..n : m \in T
  <2> HIDE DEF T
  <2> QED  BY <1>1, <1>2, <1>3, InductionUpTo
<1>5. \E f : IsLevels(f, n)
  <2>1. n \in T
    <3> HIDE DEF T
    <3> QED  BY <1>1, <1>4
  <2> HIDE DEF IsLevels
  <2> QED  BY <2>1
<1> DEFINE level == CHOOSE f : IsLevels(f, n)
<1>6. IsLevels(level, n)
  BY <1>5
<1>7. leads(v) = UNION {level[i] : i \in 0..n}
  BY DEF leads, n, First, next_level, under_parts, under_part
<1>8. level[0] = First /\ \A i \in 1..n : level[i] = next_level(level[i - 1])
  <2> HIDE DEF level
  <2>1. \A i \in 0..n : level[i] = IF i = 0 THEN First ELSE next_level(level[i - 1])
    BY <1>6
  <2> QED  BY <1>1, <2>1
<1> HIDE DEF level
<1> QED  BY <1>7, <1>8 DEF n, First

LEMMA PartsAreParts ==
  ASSUME NEW v, NEW q \in parts_of(v)
  PROVE  IsPart(q)
<1>1. CASE v.kind = "array"
  <2>1. PICK i \in 0..Len(v.array) - 1 : q = IndexPart(i)
    BY <1>1 DEF parts_of
  <2>2. i \in Nat
    OBVIOUS
  <2> QED  BY <2>1, <2>2 DEF IsPart, IndexPart
<1>2. CASE v.kind = "object"
  BY <1>2 DEF parts_of, IsPart, NamePart
<1>3. CASE v.kind \notin {"array", "object"}
  BY <1>3 DEF parts_of
<1> QED  BY <1>1, <1>2, <1>3

(* What a value holds is found by access under the key it is listed with. *)
LEMMA LeadsLead ==
  ASSUME NEW v, NEW p \in leads(v)
  PROVE  IsKey(p[1]) /\ access(v, p[1]) = {p[2]}
<1> DEFINE Leads(r) == IsKey(r[1]) /\ access(v, r[1]) = {r[2]}
<1>1. PICK level : /\ leads(v) = UNION {level[i] : i \in 0..MaxLevels}
                   /\ level[0] = {<< <<>>, v >>}
                   /\ \A i \in 1..MaxLevels : level[i] = next_level(level[i - 1])
  BY LeadsIsDefined
<1> DEFINE T == {m \in 0..MaxLevels : \A r \in level[m] : Leads(r)}
<1>2. MaxLevels \in Nat
  BY ValuesAssumption
<1>3. 0 \in T
  <2>1. IsKey(<<>>)
    <3> DEFINE S == {}
    <3>1. <<>> \in Seq(S) /\ \A q \in S : IsPart(q)
      OBVIOUS
    <3> HIDE DEF S
    <3> QED  BY <3>1 DEF IsKey
  <2>2. access(v, <<>>) = {v}
    <3>1. Len(<<>>) = 0
      OBVIOUS
    <3> QED  BY <3>1, WayBegins DEF access
  <2>3. \A r \in level[0] : Leads(r)
    BY <1>1, <2>1, <2>2
  <2>4. 0 \in 0..MaxLevels
    BY <1>2
  <2> HIDE DEF Leads
  <2> QED  BY <2>3, <2>4
<1>4. ASSUME NEW m \in 0..MaxLevels, m < MaxLevels, m \in T
      PROVE  m + 1 \in T
  <2>1. m + 1 \in 1..MaxLevels /\ (m + 1) - 1 = m /\ m + 1 \in 0..MaxLevels
    BY <1>2, <1>4
  <2>2. level[m + 1] = next_level(level[m])
    BY <1>1, <2>1
  <2>3. ASSUME NEW r \in level[m + 1] PROVE Leads(r)
    <3>1. PICK s \in level[m] : \E part \in parts_of(s[2]) : \E d \in at_part_of(s[2], part) :
                                  r = <<Append(s[1], part), d>>
      BY <2>2, <2>3, NextLevel
    <3>2. PICK part \in parts_of(s[2]) : \E d \in at_part_of(s[2], part) : r = <<Append(s[1], part), d>>
      BY <3>1
    <3>3. PICK d \in at_part_of(s[2], part) : r = <<Append(s[1], part), d>>
      BY <3>2
    <3>4. IsKey(s[1]) /\ access(v, s[1]) = {s[2]}
      BY <1>4
    <3>5. IsPart(part)
      BY PartsAreParts
    <3>6. IsKey(Append(s[1], part))
      BY <3>4, <3>5, KeyAppend
    <3>7. access(v, Append(s[1], part)) = at_part_of(s[2], part)
      BY <3>4, <3>5, AccessAppend
    <3>8. at_part_of(s[2], part) = {d}
      <4>1. AtMostOne(under(s[2], part, "access"))
        BY UnderAtMostOne
      <4> QED  BY <4>1 DEF AtMostOne, under
    <3>9. r[1] = Append(s[1], part) /\ r[2] = d
      BY <3>3
    <3> QED  BY <3>6, <3>7, <3>8, <3>9
  <2> HIDE DEF Leads
  <2> QED  BY <2>1, <2>3
<1>5. \A m \in 0..MaxLevels : m \in T
  <2> HIDE DEF T
  <2> QED  BY <1>2, <1>3, <1>4, InductionUpTo
<1>6. PICK m \in 0..MaxLevels : p \in level[m]
  BY <1>1
<1>7. Leads(p)
  <2> HIDE DEF Leads
  <2> QED  BY <1>5, <1>6
<1> QED  BY <1>7
-----------------------------------------------------------------------------
LEMMA KeysOfPrograms ==
  ASSUME NEW k \in Seq(ValuePart)
  PROVE  IsKey(k)
<1>1. ASSUME NEW q \in ValuePart PROVE IsPart(q)
  BY DEF ValuePart, IsPart, NamePart, IndexPart
<1> QED  BY <1>1 DEF IsKey

(* assign throws runtime errors only. *)
LEMMA AssignOutcome ==
  ASSUME NEW v, NEW k, NEW new
  PROVE  assign(v, k, new).error \in {"none", "runtime_error"}
<1> DEFINE r == CHOOSE e \in back(v, k, new)[Len(k)] : TRUE
<1>1. assign(v, k, new) = IF way(v, k, "assign")[Len(k)] = {} THEN Failed(r, "runtime_error") ELSE Walked(r)
  BY DEF assign
<1> HIDE DEF r
<1> QED  BY <1>1 DEF Failed, Walked

(* The key that the calls of the program make, also when reading its text   *)
(* throws, has no part that access and assign do not know.                  *)
THEOREM ValuesTypes == ValuesSpec => []ValuesTypeOK
<1>1. ValuesInit => ValuesTypeOK
  BY ValuesAssumption DEF ValuesInit, ValuesTypeOK
<1>2. ValuesTypeOK /\ [ValuesNext]_valuesVars => ValuesTypeOK'
  <2> SUFFICES ASSUME ValuesTypeOK, [ValuesNext]_valuesVars PROVE ValuesTypeOK'
    OBVIOUS
  <2> USE DEF ValuesTypeOK
  <2>1. ASSUME NEW text \in Texts, AssignKey(text) PROVE ValuesTypeOK'
    <3>1. IsText(text)
      BY ValuesAssumption
    <3>2. parse_key(text).parts \in Seq(ValuePart) /\ parse_key(text).error \in {"none", "parse_error"}
      BY <3>1, KeyIsRead
    <3> QED  BY <2>1, <3>2 DEF AssignKey
  <2>2. ASSUME NEW text \in Texts, AddToKey(text) PROVE ValuesTypeOK'
    <3>1. parse_key(text).parts \in Seq(ValuePart) /\ parse_key(text).error \in {"none", "parse_error"}
      BY ValuesAssumption, KeyIsRead
    <3>2. key \o parse_key(text).parts \in Seq(ValuePart)
      BY <3>1
    <3> QED  BY <2>2, <3>1, <3>2 DEF AddToKey
  <2>3. ASSUME NEW part \in Parts, AppendToKey(part) PROVE ValuesTypeOK'
    <3>1. part \in ValuePart
      BY ValuesAssumption
    <3>2. Append(key, part) \in Seq(ValuePart)
      BY <3>1
    <3> QED  BY <2>3, <3>2 DEF AppendToKey
  <2>4. CASE PopFront
    <3>1. Tail(key) \in Seq(ValuePart)
      BY <2>4 DEF PopFront
    <3> QED  BY <2>4, <3>1 DEF PopFront
  <2>5. CASE PopBack
    <3>1. key # <<>> /\ key \in Seq(ValuePart)
      BY <2>5 DEF PopBack
    <3>2. Front(key) \in Seq(ValuePart)
      BY <3>1 DEF Front
    <3> QED  BY <2>5, <3>2 DEF PopBack
  <2>6. ASSUME NEW new \in Values, Assign(new) PROVE ValuesTypeOK'
    <3>1. outcome' \in {"none", "runtime_error"} /\ key' = key /\ writes < MaxWrites /\ writes' = writes + 1
      BY <2>6, AssignOutcome DEF Assign
    <3> QED  BY <3>1, ValuesAssumption
  <2>7. CASE UNCHANGED valuesVars
    BY <2>7 DEF valuesVars
  <2> QED  BY <2>1, <2>2, <2>3, <2>4, <2>5, <2>6, <2>7 DEF ValuesNext
<1> QED  BY <1>1, <1>2, PTL DEF ValuesSpec

(* What is known is known under keys of values. *)
KnownInv == \A p \in known : IsKey(p[1]) /\ access(value, p[1]) = {p[2]}

(* access finds what the file or the program put under a key, whatever      *)
(* assign wrote under other keys, made on the way or left behind when it    *)
(* threw.                                                                   *)
THEOREM KnownValues == ValuesSpec => []KnownValuesStay
<1>1. ValuesInit => KnownInv
  BY LeadsLead DEF ValuesInit, KnownInv
<1>2. ValuesTypeOK /\ KnownInv /\ [ValuesNext]_valuesVars => KnownInv'
  <2> SUFFICES ASSUME ValuesTypeOK, KnownInv, [ValuesNext]_valuesVars PROVE KnownInv'
    OBVIOUS
  <2>1. CASE UNCHANGED <<value, known>>
    BY <2>1 DEF KnownInv
  <2>2. ASSUME NEW new \in Values, Assign(new) PROVE KnownInv'
    <3> DEFINE r == assign(value, key, new)
    <3>1. IsKey(key)
      BY KeysOfPrograms DEF ValuesTypeOK
    <3>2. value' = r.val
      BY <2>2 DEF Assign
    <3>3. known' = IF r.error = "none"
                   THEN {p \in known : ~ IsPrefix(p[1], key) /\ ~ IsPrefix(key, p[1])} \cup {<<key, new>>}
                   ELSE {p \in known : ~ IsPrefix(p[1], key)}
      BY <2>2 DEF Assign
    <3> HIDE DEF r
    <3>4. ASSUME NEW p \in known, ~ IsPrefix(p[1], key), ~ IsPrefix(key, p[1]) \/ r.error # "none"
          PROVE  IsKey(p[1]) /\ access(r.val, p[1]) = {p[2]}
      <4>1. IsKey(p[1]) /\ access(value, p[1]) = {p[2]}
        BY DEF KnownInv
      <4>2. access(r.val, p[1]) = {p[2]}
        BY <3>1, <3>4, <4>1, KnownStays DEF r
      <4> QED  BY <4>1, <4>2
    <3>5. CASE r.error = "none"
      <4>1. access(r.val, key) = {new}
        BY <3>1, <3>5, WrittenIsFound DEF r
      <4>2. ASSUME NEW p \in known' PROVE IsKey(p[1]) /\ access(r.val, p[1]) = {p[2]}
        <5>1. CASE p = <<key, new>>
          BY <3>1, <4>1, <5>1
        <5>2. CASE p # <<key, new>>
          <6>1. p \in known /\ ~ IsPrefix(p[1], key) /\ ~ IsPrefix(key, p[1])
            BY <3>3, <3>5, <5>2
          <6> QED  BY <3>4, <6>1
        <5> QED  BY <5>1, <5>2
      <4> QED  BY <3>2, <4>2 DEF KnownInv
    <3>6. CASE r.error # "none"
      <4>1. ASSUME NEW p \in known' PROVE IsKey(p[1]) /\ access(r.val, p[1]) = {p[2]}
        <5>1. p \in known /\ ~ IsPrefix(p[1], key)
          BY <3>3, <3>6
        <5> QED  BY <3>4, <3>6, <5>1
      <4> QED  BY <3>2, <4>1 DEF KnownInv
    <3> QED  BY <3>5, <3>6
  <2>3. CASE UNCHANGED valuesVars
    BY <2>1, <2>3 DEF valuesVars
  <2> QED  BY <2>1, <2>2, <2>3 DEF ValuesNext, AssignKey, AddToKey, AppendToKey, PopFront, PopBack
<1>3. KnownInv => KnownValuesStay
  BY DEF KnownInv, KnownValuesStay
<1> QED  BY <1>1, <1>2, <1>3, ValuesTypes, PTL DEF ValuesSpec
-----------------------------------------------------------------------------
(* What is made on the way of a key. *)
LEMMA EmptyHasNothing ==
  ASSUME NEW q
  PROVE  at_part_of(empty_object, q) = {}
<1>1. empty_object.kind = "object" /\ DOMAIN empty_object.object = {}
  BY DEF empty_object, EmptyObject
<1> QED  BY <1>1 DEF at_part_of

LEMMA MadeNew ==
  ASSUME NEW d, NEW q, made_at(d, q) # {}, at_part_of(d, q) = {}
  PROVE  made_at(d, q) = {empty_object} /\ q.kind = "name"
<1>1. q.kind = "name" /\ d.kind = "object"
  BY DEF made_at
<1>2. q.name \notin DOMAIN d.object
  <2> SUFFICES ASSUME q.name \in DOMAIN d.object PROVE FALSE
    OBVIOUS
  <2>1. at_part_of(d, q) = {d.object[n] : n \in DOMAIN d.object \cap {q.name}}
    BY <1>1 DEF at_part_of
  <2>2. d.object[q.name] \in at_part_of(d, q)
    BY <2>1
  <2> QED  BY <2>2
<1> QED  BY <1>1, <1>2 DEF made_at, member_at

LEMMA MadeIsEmpty ==
  ASSUME NEW v, NEW k, Len(k) \in Nat, NEW i \in 0..Len(k),
         way(v, k, "assign")[i] # {}, way(v, k, "access")[i] = {}
  PROVE  way(v, k, "assign")[i] = {empty_object}
<1> DEFINE n == Len(k)
           p == way(v, k, "access")
           q == way(v, k, "assign")
           T == {m \in 0..n : q[m] # {} /\ p[m] = {} => q[m] = {empty_object}}
<1>1. \A m \in 1..n : p[m] = further(p[m - 1], k[m], "access")
  BY WayGoesOn
<1>2. \A m \in 1..n : q[m] = further(q[m - 1], k[m], "assign")
  BY WayGoesOn
<1>3. p[0] = {v}
  BY WayBegins
<1>4. \A m \in 0..n : AtMostOne(q[m])
  BY WayAtMostOne
<1>5. \A m \in 0..n : p[m] # {} => q[m] = p[m]
  BY MadeWay
<1>6. n \in Nat /\ i \in 0..n /\ q[i] # {} /\ p[i] = {}
  OBVIOUS
<1> HIDE DEF n, p, q
<1>7. 0 \in T
  BY <1>3, <1>6
<1>8. ASSUME NEW m \in 0..n, m < n, m \in T
      PROVE  m + 1 \in T
  <2> DEFINE part == k[m + 1]
  <2>1. m + 1 \in 1..n /\ (m + 1) - 1 = m /\ m + 1 \in 0..n
    BY <1>6, <1>8
  <2>2. p[m + 1] = further(p[m], part, "access") /\ q[m + 1] = further(q[m], part, "assign")
    BY <1>1, <1>2, <2>1
  <2> HIDE DEF part
  <2>3. ASSUME q[m + 1] # {}, p[m + 1] = {} PROVE q[m + 1] = {empty_object}
    <3>1. PICK d : q[m] = {d} /\ q[m + 1] = made_at(d, part)
      BY <1>4, <2>2, <2>3, UnderOne DEF under
    <3>2. at_part_of(d, part) = {}
      <4>1. CASE p[m] = {}
        <5>1. d = empty_object
          BY <1>8, <3>1, <4>1
        <5> QED  BY <5>1, EmptyHasNothing
      <4>2. CASE p[m] # {}
        <5>1. p[m] = {d}
          BY <1>5, <3>1, <4>2
        <5> QED  BY <2>2, <2>3, <5>1 DEF further, under
      <4> QED  BY <4>1, <4>2
    <3> QED  BY <2>3, <3>1, <3>2, MadeNew
  <2> QED  BY <2>1, <2>3
<1>9. \A m \in 0..n : m \in T
  <2> HIDE DEF T
  <2> QED  BY <1>6, <1>7, <1>8, InductionUpTo
<1> QED  BY <1>6, <1>9 DEF p, q

(* Where assign threw, access finds nothing afterwards. *)
LEMMA EndsWhereItEnded ==
  ASSUME NEW v, NEW k, NEW new, IsKey(k), NEW i \in 0..Len(k), way(v, k, "assign")[i] = {}
  PROVE  way(assign(v, k, new).val, k, "access")[i] = {}
<1> DEFINE n     == Len(k)
           x     == assign(v, k, new).val
           place == way(v, k, "assign")
           found == way(x, k, "access")
           a(m)  == after(v, k, new, m)
           T     == {m \in 0..n : place[m] = {} => found[m] = {}}
<1>1. n \in Nat /\ Len(k) \in Nat
  BY KeyParts
<1>2. \A m \in 1..n : place[m] = further(place[m - 1], k[m], "assign")
  BY <1>1, WayGoesOn
<1>3. \A m \in 1..n : found[m] = further(found[m - 1], k[m], "access")
  BY <1>1, WayGoesOn
<1>4. place[0] = {v}
  BY <1>1, WayBegins
<1>5. \A m \in 0..n : m < n => a(m) = IF place[m + 1] = {} THEN place[m]
                                     ELSE with_parts(place[m], k[m + 1], a(m + 1))
  BY <1>1, AfterGoesOn
<1>6. \A m \in 0..n : place[m] # {} => One(place[m])
  BY <1>1, WayAtMostOne, IsOne
<1>7. \A m \in 0..n : place[m] # {} => found[m] = a(m)
  BY AlongTheWay
<1>8. i \in 0..n /\ place[i] = {}
  OBVIOUS
<1> HIDE DEF n, x, place, found, a
<1>9. 0 \in T
  BY <1>1, <1>4
<1>10. ASSUME NEW m \in 0..n, m < n, m \in T
       PROVE  m + 1 \in T
  <2> DEFINE part == k[m + 1]
  <2>1. m + 1 \in 1..n /\ (m + 1) - 1 = m /\ m + 1 \in 0..n
    BY <1>1, <1>10
  <2>2. place[m + 1] = further(place[m], part, "assign") /\ found[m + 1] = further(found[m], part, "access")
    BY <1>2, <1>3, <2>1
  <2>3. place[m + 1] = {} => a(m) = place[m]
    BY <1>5, <1>10
  <2> HIDE DEF part
  <2>4. ASSUME place[m + 1] = {} PROVE found[m + 1] = {}
    <3>1. CASE place[m] = {}
      BY <1>10, <2>2, <3>1 DEF further
    <3>2. CASE place[m] # {}
      <4>1. PICK d : place[m] = {d}
        BY <1>6, <3>2 DEF One
      <4>2. found[m] = {d}
        BY <1>7, <2>3, <2>4, <3>2, <4>1
      <4>3. made_at(d, part) = {}
        BY <2>2, <2>4, <4>1 DEF further, under
      <4>4. at_part_of(d, part) = {}
        BY <4>3, MadeWhereItIs
      <4> QED  BY <2>2, <4>2, <4>4 DEF further, under
    <3> QED  BY <3>1, <3>2
  <2> QED  BY <2>1, <2>4
<1>11. \A m \in 0..n : m \in T
  <2> HIDE DEF T
  <2> QED  BY <1>1, <1>9, <1>10, InductionUpTo
<1> QED  BY <1>8, <1>11 DEF x, place, found

(* What an assign that throws leaves of the value d at a place on its way.  *)
LeftOf(d, k, i, e) ==
  \/ e = d
  \/ /\ i < Len(k) /\ IsPart(k[i + 1]) /\ made_at(d, k[i + 1]) # {}
     /\ \E f : e = with_part(d, k[i + 1], f)

LEMMA LeftOnTheWay ==
  ASSUME NEW v, NEW k, NEW new, IsKey(k), NEW i \in 0..Len(k), assign(v, k, new).error # "none",
         NEW d, way(v, k, "assign")[i] = {d}, NEW e, after(v, k, new, i) = {e}
  PROVE  LeftOf(d, k, i, e)
<1>1. Len(k) \in Nat /\ \A m \in 1..Len(k) : IsPart(k[m])
  BY KeyParts
<1>2. way(v, k, "assign")[Len(k)] = {}
  BY <1>1, AssignedValue
<1>3. i < Len(k) /\ i + 1 \in 1..Len(k) /\ (i + 1) - 1 = i /\ i + 1 \in 0..Len(k)
  BY <1>1, <1>2
<1>4. after(v, k, new, i) = IF way(v, k, "assign")[i + 1] = {} THEN way(v, k, "assign")[i]
                            ELSE with_parts(way(v, k, "assign")[i], k[i + 1], after(v, k, new, i + 1))
  BY <1>1, <1>3, AfterGoesOn
<1>5. CASE way(v, k, "assign")[i + 1] = {}
  BY <1>4, <1>5 DEF LeftOf
<1>6. CASE way(v, k, "assign")[i + 1] # {}
  <2>1. One(after(v, k, new, i + 1))
    BY <1>1, <1>3, <1>6, AfterIsOne
  <2>2. PICK f : after(v, k, new, i + 1) = {f}
    BY <2>1 DEF One
  <2>3. after(v, k, new, i) = with_parts({d}, k[i + 1], {f})
    BY <1>4, <1>6, <2>2
  <2>4. after(v, k, new, i) = {with_part(d, k[i + 1], f)}
    BY <2>3, WithPartsOne
  <2>5. IsPart(k[i + 1])
    BY <1>1, <1>3
  <2>6. made_at(d, k[i + 1]) # {}
    <3>1. way(v, k, "assign")[i + 1] = further(way(v, k, "assign")[(i + 1) - 1], k[i + 1], "assign")
      BY <1>1, <1>3, WayGoesOn
    <3>2. way(v, k, "assign")[i + 1] = further({d}, k[i + 1], "assign")
      BY <1>3, <3>1
    <3> QED  BY <1>6, <3>2 DEF further, under
  <2> QED  BY <1>3, <2>4, <2>5, <2>6 DEF LeftOf
<1> QED  BY <1>5, <1>6

IsSmallObject(d) == d.kind = "object" /\ Cardinality(DOMAIN d.object) <= 1

LEMMA SmallObjects ==
  ASSUME NEW q, NEW f, IsPart(q), made_at(empty_object, q) # {}
  PROVE  IsSmallObject(empty_object) /\ IsSmallObject(with_part(empty_object, q, f))
<1>1. q.kind = "name"
  BY EmptyHasNothing, MadeNew
<1> DEFINE w == with_part(empty_object, q, f)
<1>2. DOMAIN empty_object.object = {} /\ empty_object.kind = "object"
  BY DEF empty_object, EmptyObject
<1>3. DOMAIN w.object = {q.name} /\ w.kind = "object"
  <2> DEFINE members == [n \in DOMAIN empty_object.object \cup {q.name} |->
                           IF n = q.name THEN f ELSE empty_object.object[n]]
  <2>1. w.kind = "object" /\ w.object = members
    BY <1>1 DEF with_part
  <2>2. DOMAIN members = {q.name}
    BY <1>2
  <2> HIDE DEF w, members
  <2> QED  BY <2>1, <2>2
<1>4. Cardinality({q.name}) = 1 /\ Cardinality({}) = 0
  BY FS_Singleton, FS_EmptySet
<1> HIDE DEF w
<1> QED  BY <1>2, <1>3, <1>4 DEF IsSmallObject, w

(* What access finds only after an assign that threw, assign made. *)
LEMMA FoundIsMade ==
  ASSUME NEW v, NEW k, NEW new, IsKey(k), assign(v, k, new).error # "none",
         NEW p, IsKey(p), access(v, p) = {},
         NEW e, access(assign(v, k, new).val, p) = {e}
  PROVE  IsSmallObject(e)
<1> DEFINE x == assign(v, k, new).val
<1>1. /\ Len(k) \in Nat /\ Len(k) \in 0..Len(k) /\ Len(p) \in Nat /\ Len(p) \in 0..Len(p)
      /\ Len(p) <= Len(p)
  BY KeyParts
<1>2. way(v, k, "assign")[Len(k)] = {}
  BY <1>1, AssignedValue
<1>3. way(v, p, "access")[Len(p)] = {} /\ way(x, p, "access")[Len(p)] = {e}
  BY DEF access
<1>4. CASE IsPrefix(p, k)
  <2>1. Len(p) \in 0..Len(k)
    BY <1>1, <1>4, PrefixParts
  <2>2. way(v, k, "access")[Len(p)] = {}
    <3>1. way(v, p, "access")[Len(p)] = way(v, k, "access")[Len(p)]
      BY <1>1, <1>4, PrefixWay
    <3> QED  BY <1>3, <3>1
  <2>3. way(x, k, "access")[Len(p)] = {e}
    <3>1. way(x, p, "access")[Len(p)] = way(x, k, "access")[Len(p)]
      <4> HIDE DEF x
      <4> QED  BY <1>1, <1>4, PrefixWay
    <3> QED  BY <1>3, <3>1
  <2>4. way(v, k, "assign")[Len(p)] # {}
    BY <2>1, <2>3, EndsWhereItEnded
  <2>5. way(v, k, "assign")[Len(p)] = {empty_object}
    BY <1>1, <2>1, <2>2, <2>4, MadeIsEmpty
  <2>6. after(v, k, new, Len(p)) = {e}
    BY <2>1, <2>3, <2>4, AlongTheWay
  <2>7. LeftOf(empty_object, k, Len(p), e)
    BY <2>1, <2>5, <2>6, LeftOnTheWay
  <2>9. IsSmallObject(empty_object)
    <3>1. DOMAIN empty_object.object = {} /\ empty_object.kind = "object"
      BY DEF empty_object, EmptyObject
    <3> QED  BY <3>1, FS_EmptySet DEF IsSmallObject
  <2> QED  BY <2>7, <2>9, SmallObjects DEF LeftOf
<1>5. CASE IsPrefix(k, p)
  <2>1. Len(k) <= Len(p) /\ Len(k) \in 0..Len(k)
    BY <1>1, <1>5, PrefixParts
  <2>2. way(x, k, "access")[Len(k)] = {}
    BY <1>1, <1>2, EndsWhereItEnded
  <2>3. way(x, k, "access")[Len(k)] = way(x, p, "access")[Len(k)]
    <3> HIDE DEF x
    <3> QED  BY <1>1, <1>5, PrefixWay
  <2>4. way(x, p, "access")[Len(k)] # {}
    <3>1. way(x, p, "access")[Len(p)] # {}
      BY <1>3
    <3> HIDE DEF x
    <3> QED  BY <1>1, <2>1, <3>1, WayEnds
  <2> QED  BY <2>2, <2>3, <2>4
<1>6. CASE ~ IsPrefix(p, k) /\ ~ IsPrefix(k, p)
  <2>1. PICK i : PartAt(p, k, i)
    BY <1>6, KeysPart
  <2> DEFINE h == i - 1
  <2>2. /\ i \in 1..Len(k) /\ i <= Len(p) /\ p[i] # k[i] /\ \A m \in 1..h : p[m] = k[m]
        /\ h \in 0..Len(k) /\ h \in Nat /\ h <= Len(p) /\ h <= Len(k) /\ i \in Nat /\ h + 1 = i
        /\ i \in 1..Len(p) /\ 0 <= h /\ 0 \in Nat /\ h < Len(k)
    BY <1>1, <2>1 DEF PartAt
  <2>3. way(v, p, "access")[h] = {}
    <3>1. way(v, p, "access")[h] # {} => access(x, p) = access(v, p)
      BY <2>1, ElsewhereSame
    <3> QED  BY <3>1
  <2>4. \A w : way(w, p, "access")[h] = way(w, k, "access")[h]
    <3> SUFFICES ASSUME NEW w PROVE way(w, p, "access")[h] = way(w, k, "access")[h]
      OBVIOUS
    <3>1. way(w, p, "access")[0] = {w} /\ way(w, k, "access")[0] = {w}
      BY <1>1, WayBegins
    <3>2. way(w, p, "access")[0] = way(w, k, "access")[0]
      BY <3>1
    <3>3. \A m \in 0 + 1..h : p[m] = k[m]
      BY <2>2
    <3> HIDE DEF h
    <3> QED  BY <1>1, <2>2, <3>2, <3>3, WaysAgree
  <2>5. way(x, p, "access")[h] # {} /\ way(x, p, "access")[i] # {}
    <3>1. way(x, p, "access")[Len(p)] # {}
      BY <1>3
    <3> HIDE DEF x, h
    <3>2. way(x, p, "access")[h] # {}
      BY <1>1, <2>2, <3>1, WayEnds
    <3>3. way(x, p, "access")[i] # {}
      BY <1>1, <2>2, <3>1, WayEnds
    <3> QED  BY <3>2, <3>3
  <2>6. way(x, k, "access")[h] # {} /\ way(v, k, "access")[h] = {}
    BY <2>3, <2>4, <2>5
  <2>7. way(v, k, "assign")[h] # {}
    BY <2>2, <2>6, EndsWhereItEnded
  <2>8. way(v, k, "assign")[h] = {empty_object}
    BY <1>1, <2>2, <2>6, <2>7, MadeIsEmpty
  <2>9. PICK f : after(v, k, new, h) = {f}
    <3>1. One(after(v, k, new, h))
      BY <1>1, <2>2, <2>7, AfterIsOne
    <3> QED  BY <3>1 DEF One
  <2>10. way(x, p, "access")[h] = {f}
    <3>1. way(x, k, "access")[h] = after(v, k, new, h)
      BY <2>2, <2>7, AlongTheWay
    <3> QED  BY <2>4, <2>9, <3>1
  <2>11. LeftOf(empty_object, k, h, f)
    BY <2>2, <2>8, <2>9, LeftOnTheWay
  <2>12. at_part_of(f, p[i]) = {}
    <3>1. IsPart(p[i])
      BY <2>2, KeyParts
    <3>2. CASE f = empty_object
      BY <3>2, EmptyHasNothing
    <3>3. CASE f # empty_object
      <4>1. PICK g : IsPart(k[i]) /\ made_at(empty_object, k[i]) # {} /\ f = with_part(empty_object, k[i], g)
        BY <2>2, <2>11, <3>3 DEF LeftOf
      <4>2. at_part_of(f, p[i]) = at_part_of(empty_object, p[i])
        BY <2>2, <3>1, <4>1, WithPart
      <4> QED  BY <4>2, EmptyHasNothing
    <3> QED  BY <3>2, <3>3
  <2>13. way(x, p, "access")[i] = further({f}, p[i], "access")
    <3>1. way(x, p, "access")[i] = further(way(x, p, "access")[i - 1], p[i], "access")
      <4> HIDE DEF x
      <4> QED  BY <1>1, <2>2, WayGoesOn
    <3> QED  BY <2>10, <3>1
  <2>14. further({f}, p[i], "access") = {}
    BY <2>12 DEF further, under
  <2> QED  BY <2>5, <2>13, <2>14
<1> QED  BY <1>4, <1>5, <1>6

(* What was there is there after an assign that threw, with what assign     *)
(* made in it.                                                              *)
OneOfKind(S, e) == \E d : S = {d} /\ d.kind = e.kind

LEMMA FoundStays ==
  ASSUME NEW v, NEW k, NEW new, IsKey(k), assign(v, k, new).error # "none",
         NEW p, IsKey(p), NEW e, access(v, p) = {e}
  PROVE  OneOfKind(access(assign(v, k, new).val, p), e)
<1> DEFINE x == assign(v, k, new).val
<1>1. ~ IsPrefix(k, p)
  BY NoThrowBelow
<1>2. CASE IsPrefix(p, k)
  <2>1. Len(k) \in Nat /\ Len(p) \in 0..Len(k) /\ Len(p) \in 0..Len(p)
    BY <1>2, KeyParts, PrefixParts
  <2>2. way(v, k, "access")[Len(p)] = {e}
    <3>1. access(v, p) = way(v, k, "access")[Len(p)]
      BY <1>2, PrefixAccess
    <3> QED  BY <3>1
  <2>3. way(v, k, "assign")[Len(p)] = {e}
    BY <2>1, <2>2, MadeWay
  <2>4. One(after(v, k, new, Len(p)))
    BY <2>1, <2>3, AfterIsOne
  <2>5. PICK d : after(v, k, new, Len(p)) = {d}
    BY <2>4 DEF One
  <2>6. LeftOf(e, k, Len(p), d)
    BY <2>1, <2>3, <2>5, LeftOnTheWay
  <2>7. d.kind = e.kind
    BY <2>6, WithPart DEF LeftOf
  <2>8. access(x, p) = {d}
    <3>1. way(x, k, "access")[Len(p)] = {d}
      BY <2>1, <2>3, <2>5, AlongTheWay
    <3>2. access(x, p) = way(x, k, "access")[Len(p)]
      <4> HIDE DEF x
      <4> QED  BY <1>2, PrefixAccess
    <3> QED  BY <3>1, <3>2
  <2> QED  BY <2>7, <2>8 DEF OneOfKind
<1>3. CASE ~ IsPrefix(p, k)
  <2>1. access(x, p) = {e}
    BY <1>3, KnownStays
  <2> QED  BY <2>1 DEF OneOfKind
<1> QED  BY <1>2, <1>3

(* An assign that throws leaves everything that was there, of the same      *)
(* kind, and what it made are objects with at most the one member that the  *)
(* next part of the key names.                                              *)
THEOREM FailedAssign == ValuesSpec => FailedAssignMakesObjects
<1> DEFINE Throws == outcome' = "runtime_error" /\ writes' # writes
           Made   == \A p \in leads(value') :
                       access(value, p[1]) = {} => p[2].kind = "object" /\ Cardinality(DOMAIN p[2].object) <= 1
           Left   == \A p \in leads(value) : \E d \in access(value', p[1]) : d.kind = p[2].kind
<1>1. ValuesTypeOK /\ [ValuesNext]_valuesVars => [Throws => Made /\ Left]_valuesVars
  <2> SUFFICES ASSUME ValuesTypeOK, ValuesNext, Throws PROVE Made /\ Left
    OBVIOUS
  <2>1. PICK new \in Values : Assign(new)
    BY DEF ValuesNext, AssignKey, AddToKey, AppendToKey, PopFront, PopBack
  <2> DEFINE r == assign(value, key, new)
  <2>2. IsKey(key)
    BY KeysOfPrograms DEF ValuesTypeOK
  <2>3. value' = r.val /\ r.error = "runtime_error"
    BY <2>1 DEF Assign
  <2>4. r.error # "none"
    BY <2>3
  <2> HIDE DEF r
  <2>5. ASSUME NEW p \in leads(r.val), access(value, p[1]) = {}
        PROVE  p[2].kind = "object" /\ Cardinality(DOMAIN p[2].object) <= 1
    <3>1. IsKey(p[1]) /\ access(r.val, p[1]) = {p[2]}
      BY LeadsLead
    <3>2. IsSmallObject(p[2])
      BY <2>2, <2>4, <2>5, <3>1, FoundIsMade DEF r
    <3> QED  BY <3>2 DEF IsSmallObject
  <2>6. ASSUME NEW p \in leads(value)
        PROVE  \E d \in access(r.val, p[1]) : d.kind = p[2].kind
    <3>1. IsKey(p[1]) /\ access(value, p[1]) = {p[2]}
      BY LeadsLead
    <3>2. OneOfKind(access(r.val, p[1]), p[2])
      BY <2>2, <2>4, <3>1, FoundStays DEF r
    <3> QED  BY <3>2 DEF OneOfKind
  <2> QED  BY <2>3, <2>5, <2>6
<1> QED  BY <1>1, ValuesTypes, PTL DEF ValuesSpec, FailedAssignMakesObjects

(* A text that throws half way leaves in the key what its first words are   *)
(* read as on their own, after what assign was to add it to.                *)
THEOREM FailedReads == ValuesSpec => FailedReadKeepsBeginning
<1> DEFINE Kept(text) ==
             /\ AssignKey(text) => BeginningOf(text, key')
             /\ AddToKey(text)  => /\ IsPrefix(key, key')
                                   /\ BeginningOf(text, SubSeq(key', Len(key) + 1, Len(key')))
           Throws == outcome' = "parse_error"
           AllKept == \A text \in Texts : Kept(text)
<1>1. ASSUME NEW text \in Texts, parse_key(text).error = "parse_error"
      PROVE  BeginningOf(text, parse_key(text).parts)
  <2>1. IsText(text) /\ parse_key(text).error # "none"
    BY <1>1, ValuesAssumption
  <2> QED  BY <2>1, FailedKeyRead DEF BeginningOf
<1>2. ASSUME ValuesTypeOK, Throws, NEW text \in Texts PROVE Kept(text)
  <2>1. ASSUME AssignKey(text) PROVE BeginningOf(text, key')
    BY <1>1, <1>2, <2>1 DEF AssignKey
  <2>2. ASSUME AddToKey(text)
        PROVE  /\ IsPrefix(key, key')
               /\ BeginningOf(text, SubSeq(key', Len(key) + 1, Len(key')))
    <3> DEFINE parts == parse_key(text).parts
    <3>1. key' = key \o parts /\ parse_key(text).error = "parse_error"
      BY <1>2, <2>2 DEF AddToKey
    <3>2. key \in Seq(ValuePart) /\ parts \in Seq(ValuePart)
      BY <1>2, ValuesAssumption, KeyIsRead DEF ValuesTypeOK
    <3>3. BeginningOf(text, parts)
      BY <1>1, <3>1
    <3> HIDE DEF parts
    <3>4. IsPrefix(key, key \o parts)
      BY <3>2 DEF IsPrefix
    <3>5. SubSeq(key \o parts, Len(key) + 1, Len(key \o parts)) = parts
      BY <3>2
    <3> QED  BY <3>1, <3>3, <3>4, <3>5
  <2> QED  BY <2>1, <2>2
<1>3. ValuesTypeOK /\ [ValuesNext]_valuesVars => [Throws => AllKept]_valuesVars
  BY <1>2
<1> QED  BY <1>3, ValuesTypes, PTL DEF ValuesSpec, FailedReadKeepsBeginning

(* The text of every key that the program can have is read as that key, in  *)
(* a file, in a reference and by the program, unless an index in it has     *)
(* more digits than are read.                                               *)
THEOREM KeysReadBack == ValuesSpec => []KeyTextsReadBack
<1>1. ValuesTypeOK => KeyTextsReadBack
  <2> SUFFICES ASSUME key \in Seq(ValuePart) PROVE KeyTextsReadBack
    BY DEF ValuesTypeOK
  <2> DEFINE same(r) == r.error = "none" /\ r.parts = key
  <2>1. /\ Readable(key) <=> same(parse_key1(to_string(key)))
        /\ Readable(key) <=> same(parse_reference2(to_string(key)))
        /\ Readable(key) /\ Head(key).kind = "name" <=> same(parse_key(to_string(key)))
    BY KeyReadBack
  <2> QED  BY <2>1 DEF KeyTextsReadBack, Readable
<1> QED  BY <1>1, ValuesTypes, PTL
=============================================================================
