--------------------------- MODULE ConfigMeaning ----------------------------
(***************************************************************************)
(* What a configuration means, without passes, iterations or an order: a   *)
(* value is the sum of its summands, a reference is the value of what it   *)
(* refers to, a call is what the function returns for the values of its    *)
(* arguments, an asterisk stands for all members or elements that the rest *)
(* of its sum has, and what a value needs itself for has no value.  This   *)
(* is the language of doc/Writing-Config-Files.md on the tree that phase 1 *)
(* makes of the files.                                                     *)
(*                                                                         *)
(* An entry is evaluated as far as it is asked for: its head is the entry  *)
(* with all additions, references and calls at its top resolved and what   *)
(* is below it untouched, its value has everything below it resolved as    *)
(* well.                                                                   *)
(***************************************************************************)
EXTENDS ConfigFunctions

Error   == [kind |-> "error"]    \* no value: cyclic, missing or ill-typed
Nothing == [kind |-> "nothing"]  \* the value of what was deleted

IsError(e) == e.kind = "error"

(* In a path an argument takes the place of the value that it is part of,   *)
(* so that references in it have the scope of that value.                   *)
ArgumentPart(of, i, k) == [kind |-> "argument", of |-> of, entry |-> i, index |-> k]

(* What an entry has under a part of a path, as a set. *)
Under[e \in Any, part \in Any] ==
  CASE part.kind = "name" /\ e.kind = "object" -> {e.object[n] : n \in DOMAIN e.object \cap {part.name}}
    [] part.kind = "index" /\ e.kind = "array" -> {e.array[i] : i \in DOMAIN e.array \cap {part.index + 1}}
    [] part.kind = "argument" -> {c.concat[part.entry].array[part.index] : c \in Under[e, part.of]}
    [] OTHER                  -> {}

(* Merging objects: a member that the second defined with "=" overwrites    *)
(* that of the first, otherwise the two are added.  A member is left out    *)
(* of the result as implicit only if both are.                              *)
Merge(o, p) ==
  [name \in DOMAIN o \cup DOMAIN p |->
     IF name \notin DOMAIN p THEN o[name]
     ELSE IF name \notin DOMAIN o \/ p[name].remove THEN p[name]
     ELSE [remove     |-> o[name].remove,
           implicit   |-> o[name].implicit /\ p[name].implicit,
           temporary  |-> o[name].temporary \/ p[name].temporary,
           generation |-> p[name].generation,
           concat     |-> o[name].concat \o p[name].concat]]

(* A sum is a signed integer if one of its summands is. *)
Integer(e)  == IF e.kind = "signed" THEN e.signed ELSE e.unsigned
Modular(n)  == n % 2^Bits

Plus(e, f) ==
  IF e.kind # f.kind
  THEN IF {e.kind, f.kind} = {"signed", "unsigned"}
       THEN SignedEntry(ToSigned(Modular(Integer(e) + Integer(f))))
       ELSE Error
  ELSE CASE e.kind = "unsigned" -> UnsignedEntry(Modular(e.unsigned + f.unsigned))
         [] e.kind = "signed"   -> SignedEntry(ToSigned(Modular(e.signed + f.signed)))
         [] e.kind = "string"   -> StringEntry(e.string \o f.string)
         [] e.kind = "binary"   -> BinaryEntry(e.binary \o f.binary)
         [] e.kind = "array"    -> ArrayEntry(e.array \o f.array)
         [] e.kind = "object"   -> ObjectEntry(Merge(e.object, f.object))
         [] OTHER               -> Error

(* What is said of one member or element in two places, in this order. *)
Both(d, e) ==
  IF e.remove THEN [e EXCEPT !.temporary = @ \/ d.temporary]
  ELSE [d EXCEPT !.temporary = @ \/ e.temporary, !.concat = @ \o e.concat]

(* The summands with the asterisks among them spread over the others. *)
Spread(es) ==
  LET stars   == {i \in DOMAIN es : es[i].kind = "asterisk"}
      names   == UNION {DOMAIN es[i].object : i \in {j \in DOMAIN es : es[j].kind = "object"}}
      All(i)  == IF names = {} THEN <<>>
                 ELSE <<ObjectEntry([n \in names |-> es[i].asterisk])>>
      (* An element of the i-th summand with what all asterisks say of it. *)
      Element(i, d) ==
        LET said(S)  == SetToSortSeq(S, <)
            before   == FoldLeft(LAMBDA e, j : Both(e, es[j].asterisk), NewConcat,
                                 said({j \in stars : j < i}))
        IN  FoldLeft(LAMBDA e, j : Both(e, es[j].asterisk), Both(before, d),
                     said({j \in stars : j > i}))
      Elements(i) == IF es[i].kind # "array" THEN <<es[i]>> ELSE
                     <<ArrayEntry([k \in DOMAIN es[i].array |-> Element(i, es[i].array[k])])>>
  IN  IF stars = {} THEN es
      ELSE FlattenSeq([i \in DOMAIN es |-> IF i \in stars THEN All(i) ELSE Elements(i)])
-----------------------------------------------------------------------------
(* The meaning of a configuration: a tree and the names of the functions    *)
(* that the program added.  A path leads from the root to a concat; busy    *)
(* are the paths whose heads are being asked for: to ask again is a cycle.  *)

RECURSIVE HeadOf(_, _, _, _), HeadAt(_, _, _), Value(_, _, _, _), Anchor(_, _, _, _)

(* An error anywhere leaves the whole without a meaning. *)
Wrong[e \in Any] ==
  IsError(e) \/ \E c \in Below(e) : c.concat # <<>> /\ Wrong[c.concat[1]]

(* The parts of a reference that are references themselves come first. *)
Referred(conf, reference, path, busy) ==
  LET Inner[p \in Any] ==
        IF p.kind # "vector" THEN p ELSE
        LET e == Anchor(conf, Front(path), [i \in DOMAIN p.vector |-> Inner[p.vector[i]]], busy)
        IN  CASE e.kind = "string"   -> NamePart(e.string)
              [] e.kind = "unsigned" -> IndexPart(e.unsigned)
              [] OTHER               -> Error
  IN  Anchor(conf, Front(path), [i \in DOMAIN reference |-> Inner[reference[i]]], busy)

(* default is the first of its arguments that is not null, and does not ask *)
(* for those after it; print needs the whole of its argument.               *)
Called(conf, e, i, path, busy) ==
  LET f         == e.function
      place(k)  == Append(Front(path), ArgumentPart(Last(path), i, k))
      head(k)   == IF k \in DOMAIN e.array THEN HeadOf(conf, e.array[k], place(k), busy) ELSE Error
      text(k)   == text_of(head(k))
      printed   == Value(conf, head(1), place(1), busy)
      One(S)    == IF S = {} THEN Error ELSE CHOOSE v \in S : TRUE
      wanted    == FoldLeft(LAMBDA d, k : IF d = NullEntry THEN head(k) ELSE d,
                            NullEntry, [k \in DOMAIN e.array |-> k])
  IN  IF f = "parse" THEN One(UNION {Look(ConfigTexts, s) : s \in text(1)})
      ELSE IF f \in conf.added THEN One(UNION {Look(Extensions[f], s) : s \in text(1)})
      ELSE CASE f = "default"         -> IF wanted = NullEntry THEN Error ELSE wanted
             [] f = "print"           -> IF Len(e.array) # 1 \/ Wrong[printed] THEN Error
                                         ELSE StringEntry(Printed(printed))
             [] f = "env?"            -> One({env_if_function(s, d) : s \in text(1), d \in text(2)})
             [] f \in StringFunctions -> One(UNION {string_function(f, s) : s \in text(1)})
             [] OTHER                 -> Error

HeadOf(conf, c, path, busy) ==
  LET inside     == busy \cup {path}
      Summand(i) == LET e == c.concat[i]
                    IN  CASE e.kind = "reference" -> Referred(conf, e.reference, path, inside)
                          [] IsFunction(e)        -> Called(conf, e, i, path, inside)
                          [] OTHER                -> e
      summands   == Spread(FoldLeft(LAMBDA es, i : Append(es, Summand(i)), <<>>,
                                    [i \in DOMAIN c.concat |-> i]))
  IN  IF path \in busy THEN Error
      ELSE IF c.concat = <<>> \/ summands = <<>> THEN Nothing
      ELSE FoldLeft(Plus, Head(summands), Tail(summands))

HeadAt(conf, path, busy) ==
  IF path = <<>> THEN ObjectEntry(conf.root) ELSE
  LET above == HeadAt(conf, Front(path), busy)
      here  == Under[above, Last(path)]
  IN  IF here = {} THEN Error
      ELSE HeadOf(conf, CHOOSE c \in here : TRUE, path, busy)

Value(conf, e, path, busy) ==
  LET Whole(c, part) ==
        LET p == Append(path, part)
            v == Value(conf, HeadOf(conf, c, p, busy), p, busy)
        IN  [c EXCEPT !.concat = IF v = Nothing THEN <<>> ELSE <<v>>]
  IN  CASE e.kind = "array"  -> ArrayEntry([i \in DOMAIN e.array |->
                                              Whole(e.array[i], IndexPart(i - 1))])
        [] e.kind = "object" -> ObjectEntry([n \in DOMAIN e.object |->
                                              Whole(e.object[n], NamePart(n))])
        [] OTHER             -> e

(* Lookup: the innermost scope that has the first part of the reference is  *)
(* its anchor; there is no way back from it.                                *)
Anchor(conf, scope, parts, busy) ==
  LET e     == HeadAt(conf, scope, busy)
      path  == scope \o parts
      found == HeadAt(conf, path, busy)
  IN  IF IsError(e) \/ \E p \in ToSet(parts) : IsError(p) THEN Error
      ELSE IF Under[e, Head(parts)] # {}
      THEN IF found = Nothing THEN Error ELSE Value(conf, found, path, busy)
      ELSE IF scope = <<>> THEN Error
      ELSE Anchor(conf, Front(scope), parts, busy)

(* The result: entries in place of concats, each with the key that leads to *)
(* it, without what is temporary, implicit or deleted.                      *)
Final[e \in Any, key \in Any] ==
  LET kept(c)    == ~ c.implicit /\ ~ c.temporary /\ c.concat # <<>>
      of(c, part) == Final[c.concat[1], Append(key, part)]
  IN  [key |-> key] @@
      CASE e.kind = "array"  -> LET cs == SelectSeq(e.array, kept)
                                IN  ArrayEntry([i \in DOMAIN cs |-> of(cs[i], IndexPart(i - 1))])
        [] e.kind = "object" -> ObjectEntry([n \in {m \in DOMAIN e.object : kept(e.object[m])}
                                               |-> of(e.object[n], NamePart(n))])
        [] OTHER             -> e

Meaning(conf) ==
  LET v == Value(conf, ObjectEntry(conf.root), <<>>, {})
  IN  IF Wrong[v] THEN Error ELSE Final[v, <<>>]
=============================================================================
