----------------------------- MODULE ConfigTree -----------------------------
(***************************************************************************)
(* The intermediate tree every phase of the configuration parser works on: *)
(*                                                                         *)
(*   object   a map from member names to concats                           *)
(*   concat   what one name or one array element stands for, the list of   *)
(*            the summands of a value list that are still to be added up,  *)
(*            with the flags that phases 1 to 3 keep beside it             *)
(*   entry    one summand: an atom, an array (a function call when its     *)
(*            function name is not empty), an object, an asterisk (a       *)
(*            concat for every member) or a reference                      *)
(*                                                                         *)
(* Names and string values are strings; binary data is a string too, under *)
(* another kind.  Source positions are left out.  Recursion over the tree  *)
(* is written with recursive functions on Any.                             *)
(***************************************************************************)
EXTENDS Integers, Sequences, SequencesExt, TLC

-----------------------------------------------------------------------------
(* Entries. *)

AtomKinds == {"null", "boolean", "string", "binary", "signed", "unsigned", "double"}

NullEntry           == [kind |-> "null"]
BooleanEntry(b)     == [kind |-> "boolean", boolean |-> b]
StringEntry(s)      == [kind |-> "string", string |-> s]
BinaryEntry(s)      == [kind |-> "binary", binary |-> s]
SignedEntry(i)      == [kind |-> "signed", signed |-> i]
UnsignedEntry(n)    == [kind |-> "unsigned", unsigned |-> n]
DoubleEntry(d)      == [kind |-> "double", double |-> d]
ArrayEntry(a)       == [kind |-> "array", function |-> "", array |-> a]
FunctionEntry(f, a) == [kind |-> "array", function |-> f, array |-> a]
ObjectEntry(o)      == [kind |-> "object", object |-> o]
AsteriskEntry(c)    == [kind |-> "asterisk", asterisk |-> c]
ReferenceEntry(r)   == [kind |-> "reference", reference |-> r]

IsAtom(e)     == e.kind \in AtomKinds
IsFunction(e) == e.kind = "array" /\ e.function # ""

-----------------------------------------------------------------------------
(* Concats. *)

NewConcat ==
  [remove |-> FALSE, implicit |-> FALSE, temporary |-> FALSE,
   generation |-> 0, concat |-> <<>>]

EmptyObject == [name \in {} |-> NewConcat]

(* Mutant: what is empty is not left out. *)
omit_not_empty(c) == c.implicit \/ c.temporary

omit_from_final_result(c) == c.implicit \/ c.temporary \/ c.concat = <<>>

(* The last entry of a concat, and the concat with it replaced. *)
Back(c) == Last(c.concat)
ReplaceBack(c, e) == [c EXCEPT !.concat = Append(Front(c.concat), e)]

(* Mutant: always a new entry. *)
back_init_always(c, e) == [c EXCEPT !.concat = Append(c.concat, e)]

(* A new entry of the kind of e unless the last entry has that kind already. *)
back_ensure_init(c, e) ==
  IF c.concat # <<>> /\ Back(c).kind = e.kind
  THEN c
  ELSE [c EXCEPT !.concat = Append(c.concat, e)]

back_emplace_func(c, name) ==
  LET d == back_ensure_init(c, ArrayEntry(<<>>))
  IN  ReplaceBack(d, [Back(d) EXCEPT !.function = name])

-----------------------------------------------------------------------------
(* The parts of a key: in the keys a file writes (name, index, asterisk) and *)
(* in the paths phase 1 and phase 2 make of them.                            *)

NamePart(n)   == [kind |-> "name", name |-> n]
IndexPart(i)  == [kind |-> "index", index |-> i]
AsteriskPart  == [kind |-> "asterisk"]
AppendPart(g) == [kind |-> "append", generation |-> g]

KeyPart  == [kind : {"name"}, name : STRING] \cup [kind : {"index"}, index : Nat]
              \cup [kind : {"asterisk"}]
PathPart == KeyPart \cup [kind : {"append"}, generation : Nat \ {0}]

(* The parts of a reference: a name, an index or a reference in brackets. *)
VectorPart(v) == [kind |-> "vector", vector |-> v]

-----------------------------------------------------------------------------
(* The concats directly below an entry, as a set. *)
Below(e) ==
  CASE e.kind = "array"    -> ToSet(e.array)
    [] e.kind = "object"   -> {e.object[n] : n \in DOMAIN e.object}
    [] e.kind = "asterisk" -> {e.asterisk}
    [] OTHER               -> {}

(* Mutant: two summands are no addition. *)
more_than_two(c) == Len(c.concat) > 2

is_addition(c) == Len(c.concat) > 1

(* statistics( c ).is_primitive(): no function, addition, asterisk or        *)
(* reference anywhere in c.                                                  *)
is_primitive[c \in Any] ==
  /\ ~ is_addition(c)
  /\ \A i \in DOMAIN c.concat :
       LET e == c.concat[i]
       IN  /\ ~ IsFunction(e)
           /\ e.kind \notin {"asterisk", "reference"}
           /\ \A d \in Below(e) : is_primitive[d]

(* What the conversion of phase 5 asserts of c. *)
has_single_entries[c \in Any] ==
  /\ Len(c.concat) = 1
  /\ \A d \in Below(Back(c)) : has_single_entries[d]
=============================================================================
