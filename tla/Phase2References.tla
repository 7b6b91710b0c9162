-------------------------- MODULE Phase2References --------------------------
(***************************************************************************)
(* The pass that replaces references by copies of what they refer to, with *)
(* the lookup of phase2_access.hpp.                                        *)
(*                                                                         *)
(* References are replaced one after the other in the tree that the pass   *)
(* walks, so a later one sees what an earlier one became.  A replacement   *)
(* never holds a reference, so the places of the references can be listed  *)
(* before the first is replaced.  Those below an asterisk stay.            *)
(***************************************************************************)
EXTENDS Phase2Walk

(* The root object as a concat, so that a place begins like any other. *)
RootConcat(root) == [NewConcat EXCEPT !.concat = <<ObjectEntry(root)>>]

(* A place is the way to an entry: the number of an entry in its concat,    *)
(* and the member or element of that entry where the way goes on.           *)
Step(i, part) == [entry |-> i, part |-> part]

places[c \in Any] ==
  LET Through(i, part, d) == [k \in DOMAIN places[d] |-> <<Step(i, part)>> \o places[d][k]]
      Inside(i, e) ==
        CASE e.kind = "reference" -> << <<[entry |-> i]>> >>
          [] e.kind = "array"     -> FlattenSeq([j \in DOMAIN e.array |->
                                       Through(i, IndexPart(j - 1), e.array[j])])
          [] e.kind = "object"    -> FlattenSeq([j \in DOMAIN Names(e.object) |->
                                       Through(i, NamePart(Names(e.object)[j]),
                                               e.object[Names(e.object)[j]])])
          [] OTHER                -> <<>>
  IN  FlattenSeq([i \in DOMAIN c.concat |-> Inside(i, c.concat[i])])

prefix_of(place) == [i \in 1..Len(place) - 1 |-> place[i].part]

(* What an object or array holds under a name or index: at most one concat. *)
held(e, part) ==
  CASE part.kind = "name"  -> {e.object[n] : n \in DOMAIN e.object \cap {part.name}}
    [] part.kind = "index" -> {e.array[i] : i \in DOMAIN e.array \cap {part.index + 1}}

entry_at[c \in Any, place \in Any] ==
  LET e == c.concat[Head(place).entry]
  IN  IF Len(place) = 1 THEN e
      ELSE entry_at[CHOOSE d \in held(e, Head(place).part) : TRUE, Tail(place)]

with_entry_at[c \in Any, place \in Any, new \in Any] ==
  LET i    == Head(place).entry
      e    == c.concat[i]
      part == Head(place).part
      d    == with_entry_at[CHOOSE d \in held(e, part) : TRUE, Tail(place), new]
  IN  [c EXCEPT !.concat[i] =
         IF Len(place) = 1 THEN new
         ELSE IF part.kind = "name" THEN [e EXCEPT !.object[part.name] = d]
         ELSE [e EXCEPT !.array[part.index + 1] = d]]
-----------------------------------------------------------------------------
(* Lookup.  It finds a primitive concat, or finds nothing at this prefix    *)
(* ("missing"), or gives up for this iteration ("return"), or throws.       *)

Found(c)     == [found |-> "concat", concat |-> c]
NotFound(as) == [found |-> as]

(* Mutant: the first scope that has anything of that name ends the search. *)
AlwaysAnchored(down, otherwise) == NotFound(otherwise)

(* down tells how much of the prefix is still ahead: not negative means     *)
(* that the reference itself has not been anchored yet.                     *)
Unanchored(down, otherwise) == NotFound(IF down >= 0 THEN "missing" ELSE otherwise)

access_kind(e, part, down) ==
  CASE IsAtom(e)                                   -> NotFound("parse_error")
    [] part.kind = "name" /\ e.kind = "reference"  -> NotFound("return")
    [] part.kind = "index" /\ e.kind \in {"object", "reference"} -> NotFound("parse_error")
    [] OTHER                                       -> Unanchored(down, "parse_error")

phase2_access[c \in Any, suffix \in Any, down \in Int] ==
  IF suffix = <<>>
  THEN IF is_primitive[c] THEN Found(c) ELSE NotFound("return")
  ELSE IF c.concat = <<>> THEN Unanchored(down, "return")
  ELSE IF Len(c.concat) > 1 THEN NotFound("return")
  ELSE
  LET part    == Head(suffix)
      e       == c.concat[1]
      fitting == e.kind = IF part.kind = "name" THEN "object" ELSE "array"
      below   == IF fitting THEN held(e, part) ELSE {}
  IN  IF below = {} THEN access_kind(e, part, down)
      ELSE phase2_access[CHOOSE d \in below : TRUE, Tail(suffix), down - 1]

(* From the innermost scope outwards, and no further than the first that    *)
(* does not just miss.  The path has to begin with a name.                  *)
access_from[root \in Any, prefix \in Any, suffix \in Any] ==
  LET path    == prefix \o suffix
      name    == Head(path).name
      here    == IF name \notin DOMAIN root THEN NotFound("missing")
                 ELSE phase2_access[root[name], Tail(path), Len(prefix) - 1]
  IN  IF Head(path).kind # "name" THEN NotFound("assert")
      ELSE IF here.found # "missing" \/ prefix = <<>> THEN here
      ELSE access_from[root, Front(prefix), suffix]
-----------------------------------------------------------------------------
(* A part that is a reference itself stands for the string or the unsigned  *)
(* integer it refers to.  The first part that cannot be had ends the rest.  *)

inner_part(r) ==
  IF r.found # "concat" THEN NotFound(r.found) ELSE
  IF Len(r.concat.concat) # 1 THEN NotFound("return") ELSE
  LET e == Back(r.concat)
  IN  CASE e.kind = "string"   -> [found |-> "part", part |-> NamePart(e.string)]
        [] e.kind = "unsigned" -> [found |-> "part", part |-> IndexPart(e.unsigned)]
        [] OTHER               -> NotFound("parse_error")

process_reference_parts[root \in Any, prefix \in Any, reference \in Any] ==
  LET Part(p) == IF p.kind = "vector"
                 THEN inner_part(process_reference_parts[root, prefix, p.vector])
                 ELSE [found |-> "part", part |-> p]
      parts   == [i \in DOMAIN reference |-> Part(reference[i])]
      failing == SelectSeq(parts, LAMBDA p : p.found # "part")
      suffix  == [i \in DOMAIN parts |-> parts[i].part]
  IN  IF failing # <<>> THEN Head(failing)
      ELSE access_from[root, Front(prefix), suffix]

(* A deleted value is found, but nothing can be copied from it. *)
process_reference(c, place) ==
  LET e == entry_at[c, place]
      r == process_reference_parts[Back(c).object, prefix_of(place), e.reference]
  IN  CASE r.found \in {"parse_error", "assert"} -> Failed(c, r.found)
        [] r.found = "concat" /\ r.concat.concat # <<>>
             -> Changed(with_entry_at[c, place, Head(r.concat.concat)])
        [] OTHER -> Walked(c)

phase2_references(root) ==
  LET c          == RootConcat(root)
      Next(r, p) == Then(r, LAMBDA d : process_reference(d, p))
      done       == FoldLeft(Next, Walked(c), places[c])
  IN  [done EXCEPT !.val = Back(@).object]
=============================================================================
