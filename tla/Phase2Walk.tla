----------------------------- MODULE Phase2Walk -----------------------------
(***************************************************************************)
(* What the passes of phase 2 have in common: each walks the tree once,    *)
(* members in the order of their names, counts what it changed and stops   *)
(* at the first exception or failed assertion.                             *)
(*                                                                         *)
(* A walk returns the changed value, the number of changes, and an error:  *)
(* "none", "parse_error" for an exception that reaches the caller of the   *)
(* parser, "assert" for a failed assertion, "undefined" for an overflow of *)
(* signed arithmetic.                                                      *)
(***************************************************************************)
EXTENDS ConfigTree

CONSTANT NameOrder   \* all names of an instance in the order of std::map

ASSUME NameOrderAssumption ==
  NameOrder \in Seq(STRING) /\ \A i, j \in DOMAIN NameOrder : NameOrder[i] = NameOrder[j] => i = j

Walked(v)        == [val |-> v, changes |-> 0, error |-> "none"]
Changed(v)       == [val |-> v, changes |-> 1, error |-> "none"]
Failed(v, error) == [val |-> v, changes |-> 0, error |-> error]

Names(o) == SelectSeq(NameOrder, LAMBDA name : name \in DOMAIN o)

(* Visit the elements of a sequence from left to right. *)
VisitSeq(Visit(_), xs) ==
  LET Next(walk, x) ==
        IF walk.error # "none" THEN [walk EXCEPT !.val = Append(@, x)] ELSE
        LET r == Visit(x)
        IN  [val     |-> Append(walk.val, r.val),
             changes |-> walk.changes + r.changes,
             error   |-> r.error]
  IN  FoldLeft(Next, Walked(<<>>), xs)

(* Visit the members of an object in the order of their names. *)
VisitMembers(Visit(_), o) ==
  LET names == Names(o)
      r     == VisitSeq(Visit, [i \in DOMAIN names |-> o[names[i]]])
  IN  [r EXCEPT !.val = [name \in DOMAIN o |->
                           r.val[CHOOSE i \in DOMAIN names : names[i] = name]]]

(* Visit what is directly below an array or an object entry. *)
VisitBelow(Visit(_), e) ==
  CASE e.kind = "array"  -> LET r == VisitSeq(Visit, e.array)
                            IN  [r EXCEPT !.val = [e EXCEPT !.array = r.val]]
    [] e.kind = "object" -> LET r == VisitMembers(Visit, e.object)
                            IN  [r EXCEPT !.val = ObjectEntry(r.val)]
    [] OTHER             -> Walked(e)

VisitEntries(Visit(_), c) ==
  LET r == VisitSeq(Visit, c.concat)
  IN  [r EXCEPT !.val = [c EXCEPT !.concat = r.val]]

(* A second step on what a first one returned. *)
Then(r, Second(_)) ==
  IF r.error # "none" THEN r ELSE
  LET s == Second(r.val) IN [s EXCEPT !.changes = @ + r.changes]
=============================================================================
