-------------------------- MODULE Phase2Asterisks ---------------------------
(***************************************************************************)
(* The pass that expands asterisks.  What was said of every member of a    *)
(* concat is handed to the elements of the arrays beside it and becomes an *)
(* object with the names of the objects beside it.  The pass goes below an *)
(* array or object only where that stands alone.                           *)
(***************************************************************************)
EXTENDS Phase2Walk

(* An array before the asterisk: what is said of all comes last. *)
process_array_and_asterisk(a, s) ==
  [i \in DOMAIN a |->
     [a[i] EXCEPT !.remove = @ \/ s.remove,
                  !.temporary = @ \/ s.temporary,
                  !.concat = (IF s.remove THEN <<>> ELSE @) \o s.concat]]

(* An array after the asterisk: elements that were assigned to later stay. *)
process_asterisk_and_array(s, a) ==
  [i \in DOMAIN a |->
     IF a[i].remove THEN a[i] ELSE
     [a[i] EXCEPT !.remove = s.remove,
                  !.temporary = @ \/ s.temporary,
                  !.concat = s.concat \o @]]

beside_asterisk(e, j, i, star) ==
  IF e.kind # "array" THEN e
  ELSE [e EXCEPT !.array = IF j < i THEN process_array_and_asterisk(@, star)
                           ELSE process_asterisk_and_array(star, @)]

(* Functions beside the asterisk are an error.  By the time of the first    *)
(* one the arrays before it have been extended and the asterisk is empty:   *)
(* its concat was moved out of it.                                          *)
process_asterisk(c, i) ==
  LET star   == c.concat[i].asterisk
      calls  == {j \in DOMAIN c.concat : IsFunction(c.concat[j])}
      names  == UNION {DOMAIN e.object : e \in {f \in ToSet(c.concat) : f.kind = "object"}}
      beside == [j \in DOMAIN c.concat |->
                   IF \E k \in calls : k <= j THEN c.concat[j]
                   ELSE beside_asterisk(c.concat[j], j, i, star)]
      star_object == ObjectEntry([name \in names |-> star])
      moved_from  == AsteriskEntry([star EXCEPT !.concat = <<>>])
  IN  IF calls # {} THEN Failed([c EXCEPT !.concat = [beside EXCEPT ![i] = moved_from]], "parse_error")
      ELSE Changed([c EXCEPT !.concat = IF names = {} THEN RemoveAt(beside, i)
                                        ELSE [beside EXCEPT ![i] = star_object]])

(* From the i-th entry of a concat on; an erased entry moves up the next. *)
asterisks_from[c \in Any, i \in Nat] ==
  IF i > Len(c.concat) THEN Walked(c) ELSE
  LET e       == c.concat[i]
      Rest(d) == asterisks_from[d, IF Len(d.concat) < Len(c.concat) THEN i ELSE i + 1]
      inside  == VisitBelow(LAMBDA d : asterisks_from[d, 1], e)
  IN  Then(IF e.kind = "asterisk" THEN process_asterisk(c, i)
           ELSE IF Len(c.concat) = 1 THEN [inside EXCEPT !.val = [c EXCEPT !.concat = <<inside.val>>]]
           ELSE Walked(c),
           Rest)

phase2_asterisks(root) == VisitMembers(LAMBDA c : asterisks_from[c, 1], root)
=============================================================================
