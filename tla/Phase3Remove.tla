---------------------------- MODULE Phase3Remove ----------------------------
(***************************************************************************)
(* The last two phases.  phase3_remove rejects a tree in which a function, *)
(* an asterisk or a reference is left, and drops what is not part of the   *)
(* result.  phase5_repack makes the result of the rest: entries whose      *)
(* elements and members are entries again, in place of concats, each with  *)
(* the key that leads to it.                                               *)
(***************************************************************************)
EXTENDS Phase2Walk

(* What stands for an element or member until it is erased. *)
Erased == [erased |-> TRUE]

without_erased(e) ==
  CASE e.kind = "array"  -> [e EXCEPT !.array = SelectSeq(@, LAMBDA c : c # Erased)]
    [] e.kind = "object" -> ObjectEntry([name \in {n \in DOMAIN e.object : e.object[n] # Erased}
                                           |-> e.object[name]])
    [] OTHER             -> e

(* One element or member after the other: what comes after one that throws  *)
(* is neither visited nor erased.                                           *)
remove_concat[c \in Any] ==
  LET Visit(e) == IF IsFunction(e) \/ e.kind \in {"asterisk", "reference"}
                  THEN Failed(e, "parse_error")
                  ELSE LET r == VisitBelow(LAMBDA d : remove_concat[d], e)
                       IN  [r EXCEPT !.val = without_erased(@)]
      r        == VisitEntries(Visit, c)
  IN  IF r.error = "none" /\ omit_from_final_result(r.val) THEN Walked(Erased) ELSE r

phase3_remove(root) ==
  LET r == VisitMembers(LAMBDA c : remove_concat[c], root)
  IN  [r EXCEPT !.val = without_erased(ObjectEntry(@)).object]

(* Mutant: elements are counted from one. *)
element_key_from_one(k, i) == Append(k, IndexPart(i))

element_key(k, i) == Append(k, IndexPart(i - 1))

(* The value of an entry, with the key k that leads to it in the result. *)
value_of[e \in Any, k \in Any] ==
  LET Of(c, key) == value_of[Back(c), key]
  IN  [key |-> k] @@
      CASE e.kind = "array"  -> [e EXCEPT !.array = [i \in DOMAIN @ |-> Of(@[i], element_key(k, i))]]
        [] e.kind = "object" -> [e EXCEPT !.object = [n \in DOMAIN @ |-> Of(@[n], Append(k, NamePart(n)))]]
        [] OTHER             -> e

(* It asserts that every concat has exactly one entry. *)
phase5_repack(root) ==
  IF \A name \in DOMAIN root : has_single_entries[root[name]]
  THEN Walked(value_of[ObjectEntry(root), <<>>])
  ELSE Failed(ObjectEntry(root), "assert")
=============================================================================
