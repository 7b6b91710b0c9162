---------------------------- MODULE Phase1Append ----------------------------
(***************************************************************************)
(* phase1_append: walk from the root object along a path of key parts,     *)
(* creating what is missing on the way, and apply one change at its end.   *)
(*                                                                         *)
(* Every operator returns the changed value together with an error: when   *)
(* the walk throws half way, what it created or marked before stays, since *)
(* the code modifies the tree in place and never rolls back.               *)
(***************************************************************************)
EXTENDS ConfigTree

CONSTANT global_nesting_limit

ASSUME NestingAssumption == global_nesting_limit \in Nat \ {0}

Returned(v) == [val |-> v, error |-> "none"]
Thrown(v)   == [val |-> v, error |-> "parse_error"]
Asserted(v) == [val |-> v, error |-> "assert"]

(* The changes the grammar actions pass to phase1_append. *)
Clear        == [thing |-> "clear"]
Emplace(e)   == [thing |-> "emplace", entry |-> e]
Ensure(e)    == [thing |-> "ensure", entry |-> e]
Function(f)  == [thing |-> "function", function |-> f]
Temporary(b) == [thing |-> "temporary", temporary |-> b]

(* Mutant: a new entry replaces those before it. *)
ApplyReplacing(thing, c) ==
  CASE thing.thing = "clear"     -> [c EXCEPT !.concat = <<>>, !.remove = TRUE]
    [] thing.thing = "emplace"   -> [c EXCEPT !.concat = <<thing.entry>>]
    [] thing.thing = "ensure"    -> back_ensure_init(c, thing.entry)
    [] thing.thing = "function"  -> back_emplace_func(c, thing.function)
    [] thing.thing = "temporary" -> [c EXCEPT !.temporary = thing.temporary]

Apply(thing, c) ==
  CASE thing.thing = "clear"     -> [c EXCEPT !.concat = <<>>, !.remove = TRUE]
    [] thing.thing = "emplace"   -> [c EXCEPT !.concat = Append(@, thing.entry)]
    [] thing.thing = "ensure"    -> back_ensure_init(c, thing.entry)
    [] thing.thing = "function"  -> back_emplace_func(c, thing.function)
    [] thing.thing = "temporary" -> [c EXCEPT !.temporary = thing.temporary]

-----------------------------------------------------------------------------
(* The four kinds of key part: each returns the concat (or object) with the *)
(* place for the rest of the path made ready in it.                         *)

(* Mutant: a value below an implicit member leaves it implicit. *)
stays_implicit(fresh, implicit, mode) ==
  IF fresh THEN mode = "implicit" ELSE implicit

(* A member stays implicit only as long as nothing but implicit changes go  *)
(* through it.                                                              *)
is_implicit(fresh, implicit, mode) == mode = "implicit" /\ (fresh \/ implicit)

append_member(o, name, mode) ==
  LET fresh == name \notin DOMAIN o
      m     == IF fresh THEN NewConcat ELSE o[name]
      made  == [m EXCEPT !.implicit = is_implicit(fresh, @, mode)]
  IN  [n \in DOMAIN o \cup {name} |-> IF n = name THEN made ELSE o[n]]

phase1_append_name(c, name, mode) ==
  LET d == back_ensure_init(c, ObjectEntry(EmptyObject))
  IN  Returned(ReplaceBack(d, ObjectEntry(append_member(Back(d).object, name, mode))))

phase1_append_asterisk(c) == Returned(back_ensure_init(c, AsteriskEntry(NewConcat)))

(* An index counts through the elements of all arrays of the concat, those  *)
(* of function calls included, and cannot pass an entry of another kind.    *)
elements_before(c, i) ==
  LET size(e) == IF e.kind = "array" THEN Len(e.array) ELSE 0
      first[j \in 0..Len(c.concat)] == IF j = 0 THEN 0 ELSE first[j - 1] + size(c.concat[j])
  IN  first[i - 1]

index_stops(c, index) ==
  {i \in DOMAIN c.concat :
     \/ c.concat[i].kind # "array"
     \/ elements_before(c, i) + Len(c.concat[i].array) > index}

phase1_append_index(c, index) ==
  LET stops == index_stops(c, index)
  IN  IF stops = {} \/ c.concat[Min(stops)].kind # "array" THEN Thrown(c) ELSE Returned(c)

(* Mutant: the generation that c has seen last counts as new. *)
is_same_or_new(c, g) == g >= c.generation

is_new_generation(c, g) == g > c.generation

(* A new element for a generation that c has not seen, else the last one. *)
append_element(c, g) ==
  LET a == Back(c).array
  IN  CASE is_new_generation(c, g) ->
             Returned(ReplaceBack([c EXCEPT !.generation = g],
                                  [Back(c) EXCEPT !.array = Append(a, NewConcat)]))
        [] OTHER -> IF a = <<>> THEN Asserted(c) ELSE Returned(c)

(* Mutant: always in a new array. *)
append_in_new_array(c, g) == append_element(back_init_always(c, ArrayEntry(<<>>)), g)

phase1_append_append(c, g) == append_element(back_ensure_init(c, ArrayEntry(<<>>)), g)

append_part(c, part, mode) ==
  CASE part.kind = "asterisk" -> phase1_append_asterisk(c)
    [] part.kind = "name"     -> phase1_append_name(c, part.name, mode)
    [] part.kind = "index"    -> phase1_append_index(c, part.index)
    [] part.kind = "append"   -> phase1_append_append(c, part.generation)
-----------------------------------------------------------------------------
(* The concat at a part that is there, and c with another one in its place. *)

at_part(c, part) ==
  LET i == Min(index_stops(c, part.index))
  IN  CASE part.kind = "asterisk" -> Back(c).asterisk
        [] part.kind = "name"     -> Back(c).object[part.name]
        [] part.kind = "index"    -> c.concat[i].array[part.index - elements_before(c, i) + 1]
        [] part.kind = "append"   -> Last(Back(c).array)

with_part(c, part, d) ==
  LET i == Min(index_stops(c, part.index))
      n == part.index - elements_before(c, i) + 1
  IN  CASE part.kind = "asterisk" -> ReplaceBack(c, AsteriskEntry(d))
        [] part.kind = "name"     -> ReplaceBack(c, [Back(c) EXCEPT !.object[part.name] = d])
        [] part.kind = "index"    -> [c EXCEPT !.concat[i].array[n] = d]
        [] part.kind = "append"   -> ReplaceBack(c, [Back(c) EXCEPT !.array = Append(Front(@), d)])
-----------------------------------------------------------------------------
(* The walk below a concat, and from the root, which takes only names. *)

(* What i parts of the path lead to: made ready for the next part, changed  *)
(* at the end, and nothing more from where a part throws.                   *)
walk(concat, path, thing, mode) ==
  LET n == Len(path)
      step(c, i) == IF i = n THEN Returned(Apply(thing, c)) ELSE append_part(c, path[i + 1], mode)
      made[i \in 0..n] ==
        IF i = 0 THEN step(concat, 0)
        ELSE LET above == made[i - 1]
             IN  IF above.error # "none" THEN above ELSE step(at_part(above.val, path[i]), i)
  IN  made

(* The concats on the walk, the last one first, with what became of those   *)
(* below them.                                                              *)
walked_back(made, path) ==
  LET n == Len(path)
      changed[j \in 0..n] ==
        LET here == made[n - j]
        IN  IF j = 0 \/ here.error # "none" THEN here.val
            ELSE with_part(here.val, path[n - j + 1], changed[j - 1])
  IN  changed

phase1_append_concat(concat, path, thing, mode) ==
  LET made == walk(concat, path, thing, mode)
  IN  [val |-> walked_back(made, path)[Len(path)], error |-> made[Len(path)].error]

(* Mutant: one level more than the limit. *)
one_too_deep(path) == Len(path) > global_nesting_limit + 1

too_deep(path) == Len(path) > global_nesting_limit

(* The root is an object like those in concats: its members are made in the *)
(* same way.                                                                *)
root_concat(root) == [NewConcat EXCEPT !.concat = <<ObjectEntry(root)>>]

phase1_append(root, path, thing, mode) ==
  LET r == phase1_append_concat(root_concat(root), path, thing, mode)
  IN  IF too_deep(path) \/ Head(path).kind # "name"
      THEN Thrown(root)
      ELSE [r EXCEPT !.val = Back(@).object]
=============================================================================
