----------------------------- MODULE JaxnToEntry -----------------------------
(***************************************************************************)
(* How a JAXN text becomes an entry.  The grammar of the JSON library      *)
(* matches one rule after the other; an action hands what a rule matched   *)
(* to a consumer that keeps a stack of the arrays and objects that are     *)
(* open, the keys whose values are still to come, and the last value.      *)
(*                                                                         *)
(* A reader is the consumer together with the number_state of the number   *)
(* that is being read, and an error as in Phase2Walk.                      *)
(***************************************************************************)
EXTENDS JaxnNumber

NewReader == [stack |-> <<>>, keys |-> <<>>, value |-> {}, number |-> {}, error |-> "none"]

Thrown(r) == [r EXCEPT !.error = "parse_error"]

(* What a matched rule of the text says; the actions below say what follows *)
(* from it.                                                                 *)
Matched(rule)          == [rule |-> rule]
AtomRule(e)            == [rule |-> "atom", entry |-> e]
KeyRule(name)          == [rule |-> "key", key |-> name]
SignRule(rule, minus)  == [rule |-> rule, minus |-> minus]
DigitsRule(rule, ds)   == [rule |-> rule, digits |-> ds]
HexRule(minus, ds)     == [rule |-> "hexnum", minus |-> minus, digits |-> ds]
-----------------------------------------------------------------------------
(* The consumer. *)

begin_array(r)  == [r EXCEPT !.stack = Append(@, ArrayEntry(<<>>))]
begin_object(r) == [r EXCEPT !.stack = Append(@, ObjectEntry(EmptyObject))]

(* The value that was read last.  What element and member leave in its      *)
(* place is a value that was moved from.                                    *)
LastValue(r) == CHOOSE e \in r.value : TRUE
Moved        == [kind |-> "moved"]

element(r) ==
  LET new == [NewConcat EXCEPT !.remove = TRUE, !.concat = <<LastValue(r)>>]
  IN  [r EXCEPT !.stack = Append(Front(@), [Last(@) EXCEPT !.array = Append(@, new)]),
                !.value = {Moved}]

(* Mutant: the key stays for the next member. *)
member_keeping_key(r) ==
  LET o == Last(r.stack).object
      k == Last(r.keys)
      old == IF k \in DOMAIN o THEN o[k] ELSE NewConcat
      new == [old EXCEPT !.remove = TRUE, !.concat = Append(@, LastValue(r))]
  IN  [r EXCEPT !.stack = Append(Front(@), ObjectEntry((k :> new) @@ o)), !.value = {Moved}]

(* A key that the object has already gets another summand. *)
member(r) ==
  LET o   == Last(r.stack).object
      k   == Last(r.keys)
      old == IF k \in DOMAIN o THEN o[k] ELSE NewConcat
      new == [old EXCEPT !.remove = TRUE, !.concat = Append(@, LastValue(r))]
  IN  [r EXCEPT !.stack = Append(Front(@), ObjectEntry((k :> new) @@ o)),
                !.keys = Front(@), !.value = {Moved}]

(* end_array and end_object. *)
end(r) == [r EXCEPT !.value = {Last(r.stack)}, !.stack = Front(@)]
-----------------------------------------------------------------------------
(* The actions.  A number has a state of its own between its first and its  *)
(* last piece; at other times there is none.                                *)

with_digits(r, ev) ==
  CASE ev.rule = "idigits" -> IF TooManyDigits(ev.digits) THEN Thrown(r)
                              ELSE [r EXCEPT !.number = {idigits(s, ev.digits) : s \in @}]
    [] ev.rule = "fdigits" -> [r EXCEPT !.number = {fdigits(s, ev.digits) : s \in @}]
    [] ev.rule = "edigits" -> IF ExponentTooLong(ev.digits) THEN Thrown(r)
                              ELSE [r EXCEPT !.number = {edigits(s, ev.digits) : s \in @}]

with_hexnum(r, ev) ==
  LET number == hexnum(ev.minus, ev.digits)
  IN  IF number = {} THEN Thrown(r) ELSE [r EXCEPT !.value = number]

jaxn_action(r, ev) ==
  IF r.error # "none" THEN r ELSE
  CASE ev.rule = "atom"         -> [r EXCEPT !.value = {ev.entry}]
    [] ev.rule = "hexnum"       -> with_hexnum(r, ev)
    [] ev.rule = "number"       -> [r EXCEPT !.number = {number_state(ev.minus)}]
    [] ev.rule = "esign"        -> [r EXCEPT !.number = {esign(s, ev.minus) : s \in @}]
    [] ev.rule \in {"idigits", "fdigits", "edigits"} -> with_digits(r, ev)
    [] ev.rule = "end number"   -> [r EXCEPT !.value = UNION {success(s) : s \in r.number}, !.number = {}]
    [] ev.rule = "begin array"  -> begin_array(r)
    [] ev.rule = "element"      -> element(r)
    [] ev.rule = "begin object" -> begin_object(r)
    [] ev.rule = "key"          -> [r EXCEPT !.keys = Append(@, ev.key)]
    [] ev.rule = "member"       -> member(r)
    [] ev.rule \in {"end array", "end object"} -> end(r)

(* All actions of a text, for the function jaxn: at most one entry. *)
jaxn_entry(text) ==
  LET r == FoldLeft(jaxn_action, NewReader, text)
  IN  IF r.error = "none" THEN r.value ELSE {}
=============================================================================
