-------------------------- MODULE Phase2Functions ---------------------------
(***************************************************************************)
(* The pass that calls functions: phase2_functions, the wrappers that hand *)
(* functions their arguments, and the two functions that look at their     *)
(* arguments themselves.  Arguments are visited before the call they       *)
(* belong to; nothing below an asterisk is called.                         *)
(***************************************************************************)
EXTENDS Phase2Walk, ConfigFunctions

CONSTANT ArgumentOrder   \* the order in which a call evaluates two arguments

ASSUME ArgumentAssumption == ArgumentOrder \in {<<1, 2>>, <<2, 1>>}

(* The i-th argument as a string: function_traits< std::string >::get. *)
string_argument(e, i) ==
  IF Len(e.array) < i \/ e.array[i].concat = <<>> THEN [error |-> "assert"] ELSE
  LET text == text_of(e.array[i].concat[1])
  IN  IF Len(e.array[i].concat) # 1 THEN [error |-> "unready"]
      ELSE IF text = {} THEN [error |-> "parse_error"]
      ELSE [error |-> "none", string |-> CHOOSE s \in text : TRUE]

(* The first of the arguments, in the order of evaluation, that throws. *)
arguments_error(e, order) ==
  LET failing == SelectSeq(order, LAMBDA i : string_argument(e, i).error # "none")
  IN  IF failing = <<>> THEN "none" ELSE string_argument(e, Head(failing)).error

(* Mutant: a call that is left as it is counts as changed. *)
wrap_counting(e, order, Result) ==
  LET error == arguments_error(e, order)
  IN  IF error = "unready" THEN Changed(e)
      ELSE IF error # "none" THEN Failed(e, error)
      ELSE IF Result = {} THEN Failed(e, "parse_error")
      ELSE Changed(CHOOSE f \in Result : TRUE)

(* The wrapper of a function with string arguments: unready arguments leave *)
(* the call as it is, to be tried again in the next iteration.              *)
wrap(e, order, Result) ==
  LET error == arguments_error(e, order)
  IN  IF error = "unready" THEN Walked(e)
      ELSE IF error # "none" THEN Failed(e, error)
      ELSE IF Result = {} THEN Failed(e, "parse_error")
      ELSE Changed(CHOOSE f \in Result : TRUE)

(* default: the first argument that is not null, once all before it are.    *)
(* An argument that is still a reference, a call, an asterisk, an addition  *)
(* or empty stops the search.                                               *)
default_function(e) ==
  LET ready(c)   == /\ Len(c.concat) = 1
                    /\ ~ IsFunction(Back(c))
                    /\ Back(c).kind \notin {"asterisk", "reference"}
      stops      == {i \in DOMAIN e.array : ~ ready(e.array[i]) \/ Back(e.array[i]).kind # "null"}
      i          == Min(stops)
  IN  IF stops = {} THEN Failed(e, "parse_error")
      ELSE IF ready(e.array[i]) THEN Changed(Back(e.array[i])) ELSE Walked(e)

(* print: its one argument as text, once it is primitive.  The conversion   *)
(* is that of phase 5 and asserts that no concat in it is empty.            *)
print_function(e) ==
  IF Len(e.array) # 1 THEN Failed(e, "parse_error")
  ELSE IF ~ is_primitive[e.array[1]] THEN Walked(e)
  ELSE IF ~ has_single_entries[e.array[1]] THEN Failed(e, "assert")
  ELSE Changed(StringEntry(Printed(Back(e.array[1]))))

(* What a string function is called with, once the wrapper has it. *)
Argument(e, i) == string_argument(e, i).string

(* parse counts as a change even when its argument was not ready. *)
process_parse_function(e) == [wrap(e, <<1>>, Look(ConfigTexts, Argument(e, 1))) EXCEPT !.changes = 1]

(* The map of functions holds those that the program added in place of a    *)
(* built-in one of that name; parse is not looked up in it.                 *)
process_function(e, added) ==
  LET f == e.function
  IN  IF f = "parse" THEN process_parse_function(e)
      ELSE IF f \in added THEN wrap(e, <<1>>, Look(Extensions[f], Argument(e, 1)))
      ELSE CASE f = "default"         -> default_function(e)
             [] f = "print"           -> print_function(e)
             [] f = "env?"            -> wrap(e, ArgumentOrder, {env_if_function(Argument(e, 1), Argument(e, 2))})
             [] f \in StringFunctions -> wrap(e, <<1>>, string_function(f, Argument(e, 1)))
             [] OTHER                 -> Failed(e, "parse_error")

functions_concat[c \in Any, added \in Any] ==
  LET Call(e)  == IF IsFunction(e) THEN process_function(e, added) ELSE Walked(e)
      Visit(e) == Then(VisitBelow(LAMBDA d : functions_concat[d, added], e), Call)
  IN  VisitEntries(Visit, c)

phase2_functions(root, added) == VisitMembers(LAMBDA c : functions_concat[c, added], root)
=============================================================================
