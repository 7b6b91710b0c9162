------------------------------- MODULE Phase1 -------------------------------
(***************************************************************************)
(* Phase 1 of the configuration parser: the grammar of config_grammar.hpp  *)
(* and the actions of config_action.hpp attached to it, as a machine that  *)
(* takes one grammar event per step.  What the events say (which keys,     *)
(* atoms, references and functions a file holds) is chosen from constant   *)
(* sets, so a behaviour is one possible sequence of files given to one     *)
(* parser object.                                                          *)
(*                                                                         *)
(* The parser keeps one prefix and one suffix for all the scopes that are  *)
(* open at a time.  An open rule that holds a key1_guard remembers only    *)
(* the size the prefix had on entry; closing the rule, or unwinding it     *)
(* after an exception, rebuilds the outer prefix and suffix from that.     *)
(***************************************************************************)
EXTENDS Phase1Append

CONSTANTS
  Keys,        \* the keys that files write, sequences of key parts
  Atoms,       \* the entries of the literal values that files write
  References,  \* the reference entries that files write
  Functions,   \* the function names that files write
  MaxTokens    \* bound: members, value parts and files in one behaviour

ASSUME KeysAssumption  == Keys \subseteq Seq(KeyPart) \ {<<>>}
ASSUME EntriesAssumption == /\ \A e \in Atoms : IsAtom(e)
                            /\ \A e \in References : e.kind = "reference"
ASSUME BoundAssumption == MaxTokens \in Nat

VARIABLES
  root, prefix, suffix, member, generation, include_is_optional,  \* state
  stack,   \* the open rules, innermost last
  at,      \* where in the innermost open rule the parser is
  status,  \* of the parser: between files, in a file, unwinding, aborted
  tokens   \* members, value parts and files so far

vars == <<root, prefix, suffix, member, generation, include_is_optional,
          stack, at, status, tokens>>

key1s    == <<prefix, suffix>>
control  == <<stack, at>>
position == prefix \o suffix
-----------------------------------------------------------------------------
(***************************************************************************)
(* Open rules.  "member" (member_key) and "elements" (element_list and     *)
(* extension_list) hold a key1_guard, "file" and "object" do not.  The     *)
(* field size is the guard's m_size; outer is history: the prefix and      *)
(* suffix at the time the rule was entered.                                *)
(***************************************************************************)
GuardRules == {"member", "elements"}
Rules      == GuardRules \cup {"file", "object"}
Places     == {"members", "head", "assigned", "value", "after", "elements"}
Aborted    == {"assert_member", "assert_suffix", "assert_generation", "assert_append"}
Statuses   == {"idle", "parsing", "throwing", "failed"} \cup Aborted

Top  == Last(stack)
(* Mutant: the size of the prefix once the suffix has joined it. *)
OpenLate(rule) == [rule |-> rule, size |-> Len(prefix) + Len(suffix),
                   outer |-> [prefix |-> prefix, suffix |-> suffix]]

Open(rule) == [rule  |-> rule, size |-> Len(prefix),
               outer |-> [prefix |-> prefix, suffix |-> suffix]]

(* The constructors of key1_guard: the current suffix joins the prefix. *)
EnterGuard(rule, inner) ==
  /\ stack' = Append(stack, Open(rule))
  /\ prefix' = prefix \o suffix
  /\ suffix' = inner

EnterPlain(rule) == stack' = Append(stack, Open(rule)) /\ UNCHANGED key1s

(* The destructor of key1_guard splits the prefix at m_size again. *)
Restored(frame) ==
  IF frame.rule \in GuardRules
  THEN [prefix |-> SubSeq(prefix, 1, frame.size),
        suffix |-> SubSeq(prefix, frame.size + 1, Len(prefix))]
  ELSE [prefix |-> prefix, suffix |-> suffix]

LeaveRule ==
  /\ stack' = Front(stack)
  /\ prefix' = Restored(Top).prefix
  /\ suffix' = Restored(Top).suffix

Spend     == tokens < MaxTokens /\ tokens' = tokens + 1
InMembers == status = "parsing" /\ at = "members"
InValue   == status = "parsing" /\ at \in {"assigned", "value", "elements"}

StatusAfter(error) ==
  CASE error = "none"        -> "parsing"
    [] error = "parse_error" -> "throwing"
    [] OTHER                 -> "assert_append"
-----------------------------------------------------------------------------
(* Mutant: generations start at the value that means none. *)
InitFromZero ==
  /\ root = EmptyObject
  /\ prefix = <<>> /\ suffix = <<>> /\ member = <<>>
  /\ generation = 0
  /\ include_is_optional \in BOOLEAN
  /\ stack = <<>> /\ at = "members" /\ status = "idle" /\ tokens = 0

Init ==
  /\ root = EmptyObject
  /\ prefix = <<>> /\ suffix = <<>> /\ member = <<>>
  /\ generation = 1
  /\ include_is_optional \in BOOLEAN   \* not initialised by the code
  /\ stack = <<>> /\ at = "members" /\ status = "idle" /\ tokens = 0

(* parser::parse: another file or string for the same parser object. *)
ParseFile ==
  /\ status \in {"idle", "failed"}
  /\ Spend
  /\ EnterPlain("file")
  /\ at' = "members" /\ status' = "parsing"
  /\ UNCHANGED <<root, member, generation, include_is_optional>>

(* The end of a file: of the outermost one or of an included one. *)
EndFile ==
  /\ InMembers /\ Top.rule = "file"
  /\ LeaveRule
  /\ status' = IF Len(stack) = 1 THEN "idle" ELSE "parsing"
  /\ UNCHANGED <<root, member, generation, include_is_optional, at, tokens>>

(* include_extension: a missing file is skipped when the include is         *)
(* optional, any other failure to read it is an error; a file that can be   *)
(* read is parsed in the current scope.                                     *)
Include ==
  /\ InMembers /\ Spend
  /\ include_is_optional' \in BOOLEAN
  /\ \/ EnterPlain("file") /\ UNCHANGED status
     \/ \E ENOENT \in BOOLEAN :
          /\ status' = IF include_is_optional' /\ ENOENT THEN status ELSE "throwing"
          /\ UNCHANGED <<stack, key1s>>
  /\ UNCHANGED <<root, member, generation, at>>

(* Mutant: member keeps the key. *)
MarkKeeping(key, temporary) ==
  LET r == phase1_append(root, position \o key, Temporary(temporary), "implicit")
  IN  /\ InMembers /\ Spend
      /\ IF member # <<>>
         THEN status' = "assert_member" /\ UNCHANGED <<root, member>>
         ELSE /\ root' = r.val
              /\ status' = StatusAfter(r.error)
              /\ member' = key
      /\ UNCHANGED <<key1s, generation, include_is_optional, control>>

(* temporary_extension and permanent_extension: the key is swapped into     *)
(* member, marked, and member is cleared; an exception skips the clear.     *)
Mark(key, temporary) ==
  LET r == phase1_append(root, position \o key, Temporary(temporary), "implicit")
  IN  /\ InMembers /\ Spend
      /\ IF member # <<>>
         THEN status' = "assert_member" /\ UNCHANGED <<root, member>>
         ELSE /\ root' = r.val
              /\ status' = StatusAfter(r.error)
              /\ member' = IF r.error = "none" THEN <<>> ELSE key
      /\ UNCHANGED <<key1s, generation, include_is_optional, control>>
-----------------------------------------------------------------------------
MemberKey(key) ==
  /\ InMembers /\ Spend
  /\ EnterGuard("member", key)
  /\ at' = "head"
  /\ UNCHANGED <<root, member, generation, include_is_optional, status>>

(* "=" and ":" clear what was there; "+=" and a bracket leave it. *)
AssignHead ==
  LET r == phase1_append(root, position, Clear, "implicit")
  IN  /\ status = "parsing" /\ at = "head"
      /\ root' = r.val
      /\ status' = StatusAfter(r.error)
      /\ at' = "assigned"
      /\ UNCHANGED <<key1s, member, generation, include_is_optional, stack, tokens>>

AppendHead ==
  /\ status = "parsing" /\ at = "head"
  /\ at' = "value"
  /\ UNCHANGED <<root, key1s, member, generation, include_is_optional, stack, status, tokens>>

(* "delete" has no action of its own: the member ends cleared. *)
Delete ==
  /\ status = "parsing" /\ at = "assigned" /\ Top.rule = "member"
  /\ LeaveRule /\ at' = "members"
  /\ UNCHANGED <<root, member, generation, include_is_optional, status, tokens>>
-----------------------------------------------------------------------------
(* The value parts.  Each changes the concat at the current position, and   *)
(* an array, object or function call opens a rule for what is inside it.    *)

AddValue(thing) ==
  LET r == phase1_append(root, position, thing, "manifest")
  IN  /\ InValue /\ Spend
      /\ root' = r.val
      /\ status' = StatusAfter(r.error)
      /\ UNCHANGED <<member, include_is_optional>>

Literal(e) ==
  /\ AddValue(Emplace(e))
  /\ at' = "after"
  /\ UNCHANGED <<key1s, generation, stack>>

(* Mutant: the list is given the next generation, but it is not used up. *)
OpenElementsUncounted ==
  IF status' = "parsing"
  THEN /\ generation' = generation
       /\ EnterGuard("elements", <<AppendPart(generation + 1)>>)
       /\ at' = "elements"
  ELSE UNCHANGED <<generation, key1s, control>>

(* Mutant: the list is given the generation before it is incremented. *)
OpenElementsLate ==
  IF status' = "parsing"
  THEN /\ generation' = generation + 1
       /\ EnterGuard("elements", <<AppendPart(generation)>>)
       /\ at' = "elements"
  ELSE UNCHANGED <<generation, key1s, control>>

(* element_list and extension_list are entered with a new generation. *)
OpenElements ==
  IF status' = "parsing"
  THEN /\ generation' = generation + 1
       /\ EnterGuard("elements", <<AppendPart(generation + 1)>>)
       /\ at' = "elements"
  ELSE UNCHANGED <<generation, key1s, control>>

BeginArray      == AddValue(Ensure(ArrayEntry(<<>>))) /\ OpenElements
FunctionName(f) == AddValue(Function(f)) /\ OpenElements

BeginObject ==
  /\ AddValue(Ensure(ObjectEntry(EmptyObject)))
  /\ IF status' = "parsing"
     THEN EnterPlain("object") /\ at' = "members"
     ELSE UNCHANGED <<key1s, control>>
  /\ UNCHANGED generation

EndObject ==
  /\ InMembers /\ Top.rule = "object"
  /\ LeaveRule /\ at' = "after"
  /\ UNCHANGED <<root, member, generation, include_is_optional, status, tokens>>

EndElements ==
  /\ status = "parsing" /\ at = "elements" /\ Top.rule = "elements"
  /\ LeaveRule /\ at' = "after"
  /\ UNCHANGED <<root, member, generation, include_is_optional, status, tokens>>
-----------------------------------------------------------------------------
(* The end of a value part is followed by "+" or ends the value list. *)

Plus ==
  /\ status = "parsing" /\ at = "after"
  /\ at' = "value"
  /\ UNCHANGED <<root, key1s, member, generation, include_is_optional, stack, status, tokens>>

set_generation(key, g) ==
  IF Last(key).kind = "append" THEN Append(Front(key), AppendPart(g)) ELSE key

(* The action of value_list: the next list in an array is a new element. *)
EndValueList ==
  /\ status = "parsing" /\ at = "after"
  /\ generation' = generation + 1
  /\ status' = IF suffix = <<>> THEN "assert_suffix"
               ELSE IF Last(suffix).kind = "append" /\ generation' <= Last(suffix).generation
               THEN "assert_generation"
               ELSE status
  /\ \/ /\ Top.rule = "member"
        /\ LeaveRule /\ at' = "members"
     \/ /\ Top.rule = "elements"
        /\ suffix' = set_generation(suffix, generation')
        /\ at' = "elements"
        /\ UNCHANGED <<stack, prefix>>
  /\ UNCHANGED <<root, member, include_is_optional, tokens>>
-----------------------------------------------------------------------------
(* Input that the grammar rejects, at any point. *)
SyntaxError ==
  /\ status = "parsing"
  /\ status' = "throwing"
  /\ UNCHANGED <<root, key1s, member, generation, include_is_optional, control, tokens>>

(* The exception leaves the open rules one by one, destroying their guards. *)
Unwind ==
  /\ status = "throwing"
  /\ LeaveRule
  /\ status' = IF Len(stack) = 1 THEN "failed" ELSE "throwing"
  /\ UNCHANGED <<root, member, generation, include_is_optional, at, tokens>>

ValuePart ==
  \/ \E e \in Atoms \cup References : Literal(e)
  \/ BeginArray
  \/ BeginObject
  \/ \E f \in Functions : FunctionName(f)

Next ==
  \/ ParseFile \/ EndFile \/ Include
  \/ \E key \in Keys : MemberKey(key)
  \/ \E key \in Keys, temporary \in BOOLEAN : Mark(key, temporary)
  \/ AssignHead \/ AppendHead \/ Delete
  \/ ValuePart
  \/ EndObject \/ EndElements \/ Plus \/ EndValueList
  \/ SyntaxError \/ Unwind

Spec == Init /\ [][Next]_vars
-----------------------------------------------------------------------------
(***************************************************************************)
(* Properties.                                                             *)
(***************************************************************************)

Frame == [rule : Rules, size : Nat,
          outer : [prefix : Seq(PathPart), suffix : Seq(PathPart)]]

(* The control state has its type (the tree itself is recursive and has     *)
(* its shape by ImplicitHoldsNoValue and NestingBounded below).             *)
TypeOK ==
  /\ prefix \in Seq(PathPart) /\ suffix \in Seq(PathPart) /\ member \in Seq(KeyPart)
  /\ generation \in Nat \ {0}
  /\ include_is_optional \in BOOLEAN
  /\ stack \in Seq(Frame) /\ at \in Places /\ status \in Statuses
  /\ tokens \in 0..MaxTokens

(* Whenever a rule is left, by its end or by an exception, the prefix and   *)
(* suffix are those of the moment it was entered, although key1_guard keeps *)
(* only a size and value_list changes the suffix in between; and between    *)
(* files both are empty, so the next file starts at the root.               *)
GuardRestores ==
  /\ stack # <<>> => Restored(Top) = Top.outer
  /\ status \in {"idle", "failed"} => prefix = <<>> /\ suffix = <<>>

(* The assertions on the generation of a value list hold: there is a suffix *)
(* when a list ends, and set_generation is given a larger generation than   *)
(* the one it replaces, whatever ended or was unwound in between.           *)
KeyAssertionsHold == status \notin {"assert_suffix", "assert_generation"}

(* The generation that a list is given, at its beginning and for each of    *)
(* its elements, is larger than all that were given before, so every concat *)
(* takes it for one it has not seen, and it is at the end of the path.  No  *)
(* other step puts a generation into the path, also not when it is restored.*)
NewGenerations ==
  [][\A i \in DOMAIN position' :
       position'[i].kind = "append" /\ (i \in DOMAIN position => position'[i] # position[i])
         => i = Len(position') /\ position'[i].generation > generation]_vars

(* The assertion of phase1_append_append holds: an element that is to be    *)
(* continued is still the last one of the last array of its concat.         *)
ContinuedElementExists == status # "assert_append"

(* The assertion of key1_rule: no key of an earlier extension is left over. *)
MemberIsEmpty == status # "assert_member"

(* The concats of a set and, level by level, those below them. *)
BelowConcat(c) == UNION {Below(c.concat[i]) : i \in DOMAIN c.concat}

Levels(concats, n) ==
  LET levels[i \in 0..n] ==
        IF i = 0 THEN <<concats>>
        ELSE LET above == levels[i - 1]
             IN  Append(above, UNION {BelowConcat(c) : c \in Last(above)})
  IN  levels[n]

Members == {root[name] : name \in DOMAIN root}

(* A concat that phase 3 will omit as implicit holds no value: only objects *)
(* and asterisks all of whose members are implicit themselves.  A missing   *)
(* reset of the flag on any part of the path of a value would lose it.      *)
implicit_entries(c) ==
  \A i \in DOMAIN c.concat :
    /\ c.concat[i].kind \in {"object", "asterisk"}
    /\ c.concat[i].kind = "object" => \A d \in Below(c.concat[i]) : d.implicit

only_implicit(c) ==
  LET level == Levels({c}, global_nesting_limit)
  IN  \A i \in DOMAIN level : \A d \in level[i] : implicit_entries(d)

ImplicitHoldsNoValue ==
  LET level == Levels(Members, global_nesting_limit)
  IN  \A i \in DOMAIN level : \A c \in level[i] : c.implicit => only_implicit(c)

(* No chain of keys, brackets and includes builds a tree that is deeper     *)
(* than the nesting limit.                                                  *)
NestingBounded == Last(Levels(Members, global_nesting_limit)) = {}

(* The concat at a path that exists. *)
concat_at(object, path) ==
  LET led[i \in 0..Len(path)] ==
        IF i = 0 THEN root_concat(object) ELSE at_part(led[i - 1], path[i])
  IN  led[Len(path)]

Elements(object, path) == Len(Back(concat_at(object, path)).array)

(* A function call is a summand of its own: when its name has been read it  *)
(* has no arguments yet, whatever was added up before it.                   *)
CallsStayApart ==
  [][\A f \in Functions : FunctionName(f) /\ status' = "parsing" =>
       LET call == Back(concat_at(root', position))
       IN  call.function = f /\ call.array = <<>>]_vars

(* Every value list in square brackets or in the argument list of a         *)
(* function is one element: the first part of the list adds an element to   *)
(* the array it is written in, further parts and everything nested inside   *)
(* them add none, and no step touches the element count of an outer array.  *)
ElementPerValue ==
  [][status' = "parsing" =>
       \A i \in 1..Min({Len(stack), Len(stack')}) :
         stack[i].rule = "elements" =>
           LET path  == stack[i].outer.prefix \o stack[i].outer.suffix
               first == i = Len(stack) /\ at = "elements"
           IN  Elements(root', path) = IF first THEN Elements(root, path) + 1
                                       ELSE Elements(root, path)]_vars

(* An entry f that is at the place of e: of its kind and with a place for   *)
(* each member and element, and the same unless there can be more in it.    *)
stays(e, f) ==
  CASE e.kind = "array"    -> f.kind = "array" /\ DOMAIN e.array \subseteq DOMAIN f.array
    [] e.kind = "object"   -> f.kind = "object" /\ DOMAIN e.object \subseteq DOMAIN f.object
    [] e.kind = "asterisk" -> f.kind = "asterisk"
    [] OTHER               -> e = f

keeps(old, new) ==
  /\ old.remove => new.remove
  /\ old.generation <= new.generation
  /\ DOMAIN old.concat \subseteq DOMAIN new.concat
  /\ \A i \in DOMAIN old.concat : stays(old.concat[i], new.concat[i])

(* What is in the same place directly below two entries or two concats. *)
same_places(e, f) ==
  CASE e.kind = "array"    -> {<<e.array[j], f.array[j]>> : j \in DOMAIN e.array}
    [] e.kind = "object"   -> {<<e.object[n], f.object[n]>> : n \in DOMAIN e.object}
    [] e.kind = "asterisk" -> {<<e.asterisk, f.asterisk>>}
    [] OTHER               -> {}

pairs_below(old, new) ==
  UNION {same_places(old.concat[i], new.concat[i]) : i \in DOMAIN old.concat}

(* Level by level, what is in old is in new, in its order and at its place; *)
(* what is below a pair of equal concats needs no look.                     *)
grows(old, new) ==
  LET pairs[i \in 0..global_nesting_limit] ==
        IF i = 0 THEN {<<old, new>>}
        ELSE UNION {pairs_below(p[1], p[2]) : p \in {p \in pairs[i - 1] : p[1] # p[2]}}
  IN  \A i \in 0..global_nesting_limit : \A p \in pairs[i] : keeps(p[1], p[2])

(* Nothing a file said before is lost, moved or overwritten in phase 1 by   *)
(* any step but the "=" after a key, and not by an exception either.        *)
OnlyAssignRemoves ==
  [][at = "head" \/ grows(root_concat(root), root_concat(root'))]_root
=============================================================================
