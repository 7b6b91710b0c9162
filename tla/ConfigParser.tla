---------------------------- MODULE ConfigParser ----------------------------
(***************************************************************************)
(* The life of a parser object: files go through phase 1, functions are    *)
(* added, and result() runs the passes of phase 2 until an iteration of    *)
(* all four changes nothing, removes what is not part of the result, and   *)
(* repacks the rest.  The program may go on after either, also after an    *)
(* exception: the tree is then what the last call left.                    *)
(*                                                                         *)
(* A file is a sequence of statements, each a sequence of grammar events   *)
(* that the actions of Phase1 take one by one.  A behaviour is about one   *)
(* suite, which says what files may hold and what the program may do.      *)
(***************************************************************************)
EXTENDS Phase1, Phase2Functions, Phase2Additions, Phase2References,
        Phase2Asterisks, Phase3Remove

CONSTANT Suites   \* names to what is possible in a behaviour

Passes == {"functions", "additions", "references", "asterisks"}

(* The orders are those in which builds run the passes of an iteration, the *)
(* added are the functions that the program may add to its parser.  Bounds  *)
(* on a behaviour: the statements in all files, files, calls of result().   *)
Suite(statements, most, files, results, added, orders) ==
  [statements |-> statements, most |-> most, files |-> files, results |-> results,
   added |-> added, orders |-> orders]

ASSUME SuitesAssumption ==
  \A name \in DOMAIN Suites :
    /\ Suites[name].orders # {} /\ Suites[name].orders \subseteq SetToSeqs(Passes)
    /\ Suites[name].added \subseteq DOMAIN Extensions
    /\ {Suites[name].most, Suites[name].files, Suites[name].results} \subseteq Nat

(* What files hold are sequences of events, and the keys in them those that *)
(* the grammar reads.                                                       *)
IsKeyed(ev)  == ev.event \in {"key", "mark"}
IsInput(evs) ==
  /\ evs \in Seq(ToSet(evs))
  /\ \A ev \in ToSet(evs) : IsKeyed(ev) => ev.key \in Seq(KeyPart) \ {<<>>}

ASSUME StatementsAssumption ==
  \A name \in DOMAIN Suites : \A statement \in Suites[name].statements : IsInput(statement)

VARIABLES
  suite,       \* the name of the suite
  added,       \* the functions that the program has added
  input,       \* the events of the statement that are still to be read
  statements,  \* how many statements were begun
  files,       \* how many files were begun
  results,     \* how often result() was called
  phase,       \* of the parser: reading, iterating, ..., or how it ended
  order,       \* the order of the passes in this build
  pass,        \* how many passes of the iteration have run
  changes,     \* those of them that changed something
  asked,       \* history: what result() was called for, at most one
  settled,     \* history: what it returned since the last file, at most one
  result       \* of result()

building   == <<prefix, suffix, member, generation, include_is_optional, stack, at, status, tokens>>
program    == <<suite, added, input, statements, files, results>>
iteration  == <<order, pass, changes>>
finish     == <<phase, iteration, asked, settled, result>>
parserVars == <<vars, program, finish>>

Running == {"iterate", "remove", "repack"}
Ended   == {"done", "parse_error", "assert", "undefined"}
Aborts  == {"assert", "undefined"}

(* The program has control: no call of the parser is running or aborted. *)
InProgram == phase \notin Running \cup Aborts /\ status \in {"idle", "failed"}

(* No statement includes a file, so one value of the uninitialised flag does. *)
ParserInit ==
  /\ Init /\ include_is_optional = FALSE
  /\ suite \in DOMAIN Suites /\ added = {}
  /\ input = <<>> /\ statements = 0 /\ files = 0 /\ results = 0
  /\ phase = "parse" /\ order = <<>> /\ pass = 0 /\ changes = {}
  /\ asked = {} /\ settled = {} /\ result = ObjectEntry(EmptyObject)
-----------------------------------------------------------------------------
(* Grammar events. *)

Event(name)     == [event |-> name]
KeyEvent(key)   == [event |-> "key", key |-> key]
ValueEvent(e)   == [event |-> "value", entry |-> e]
CallEvent(f)    == [event |-> "call", function |-> f]
MarkEvent(k, t) == [event |-> "mark", key |-> k, temporary |-> t]

Take(ev) ==
  \/ ev.event = "key"    /\ MemberKey(ev.key)
  \/ ev.event = "mark"   /\ Mark(ev.key, ev.temporary)
  \/ ev.event = "="      /\ AssignHead
  \/ ev.event = "+="     /\ AppendHead
  \/ ev.event = "delete" /\ Delete
  \/ ev.event = "value"  /\ Literal(ev.entry)
  \/ ev.event = "["      /\ BeginArray
  \/ ev.event = "call"   /\ FunctionName(ev.function)
  \/ ev.event = "{"      /\ BeginObject
  \/ ev.event = "}"      /\ EndObject
  \/ ev.event = "]"      /\ EndElements
  \/ ev.event = "+"      /\ Plus
  \/ ev.event = "end"    /\ EndValueList

Read ==
  /\ phase = "parse" /\ input # <<>>
  /\ Take(Head(input))
  /\ input' = IF status' = "parsing" THEN Tail(input) ELSE <<>>
  /\ UNCHANGED <<suite, added, statements, files, results, finish>>

(* Another file, also after result() and after an exception. *)
BeginFile ==
  /\ InProgram /\ ParseFile
  /\ files < Suites[suite].files /\ files' = files + 1
  /\ phase' = "parse" /\ asked' = {} /\ settled' = {}
  /\ UNCHANGED <<suite, added, input, statements, results, iteration, result>>

BeginStatement ==
  /\ InMembers /\ input = <<>>
  /\ statements < Suites[suite].most /\ statements' = statements + 1
  /\ input' \in Suites[suite].statements
  /\ UNCHANGED <<vars, suite, added, files, results, finish>>

EndInput ==
  /\ input = <<>> /\ EndFile
  /\ UNCHANGED <<program, finish>>

FailParse ==
  /\ Unwind
  /\ phase' = IF status' = "failed" THEN "parse_error" ELSE phase
  /\ UNCHANGED <<program, iteration, asked, settled, result>>

(* set_inner_extension. *)
AddFunction(name) ==
  /\ InProgram
  /\ name \in Suites[suite].added \ added
  /\ added' = added \cup {name}
  /\ UNCHANGED <<vars, suite, input, statements, files, results, finish>>
-----------------------------------------------------------------------------
(* result().  The operands of | in phase2_iteration are evaluated in an     *)
(* order the language leaves open; a build has one order for all calls.     *)
(* Calls before the first file, on an empty tree, are left out.             *)

Finish ==
  /\ InProgram /\ files > 0
  /\ results < Suites[suite].results /\ results' = results + 1
  /\ phase' = "iterate" /\ pass' = 0 /\ changes' = {}
  /\ order' \in IF order = <<>> THEN Suites[suite].orders ELSE {order}
  /\ asked' = {[root |-> root, added |-> added]}
  /\ UNCHANGED <<vars, suite, added, input, statements, files, settled, result>>

(* What comes after a step of result() that returned, threw or asserted. *)
PhaseAfter(error, next) ==
  CASE error = "none"                         -> next
    [] error \in {"parse_error", "undefined"} -> error
    [] OTHER                                  -> "assert"

(* One pass of an iteration.  When it throws, what it changed so far stays. *)
Pass(name, r) ==
  /\ phase = "iterate" /\ pass < 4 /\ order[pass + 1] = name
  /\ root' = r.val
  /\ phase' = PhaseAfter(r.error, phase)
  /\ pass' = pass + 1
  /\ changes' = IF r.changes > 0 THEN changes \cup {name} ELSE changes
  /\ UNCHANGED <<building, program, order, asked, settled, result>>

PassFunctions  == Pass("functions", phase2_functions(root, added))
PassAdditions  == Pass("additions", phase2_additions(root))
PassReferences == Pass("references", phase2_references(root))
PassAsterisks  == Pass("asterisks", phase2_asterisks(root))

(* Mutant: one iteration has to do. *)
NextIterationOnce ==
  /\ phase = "iterate" /\ pass = 4
  /\ phase' = "remove"
  /\ pass' = 0 /\ changes' = {}
  /\ UNCHANGED <<vars, program, order, asked, settled, result>>

(* The loop of phase2_everything goes on as long as something changed. *)
NextIteration ==
  /\ phase = "iterate" /\ pass = 4
  /\ phase' = IF changes # {} THEN "iterate" ELSE "remove"
  /\ pass' = 0 /\ changes' = {}
  /\ UNCHANGED <<vars, program, order, asked, settled, result>>

Remove3 ==
  LET r == phase3_remove(root)
  IN  /\ phase = "remove"
      /\ root' = r.val
      /\ phase' = PhaseAfter(r.error, "repack")
      /\ UNCHANGED <<building, program, iteration, asked, settled, result>>

(* Mutant: the values are moved out of the tree. *)
RepackMoving ==
  LET r == phase5_repack(root)
  IN  /\ phase = "repack"
      /\ result' = r.val
      /\ settled' = {r.val}
      /\ phase' = PhaseAfter(r.error, "done")
      /\ root' = EmptyObject
      /\ UNCHANGED <<building, program, iteration, asked>>

Repack ==
  LET r == phase5_repack(root)
  IN  /\ phase = "repack"
      /\ phase' = PhaseAfter(r.error, "done")
      /\ IF r.error = "none" THEN result' = r.val /\ settled' = {r.val}
         ELSE UNCHANGED <<result, settled>>
      /\ UNCHANGED <<vars, program, iteration, asked>>

Phase2 == PassFunctions \/ PassAdditions \/ PassReferences \/ PassAsterisks \/ NextIteration

ParserNext ==
  \/ BeginFile \/ BeginStatement \/ Read \/ EndInput \/ FailParse
  \/ \E name \in DOMAIN Extensions : AddFunction(name)
  \/ Finish \/ Phase2 \/ Remove3 \/ Repack

ParserSpec == ParserInit /\ [][ParserNext]_parserVars

(* A call of result() is sequential code and does not stop half way.  The   *)
(* steps of ParserNext that change phase or pass while it runs are those of *)
(* Phase2, Remove3 and Repack, and one of them is always enabled, so this   *)
(* is their weak fairness, with an ENABLED that asks for no pass to be run. *)
Proceed ==
  /\ phase \in Running
  /\ phase' \in Running \cup Ended /\ pass' \in 0..4
  /\ <<phase, pass>>' # <<phase, pass>>

FairSpec == ParserSpec /\ WF_<<phase, pass>>(Proceed)
-----------------------------------------------------------------------------
(***************************************************************************)
(* Properties.                                                             *)
(***************************************************************************)

(* No assertion fails.  Phase 2, once an iteration changes nothing, and     *)
(* phase 3 leave what phase5_repack asserts: exactly one entry in every     *)
(* concat.  The tree that result() leaves, also by an exception, is one     *)
(* that phase 1 can go on with.                                             *)
NeverAsserts == phase # "assert" /\ status \notin Aborted

(* The assertion of key1_rule cannot fail in the first file that a parser   *)
(* is given: by the time of a temporary or permanent the one before has     *)
(* cleared its key, unless it threw, and then nothing more of the file is   *)
(* read.                                                                    *)
MemberLeftByFailure ==
  member # <<>> /\ status \notin {"throwing", "failed", "assert_append"} => files > 1

(* The loop ends exactly when a pass would have no effect: a pass counts a  *)
(* change if and only if the tree is another one after it.                  *)
CountsChanges ==
  [][phase = "iterate" /\ phase' = "iterate" /\ pass' = pass + 1
       => (order[pass'] \in changes' <=> root' # root)]_parserVars

(* A call that throws in phase 2 had its arguments: while one is still to   *)
(* be computed the call waits for it.                                       *)
calls[c \in Any] ==
  UNION {(IF IsFunction(c.concat[i]) THEN {c.concat[i]} ELSE {})
           \cup UNION {calls[d] : d \in Below(c.concat[i])} : i \in DOMAIN c.concat}

CallsAwaitArguments ==
  [][phase = "iterate" /\ phase' = "parse_error" /\ order[pass + 1] = "functions"
       => \E e \in calls[RootConcat(root)] : \A i \in DOMAIN e.array : is_primitive[e.array[i]]]_parserVars

(* A value without the keys that lead to it. *)
unkeyed[e \in Any] ==
  [field \in DOMAIN e \ {"key"} |->
     CASE field = "array"  -> [i \in DOMAIN e.array |-> unkeyed[e.array[i]]]
       [] field = "object" -> [n \in DOMAIN e.object |-> unkeyed[e.object[n]]]
       [] OTHER            -> e[field]]

(* A member of the root that is one reference has the value in the result   *)
(* that is found in the result where the reference leads.                   *)
led_to[e \in Any, parts \in Any] ==
  IF parts = <<>> THEN {e}
  ELSE IF e.kind \notin {"array", "object"} THEN {}
  ELSE UNION {led_to[d, Tail(parts)] : d \in held(e, Head(parts))}

ReferencesCopy ==
  phase = "done" =>
    \A conf \in asked : \A name \in DOMAIN conf.root \cap DOMAIN result.object :
      Len(conf.root[name].concat) = 1 /\ Back(conf.root[name]).kind = "reference" =>
        \A target \in led_to[result, Back(conf.root[name]).reference] :
          unkeyed[result.object[name]] = unkeyed[target]

(* Once result() has returned, it returns the same again until there is     *)
(* another file, although it works on the tree that the first call left,    *)
(* and whatever functions are added in between.                             *)
ResultRepeats ==
  [][settled # {} /\ phase \in Running /\ phase' \in Ended
       => phase' = "done" /\ result' \in settled]_parserVars

(* What the program has been answered.  After undefined behaviour that is   *)
(* nothing.                                                                 *)
given ==
  IF asked = {} THEN {} ELSE
  CASE phase = "done"        -> {result}
    [] phase = "parse_error" -> {[kind |-> "error"]}
    [] phase = "assert"      -> {[kind |-> "assert"]}
    [] OTHER                 -> {}

(* phase2_everything ends, and result() with it. *)
ResultEnds == phase \in Running ~> phase \in Ended
=============================================================================
