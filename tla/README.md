# A verification development for taocpp/config

taocpp/config reads configuration files in the taoCONFIG language, an extension
of JSON with dotted keys, additions, deletions, references, functions and
asterisks. The library is header-only and sequential. This directory holds TLA+
modules that model the life of a parser object, from its files to its results,
the literals it reads and the keys by which a program works on what it returns,
TLC configurations that check them, and proofs about phase 1 and its tree, the parser object,
the passes, the numbers in literals, and the keys and writes of programs.

## 1. The system

### Components

| Component | Source (`src/include/tao/config/`) | State | Operations |
| --- | --- | --- | --- |
| Intermediate tree | `internal/entry.hpp`, `concat.hpp`, `array.hpp`, `object.hpp`, `atom.hpp`, `statistics.hpp` | a map from names to *concats*: lists of summands (*entries*) with the flags `remove`, `implicit`, `temporary` and a `generation` | `back_ensure_init`, `back_emplace_func`, `omit_from_final_result`, `is_primitive` |
| Phase 1 | `internal/config_grammar.hpp`, `config_action.hpp`, `key1_guard.hpp`, `phase1_append.hpp`, `state.hpp`, `limits.hpp` | `prefix`, `suffix`, `member`, `root`, `include_is_optional`, `generation`; on the call stack the open rules and their guards | one per grammar action |
| Phase 2, functions | `internal/phase2_functions.hpp`, `function_implementations.hpp`, `function_wrapper.hpp`, `function_traits.hpp` | the tree | call every function whose arguments are ready |
| Phase 2, additions | `internal/phase2_additions.hpp` | the tree | add neighbours in every concat |
| Phase 2, references | `internal/phase2_references.hpp`, `phase2_access.hpp` | the tree | replace references to primitive values by copies |
| Phase 2, asterisks | `internal/phase2_asterisks.hpp` | the tree | distribute asterisks over members and elements |
| Phases 3 and 5 | `internal/phase3_remove.hpp`, `phase5_repack.hpp` | the tree, the result | omit what is not part of the result; convert the rest |
| Parser object | `parser.hpp`, `internal/config_parser.hpp`, `phase2_everything.hpp` | all of the above | `parse()`, `set_inner_extension()`, `result()` |
| Literals | `internal/jaxn_to_entry.hpp`, `jaxn_action.hpp` | the entries and keys that are open, the last value, the digits of a number | one per matched rule |
| Key and reference texts | `internal/key1_grammar.hpp`, `key1_action.hpp`, `reference2_grammar.hpp`, `reference2_action.hpp`, `key_grammar.hpp`, `key_action.hpp` | the parts read so far | one per part |
| Keys and access after parsing | `key.hpp`, `key_part.hpp`, `access.hpp`, `assign.hpp` | a key, a value | make, extend and shorten a key, print it, find or set a value by it |
| Convenience and output | `from_*.hpp`, `to_stream.hpp`, `traits.hpp`, `value.hpp`, `annotation.hpp`, `internal/debug_traits.hpp`, ... | - | forward to the parser or the JSON library |

### How they interact

`parser::parse` runs the grammar of phase 1. Its actions call `phase1_append`
with the path `prefix + suffix` and a change to apply at the end of the path, so
phase 1 builds the tree in place. `key1_guard` objects on the C++ stack keep the
path up to date: entering a member or a list moves the suffix to the prefix,
leaving it, also by an exception, moves it back. `parser::result` runs
`phase2_everything`, which repeats an iteration of four passes over the tree
until one changes nothing, then `phase3_remove`, then `phase5_repack`. All work
in place, on the tree that the next `parse()` or `result()` goes on with, also
after an exception. Functions are called by phase 2 through a map that a program
may add to at any time; `jaxn` reads a text with the actions for literals, `parse`
runs phase 1 on a state of its own. There are no threads, no callbacks into user
code other than added functions, nothing is persisted, and nothing is sent.
Environment, files and commands are read by includes and functions.

### What is hard

* One prefix and one suffix for all open scopes, restored by destructors that
  know only a size, under exceptions and for the next file.
* Generations, which decide whether a part of a list is a new element.
* The flag `implicit`, set when a deletion makes a member on its way and reset
  when a value comes through, read only by phase 3.
* Four passes that enable and block each other, in an order C++ leaves open
  (the operands of `|`), in a loop that ends when nothing changes.
* Lookup of relative references in a tree that is half resolved.
* Assertions that connect code far apart: phase 5 relies on phases 2 and 3, the
  actions of `temporary` on the end of the previous one.
* Exceptions from the middle of a walk that modifies in place, and programs that
  go on after them.
* Digits that are copied in pieces into a buffer of fixed size, with an exponent
  that has to follow what was left out.
* Keys that are written by one rule and read by three others.

`PROJECT.json` lists each at its line under `hazards`, with the properties that
cover it or the reason why none does.

### What makes the components correct

* Phase 1: scopes are restored, generations grow, every value list is one
  element, nothing is lost except below a key that is assigned, no value is
  below an implicit member, the tree is no deeper than the limit.
* Phase 2 to 5: the result is what the language says the configuration means,
  independently of the order of passes; an error exactly when it means nothing;
  no assertion fails; the loop ends.
* Parser object: the same holds for every call, on the tree that the calls before
  it left; a result repeats until there is another file.
* Literals: every number comes out with its digits or is refused, every element
  and member comes out where it belongs.
* Keys and access: a key leads to what carries it and reads back as it was
  written; a write changes what it names and nothing else.

## 2. The modules

```
ConfigTree ── Phase1Append ── Phase1 ─────────────────┐
     │                                                │
     ├── Phase2Walk ── Phase2Functions ───────────────┤
     │            ├── Phase2Additions ────────────────┤
     │            ├── Phase2References ───────────────┼── ConfigParser ── ConfigRefinement ── MCConfig
     │            ├── Phase2Asterisks ────────────────┤                        │
     │            └── Phase3Remove ───────────────────┘                  ConfigPromise (INSTANCE)
     │                      └───────────┐                                      │  EXTENDS ConfigProtocol
     ├── KeyTexts ───────────────── ConfigValues ── MCValues                   │
     │                                                                         │
     └── ConfigIntegers ── ConfigFunctions ── ConfigMeaning ───────────────────┘
                │                 └── JaxnToEntry (INSTANCE)
                └── JaxnNumber ── JaxnToEntry ── JaxnReader ── MCJaxn
```

(Phase2Additions also extends ConfigIntegers, Phase2Functions ConfigFunctions.)

```
Phase1 ── Phase1Proofs ─┬─ ConfigParserProofs       Phase2Additions ─┬─ Phase2Proofs
ConfigParser ───────────│────────┘                  Phase2Asterisks ─┘
NaturalLemmas ──────────┴─ Phase1TreeProofs         JaxnReader ──────┬─ JaxnProofs
KeyTexts ─────┬─ KeyTextsProofs ─┐                  NaturalLemmas ───┘
NaturalLemmas ┘                  ├─ ConfigValuesProofs
ConfigValues ────────────────────┘
```

* **ConfigTree**: the tree. An entry is a record with a `kind`; a function call
  is an array with a function name, as in the code. Source positions are left
  out. Recursion is by recursive functions, so that theorems can be stated.
* **Phase1Append**: the overloads of `phase1_append`. Each returns the
  changed value and an error. The changed value is kept when there is an error,
  since the code does not roll back. The recursion into the rest of the path is
  written as `walk`, the concats that each part of the path makes ready, and
  `walked_back`, what these become with the change in them, the last one first.
* **Phase1**: the variables of `struct state` under their names and, for what is
  on the C++ stack, `stack` (one frame per open rule; `size` is `m_size` of its
  guard, `outer` is history), `at` (the place in the innermost rule), `status`.
  One action per grammar action. `SyntaxError` can happen before any event, and
  `Unwind` destroys one frame per step. What comes next is chosen from the
  constants `Keys`, `Atoms`, `References` and `Functions`. `ParseFile` is allowed
  again after a file has ended or failed: one parser object is given many files.
* **Phase2Walk**, **Phase2Functions**, **Phase2Additions**, **Phase2References**,
  **Phase2Asterisks**, **Phase3Remove**: each pass is an operator from the root
  object to the new root, the number of changes and an error (`parse_error` for
  an exception, `assert` for a failed assertion, `undefined` for an overflow of
  signed arithmetic). The traversal order of the code is kept where a later part
  of the walk sees what an earlier part did (references), or where an erased
  entry shifts the rest (additions, asterisks).
* **ConfigFunctions**: what each function returns for given strings, used by the
  pass that calls functions and by the meaning alike. The outside world is a set
  of partial functions: a name that `Environment` does not have is one for which
  `getenv_throws` throws. `jaxn` runs the actions of JaxnToEntry.
* **ConfigParser**: the life of a parser object. A file is a sequence of
  statements, each a sequence of grammar events that the actions of Phase1 take
  one by one (`Read`). Between its calls the program may begin another file, add
  a function, or call `result()` (`Finish`), which runs one action per pass and per
  later phase; a call that ended in an exception is followed by others like one
  that returned, on the tree it left. The order of the passes is chosen at the
  first call and stays, since it is that of a build. A behaviour is about one
  suite of the constant `Suites`: the statements that files may hold, how many, the
  number of files and calls, the functions to add, and the orders.
* **ConfigMeaning**: the reference definition. It evaluates a tree without passes
  or iterations, by demand: a value is the sum of its summands, a reference the
  value of what it refers to, a call what the function returns for the values of
  its arguments, an asterisk stands for all members or elements of the rest of its
  sum, and what needs itself has no value. It follows the documented language
  (`doc/Writing-Config-Files.md`), not the passes: `default`, for example, does not
  ask for the arguments behind the first that is not null, and a sum of integers is
  taken modulo the width and is signed if one of its summands is.
* **ConfigProtocol** and **ConfigPromise**: the abstract specification. The
  protocol is how a program and its parser take turns: a question, at most one
  answer, which stays until the program asks again or goes on with another file.
  The promise is the protocol with the answers that may be given: asked for a
  configuration, which is a tree and the functions added, the parser answers with
  its meaning, or an error when it has none. **ConfigRefinement** shows that
  ConfigParser implements the promise.
  `asked` is the question, `result` or the exception the answer.
* **JaxnNumber**, **JaxnToEntry**, **JaxnReader**: a literal is matched rule by
  rule; JaxnNumber has the actions that collect the digits of a number in a buffer,
  JaxnToEntry the consumer with its stack, its keys and its last value, and what
  each action does to them. JaxnReader reads one literal, one rule per step, and
  states what it means. Which rules match, and the conversion of digits to a
  double, are the JSON library's: external.
* **KeyTexts**: reading keys (in files, in references, by programs) and writing
  them. A text is a sequence of words; the three grammars differ in which words
  may stand where. An action adds one part per word that matched, and the parts read
  before an exception stay (`words_read`). A sequence of more digits than an index has
  matches no rule, so no action runs for it (`IsRead`).
* **ConfigValues**: a program with a key and the value that the parser returned:
  it sets the key from a text, adds texts and parts to it or takes parts from it, and
  writes values under it. `way` is the
  recursion of `access` and `assign` into a value: where the key leads to after each
  of its parts, empty from where the code throws; `back` is what a write through the
  reference that `assign` returned makes of these places, the last one first.
  Both recur over the length of the key, as the code does by `pop_front( k )`.

Abstractions that need an argument:

* *Text.* Which text matches a rule is not modelled; a file is its sequence of
  grammar events. PEGTL runs an action only when its rule has matched, and the
  alternatives that hold actions are chosen by one character or are `if_must`
  rules, so an action is never followed by backtracking past it.
* *Generations* in a key part are shared pointers in the code and values here.
  `set_generation` is applied to the suffix of the innermost open rule; copies of
  that part are in prefixes of rules inside it, which are closed by then.
* *Braces around a file* (`compat_file`) change nothing but the text that ends it.
* *Exceptions in phases 2 to 5* keep what was changed before the throw: each pass
  returns the tree as it is then, and the rest of the walk is not done.
* *Files* contain no includes in ConfigParser, so `include_is_optional`, which is
  read only with an include, starts as `FALSE` there; Phase1 has includes.
* *A call of `result()` before the first file* works on an empty tree and is left
  out.
* *Doubles* in the passes are integers added by a constant operator; in literals
  they are digits and a power of ten.
* *Words.* Quotes and escapes are not spelled out: a quoted word is its name. That
  the escapes of the JSON library are undone by its own unescaping is assumed.

## 3. What TLC checks

Deadlock checking is off in all runs because behaviours end: the input is
bounded, and after `result()` there is nothing to do.

| Run | Bounds | Distinct states | Shows |
| --- | --- | --- | --- |
| `phase1` | 6 members, value parts, marks, includes and files in total; four keys (`a`, `a.b`, `a.0`, `a.*.b`), one atom, one reference, two functions; nesting limit 4 | 7,054,130 | all properties of Phase1 below |
| `promise` | one file and one call; suite `sums`: up to 4 of 14 statements, all 24 orders of passes; `scopes` and `asterisks`: up to 3 of 13 and of 11, two opposite orders; `integers`: up to 4 of 9, two orders, integers of 8 bits | 977,963 | `KeepsPromise`, `CountsChanges` |
| `object` | suite `object`: up to 3 of 11 statements in up to 2 files, up to 3 calls, one function to add; `functions`: up to 3 of 15 statements, one file and call, with and without a replacement for `shell`; two opposite orders | 634,135 | `KeepsPromise`, `ResultRepeats`, `NeverAsserts`, `ReferencesCopy`, `MemberLeftByFailure`, `ResultEnds` |
| `literals` | a buffer of 4 digits, integers of 8 bits and at most 3 digits, 6 digits before the point, exponents of 2; decimals with up to 7 + 4 digits, all integers of 3 digits around the limits, 2 levels of arrays and objects with up to 2 entries each | 147,171 | `ReadsLiteral`, `RefusesUnreadable`, `DigitsFit`, `ReaderTypeOK` |
| `values` | three trees, keys of up to 3 parts, 8 texts, 3 parts, 2 writes, values of up to 5 levels; indices of at most 2 digits | 564,882 | `KnownValuesStay`, `FailedAssignMakesObjects`, `FailedReadKeepsBeginning`, `KeysLead`, `KeyTextsReadBack`, `ValuesTypeOK` |

Phase 1 (run `phase1`): `GuardRestores` (every rule that is left gives back the
scope it was entered in), `KeyAssertionsHold` (assertions on generations),
`NewGenerations` (a list begins an element at a path that none before it had),
`ContinuedElementExists` (assertion of `phase1_append_append`),
`ImplicitHoldsNoValue` (phase 3 will not drop a value with an implicit member),
`NestingBounded`, `ElementPerValue` (a list in brackets or in a call is one
element, whatever is nested in it), `OnlyAssignRemoves` (no step but `=` removes
anything or changes its place, on any level of the tree, also when an exception
interrupts a change). Six tokens are enough for two levels of
brackets in a member and a second member to the same place, for a key that meets
an array or a call made by an earlier one, for an include and for a second file
after an error; with the limit of 4 keys and brackets reach and pass it.

The parser object: `KeepsPromise` says that what `result()` returns is the meaning
of the configuration as it is at the call, and that it throws exactly when there is
none, so it covers the passes, their order, lookup, merging, asterisks, functions
and phases 3 and 5 at once. Three to four statements are enough for cycles through
two members, a sum that waits for a reference that waits for a sum, a member that is
deleted or marked before and after it is written, a call whose argument is a sum
with a reference to another call, and references that are resolved in different
iterations. Two files and three calls are enough for a file after a result, after
an exception in each phase, for a call after a call that threw, and for a function
that is added between two calls; a call that throws followed by one that returns
does occur. `CountsChanges` says that a pass reports a change if and only if it made
one, `ReferencesCopy` that a member that is one reference ends with the value found
in the result where the reference leads, `ResultRepeats` that a second call returns
the same as the first although phase 3 has pruned the tree in between, `NeverAsserts`
that no assertion of any phase fails, also in phase 1 on a tree that `result()`
left. `MemberLeftByFailure` is about one of them: the key of a `temporary` or
`permanent` is cleared only when its text has matched, and the next one asserts that
it is empty; it says that this assertion is safe in the first file of a parser
object (the run `reuse` shows that it is not in others). The one `temporary` of this run does not throw, so no key is left over in it; `reuse`
has a statement that leaves one, and the theorem `LeftoverKeys` is about any statements.
`CountsChanges` is about the run `promise`, which has no calls: the pass that calls
functions has nothing to count there, and the run `parse` shows that it counts what
it has not changed. The suite `integers` passes the limits of both integer types: unsigned sums
wrap around, conversions to the signed type change the sign, and the sum is the same
in every order; when a signed addition overflows, the behaviour is undefined, the
model stops there and nothing is promised.

Literals: `ReadsLiteral` compares the entry that the actions leave with what the
literal means, digit by digit: a decimal with more digits than the buffer holds must
come out as one between the same two decimals of the size of the buffer, which is
what rounding to a double needs. `RefusesUnreadable` says that exactly the numbers
beyond the limits are refused, `DigitsFit` that the copies of digits stay in the
buffer and waste none of it. The limits of the code (772 digits, 20 for an integer,
2^20 before the point, 9 in an exponent, 64 bits) differ from those of the run in
size only: the run passes each of them from both sides, in every combination of
digits 0 and 1.

Keys and values: `known` records what the program knows to be under which keys.
`KnownValuesStay` says that `access` still finds it after any writes, those that throw
included; `FailedAssignMakesObjects` that a write that throws has made nothing but
objects on its way; `KeysLead` that the key phase 5 gave to a value leads to it;
`FailedReadKeepsBeginning` that a text which throws half way leaves in the key what its
first words are read as on their own, behind what was there when it is added to, so
nothing of the word that threw (an index with a digit too many among them);
`KeyTextsReadBack` that a key that is written reads back as the same key, in each of
the three grammars, exactly if it can (an index of more than 15 digits is written
but not read, and a program's key must begin with a name). The trees of this run are
given as phase 3 leaves them; that indices count what is left after its removals is
covered by `KeepsPromise`, which compares keys too.

**Fairness.** Only `ResultEnds` needs it. `FairSpec` asks that a running
`result()` takes its next step: it is sequential code without waiting. The
formula uses `Proceed`, a weaker-looking action with the same changes of `phase`
and `pass`, so that TLC need not evaluate a pass to know whether it is enabled:
in each of the phases of `result()` one of the actions is enabled and changes
`phase` or `pass`. Nothing is assumed of the input.

### Where code and documentation disagree

Seven runs end in a violation; each is a `finding` in `PROJECT.json`.

| Run | Smallest input | What happens |
| --- | --- | --- |
| `reuse` | `(temporary 0)`, then another file with `(temporary a)` for the same parser object | the assertion `st.member.empty()` |
| `calls` | `a = [ 1 ] + (f 2)` | the array becomes an argument list of `f` |
| `merge` | `a.x = { b = { c = 1 } }` and `a.*.b.y = delete` | `b` is not in the result |
| `asterisk_reference` | `a = (b)`, `b = (c)`, `c.x = { y = 1 }`, `a.*.y = 2` | the asterisk has no effect |
| `argument` | `a = (string (b))`, `b = "x"` | an error although `b` is a string |
| `parse` | `a = (parse "x" + (b))`, `b = (c)` | `result()` does not return |
| `print` | `a = (print { b = delete })` | the assertion on the number of entries |

Four more were met while modelling. The modules do in them what the code does, and TLC
finds it when a suite has the input, but they have no run of their own; they are hazards
in `PROJECT.json`, which no property is said to cover:

* `a = (env? "x")` fails the assertion on the number of arguments
  (`function_traits.hpp:60`): `NeverAsserts` fails;
* `a = ((b))` with `b = 1`, or `a = (0)`: a reference that begins with an index fails
  the assertion that a part is a name when lookup comes to the root
  (`phase2_access.hpp:149`): `NeverAsserts` fails;
* with `a = (default (b) [ 1 ])`, `b = null` and `c = (a.0)`, `c` is a copy of the
  first argument, since `phase2_access` goes into a call as into an array
  (`phase2_access.hpp:94`): `ReferencesCopy` fails;
* `a = (env "x" + (c)) + "y"` with `c = "x"` is an error although `c` is a string: lookup
  of `c` is given up at the sum around the call (`phase2_access.hpp:36`): `KeepsPromise`
  fails.

The statements of the passing runs keep clear of these inputs: calls are not
preceded by an array in a sum, arguments that are references stand in sums (or
in `default` and `print`, which wait for them), what is printed has no deletions,
an argument of `parse` is ready, calls have enough arguments, references begin
with a name and do not lead into a call, and a call that is one of several summands has
no reference in its argument. They also keep clear of inputs whose outcome the
documentation leaves open, or where the order of the passes decides: an asterisk
beside a call, which throws if the asterisks come first
(`phase2_asterisks.hpp:105`); an erroneous sum in an argument that `default` does not
need. Within those limits the properties hold.

## 4. What is proved

Each theorem holds for all values of the constants that satisfy the named
assumptions of the modules; TLC evaluates these for the values of every run.

| Module | Theorem | States | Assumes |
| --- | --- | --- | --- |
| Phase1Proofs | `TypeCorrect` | `Spec => []TypeOK` | keys are non-empty sequences of key parts, the nesting limit is positive, the token bound is a natural number |
| | `ScopesRestored` | `Spec => []GuardRestores` | |
| | `GenerationsGrow` | `Spec => []KeyAssertionsHold` | |
| | `ListsAreNew` | `Spec => NewGenerations` | |
| Phase1TreeProofs | `ListsContinue` | `Spec => []ContinuedElementExists` | the same, and that atoms and references are entries of their kinds, with nothing below them |
| | `TreeIsBounded` | `Spec => []NestingBounded` | |
| | `NoValueIsImplicit` | `Spec => []ImplicitHoldsNoValue` | |
| | `OneElementPerValue` | `Spec => ElementPerValue` | |
| | `NothingIsLost` | `Spec => OnlyAssignRemoves` | |
| ConfigParserProofs | `ParserScopesRestored` | `ParserSpec => [](GuardRestores /\ KeyAssertionsHold)` | suites are well-formed: their statements have keys like those of phase 1, their orders are sequences of passes, their bounds natural numbers |
| | `LeftoverKeys` | `ParserSpec => []MemberLeftByFailure` | |
| JaxnProofs | `BufferHoldsDigits` | `ReaderSpec => []DigitsFit` | the JSON library matches the rules of a number in its grammar's order; all limits are natural numbers |
| Phase2Proofs | `ObjectSumsAssociate` | `process_object` is associative | - |
| | `IntegerSumsAssociate` | adding integers of both kinds is associative if no order overflows | integers have at least one bit |
| | `ArraysThenAsterisk`, `AsteriskThenArrays` | an asterisk does to the sum of two arrays what it does to each | - |
| ConfigValuesProofs | `ValuesTypes` | `ValuesSpec => []ValuesTypeOK` | what a key is extended by is a name or an index; the words of a text are names or sequences of digits; at least one digit of an index is read; bounds are natural numbers |
| | `FailedReads` | `ValuesSpec => FailedReadKeepsBeginning` | |
| | `KnownValues` | `ValuesSpec => []KnownValuesStay` | |
| | `FailedAssign` | `ValuesSpec => FailedAssignMakesObjects` | |
| | `KeysReadBack` | `ValuesSpec => []KeyTextsReadBack` | |

**Phase 1.** The four theorems follow from one inductive invariant `IInv`:

* `FramesNest`: every open rule with a guard remembers the size of its outer
  prefix, and the prefix and suffix at the time a frame was entered are exactly
  what the guards up to that frame make of the frame below. `GuardRestores`
  alone speaks of the innermost frame and says nothing of what comes to light
  when that is gone, so it is not inductive.
* `ScopeIsInside`: the current prefix is what the innermost frame made of its
  outer scope; a plain frame leaves both alone.
* `StatusFitsStack`: there are open rules exactly while parsing or unwinding.
* every generation in the scope and in the frames is at most `generation`, which
  is why `++st.generation` is larger than what `set_generation` replaces, and why
  the path that `NewGenerations` is about is in no scope that was open before.

The proof of the induction step has one lemma per kind of action: entering a
guard, entering a plain rule, leaving a rule, and steps that stay in their scope.
The tree does not matter for these properties: the lemmas only use that
`phase1_append` returns something with an error.

**The tree of phase 1.** Five theorems speak of the tree itself. They follow from
`TInv`, which is `IInv` and

* `TreeStands`: the root is a tree of at most `global_nesting_limit` levels below
  it, in which every entry has the shape of its kind, no generation is larger than the
  counter, only members are implicit, and what is implicit is hollow: there are only
  objects and asterisks in it, and all members of these objects are implicit too;
* `PathStands`: while a file is parsed, all elements that the current path goes on
  with are there, each the last one of the last array of its concat and of the
  generation in the path. At the beginning of an element the last part is missing:
  its array is there, at the end of its concat, and its generation is newer than
  what the concat has seen;
* `RulesNest`: an object or a list is in a member or an element, which is where a
  path can end with an element that is yet to be made;
* `ListsNest`: what is written in a list has, as its outer suffix, one part, which
  stands for an element of that list;
* `ContinuedElementExists`.

`ContinuedElementExists` by itself says nothing of the steps to come, and the tree
alone does not say that the lists of the parser are in it. The bound needs
`TreeStands` for the tree from before, since a path that is short enough may lead
to a place that has something below it already. The argument:

* *Trees without induction.* That a property holds of a concat and of all below it
  is stated as the existence of a set which contains it and is closed under "below"
  (`Tree`, `Hollow`). Such a set for a concat consists of those for what is directly
  below it (`TreeBelow`, `TreeAbove`, `HollowBelow`, `HollowAbove`), so a property
  of a tree can be taken apart and put together at each level of a walk.
* *One level.* What a part of a path makes ready is a tree if the part was allowed
  there (`OpenPart`), what is put back there is one (`PutPart`), and so is the end of
  the path with its change (`ApplyThing`). A change in mode `implicit` keeps what is
  hollow hollow; one in mode `manifest` leaves nothing implicit on its way.
* *The walk* (`Walk`): by induction over the length of the path, down along `walk` and
  up along `walked_back`, the tree stays one whether or not a part throws, and every
  part of a path that did not throw is there afterwards. The way down needs that the elements on
  it are there, which is `PathStands`; without it the walk would assert.
* *The steps.* Leaving a rule shortens the path, and what stood along the longer path
  stands along the shorter one (`PathLeft`); a key extends it by parts that do not
  continue an element (`PathExtended`); `[` and a call put an empty array, and a new
  generation, at its end (`ListBegins`); the next value makes the element
  (`ListGoesOn`). A change at the path keeps what stands along it (`ChangeHere`).
* *Elements.* `ElementPerValue` compares two trees, so the walk says also what it makes of
  the arrays along the path (`IsGrown`): the array of the element that is missing gets
  one more, all others keep their number. The paths of all open lists are beginnings
  of the parser's path, and each goes on with an element (`PathInList`); only the
  innermost list, and only at the beginning of an element, has the one that is missing
  (`ElementsMoved`). That the path of a list leads to the same place before and after a
  step is by recursion over its length (`ConcatAt`).
* *Nothing is lost.* That all of one tree is in another at its place is stated like a
  tree, as a set of pairs which is closed under "at the same place below" (`Kept`).
  It is transitive (`KeptTransitive`), a tree keeps itself (`TreeKeepsItself`), and so
  the walk keeps a tree if each of its parts does: what a part makes ready keeps the
  concat (`OpenKept`), what is put back below keeps what was there (`PutKept`), and so
  does every change at the end but `Clear` (`ApplyKept`). A walk that throws goes back
  through the same lemmas. `grows` is what `Kept` says level by level (`KeptGrows`).
* *The levels.* `Levels` lists the concats by depth; on its level `k` all are trees
  of at most `global_nesting_limit + 1 - k` levels (`LevelsOfTrees`), and a tree has
  at least one, so the last level is empty. What is hollow has only implicit entries
  on all levels (`HollowIsImplicit`).

**The parser object.** `ParserInv` carries `IInv` through the life of the object.
No pass touches a scope, so what has to be shown is that every way from one file
to the next goes through a state that phase 1 could have been in by itself:

* `IsInput(input)`: the events of a statement that are still to be read have
  well-formed keys, without which `IInv` is lost at the next key;
* `Control`: outside of phase 1 no rule is open and nothing is left to be read,
  so a file that begins after a result, or after an exception in any phase, begins
  at the root;
* `FirstFile`: before there was a file the member is empty. Together with
  `MemberLeftByFailure`, which says by which status it can be left over, this is
  inductive;
* `ParserTypeOK`, the type of the rest, whose bounds are those of the suite that a
  behaviour is about.

The grammar events (`Take`) are steps of Phase1, for which its lemmas are cited;
every other action leaves the variables of `IInv` alone.

**Numbers.** `ReaderInv` adds to `DigitsFit` that a number under construction has
digits only, and that the number is fresh when `idigits` comes: this action
assigns to the buffer what it computes from its own digits alone, while `fdigits`
appends, so the bound holds because of the order in which the rules of the grammar
match, and `IsMatched` is the assumption that says so. The lemmas `IdigitsFit`
and `FdigitsFit` bound the copies for any number of digits: leading zeros are
skipped, then what is left of the buffer is filled, then `drop` is set.

**Sums.** A pass adds whichever neighbours are ready, and which ones are ready
depends on the order of the passes (C++ leaves the order of the operands of `|`
open). The theorems of Phase2Proofs say why that does not show: grouping makes no
difference. For objects it holds with all flags, `remove` and `implicit` included.
For integers it is not obvious, because the kind of a mixed sum is signed, the
conversion changes the value, and unsigned sums wrap: the three sums agree modulo
`2^Bits`, have the same kind, and two integers of one kind that agree modulo
`2^Bits` are equal. The hypothesis that neither order is undefined is needed:
`(u + i) + i` may be defined where `u + (i + i)` overflows. An asterisk that meets
two arrays before or after they are added up gives the same elements: the order
that is left open between additions and asterisks does not show there either. Beside
objects the asterisk becomes an object with all their names, which are the same
before and after they are added up (`ProcessObjectMembers`).

**Keys and values.** Nothing is assumed of the values themselves, of what is
written, or of the length of keys. The argument is about two ways into a value
before and after a write:

* *One way.* A part leads to one value at most, so every place on a way is empty or
  has one value (`WayAtMostOne`), and a way that ends is not taken up again
  (`WayEnds`). Where a key leads to something `assign` goes the same way and makes
  nothing (`MadeWay`).
* *The way back.* `with_part` changes what its own part leads to and nothing that
  another part leads to (`WithPart`). Hence, up to where the way of the write came,
  `access` finds the places as the write left them (`AlongTheWay`, with the case of a
  write that succeeds as `WrittenIsFound`), and a key that leaves that way finds what it
  found, also when `assign` throws (`ElsewhereSame`, `ElsewhereStays`).
* `KnownValues` needs one strengthening, `KnownInv`: the keys under which something
  is known are sequences of names and indices. For others `with_part` need not keep
  what it does not change: a part that is neither has no place of its own. With it,
  two keys of which none begins the other part at a first place (`KeysPart`), which is
  where the lemmas on ways apply; a key that goes on from the one that is written is
  not known any more, or `assign` did not throw (`NoThrowBelow`). Initially, what
  `leads` lists is found by `access` (`LeadsLead`).
* `FailedAssign` says what such a call leaves behind. What is found after it and was
  not before lies on the way of the key and was made there (`FoundIsMade`); everything
  that was made is an empty object, to which the next part of the key added at most
  one member (`MadeIsEmpty`, `SmallObjects`). What was found before is found after,
  with the same kind (`FoundStays`). It is a property of each step by itself, except
  that `key` must be one of names and indices, for which it uses `ValuesTypes`.
* `KeysReadBack`: the digits of an index are read as that index (`DigitsReadBack`),
  and there are more of them than are read exactly from `power_of_ten` of the limit
  on. Both are by strong induction on the index, since `digits_of` recurs by division.
  An index that is too long is not read back as some other index either, since its
  rule does not match a part of the digits (`IsRead`).
* `FailedReads`: the words that are added by the actions are a beginning of the text,
  all of which match on their own, so that beginning is read without an error
  (`FailedKeyRead`); it is not the whole text, which would have been read. It is a
  property of each step by itself, except that `key` is a sequence, for which it uses
  `ValuesTypes`.

**Induction.** The induction theorems of the library are about predicates, which no
installed prover instantiates. NaturalLemmas has them about *sets* of numbers:
`InductionUpTo` for the numbers to a bound, `StrongInduction`, and the least
number of a set. This reaches what recurs over lengths and numbers. That such a
recursive function satisfies its own equation is proved in the same way (`WayIsDefined`,
`BackIsDefined`, `LeadsIsDefined`, `DigitsIsDefined`).

**Only model-checked.** The rest of the properties is about functions that recur over
trees of any shape. Not even the equation of such a function can be used in a proof,
since that there is a function with this equation would be an induction over trees: `NeverAsserts`,
`ReferencesCopy`, `ResultRepeats` and `CountsChanges` about the passes; `KeysLead` about
the tree that phase 5 returns; `ReadsLiteral`, `RefusesUnreadable` and `ReaderTypeOK`
about the nesting of a literal.
`KeepsPromise` speaks of ConfigMeaning, whose operators are recursive;
`ResultEnds` is liveness.

## 5. Not modelled

* Characters: escapes, white space, comments, and the words of keys and references
  below the level of KeyTexts; positions and messages.
* The JSON library: its grammar, the conversion of digits to a double, and output.
  `Printed` and `Words` are tables.
* The value that `parse` makes of a text: `ConfigTexts` gives the entry. The nested
  parser is phase 1 in a state of its own; Phase1 models it as it models a file.
* `from_file` and the like as actions: each is a `parse()` per file and one
  `result()`, which are behaviours of ConfigParser.
* User-defined traits (`traits.hpp`, `value.hpp`, `annotation.hpp`), except for the
  keys that phase 5 hands to them.
* Debug output (`debug_traits.hpp`, `to_stream.hpp`): it prints a tree for tests.
* Which file an include names; a cycle of includes is cut by the token bound.

## 6. Plan

1. Done: the tree, phase 1, the passes, the life of a parser object, its meaning with
   functions and integers at their limits, the refinements, literals, keys and access,
   the proofs of section 4.
2. Done: the proofs about the tree of phase 1, with `phase1_append` written by
   recursion over the length of its path.
3. Proofs: the invariant of the tree in the life of a parser object, which needs
   what each pass and each later phase keeps of it.
4. Proofs: what a whole concat has in common before and after its additions.
