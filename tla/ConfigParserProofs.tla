------------------------- MODULE ConfigParserProofs -------------------------
(***************************************************************************)
(* Proofs about ConfigParser for every set of suites, whatever the passes  *)
(* of phase 2, phase 3 and phase 5 do to the tree: the parser object       *)
(* carries the invariant of phase 1 from one file to the next, through     *)
(* exceptions and calls of result().                                       *)
(***************************************************************************)
EXTENDS ConfigParser, Phase1Proofs

(* The state of the program and of result(). *)
ParserTypeOK ==
  /\ suite \in DOMAIN Suites /\ added \subseteq Suites[suite].added
  /\ phase \in {"parse"} \cup Running \cup Ended
  /\ order \in Suites[suite].orders \cup {<<>>}
  /\ pass \in 0..4 /\ changes \subseteq Passes
  /\ statements \in 0..Suites[suite].most /\ files \in 0..Suites[suite].files
  /\ results \in 0..Suites[suite].results

(* Outside of phase 1 no rule is open and nothing is left to be read. *)
Control ==
  /\ phase # "parse" => status \in {"idle", "failed"} /\ input = <<>>
  /\ input # <<>> => status = "parsing"

FirstFile == files = 0 => status = "idle" /\ member = <<>>

(* The inductive invariant. *)
ParserInv ==
  /\ IInv /\ ParserTypeOK /\ IsInput(input)
  /\ Control /\ FirstFile /\ MemberLeftByFailure

-----------------------------------------------------------------------------
(* The events that are still to be read are those of a statement. *)
LEMMA TailIsInput ==
  ASSUME NEW evs, evs # <<>>, IsInput(evs)
  PROVE  /\ IsInput(Tail(evs))
         /\ IsKeyed(Head(evs)) => Head(evs).key \in Seq(KeyPart) \ {<<>>}
<1> DEFINE S == ToSet(evs)
           rest == Tail(evs)
           T == ToSet(rest)
<1>1. evs \in Seq(S) /\ (\A ev \in S : IsKeyed(ev) => ev.key \in Seq(KeyPart) \ {<<>>})
  BY DEF IsInput
<1> SUFFICES IsInput(rest) /\ (IsKeyed(Head(evs)) => Head(evs).key \in Seq(KeyPart) \ {<<>>})
  OBVIOUS
<1>2. /\ rest \in Seq(S) /\ Len(rest) \in Nat /\ DOMAIN rest = 1..Len(rest)
      /\ \A i \in 1..Len(rest) : rest[i] \in S
  <2> HIDE DEF S
  <2> QED  BY <1>1, HeadTailProperties, LenProperties, ElementOfSeq
<1>3. T \subseteq S /\ \A i \in 1..Len(rest) : rest[i] \in T
  <2> HIDE DEF S, rest
  <2> QED  BY <1>2 DEF ToSet
<1>4. rest \in Seq(T)
  <2> HIDE DEF T, S
  <2> DEFINE n == Len(rest)
  <2>1. n \in Nat /\ rest \in [1..n -> T]
    BY <1>2, <1>3, LenProperties
  <2> HIDE DEF n, rest
  <2> QED  BY <2>1, SeqDef
<1>5. Head(evs) \in S
  <2> HIDE DEF S
  <2> QED  BY <1>1
<1>6. IsInput(rest)
  <2> HIDE DEF rest
  <2> QED  BY <1>1, <1>3, <1>4 DEF IsInput
<1> QED  BY <1>1, <1>5, <1>6

LEMMA NothingIsInput == IsInput(<<>>)
<1>1. ToSet(<<>>) = {}
  BY DEF ToSet
<1> QED  BY <1>1 DEF IsInput

-----------------------------------------------------------------------------
(* A grammar event is a step of phase 1. *)
LEMMA TakeStep ==
  ASSUME NEW ev, IInv, Take(ev), IsKeyed(ev) => ev.key \in Seq(KeyPart) \ {<<>>}
  PROVE  IInv'
<1>1. CASE ev.event = "key" /\ MemberKey(ev.key)
  BY <1>1, MemberKeyStep DEF IsKeyed
<1>2. CASE ev.event = "mark" /\ Mark(ev.key, ev.temporary)
  BY <1>2, MarkStep DEF IsKeyed
<1>3. CASE AssignHead \/ AppendHead \/ Delete \/ EndObject \/ EndElements \/ Plus
  BY <1>3, PlainStep
<1>4. CASE EndValueList
  BY <1>4, EndValueListStep
<1>5. CASE Literal(ev.entry) \/ BeginArray \/ BeginObject \/ FunctionName(ev.function)
  BY <1>5, ValueStep
<1> QED  BY <1>1, <1>2, <1>3, <1>4, <1>5 DEF Take

(* It leaves the key of an extension behind only by failing. *)
LEMMA TakeMember ==
  ASSUME NEW ev, Take(ev)
  PROVE  /\ status = "parsing"
         /\ member' = member \/ member' = <<>> \/ status' \in {"throwing", "assert_append"}
<1>1. CASE Mark(ev.key, ev.temporary)
  BY <1>1 DEF Mark, InMembers, StatusAfter
<1>2. CASE ~ Mark(ev.key, ev.temporary)
  BY <1>2
     DEF Take, MemberKey, AssignHead, AppendHead, Delete, Literal, BeginArray, BeginObject,
         FunctionName, AddValue, EndObject, EndElements, Plus, EndValueList, InMembers, InValue
<1> QED  BY <1>1, <1>2

LEMMA BoundsAreNat ==
  ASSUME ParserTypeOK
  PROVE  /\ Suites[suite].most \in Nat /\ Suites[suite].files \in Nat /\ Suites[suite].results \in Nat
         /\ files \in Nat /\ Suites[suite].added \subseteq DOMAIN Extensions
  BY SuitesAssumption DEF ParserTypeOK

LEMMA BeginFileStep ==
  ASSUME ParserInv, BeginFile
  PROVE  ParserInv'
<1> USE DEF ParserInv, BeginFile
<1>1. IInv' /\ status' = "parsing" /\ member' = member /\ status \in {"idle", "failed"}
  BY PlainStep DEF ParseFile
<1>2. ParserTypeOK'
  BY BoundsAreNat DEF ParserTypeOK, iteration
<1>3. IsInput(input)' /\ Control'
  BY <1>1 DEF Control
<1>4. files' = files + 1 /\ files \in Nat
  BY BoundsAreNat
<1>5. FirstFile' /\ MemberLeftByFailure'
  BY <1>1, <1>4 DEF FirstFile, MemberLeftByFailure
<1> QED  BY <1>1, <1>2, <1>3, <1>5

LEMMA BeginStatementStep ==
  ASSUME ParserInv, BeginStatement
  PROVE  ParserInv'
<1> USE DEF ParserInv, BeginStatement
<1>1. UNCHANGED vars /\ status = "parsing"
  BY DEF InMembers
<1>2. IInv' /\ MemberLeftByFailure' /\ FirstFile'
  BY <1>1, IdleStep DEF vars, MemberLeftByFailure, FirstFile
<1>3. ParserTypeOK'
  BY BoundsAreNat DEF ParserTypeOK, finish, iteration
<1>4. IsInput(input)'
  BY StatementsAssumption DEF ParserTypeOK
<1>5. Control'
  BY <1>1 DEF Control, finish, vars
<1> QED  BY <1>2, <1>3, <1>4, <1>5

LEMMA ReadStep ==
  ASSUME ParserInv, Read
  PROVE  ParserInv'
<1> USE DEF ParserInv, Read
<1>1. IsInput(Tail(input)) /\ (IsKeyed(Head(input)) => Head(input).key \in Seq(KeyPart) \ {<<>>})
  BY TailIsInput
<1>2. IInv'
  BY <1>1, TakeStep
<1>3. IsInput(input)'
  BY <1>1, NothingIsInput
<1>4. ParserTypeOK' /\ Control'
  BY DEF ParserTypeOK, Control, finish, iteration
<1>5. FirstFile' /\ MemberLeftByFailure'
  BY TakeMember DEF FirstFile, MemberLeftByFailure
<1> QED  BY <1>2, <1>3, <1>4, <1>5

(* A file ends, or an exception leaves a rule. *)
LEMMA LeavingStep ==
  ASSUME ParserInv, EndInput \/ FailParse
  PROVE  ParserInv'
<1> USE DEF ParserInv
<1>1. IInv' /\ UNCHANGED <<member, program, iteration, asked, settled, result>>
  BY PlainStep DEF EndInput, FailParse, EndFile, Unwind, finish
<1>2. /\ status = "parsing" /\ status' \in {"idle", "parsing"} /\ phase' = phase /\ input = <<>>
      \/ /\ status = "throwing" /\ status' \in {"throwing", "failed"} /\ input = <<>>
         /\ phase' = IF status' = "failed" THEN "parse_error" ELSE phase
  BY DEF EndInput, FailParse, EndFile, Unwind, InMembers, finish, Control
<1>3. phase = "parse"
  BY <1>2 DEF Control
<1>4. ParserTypeOK'
  BY <1>1, <1>2 DEF ParserTypeOK, Ended, program, iteration
<1>5. IsInput(input)' /\ Control'
  BY <1>1, <1>2, <1>3 DEF Control, program
<1>6. FirstFile' /\ MemberLeftByFailure'
  BY <1>1, <1>2 DEF FirstFile, MemberLeftByFailure, program
<1> QED  BY <1>1, <1>4, <1>5, <1>6

(* The program adds a function, calls result(), or result() goes on. *)
LEMMA PhaseAfterType ==
  ASSUME NEW error, NEW next \in Running \cup {"done"}
  PROVE  PhaseAfter(error, next) \in {next} \cup Aborts \cup {"parse_error"}
  BY DEF PhaseAfter, Aborts

LEMMA ResultStep ==
  ASSUME ParserInv, (\E name : AddFunction(name)) \/ Finish \/ Phase2 \/ Remove3 \/ Repack
  PROVE  ParserInv'
<1> USE DEF ParserInv
<1>1. UNCHANGED building /\ UNCHANGED <<suite, input, statements, files>>
  BY DEF AddFunction, Finish, Phase2, PassFunctions, PassAdditions, PassReferences, PassAsterisks,
         Pass, NextIteration, Remove3, Repack, vars, building, program
<1>2. IInv' /\ IsInput(input)' /\ FirstFile' /\ MemberLeftByFailure'
  BY <1>1, IdleStep DEF building, FirstFile, MemberLeftByFailure
<1> SUFFICES ParserTypeOK' /\ Control'
  BY <1>2
<1>3. ASSUME NEW name, AddFunction(name)
      PROVE  ParserTypeOK' /\ Control'
  BY <1>3, BoundsAreNat DEF AddFunction, ParserTypeOK, Control, finish, iteration, vars
<1>4. CASE Finish
  <2>1. ParserTypeOK'
    BY <1>4, BoundsAreNat DEF Finish, ParserTypeOK, Running
  <2>2. Control'
    BY <1>1, <1>4 DEF Finish, InProgram, Control, building
  <2> QED  BY <2>1, <2>2
<1>5. ASSUME phase \in Running, phase' \in Running \cup Ended,
             pass' \in 0..4, changes' \subseteq Passes,
             UNCHANGED <<added, results, order>>
      PROVE  ParserTypeOK' /\ Control'
  <2>1. ParserTypeOK'
    BY <1>1, <1>5 DEF ParserTypeOK
  <2>2. Control'
    BY <1>1, <1>5 DEF Control, Running, building
  <2> QED  BY <2>1, <2>2
<1>6. ASSUME NEW name \in Passes, NEW r, Pass(name, r)
      PROVE  ParserTypeOK' /\ Control'
  <2>1. phase' \in {phase} \cup Aborts \cup {"parse_error"} /\ phase \in Running
    BY <1>6, PhaseAfterType DEF Pass, Running
  <2>2. pass' \in 0..4 /\ changes' \subseteq Passes
    BY <1>6 DEF Pass, ParserTypeOK
  <2> QED  BY <1>5, <1>6, <2>1, <2>2 DEF Pass, program, Aborts, Ended
<1>7. CASE Phase2
  <2>1. CASE NextIteration
    BY <1>5, <2>1 DEF NextIteration, Running, program
  <2>2. CASE PassFunctions \/ PassAdditions \/ PassReferences \/ PassAsterisks
    BY <1>6, <2>2 DEF PassFunctions, PassAdditions, PassReferences, PassAsterisks, Passes
  <2> QED  BY <1>7, <2>1, <2>2 DEF Phase2
<1>8. CASE Remove3 \/ Repack
  <2>1. phase \in Running /\ phase' \in Running \cup Ended
    BY <1>8, PhaseAfterType DEF Remove3, Repack, Running, Ended, Aborts
  <2>2. UNCHANGED <<added, results, order, pass, changes>>
    BY <1>8 DEF Remove3, Repack, program, iteration
  <2> QED  BY <1>5, <2>1, <2>2 DEF ParserTypeOK
<1> QED  BY <1>3, <1>4, <1>7, <1>8

LEMMA ParserInitInvariant == ParserInit => ParserInv
<1> SUFFICES ASSUME ParserInit PROVE ParserInv
  OBVIOUS
<1>1. IInv
  BY InitInvariant DEF ParserInit
<1>2. ParserTypeOK
  BY SuitesAssumption DEF ParserInit, ParserTypeOK
<1>3. IsInput(input) /\ Control /\ FirstFile /\ MemberLeftByFailure
  BY NothingIsInput
     DEF ParserInit, Init, Control, FirstFile, MemberLeftByFailure
<1> QED  BY <1>1, <1>2, <1>3 DEF ParserInv

LEMMA ParserStepInvariant == ParserInv /\ [ParserNext]_parserVars => ParserInv'
<1> SUFFICES ASSUME ParserInv, [ParserNext]_parserVars PROVE ParserInv'
  OBVIOUS
<1>1. CASE UNCHANGED parserVars
  <2>1. IInv'
    BY <1>1, IdleStep DEF ParserInv, parserVars, vars
  <2> QED
    BY <1>1, <2>1
       DEF ParserInv, parserVars, vars, program, finish, iteration, ParserTypeOK, Control,
           FirstFile, MemberLeftByFailure
<1>2. CASE BeginFile \/ BeginStatement \/ Read
  BY <1>2, BeginFileStep, BeginStatementStep, ReadStep
<1>3. CASE EndInput \/ FailParse
  BY <1>3, LeavingStep
<1>4. CASE (\E name : AddFunction(name)) \/ Finish \/ Phase2 \/ Remove3 \/ Repack
  BY <1>4, ResultStep
<1> QED  BY <1>1, <1>2, <1>3, <1>4 DEF ParserNext

LEMMA ParserInvariance == ParserSpec => []ParserInv
<1> QED  BY ParserInitInvariant, ParserStepInvariant, PTL DEF ParserSpec

-----------------------------------------------------------------------------
(* A parser object that is used again, after a result or after an exception *)
(* in any rule, starts in the scope of the root: what key1_guard promises   *)
(* for one file it keeps for all of them.                                   *)
THEOREM ParserScopesRestored == ParserSpec => [](GuardRestores /\ KeyAssertionsHold)
<1>1. ParserInv => GuardRestores /\ KeyAssertionsHold
  BY TopRestores DEF ParserInv, IInv, Scopes, GuardRestores, StatusFitsStack, ScopeIsInside
<1> QED  BY <1>1, ParserInvariance, PTL

(* key1_rule: its assertion that the member is empty cannot fail in the     *)
(* first file that a parser is given.                                       *)
THEOREM LeftoverKeys == ParserSpec => []MemberLeftByFailure
<1>1. ParserInv => MemberLeftByFailure
  BY DEF ParserInv
<1> QED  BY <1>1, ParserInvariance, PTL

=============================================================================
