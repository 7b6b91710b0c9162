---------------------------- MODULE Phase1Proofs ----------------------------
(***************************************************************************)
(* Proofs about Phase1 for every set of keys, values, references and       *)
(* functions and for every bound: the control state is well typed, every   *)
(* rule gives back the scope it was entered with, and the assertions on    *)
(* the generations of value lists hold.                                    *)
(*                                                                         *)
(* What phase1_append does to the tree stays unexpanded: these facts hold  *)
(* whatever it returns.                                                    *)
(***************************************************************************)
EXTENDS Phase1, SequenceTheorems, TLAPS

(* The prefix p and suffix s inside frame: a guard moved the outer suffix   *)
(* to the prefix and put a suffix of its own in its place.                  *)
Inside(frame, p, s) ==
  IF frame.rule \in GuardRules
  THEN p = frame.outer.prefix \o frame.outer.suffix /\ s # <<>>
  ELSE p = frame.outer.prefix /\ s = frame.outer.suffix

(* Frames nest: each was entered with the scope inside the frame below it.  *)
FramesNest ==
  /\ \A i \in 1..Len(stack) : stack[i].size = Len(stack[i].outer.prefix)
  /\ stack # <<>> => stack[1].rule = "file" /\ stack[1].outer = [prefix |-> <<>>, suffix |-> <<>>]
  /\ \A i \in 1..(Len(stack) - 1) :
       Inside(stack[i], stack[i + 1].outer.prefix, stack[i + 1].outer.suffix)

ScopeIsInside ==
  IF stack = <<>> THEN prefix = <<>> /\ suffix = <<>> ELSE Inside(Top, prefix, suffix)

StatusFitsStack ==
  /\ status \in {"parsing", "throwing"} => stack # <<>>
  /\ status \in {"idle", "failed"} => stack = <<>>

UpTo(key, g) == \A i \in 1..Len(key) : key[i].kind = "append" => key[i].generation <= g

(* The inductive invariant. *)
Scopes == TypeOK /\ FramesNest /\ ScopeIsInside /\ StatusFitsStack
IInv   == /\ Scopes
          /\ UpTo(prefix, generation) /\ UpTo(suffix, generation)
          /\ KeyAssertionsHold

-----------------------------------------------------------------------------
(* Taking a concatenation apart at the length of its first half. *)
LEMMA SplitConcat ==
  ASSUME NEW S, NEW p \in Seq(S), NEW s \in Seq(S)
  PROVE  /\ SubSeq(p \o s, 1, Len(p)) = p
         /\ SubSeq(p \o s, Len(p) + 1, Len(p \o s)) = s
  OBVIOUS

(* All but the last element of a sequence. *)
LEMMA FrontOfSeq ==
  ASSUME NEW S, NEW s \in Seq(S), s # <<>>
  PROVE  /\ Front(s) \in Seq(S) /\ Len(Front(s)) = Len(s) - 1
         /\ \A i \in 1..(Len(s) - 1) : Front(s)[i] = s[i]
<1> DEFINE n == Len(s) - 1
<1>1. n \in Nat /\ Front(s) = SubSeq(s, 1, n) /\ n - 1 + 1 = n
  BY DEF Front
<1>2. \A i \in 1..n : s[i] \in S /\ 1 + i - 1 = i
  OBVIOUS
<1>3. /\ SubSeq(s, 1, n) \in Seq(S)
      /\ Len(SubSeq(s, 1, n)) = IF 1 <= n THEN n - 1 + 1 ELSE 0
      /\ \A i \in 1..(n - 1 + 1) : SubSeq(s, 1, n)[i] = s[1 + i - 1]
  <2> HIDE DEF n
  <2> QED  BY <1>1, <1>2, SubSeqProperties
<1>4. (IF 1 <= n THEN n - 1 + 1 ELSE 0) = n
  <2> HIDE DEF n
  <2> QED  BY <1>1
<1> QED  BY <1>1, <1>2, <1>3, <1>4

(* What the destructor of a guard, or no guard, gives back. *)
LEMMA TopRestores ==
  ASSUME Scopes, stack # <<>>
  PROVE  /\ Top \in Frame
         /\ Restored(Top) = Top.outer
<1>1. /\ Len(stack) \in Nat \ {0}
      /\ Top = stack[Len(stack)]
      /\ Top \in Frame
  BY DEF Scopes, TypeOK, Top, Last
<1>2. /\ Top.outer.prefix \in Seq(PathPart) /\ Top.outer.suffix \in Seq(PathPart)
      /\ Top.outer = [prefix |-> Top.outer.prefix, suffix |-> Top.outer.suffix]
  BY <1>1 DEF Frame
<1>3. Top.size = Len(Top.outer.prefix) /\ Inside(Top, prefix, suffix)
  BY <1>1 DEF Scopes, FramesNest, ScopeIsInside
<1>4. CASE Top.rule \in GuardRules
  <2> DEFINE p == Top.outer.prefix
             s == Top.outer.suffix
  <2>1. prefix = p \o s /\ Top.size = Len(p)
    BY <1>3, <1>4 DEF Inside
  <2>2. p \in Seq(PathPart) /\ s \in Seq(PathPart)
    BY <1>2
  <2>3. SubSeq(prefix, 1, Top.size) = p /\ SubSeq(prefix, Top.size + 1, Len(prefix)) = s
    <3> HIDE DEF p, s
    <3> QED  BY <2>1, <2>2, SplitConcat
  <2>4. Restored(Top) = [prefix |-> p, suffix |-> s]
    BY <1>4, <2>3 DEF Restored
  <2> QED  BY <1>1, <1>2, <2>4
<1>5. CASE Top.rule \notin GuardRules
  BY <1>1, <1>2, <1>3, <1>5 DEF Inside, Restored
<1> QED  BY <1>4, <1>5

(* Entering a rule with a guard nests its frame in the current scope. *)
LEMMA EnterGuardNests ==
  ASSUME Scopes, stack # <<>>,
         NEW rule \in GuardRules, NEW inner \in Seq(PathPart), inner # <<>>,
         EnterGuard(rule, inner)
  PROVE  /\ FramesNest' /\ ScopeIsInside' /\ stack' # <<>>
         /\ stack' \in Seq(Frame) /\ prefix' \in Seq(PathPart) /\ suffix' \in Seq(PathPart)
<1> DEFINE n == Len(stack)
<1>1. /\ n \in Nat \ {0} /\ stack \in Seq(Frame)
      /\ prefix \in Seq(PathPart) /\ suffix \in Seq(PathPart)
  BY DEF Scopes, TypeOK
<1>2. Open(rule) \in Frame
  BY <1>1 DEF Open, Frame, Rules, GuardRules
<1>3. /\ stack' = Append(stack, Open(rule)) /\ Len(stack') = n + 1
      /\ stack'[n + 1] = Open(rule)
      /\ \A i \in 1..n : stack'[i] = stack[i]
      /\ stack' \in Seq(Frame)
  BY <1>1, <1>2 DEF EnterGuard
<1>4. prefix' = prefix \o suffix /\ suffix' = inner
  BY DEF EnterGuard
<1>5. Inside(stack[n], prefix, suffix)
  BY <1>1 DEF Scopes, ScopeIsInside, Top, Last
<1>6. FramesNest'
  <2>1. \A i \in 1..(n + 1) : stack'[i].size = Len(stack'[i].outer.prefix)
    BY <1>1, <1>3 DEF Scopes, FramesNest, Open
  <2>2. \A i \in 1..n : Inside(stack'[i], stack'[i + 1].outer.prefix, stack'[i + 1].outer.suffix)
    <3>1. Inside(stack'[n], stack'[n + 1].outer.prefix, stack'[n + 1].outer.suffix)
      BY <1>1, <1>3, <1>5 DEF Open
    <3>2. \A i \in 1..(n - 1) : Inside(stack'[i], stack'[i + 1].outer.prefix, stack'[i + 1].outer.suffix)
      BY <1>1, <1>3 DEF Scopes, FramesNest
    <3>3. \A i \in 1..n : i = n \/ i \in 1..(n - 1)
      BY <1>1
    <3> QED  BY <3>1, <3>2, <3>3
  <2>3. stack'[1] = stack[1] /\ stack'[1].rule = "file"
        /\ stack'[1].outer = [prefix |-> <<>>, suffix |-> <<>>]
    BY <1>1, <1>3 DEF Scopes, FramesNest
  <2>4. Len(stack') - 1 = n
    BY <1>1, <1>3
  <2> HIDE DEF n
  <2> QED  BY <1>3, <2>1, <2>2, <2>3, <2>4 DEF FramesNest, Inside
<1>7. ScopeIsInside'
  <2>1. stack' # <<>> /\ Top' = Open(rule)
    BY <1>1, <1>3 DEF Top, Last
  <2>2. Open(rule).outer.prefix = prefix /\ Open(rule).outer.suffix = suffix
        /\ Open(rule).rule \in GuardRules
    BY DEF Open
  <2> QED  BY <1>4, <2>1, <2>2 DEF ScopeIsInside, Inside
<1> QED  BY <1>1, <1>3, <1>4, <1>6, <1>7

(* Entering a rule without a guard nests its frame in the same scope. *)
LEMMA EnterPlainNests ==
  ASSUME Scopes,
         NEW rule \in {"file", "object"}, stack = <<>> => rule = "file",
         EnterPlain(rule)
  PROVE  /\ FramesNest' /\ ScopeIsInside' /\ stack' # <<>>
         /\ stack' \in Seq(Frame) /\ prefix' \in Seq(PathPart) /\ suffix' \in Seq(PathPart)
<1> DEFINE n == Len(stack)
<1>1. /\ n \in Nat /\ stack \in Seq(Frame)
      /\ prefix \in Seq(PathPart) /\ suffix \in Seq(PathPart)
      /\ n = 0 <=> stack = <<>>
  BY DEF Scopes, TypeOK
<1>2. /\ Open(rule) \in Frame
      /\ Open(rule).rule = rule /\ rule \notin GuardRules
      /\ Open(rule).outer = [prefix |-> prefix, suffix |-> suffix]
      /\ Open(rule).size = Len(prefix)
  BY <1>1 DEF Open, Frame, Rules, GuardRules
<1>3. /\ stack' = Append(stack, Open(rule)) /\ Len(stack') = n + 1
      /\ stack'[n + 1] = Open(rule)
      /\ \A i \in 1..n : stack'[i] = stack[i]
      /\ stack' \in Seq(Frame)
  BY <1>1, <1>2 DEF EnterPlain
<1>4. prefix' = prefix /\ suffix' = suffix
  BY DEF EnterPlain, key1s
<1>5. FramesNest'
  <2>1. \A i \in 1..(n + 1) : stack'[i].size = Len(stack'[i].outer.prefix)
    BY <1>1, <1>2, <1>3 DEF Scopes, FramesNest
  <2>2. \A i \in 1..n : Inside(stack'[i], stack'[i + 1].outer.prefix, stack'[i + 1].outer.suffix)
    <3>1. n # 0 => Inside(stack'[n], stack'[n + 1].outer.prefix, stack'[n + 1].outer.suffix)
      BY <1>1, <1>2, <1>3 DEF Scopes, ScopeIsInside, Top, Last
    <3>2. \A i \in 1..(n - 1) : Inside(stack'[i], stack'[i + 1].outer.prefix, stack'[i + 1].outer.suffix)
      BY <1>1, <1>3 DEF Scopes, FramesNest
    <3>3. \A i \in 1..n : (i = n /\ n # 0) \/ i \in 1..(n - 1)
      BY <1>1
    <3> QED  BY <3>1, <3>2, <3>3
  <2>3. stack'[1].rule = "file" /\ stack'[1].outer = [prefix |-> <<>>, suffix |-> <<>>]
    BY <1>1, <1>2, <1>3 DEF Scopes, FramesNest, ScopeIsInside
  <2>4. Len(stack') - 1 = n
    BY <1>1, <1>3
  <2> HIDE DEF n
  <2> QED  BY <1>3, <2>1, <2>2, <2>3, <2>4 DEF FramesNest, Inside
<1>6. ScopeIsInside'
  <2>1. stack' # <<>> /\ Top' = Open(rule)
    BY <1>1, <1>3 DEF Top, Last
  <2>2. Inside(Open(rule), prefix, suffix)
    BY <1>2 DEF Inside
  <2> QED  BY <1>4, <2>1, <2>2 DEF ScopeIsInside, Inside
<1> QED  BY <1>1, <1>3, <1>4, <1>5, <1>6

(* Leaving a rule, by its end or by an exception, restores its outer scope. *)
LEMMA LeaveRuleNests ==
  ASSUME Scopes, stack # <<>>, LeaveRule
  PROVE  /\ FramesNest' /\ ScopeIsInside'
         /\ Len(stack') = Len(stack) - 1
         /\ stack' \in Seq(Frame) /\ prefix' \in Seq(PathPart) /\ suffix' \in Seq(PathPart)
         /\ prefix' = Top.outer.prefix /\ suffix' = Top.outer.suffix
<1> DEFINE n == Len(stack)
<1>1. /\ n \in Nat \ {0} /\ stack \in Seq(Frame) /\ Top = stack[n]
  BY DEF Scopes, TypeOK, Top, Last
<1>2. /\ Len(stack') = n - 1 /\ stack' \in Seq(Frame)
      /\ \A i \in 1..(n - 1) : stack'[i] = stack[i]
  BY <1>1, FrontOfSeq DEF LeaveRule
<1>3. /\ prefix' = Top.outer.prefix /\ suffix' = Top.outer.suffix
      /\ prefix' \in Seq(PathPart) /\ suffix' \in Seq(PathPart)
  BY TopRestores DEF LeaveRule, Frame
<1>4. FramesNest'
  <2>1. \A i \in 1..(n - 1) : stack'[i].size = Len(stack'[i].outer.prefix)
    BY <1>1, <1>2 DEF Scopes, FramesNest
  <2>2. \A i \in 1..(n - 2) : Inside(stack'[i], stack'[i + 1].outer.prefix, stack'[i + 1].outer.suffix)
    <3>1. \A i \in 1..(n - 2) : i \in 1..(n - 1) /\ i + 1 \in 1..(n - 1)
      BY <1>1
    <3> QED  BY <1>1, <1>2, <3>1 DEF Scopes, FramesNest
  <2>3. stack' # <<>> => stack'[1] = stack[1]
    BY <1>1, <1>2
  <2>4. Len(stack') - 1 = n - 2
    BY <1>1, <1>2
  <2> QED  BY <1>2, <2>1, <2>2, <2>3, <2>4 DEF Scopes, FramesNest, Inside
<1>5. ScopeIsInside'
  <2>1. CASE n = 1
    BY <1>1, <1>2, <1>3, <2>1 DEF Scopes, FramesNest, ScopeIsInside
  <2>2. CASE n # 1
    <3>1. n - 1 \in 1..(n - 1) /\ (n - 1) + 1 = n
      <4> HIDE DEF n
      <4> QED  BY <1>1, <2>2
    <3>2. Inside(stack[n - 1], stack[n].outer.prefix, stack[n].outer.suffix)
      BY <1>1, <3>1 DEF Scopes, FramesNest
    <3>3. stack' # <<>> /\ Top' = stack[n - 1]
      BY <1>1, <1>2, <3>1 DEF Top, Last
    <3> QED  BY <1>1, <1>3, <3>2, <3>3 DEF ScopeIsInside, Inside
  <2> QED  BY <2>1, <2>2
<1> QED  BY <1>2, <1>3, <1>4, <1>5

-----------------------------------------------------------------------------
(* Generations in a key: from parts to the whole, back, and to a later time. *)

LEMMA KeyPartOrAppend ==
  ASSUME NEW part \in PathPart
  PROVE  part \in KeyPart \/ (part.kind = "append" /\ part.generation \in Nat \ {0})
  BY DEF PathPart

LEMMA KeyPartIsNoAppend ==
  ASSUME NEW part \in KeyPart
  PROVE  part.kind # "append"
  BY DEF KeyPart

LEMMA UpToConcat ==
  ASSUME NEW g \in Nat, NEW p \in Seq(PathPart), NEW s \in Seq(PathPart)
  PROVE  UpTo(p, g) /\ UpTo(s, g) <=> UpTo(p \o s, g)
<1>1. /\ Len(p) \in Nat /\ Len(s) \in Nat /\ Len(p \o s) = Len(p) + Len(s)
      /\ \A i \in 1..Len(p) : (p \o s)[i] = p[i]
      /\ \A i \in 1..Len(s) : (p \o s)[Len(p) + i] = s[i]
  OBVIOUS
<1>2. ASSUME UpTo(p, g), UpTo(s, g)
      PROVE  UpTo(p \o s, g)
  <2>1. \A i \in 1..Len(p \o s) : i \in 1..Len(p) \/ (i - Len(p)) \in 1..Len(s)
    BY <1>1
  <2>2. \A i \in 1..Len(p \o s) : i \notin 1..Len(p) => (p \o s)[i] = s[i - Len(p)]
    BY <1>1
  <2> QED  BY <1>1, <1>2, <2>1, <2>2 DEF UpTo
<1>3. ASSUME UpTo(p \o s, g)
      PROVE  UpTo(p, g) /\ UpTo(s, g)
  <2>1. \A i \in 1..Len(p) : i \in 1..Len(p \o s)
    BY <1>1
  <2>2. \A i \in 1..Len(s) : Len(p) + i \in 1..Len(p \o s)
    BY <1>1
  <2> QED  BY <1>1, <1>3, <2>1, <2>2 DEF UpTo
<1> QED  BY <1>2, <1>3

LEMMA UpToLater ==
  ASSUME NEW key \in Seq(PathPart), NEW g \in Nat, UpTo(key, g)
  PROVE  UpTo(key, g + 1)
<1>1. \A i \in 1..Len(key) : key[i] \in PathPart
  OBVIOUS
<1>2. ASSUME NEW i \in 1..Len(key), key[i].kind = "append"
      PROVE  key[i].generation <= g + 1
  <2>1. key[i].generation \in Nat
    BY <1>1, <1>2, KeyPartOrAppend, KeyPartIsNoAppend
  <2>2. key[i].generation <= g
    BY <1>2 DEF UpTo
  <2> QED  BY <2>1, <2>2
<1> QED  BY <1>2 DEF UpTo

LEMMA KeyIsUpTo ==
  ASSUME NEW key \in Seq(KeyPart) \ {<<>>}, NEW g \in Nat
  PROVE  key \in Seq(PathPart) /\ key \in Seq(KeyPart) /\ key # <<>> /\ UpTo(key, g)
<1>1. key \in Seq(KeyPart) /\ key # <<>>
  OBVIOUS
<1>2. \A i \in 1..Len(key) : key[i] \in KeyPart
  BY <1>1
<1>3. key \in Seq(PathPart)
  BY <1>1, SeqMonotonic DEF PathPart
<1> QED  BY <1>1, <1>2, <1>3, KeyPartIsNoAppend DEF UpTo

(* A rule that is left gives back parts of the prefix, or nothing new. *)
LEMMA LeaveRuleUpTo ==
  ASSUME Scopes, stack # <<>>, LeaveRule, UpTo(prefix, generation), UpTo(suffix, generation)
  PROVE  UpTo(prefix', generation) /\ UpTo(suffix', generation)
<1>1. Inside(Top, prefix, suffix)
  BY DEF Scopes, ScopeIsInside
<1>2. /\ prefix' = Top.outer.prefix /\ suffix' = Top.outer.suffix
      /\ prefix' \in Seq(PathPart) /\ suffix' \in Seq(PathPart)
  BY LeaveRuleNests
<1>3. generation \in Nat
  BY DEF Scopes, TypeOK
<1>4. (prefix = prefix' \o suffix') \/ (prefix = prefix' /\ suffix = suffix')
  BY <1>1, <1>2 DEF Inside
<1>5. CASE prefix = prefix' \o suffix'
  <2>1. UpTo(prefix' \o suffix', generation)
    BY <1>5
  <2> QED  BY <1>2, <1>3, <2>1, UpToConcat
<1>6. CASE prefix = prefix' /\ suffix = suffix'
  BY <1>6
<1> QED  BY <1>4, <1>5, <1>6

-----------------------------------------------------------------------------
(* The steps of Next, as far as the scopes are concerned. *)

LEMMA ScopeStays ==
  ASSUME Scopes, UNCHANGED <<stack, prefix, suffix>>
  PROVE  FramesNest' /\ ScopeIsInside'
  BY DEF Scopes, FramesNest, ScopeIsInside, Inside, Top

LEMMA StatusAfterType ==
  ASSUME NEW error
  PROVE  StatusAfter(error) \in {"parsing", "throwing", "assert_append"}
  BY DEF StatusAfter

(* A step that adds a value and stays in its rule. *)
LEMMA LiteralStep ==
  ASSUME IInv, NEW e, Literal(e)
  PROVE  IInv'
<1>1. /\ status' \in {"parsing", "throwing", "assert_append"} /\ stack # <<>>
      /\ tokens' \in 0..MaxTokens
  BY StatusAfterType, BoundAssumption
     DEF Literal, AddValue, InValue, Spend, IInv, Scopes, StatusFitsStack, TypeOK
<1>2. TypeOK' /\ StatusFitsStack' /\ KeyAssertionsHold'
  BY <1>1 DEF Literal, AddValue, key1s, Statuses, Aborted, Places, IInv, Scopes, TypeOK,
              StatusFitsStack, KeyAssertionsHold
<1>3. FramesNest' /\ ScopeIsInside'
  BY ScopeStays DEF Literal, key1s, IInv
<1>4. UpTo(prefix', generation') /\ UpTo(suffix', generation')
  BY DEF Literal, key1s, IInv
<1> QED  BY <1>2, <1>3, <1>4 DEF IInv, Scopes, UpTo

(* A step that adds an array or a function call and opens its elements. *)
LEMMA OpenElementsStep ==
  ASSUME IInv, NEW thing, AddValue(thing), OpenElements
  PROVE  IInv'
<1>1. /\ status' \in {"parsing", "throwing", "assert_append"} /\ stack # <<>>
      /\ tokens' \in 0..MaxTokens /\ generation \in Nat \ {0}
      /\ prefix \in Seq(PathPart) /\ suffix \in Seq(PathPart)
      /\ member' \in Seq(KeyPart) /\ include_is_optional' \in BOOLEAN
  BY StatusAfterType, BoundAssumption
     DEF AddValue, InValue, Spend, IInv, Scopes, StatusFitsStack, TypeOK
<1>2. CASE status' = "parsing"
  <2> DEFINE inner == <<AppendPart(generation + 1)>>
  <2>1. inner \in Seq(PathPart) /\ inner # <<>>
    BY <1>1 DEF AppendPart, PathPart
  <2>2. EnterGuard("elements", inner) /\ generation' = generation + 1 /\ at' = "elements"
    BY <1>2 DEF OpenElements
  <2>3. /\ FramesNest' /\ ScopeIsInside' /\ stack' # <<>>
        /\ stack' \in Seq(Frame) /\ prefix' \in Seq(PathPart) /\ suffix' \in Seq(PathPart)
    <3> HIDE DEF inner
    <3> QED  BY <1>1, <2>1, <2>2, EnterGuardNests DEF IInv, GuardRules
  <2>4. UpTo(prefix', generation')
    <3>1. UpTo(prefix \o suffix, generation) /\ prefix \o suffix \in Seq(PathPart)
      BY <1>1, UpToConcat DEF IInv
    <3> QED  BY <1>1, <2>2, <3>1, UpToLater DEF EnterGuard
  <2>5. UpTo(suffix', generation')
    BY <1>1, <2>2 DEF EnterGuard, UpTo, AppendPart
  <2> QED
    BY <1>1, <1>2, <2>2, <2>3, <2>4, <2>5
       DEF IInv, Scopes, TypeOK, StatusFitsStack, KeyAssertionsHold, Statuses, Places, UpTo
<1>3. CASE status' # "parsing"
  <2>1. UNCHANGED <<generation, prefix, suffix, stack, at>>
    BY <1>3 DEF OpenElements, key1s, control
  <2>2. FramesNest' /\ ScopeIsInside'
    BY <2>1, ScopeStays DEF IInv
  <2> QED
    BY <1>1, <1>3, <2>1, <2>2
       DEF IInv, Scopes, TypeOK, StatusFitsStack, KeyAssertionsHold, Statuses, Aborted, UpTo
<1> QED  BY <1>2, <1>3

(* A step that opens a rule without a guard, in a scope that stays. *)
LEMMA OpenPlainStep ==
  ASSUME IInv,
         NEW rule \in {"file", "object"}, stack = <<>> => rule = "file",
         EnterPlain(rule), status' = "parsing", at' \in Places,
         member' \in Seq(KeyPart), include_is_optional' \in BOOLEAN, tokens' \in 0..MaxTokens,
         UNCHANGED generation
  PROVE  IInv'
<1>1. /\ FramesNest' /\ ScopeIsInside' /\ stack' # <<>>
      /\ stack' \in Seq(Frame) /\ prefix' \in Seq(PathPart) /\ suffix' \in Seq(PathPart)
  BY EnterPlainNests DEF IInv
<1> QED
  BY <1>1 DEF IInv, Scopes, TypeOK, StatusFitsStack, KeyAssertionsHold, Statuses, UpTo,
              EnterPlain, key1s

(* A step that leaves the innermost rule. *)
LEMMA LeaveStep ==
  ASSUME IInv, stack # <<>>, LeaveRule,
         status' \in {"idle", "parsing", "throwing", "failed"},
         status' \in {"idle", "failed"} <=> Len(stack) = 1,
         at' \in Places,
         UNCHANGED <<member, include_is_optional, tokens>>,
         generation' \in {generation, generation + 1}
  PROVE  IInv'
<1>1. /\ FramesNest' /\ ScopeIsInside' /\ Len(stack') = Len(stack) - 1
      /\ stack' \in Seq(Frame) /\ prefix' \in Seq(PathPart) /\ suffix' \in Seq(PathPart)
  BY LeaveRuleNests DEF IInv
<1>2. UpTo(prefix', generation) /\ UpTo(suffix', generation)
  BY LeaveRuleUpTo DEF IInv
<1>3. UpTo(prefix', generation') /\ UpTo(suffix', generation')
  BY <1>1, <1>2, UpToLater DEF IInv, Scopes, TypeOK
<1>4. /\ Len(stack) \in Nat \ {0} /\ generation \in Nat \ {0}
      /\ stack' = <<>> <=> Len(stack) = 1
  <2>1. Len(stack) \in Nat \ {0} /\ generation \in Nat \ {0}
    BY DEF IInv, Scopes, TypeOK
  <2>2. stack' = <<>> <=> Len(stack') = 0
    BY <1>1, EmptySeq
  <2> QED  BY <1>1, <2>1, <2>2
<1>5. StatusFitsStack' /\ KeyAssertionsHold'
  BY <1>4 DEF StatusFitsStack, KeyAssertionsHold
<1>6. TypeOK'
  BY <1>1, <1>4 DEF IInv, Scopes, TypeOK, Statuses
<1> QED  BY <1>1, <1>3, <1>5, <1>6 DEF IInv, Scopes, UpTo

(* A step that changes neither the rules nor the scope. *)
LEMMA SameScopeStep ==
  ASSUME IInv, UNCHANGED <<stack, prefix, suffix, generation>>,
         status' \in {"parsing", "throwing", "assert_append", "assert_member"},
         stack # <<>>,
         at' \in Places, member' \in Seq(KeyPart), include_is_optional' \in BOOLEAN,
         tokens' \in 0..MaxTokens
  PROVE  IInv'
<1>1. FramesNest' /\ ScopeIsInside'
  BY ScopeStays DEF IInv
<1> QED
  BY <1>1 DEF IInv, Scopes, TypeOK, StatusFitsStack, KeyAssertionsHold, Statuses, Aborted, UpTo

(* The rule below the outermost one is never a file: leaving a member, an   *)
(* object or elements leaves another rule open.                             *)
LEMMA InnerRule ==
  ASSUME IInv, stack # <<>>, Top.rule # "file"
  PROVE  Len(stack) # 1
  BY DEF IInv, Scopes, FramesNest, Top, Last

LEMMA MemberKeyStep ==
  ASSUME IInv, NEW key \in Seq(KeyPart) \ {<<>>}, MemberKey(key)
  PROVE  IInv'
<1>1. /\ key \in Seq(PathPart) /\ key # <<>> /\ generation \in Nat \ {0}
      /\ UpTo(key, generation)
  BY KeyIsUpTo DEF IInv, Scopes, TypeOK
<1>2. stack # <<>> /\ EnterGuard("member", key) /\ tokens' \in 0..MaxTokens /\ at' \in Places
  BY BoundAssumption DEF MemberKey, InMembers, Spend, IInv, Scopes, StatusFitsStack, TypeOK, Places
<1>3. /\ FramesNest' /\ ScopeIsInside' /\ stack' # <<>>
      /\ stack' \in Seq(Frame) /\ prefix' \in Seq(PathPart) /\ suffix' \in Seq(PathPart)
  BY <1>1, <1>2, EnterGuardNests DEF IInv, GuardRules
<1>4. UpTo(prefix', generation') /\ UpTo(suffix', generation')
  BY <1>1, <1>2, UpToConcat DEF EnterGuard, MemberKey, IInv, Scopes, TypeOK
<1> QED
  BY <1>2, <1>3, <1>4
     DEF MemberKey, InMembers, IInv, Scopes, TypeOK, StatusFitsStack, KeyAssertionsHold, Statuses, UpTo

LEMMA MarkStep ==
  ASSUME IInv, NEW key \in Seq(KeyPart) \ {<<>>}, NEW temporary, Mark(key, temporary)
  PROVE  IInv'
<1>1. key \in Seq(KeyPart)
  BY KeyIsUpTo DEF IInv, Scopes, TypeOK
<1>2. /\ stack # <<>> /\ tokens' \in 0..MaxTokens /\ at' \in Places
      /\ UNCHANGED <<stack, prefix, suffix, generation>> /\ include_is_optional' \in BOOLEAN
  BY BoundAssumption
     DEF Mark, InMembers, Spend, key1s, control, IInv, Scopes, StatusFitsStack, TypeOK
<1>3. /\ status' \in {"parsing", "throwing", "assert_append", "assert_member"}
      /\ member' \in Seq(KeyPart)
  BY <1>1, StatusAfterType DEF Mark, IInv, Scopes, TypeOK
<1> QED  BY <1>2, <1>3, SameScopeStep

LEMMA IncludeStep ==
  ASSUME IInv, Include
  PROVE  IInv'
<1>1. /\ stack # <<>> /\ status = "parsing" /\ at \in Places
      /\ tokens' \in 0..MaxTokens /\ include_is_optional' \in BOOLEAN
      /\ at' \in Places /\ member' \in Seq(KeyPart) /\ UNCHANGED generation
  BY BoundAssumption
     DEF Include, InMembers, Spend, IInv, Scopes, StatusFitsStack, TypeOK
<1>2. CASE EnterPlain("file") /\ UNCHANGED status
  BY <1>1, <1>2, OpenPlainStep
<1>3. CASE \E ENOENT \in BOOLEAN :
             /\ status' = IF include_is_optional' /\ ENOENT THEN status ELSE "throwing"
             /\ UNCHANGED <<stack, key1s>>
  <2>1. UNCHANGED <<stack, prefix, suffix>> /\ status' \in {"parsing", "throwing"}
    BY <1>1, <1>3 DEF key1s
  <2> QED  BY <1>1, <2>1, SameScopeStep
<1> QED  BY <1>2, <1>3 DEF Include

(* The list of a member ends with the member; a list among elements gets    *)
(* the next generation.  Neither assertion of value_list can fire.          *)
LEMMA EndValueListStep ==
  ASSUME IInv, EndValueList
  PROVE  IInv'
<1>1. /\ generation \in Nat \ {0} /\ generation' = generation + 1
      /\ prefix \in Seq(PathPart) /\ suffix \in Seq(PathPart)
      /\ stack # <<>> /\ status = "parsing"
      /\ UNCHANGED <<member, include_is_optional, tokens>>
  BY DEF EndValueList, IInv, Scopes, TypeOK, StatusFitsStack
<1>2. Top.rule \in GuardRules
  BY DEF EndValueList, GuardRules
<1>3. suffix # <<>> /\ Len(suffix) \in Nat \ {0}
  BY <1>1, <1>2 DEF IInv, Scopes, ScopeIsInside, Inside
<1>4. Last(suffix).kind = "append" => Last(suffix).generation < generation'
  <2>1. Last(suffix) = suffix[Len(suffix)] /\ suffix[Len(suffix)] \in PathPart
        /\ Len(suffix) \in 1..Len(suffix)
    BY <1>1, <1>3 DEF Last
  <2>2. Last(suffix).kind = "append" =>
          /\ Last(suffix).generation \in Nat
          /\ Last(suffix).generation <= generation
    BY <2>1, KeyPartOrAppend, KeyPartIsNoAppend DEF IInv, UpTo
  <2> QED  BY <1>1, <2>2
<1>5. status' = "parsing"
  <2>1. ~ (Last(suffix).kind = "append" /\ generation' <= Last(suffix).generation)
    <3>1. SUFFICES ASSUME Last(suffix).kind = "append"
                   PROVE  ~ (generation' <= Last(suffix).generation)
      OBVIOUS
    <3>2. Last(suffix).generation \in Nat
      BY <1>1, <1>3, <3>1, KeyPartOrAppend, KeyPartIsNoAppend DEF Last
    <3> QED  BY <1>1, <1>4, <3>1, <3>2
  <2> QED  BY <1>1, <1>3, <2>1 DEF EndValueList
<1>6. CASE Top.rule = "member" /\ LeaveRule /\ at' = "members"
  BY <1>1, <1>5, <1>6, InnerRule, LeaveStep DEF Places
<1>7. CASE /\ Top.rule = "elements"
           /\ suffix' = set_generation(suffix, generation')
           /\ at' = "elements"
           /\ UNCHANGED <<stack, prefix>>
  <2> DEFINE tagged == Append(Front(suffix), AppendPart(generation + 1))
  <2>1. /\ Front(suffix) \in Seq(PathPart)
        /\ Len(Front(suffix)) = Len(suffix) - 1
        /\ \A i \in 1..(Len(suffix) - 1) : Front(suffix)[i] = suffix[i]
    BY <1>1, <1>3, FrontOfSeq
  <2>2. AppendPart(generation + 1) \in PathPart
    BY <1>1 DEF AppendPart, PathPart
  <2>3. tagged \in Seq(PathPart) /\ tagged # <<>> /\ UpTo(tagged, generation + 1)
    <3>1. UpTo(Front(suffix), generation)
      BY <1>1, <1>3, <2>1 DEF IInv, UpTo
    <3>2. UpTo(Front(suffix), generation + 1)
      BY <1>1, <2>1, <3>1, UpToLater
    <3>3. UpTo(<<AppendPart(generation + 1)>>, generation + 1)
      BY <1>1 DEF UpTo, AppendPart
    <3>4. tagged = Front(suffix) \o <<AppendPart(generation + 1)>>
      BY <2>1, <2>2, AppendIsConcat
    <3>5. <<AppendPart(generation + 1)>> \in Seq(PathPart)
      BY <2>2
    <3>6. UpTo(Front(suffix) \o <<AppendPart(generation + 1)>>, generation + 1)
      <4>1. generation + 1 \in Nat
        BY <1>1
      <4> QED  BY <2>1, <3>2, <3>3, <3>5, <4>1, UpToConcat
    <3>7. tagged \in Seq(PathPart) /\ tagged # <<>>
      BY <2>1, <2>2
    <3> HIDE DEF tagged
    <3> QED  BY <3>4, <3>6, <3>7
  <2>4. /\ suffix' \in Seq(PathPart) /\ suffix' # <<>> /\ UpTo(suffix', generation')
    <3> HIDE DEF tagged
    <3>1. suffix' = suffix \/ suffix' = tagged
      BY <1>1, <1>7 DEF set_generation, tagged
    <3>2. UpTo(suffix, generation')
      BY <1>1, UpToLater DEF IInv
    <3> QED  BY <1>1, <1>3, <2>3, <3>1, <3>2
  <2>5. UpTo(prefix', generation')
    BY <1>1, <1>7, UpToLater DEF IInv
  <2>6. FramesNest' /\ ScopeIsInside'
    <3>1. UNCHANGED <<stack, prefix>> /\ Top' = Top
      BY <1>7 DEF Top
    <3>2. FramesNest'
      BY <3>1 DEF IInv, Scopes, FramesNest, Inside
    <3>3. prefix = Top.outer.prefix \o Top.outer.suffix
      BY <1>1, <1>2 DEF IInv, Scopes, ScopeIsInside, Inside
    <3>4. Inside(Top', prefix', suffix')
      BY <1>2, <2>4, <3>1, <3>3 DEF Inside
    <3> QED  BY <1>1, <3>1, <3>2, <3>4 DEF ScopeIsInside
  <2> QED
    BY <1>1, <1>5, <1>7, <2>4, <2>5, <2>6
       DEF IInv, Scopes, TypeOK, StatusFitsStack, KeyAssertionsHold, Statuses, Places
<1> QED  BY <1>6, <1>7 DEF EndValueList

-----------------------------------------------------------------------------
(* The invariant is inductive. *)

LEMMA InitInvariant == Init => IInv
<1> SUFFICES ASSUME Init PROVE IInv
  OBVIOUS
<1>1. TypeOK
  BY BoundAssumption DEF Init, TypeOK, Places, Statuses
<1> QED
  BY <1>1 DEF Init, IInv, Scopes, FramesNest, ScopeIsInside, StatusFitsStack, UpTo, KeyAssertionsHold

(* Files, and the actions that put nothing into the path. *)
LEMMA PlainStep ==
  ASSUME IInv,
         \/ ParseFile \/ EndFile \/ AssignHead \/ AppendHead \/ Delete
         \/ EndObject \/ EndElements \/ Plus \/ SyntaxError \/ Unwind
  PROVE  IInv'
<1> USE DEF IInv, Scopes
<1>1. CASE ParseFile
  <2>1. stack = <<>> /\ tokens' \in 0..MaxTokens
    BY <1>1, BoundAssumption DEF ParseFile, Spend, StatusFitsStack, TypeOK
  <2> QED  BY <1>1, <2>1, OpenPlainStep DEF ParseFile, TypeOK, Places
<1>2. CASE EndFile
  <2>1. /\ stack # <<>> /\ LeaveRule /\ at' \in Places
        /\ status' = IF Len(stack) = 1 THEN "idle" ELSE "parsing"
        /\ UNCHANGED <<member, include_is_optional, tokens, generation>>
    BY <1>2 DEF EndFile, InMembers, StatusFitsStack, TypeOK
  <2> QED  BY <2>1, LeaveStep
<1>3. CASE AssignHead
  <2>1. /\ status' \in {"parsing", "throwing", "assert_append"}
        /\ UNCHANGED <<stack, prefix, suffix, generation, member, include_is_optional, tokens>>
        /\ stack # <<>> /\ at' \in Places
    BY <1>3, StatusAfterType DEF AssignHead, key1s, StatusFitsStack, Places
  <2> QED  BY <2>1, SameScopeStep DEF TypeOK
<1>4. CASE AppendHead
  BY <1>4, SameScopeStep DEF AppendHead, key1s, StatusFitsStack, TypeOK, Places
<1>5. CASE Delete
  <2>1. /\ stack # <<>> /\ LeaveRule /\ at' \in Places /\ status' = "parsing"
        /\ UNCHANGED <<member, include_is_optional, tokens, generation>> /\ Top.rule = "member"
    BY <1>5 DEF Delete, StatusFitsStack, Places
  <2> QED  BY <2>1, InnerRule, LeaveStep
<1>6. CASE EndObject
  <2>1. /\ stack # <<>> /\ LeaveRule /\ at' \in Places /\ status' = "parsing"
        /\ UNCHANGED <<member, include_is_optional, tokens, generation>> /\ Top.rule = "object"
    BY <1>6 DEF EndObject, InMembers, StatusFitsStack, Places
  <2> QED  BY <2>1, InnerRule, LeaveStep
<1>7. CASE EndElements
  <2>1. /\ stack # <<>> /\ LeaveRule /\ at' \in Places /\ status' = "parsing"
        /\ UNCHANGED <<member, include_is_optional, tokens, generation>> /\ Top.rule = "elements"
    BY <1>7 DEF EndElements, StatusFitsStack, Places
  <2> QED  BY <2>1, InnerRule, LeaveStep
<1>8. CASE Plus
  BY <1>8, SameScopeStep DEF Plus, key1s, StatusFitsStack, TypeOK, Places
<1>9. CASE SyntaxError
  BY <1>9, SameScopeStep DEF SyntaxError, key1s, control, StatusFitsStack, TypeOK
<1>10. CASE Unwind
  <2>1. /\ stack # <<>> /\ LeaveRule /\ at' \in Places
        /\ status' = IF Len(stack) = 1 THEN "failed" ELSE "throwing"
        /\ UNCHANGED <<member, include_is_optional, tokens, generation>>
    BY <1>10 DEF Unwind, StatusFitsStack, TypeOK
  <2> QED  BY <2>1, LeaveStep
<1> QED
  BY <1>1, <1>2, <1>3, <1>4, <1>5, <1>6, <1>7, <1>8, <1>9, <1>10

(* The value parts, whatever value or function they hold. *)
LEMMA ValueStep ==
  ASSUME IInv, NEW e, NEW f,
         Literal(e) \/ BeginArray \/ BeginObject \/ FunctionName(f)
  PROVE  IInv'
<1> USE DEF IInv, Scopes
<1>1. CASE Literal(e)
  BY <1>1, LiteralStep
<1>2. CASE BeginArray
  BY <1>2, OpenElementsStep DEF BeginArray
<1>3. CASE FunctionName(f)
  BY <1>3, OpenElementsStep DEF FunctionName
<1>4. CASE BeginObject
  <2>1. /\ status' \in {"parsing", "throwing", "assert_append"} /\ stack # <<>>
        /\ tokens' \in 0..MaxTokens /\ UNCHANGED <<generation, member, include_is_optional>>
    BY <1>4, StatusAfterType, BoundAssumption
       DEF BeginObject, AddValue, InValue, Spend, StatusFitsStack, TypeOK
  <2>2. CASE status' = "parsing"
    BY <1>4, <2>1, <2>2, OpenPlainStep DEF BeginObject, TypeOK, Places
  <2>3. CASE status' # "parsing"
    BY <1>4, <2>1, <2>3, SameScopeStep DEF BeginObject, TypeOK, key1s, control
  <2> QED  BY <2>2, <2>3
<1> QED  BY <1>1, <1>2, <1>3, <1>4

(* The state for the actions is left alone. *)
LEMMA IdleStep ==
  ASSUME IInv,
         UNCHANGED <<prefix, suffix, member, generation, include_is_optional, stack, at, status, tokens>>
  PROVE  IInv'
  BY DEF IInv, Scopes, TypeOK, FramesNest, ScopeIsInside, Inside, Top, StatusFitsStack, UpTo,
         KeyAssertionsHold

LEMMA StepInvariant == IInv /\ [Next]_vars => IInv'
<1> SUFFICES ASSUME IInv, [Next]_vars PROVE IInv'
  OBVIOUS
<1>1. CASE UNCHANGED vars
  BY <1>1, IdleStep DEF vars
<1>2. CASE \/ ParseFile \/ EndFile \/ AssignHead \/ AppendHead \/ Delete
           \/ EndObject \/ EndElements \/ Plus \/ SyntaxError \/ Unwind
  BY <1>2, PlainStep
<1>3. CASE Include
  BY <1>3, IncludeStep
<1>4. ASSUME NEW key \in Keys, MemberKey(key)
      PROVE  IInv'
  BY <1>4, KeysAssumption, MemberKeyStep
<1>5. ASSUME NEW key \in Keys, NEW temporary \in BOOLEAN, Mark(key, temporary)
      PROVE  IInv'
  BY <1>5, KeysAssumption, MarkStep
<1>6. CASE ValuePart
  BY <1>6, ValueStep DEF ValuePart
<1>7. CASE EndValueList
  BY <1>7, EndValueListStep
<1> QED
  BY <1>1, <1>2, <1>3, <1>4, <1>5, <1>6, <1>7 DEF Next

LEMMA Invariance == Spec => []IInv
<1>1. Init => IInv
  BY InitInvariant
<1>2. IInv /\ [Next]_vars => IInv'
  BY StepInvariant
<1> QED  BY <1>1, <1>2, PTL DEF Spec

-----------------------------------------------------------------------------
(* The prefix, suffix, member and generation that the grammar actions share *)
(* have their types in every state, whatever the input (state.hpp).         *)
THEOREM TypeCorrect == Spec => []TypeOK
<1>1. IInv => TypeOK
  BY DEF IInv, Scopes
<1> QED  BY <1>1, Invariance, PTL

(* key1_guard: its destructor gives back the prefix and suffix its          *)
(* constructor found, for any nesting of members, arrays, objects, function *)
(* calls and includes and for any exception, and a file leaves none behind. *)
THEOREM ScopesRestored == Spec => []GuardRestores
<1>1. IInv => GuardRestores
  BY TopRestores DEF IInv, Scopes, GuardRestores, StatusFitsStack, ScopeIsInside
<1> QED  BY <1>1, Invariance, PTL

(* value_list and set_generation: their assertions hold for any input.      *)
THEOREM GenerationsGrow == Spec => []KeyAssertionsHold
<1>1. IInv => KeyAssertionsHold
  BY DEF IInv
<1> QED  BY <1>1, Invariance, PTL

-----------------------------------------------------------------------------
(* How the path changes in one step. *)

GenerationStep ==
  \A i \in DOMAIN position' :
    position'[i].kind = "append" /\ (i \in DOMAIN position => position'[i] # position[i])
      => i = Len(position') /\ position'[i].generation > generation

LEMMA PathStays ==
  ASSUME UNCHANGED <<prefix, suffix>>
  PROVE  GenerationStep
  BY DEF GenerationStep, position

(* A rule that is left leaves the beginning of the path. *)
LEMMA LeaveShortens ==
  ASSUME Scopes, stack # <<>>, LeaveRule
  PROVE  GenerationStep
<1>1. /\ Inside(Top, prefix, suffix)
      /\ prefix' = Top.outer.prefix /\ suffix' = Top.outer.suffix
      /\ prefix \in Seq(PathPart) /\ suffix \in Seq(PathPart)
  BY LeaveRuleNests DEF Scopes, ScopeIsInside, TypeOK
<1>2. position' = prefix \/ position' = position
  BY <1>1 DEF Inside, position
<1>3. \A i \in DOMAIN prefix : i \in DOMAIN position /\ position[i] = prefix[i]
  BY <1>1 DEF position
<1>4. \A i \in DOMAIN position' : i \in DOMAIN position /\ position'[i] = position[i]
  BY <1>2, <1>3
<1> QED  BY <1>4 DEF GenerationStep

(* A guard adds to the path what is in its suffix. *)
LEMMA EnterExtends ==
  ASSUME Scopes, NEW rule, NEW inner \in Seq(PathPart), EnterGuard(rule, inner),
         \A j \in 1..Len(inner) :
           inner[j].kind = "append" => j = Len(inner) /\ inner[j].generation > generation
  PROVE  GenerationStep
<1> DEFINE n == Len(position)
<1>1. /\ prefix \in Seq(PathPart) /\ suffix \in Seq(PathPart)
      /\ position \in Seq(PathPart) /\ position' = position \o inner
  BY DEF Scopes, TypeOK, EnterGuard, position
<1>2. /\ n \in Nat /\ Len(inner) \in Nat /\ Len(position') = n + Len(inner)
      /\ DOMAIN position' = 1..(n + Len(inner)) /\ DOMAIN position = 1..n
      /\ \A i \in 1..n : position'[i] = position[i]
      /\ \A i \in 1..(n + Len(inner)) : i \notin 1..n =>
           i - n \in 1..Len(inner) /\ position'[i] = inner[i - n]
  <2> HIDE DEF position
  <2> QED  BY <1>1
<1>3. ASSUME NEW i \in DOMAIN position', position'[i].kind = "append",
             i \in DOMAIN position => position'[i] # position[i]
      PROVE  i = Len(position') /\ position'[i].generation > generation
  <2> HIDE DEF n
  <2>1. i \in 1..(n + Len(inner)) /\ i \notin 1..n
    BY <1>2, <1>3
  <2>2. i - n \in 1..Len(inner) /\ position'[i] = inner[i - n]
    BY <1>2, <2>1
  <2>3. i - n = Len(inner) /\ inner[i - n].generation > generation
    BY <1>3, <2>2
  <2>4. i \in Int /\ n \in Int /\ Len(inner) \in Int /\ Len(position') = n + Len(inner)
    BY <1>2, <2>1
  <2>5. i = Len(position')
    BY <2>3, <2>4
  <2>6. position'[i].generation > generation
    BY <2>2, <2>3, Zenon
  <2> QED  BY <2>5, <2>6
<1> QED  BY <1>3 DEF GenerationStep

(* Two sequences that differ in their last element, after the same others. *)
LEMMA DifferAtTheEnd ==
  ASSUME NEW S, NEW p \in Seq(S), NEW s \in Seq(S), NEW t \in Seq(S), NEW i \in DOMAIN (p \o t),
         Len(s) = Len(t), \A j \in 1..(Len(t) - 1) : t[j] = s[j],
         i \in DOMAIN (p \o s) => (p \o t)[i] # (p \o s)[i]
  PROVE  i = Len(p \o t) /\ (p \o t)[i] = t[Len(t)]
<1>1. /\ Len(p) \in Nat /\ Len(t) \in Nat /\ i \in 1..(Len(p) + Len(t))
      /\ DOMAIN (p \o t) = DOMAIN (p \o s) /\ Len(p \o t) = Len(p) + Len(t)
  OBVIOUS
<1>2. ~ (i <= Len(p))
  BY <1>1
<1>3. i - Len(p) \in 1..Len(t) /\ (p \o t)[i] = t[i - Len(p)] /\ (p \o s)[i] = s[i - Len(p)]
  BY <1>1, <1>2
<1>4. i - Len(p) = Len(t)
  BY <1>1, <1>3
<1>5. i = Len(p) + Len(t)
  <2>1. \A a, b, c \in Int : a - b = c => a = b + c
    OBVIOUS
  <2>2. i \in Int /\ Len(p) \in Int /\ Len(t) \in Int
    BY <1>1
  <2> QED  BY <1>4, <2>1, <2>2, Zenon
<1> QED  BY <1>1, <1>3, <1>4, <1>5, Zenon

(* A sequence whose last element is replaced. *)
LEMMA ReplaceLast ==
  ASSUME NEW S, NEW s \in Seq(S), NEW x \in S, NEW t, s # <<>>, t = Append(Front(s), x)
  PROVE  /\ t \in Seq(S) /\ Len(t) = Len(s) /\ t[Len(t)] = x
         /\ \A j \in 1..(Len(t) - 1) : t[j] = s[j]
<1>1. /\ Front(s) \in Seq(S) /\ Len(Front(s)) = Len(s) - 1 /\ Len(s) \in Nat
      /\ \A i \in 1..(Len(s) - 1) : Front(s)[i] = s[i]
  BY FrontOfSeq
<1> QED  BY <1>1

(* The next element of a list replaces the last part of the path. *)
LEMMA RetagReplacesLast ==
  ASSUME IInv, stack # <<>>, Top.rule = "elements", UNCHANGED prefix,
         suffix' = set_generation(suffix, generation + 1)
  PROVE  GenerationStep
<1> DEFINE tag == AppendPart(generation + 1)
<1>1. /\ prefix \in Seq(PathPart) /\ suffix \in Seq(PathPart) /\ suffix # <<>>
      /\ generation \in Nat \ {0}
  BY DEF IInv, Scopes, TypeOK, ScopeIsInside, Inside, GuardRules
<1>2. tag \in PathPart /\ tag.generation = generation + 1
  BY <1>1 DEF AppendPart, PathPart
<1>3. CASE Last(suffix).kind # "append"
  BY <1>3, PathStays DEF set_generation
<1>4. CASE Last(suffix).kind = "append"
  <2>1. suffix' = Append(Front(suffix), tag)
    BY <1>4 DEF set_generation
  <2>2. /\ suffix' \in Seq(PathPart) /\ Len(suffix') = Len(suffix) /\ suffix'[Len(suffix')] = tag
        /\ \A j \in 1..(Len(suffix') - 1) : suffix'[j] = suffix[j]
    <3> HIDE DEF tag
    <3>1. ASSUME NEW t, t = Append(Front(suffix), tag)
          PROVE  /\ t \in Seq(PathPart) /\ Len(t) = Len(suffix) /\ t[Len(t)] = tag
                 /\ \A j \in 1..(Len(t) - 1) : t[j] = suffix[j]
      <4>1. suffix \in Seq(PathPart) /\ suffix # <<>> /\ tag \in PathPart
        BY <1>1, <1>2
      <4>2. t = Append(Front(suffix), tag)
        BY <3>1
      <4>3. t \in Seq(PathPart)
        BY <4>1, <4>2, ReplaceLast
      <4>4. Len(t) = Len(suffix)
        BY <4>1, <4>2, ReplaceLast
      <4>5. t[Len(t)] = tag
        BY <4>1, <4>2, ReplaceLast
      <4>6. \A j \in 1..(Len(t) - 1) : t[j] = suffix[j]
        BY <4>1, <4>2, ReplaceLast
      <4> QED  BY <4>3, <4>4, <4>5, <4>6
    <3> QED  BY <2>1, <3>1, Zenon
  <2>3. ASSUME NEW i \in DOMAIN position', position'[i].kind = "append",
               i \in DOMAIN position => position'[i] # position[i]
        PROVE  i = Len(position') /\ position'[i].generation > generation
    <3>1. position' = prefix \o suffix' /\ position = prefix \o suffix
      BY DEF position
    <3>2. i = Len(prefix \o suffix') /\ (prefix \o suffix')[i] = suffix'[Len(suffix')]
      <4>1. Len(suffix) = Len(suffix')
        BY <2>2
      <4>2. \A j \in 1..(Len(suffix') - 1) : suffix'[j] = suffix[j]
        BY <2>2
      <4>3. i \in DOMAIN (prefix \o suffix')
        BY <2>3, <3>1, Zenon
      <4>4. i \in DOMAIN (prefix \o suffix) => (prefix \o suffix')[i] # (prefix \o suffix)[i]
        BY <2>3, <3>1, Zenon
      <4> QED  BY <1>1, <2>2, <4>1, <4>2, <4>3, <4>4, DifferAtTheEnd
    <3>3. generation + 1 > generation
      BY <1>1
    <3> QED  BY <1>2, <2>2, <3>1, <3>2, <3>3, Zenon
  <2> QED  BY <2>3 DEF GenerationStep
<1> QED  BY <1>3, <1>4

LEMMA StepGeneration == IInv /\ [Next]_vars => [GenerationStep]_vars
<1> SUFFICES ASSUME IInv, Next PROVE GenerationStep
  OBVIOUS
<1> USE DEF IInv
<1>1. generation \in Nat \ {0}
  BY DEF Scopes, TypeOK
<1>2. CASE UNCHANGED key1s
  BY <1>2, PathStays DEF key1s
<1>3. CASE stack # <<>> /\ LeaveRule
  BY <1>3, LeaveShortens
<1>4. ASSUME NEW key \in Keys, MemberKey(key)
      PROVE  GenerationStep
  <2>1. key \in Seq(PathPart) /\ \A j \in 1..Len(key) : key[j].kind # "append"
    BY KeysAssumption, <1>1, KeyIsUpTo, KeyPartIsNoAppend
  <2> QED  BY <1>4, <2>1, EnterExtends DEF MemberKey
<1>5. ASSUME NEW thing, AddValue(thing), OpenElements
      PROVE  GenerationStep
  <2>1. CASE status' = "parsing"
    <3> DEFINE inner == <<AppendPart(generation + 1)>>
    <3>1. inner \in Seq(PathPart)
      BY <1>1 DEF AppendPart, PathPart
    <3>2. \A j \in 1..Len(inner) :
            inner[j].kind = "append" => j = Len(inner) /\ inner[j].generation > generation
      BY <1>1 DEF AppendPart
    <3>3. EnterGuard("elements", inner)
      BY <1>5, <2>1 DEF OpenElements
    <3> HIDE DEF inner
    <3> QED  BY <3>1, <3>2, <3>3, EnterExtends
  <2>2. CASE status' # "parsing"
    BY <1>2, <1>5, <2>2 DEF OpenElements
  <2> QED  BY <2>1, <2>2
<1>6. CASE EndValueList
  <2>1. stack # <<>> /\ generation' = generation + 1
    BY <1>6 DEF EndValueList, Scopes, StatusFitsStack
  <2>2. CASE Top.rule = "member" /\ LeaveRule
    BY <1>3, <2>1, <2>2
  <2>3. CASE /\ Top.rule = "elements"
             /\ suffix' = set_generation(suffix, generation')
             /\ UNCHANGED <<stack, prefix>>
    BY <2>1, <2>3, RetagReplacesLast
  <2> QED  BY <1>6, <2>2, <2>3 DEF EndValueList
<1>7. CASE ValuePart
  <2>1. ASSUME NEW e, Literal(e) PROVE GenerationStep
    BY <1>2, <2>1 DEF Literal
  <2>2. CASE BeginArray
    BY <1>5, <2>2 DEF BeginArray
  <2>3. ASSUME NEW f, FunctionName(f) PROVE GenerationStep
    BY <1>5, <2>3 DEF FunctionName
  <2>4. CASE BeginObject
    BY <1>2, <2>4 DEF BeginObject, EnterPlain
  <2> QED  BY <1>7, <2>1, <2>2, <2>3, <2>4 DEF ValuePart
<1>8. CASE EndFile \/ Delete \/ EndObject \/ EndElements \/ Unwind
  <2>1. stack # <<>> /\ LeaveRule
    BY <1>8 DEF EndFile, Delete, EndObject, EndElements, Unwind, InMembers, Scopes, StatusFitsStack
  <2> QED  BY <1>3, <2>1
<1>9. CASE ParseFile \/ Include \/ AssignHead \/ AppendHead \/ Plus \/ SyntaxError
  BY <1>2, <1>9 DEF ParseFile, Include, EnterPlain, AssignHead, AppendHead, Plus, SyntaxError
<1>10. ASSUME NEW key \in Keys, NEW temporary \in BOOLEAN, Mark(key, temporary)
       PROVE  GenerationStep
  BY <1>2, <1>10 DEF Mark
<1> QED
  BY <1>4, <1>6, <1>7, <1>8, <1>9, <1>10 DEF Next

(* element_list, extension_list and value_list: a list or an element of it  *)
(* never shares its generation with anything before it, so phase1_append    *)
(* cannot take it for one that it has to continue.                          *)
THEOREM ListsAreNew == Spec => NewGenerations
<1>1. IInv /\ [Next]_vars => [GenerationStep]_vars
  BY StepGeneration
<1>2. NewGenerations <=> [][GenerationStep]_vars
  BY PTL DEF NewGenerations, GenerationStep
<1> QED  BY <1>1, <1>2, Invariance, PTL DEF Spec
=============================================================================
