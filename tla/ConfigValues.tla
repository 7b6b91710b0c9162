---------------------------- MODULE ConfigValues -----------------------------
(***************************************************************************)
(* What a program does with the value that the parser returned: it makes   *)
(* keys and finds, adds or overwrites values under them.                   *)
(*                                                                         *)
(* A value is an entry with values in place of concats and the key that    *)
(* phase 5 annotated it with; other values have an empty key.              *)
(***************************************************************************)
EXTENDS KeyTexts, Phase3Remove

CONSTANTS
  Roots,      \* trees that phase 3 leaves
  Texts,      \* the texts of keys
  Parts,      \* what a key is extended by
  Values,     \* what is written
  MaxParts,   \* bound: parts of a key
  MaxLevels,  \* bound: how deep values are looked into
  MaxWrites   \* bound: how often something is written

ASSUME ValuesAssumption ==
  /\ MaxParts \in Nat /\ MaxLevels \in Nat /\ MaxWrites \in Nat
  /\ Parts \subseteq ValuePart
  /\ \A text \in Texts : IsText(text)

VARIABLES
  value,    \* of the program
  key,      \* of the program
  outcome,  \* of the last call
  known,    \* history: what the program knows to be under which keys
  writes

valuesVars == <<value, key, outcome, known, writes>>

empty_object == [kind |-> "object", object |-> EmptyObject, key |-> <<>>]

(* What v directly has under a part, as a set. *)
at_part_of(v, part) ==
  CASE part.kind = "name" /\ v.kind = "object" -> {v.object[n] : n \in DOMAIN v.object \cap {part.name}}
    [] part.kind = "index" /\ v.kind = "array" -> {v.array[i] : i \in DOMAIN v.array \cap {part.index + 1}}
    [] OTHER                                   -> {}

(* Mutant: a member is made anew, also when it is there. *)
member_at_new(v, name) == empty_object

(* Mutant: what is made for an index is an array. *)
member_at_array(v, name) ==
  IF name \in DOMAIN v.object THEN v.object[name]
  ELSE [kind |-> "array", function |-> "", array |-> <<>>, key |-> <<>>]

(* A member that is not there is made, as an empty object. *)
member_at(v, name) == IF name \in DOMAIN v.object THEN v.object[name] ELSE empty_object

made_at(v, part) ==
  IF part.kind = "name" /\ v.kind = "object" THEN {member_at(v, part.name)} ELSE at_part_of(v, part)

(* The way of a key into v, for a call of access or assign: what it leads   *)
(* to after i parts, as a set that is empty from where it throws.           *)
way(v, k, call) ==
  LET place[i \in 0..Len(k)] ==
        IF i = 0 THEN {v}
        ELSE UNION {IF call = "assign" THEN made_at(d, k[i]) ELSE at_part_of(d, k[i]) : d \in place[i - 1]}
  IN  place

(* Empty when it throws. *)
access(v, k) == way(v, k, "access")[Len(k)]

with_part(v, part, d) ==
  IF part.kind = "name"
  THEN [kind |-> "object", key |-> v.key,
        object |-> [n \in DOMAIN v.object \cup {part.name} |-> IF n = part.name THEN d ELSE v.object[n]]]
  ELSE [kind |-> "array", key |-> v.key, function |-> "",
        array |-> [v.array EXCEPT ![part.index + 1] = d]]

(* The places on the way of k, from the last one back to v, after new was   *)
(* written to the last one.  When the way ends before that, the members     *)
(* that were made stay.                                                     *)
back(v, k, new) ==
  LET n     == Len(k)
      place == way(v, k, "assign")
      changed[j \in 0..n] ==
        IF j = 0 THEN IF place[n] = {} THEN {} ELSE {new}
        ELSE IF place[n - j + 1] = {} THEN place[n - j]
        ELSE {with_part(d, k[n - j + 1], e) : d \in place[n - j], e \in changed[j - 1]}
  IN  changed

(* assign( v, k ) = new. *)
assign(v, k, new) ==
  LET r == CHOOSE e \in back(v, k, new)[Len(k)] : TRUE
  IN  IF way(v, k, "assign")[Len(k)] = {} THEN Failed(r, "runtime_error") ELSE Walked(r)

(* The parts of v, each with the key that leads to it. *)
parts_of(v) ==
  CASE v.kind = "array"  -> {IndexPart(i) : i \in 0..Len(v.array) - 1}
    [] v.kind = "object" -> {NamePart(n) : n \in DOMAIN v.object}
    [] OTHER             -> {}

leads(v) ==
  LET level[i \in 0..MaxLevels] ==
        IF i = 0 THEN {<< <<>>, v >>}
        ELSE UNION {UNION {{<<Append(p[1], part), d>> : d \in at_part_of(p[2], part)}
                             : part \in parts_of(p[2])}
                      : p \in level[i - 1]}
  IN  UNION {level[i] : i \in 0..MaxLevels}
-----------------------------------------------------------------------------
ValuesInit ==
  /\ \E root \in Roots : value = phase5_repack(root).val
  /\ key = <<>> /\ outcome = "none" /\ writes = 0
  /\ known = leads(value)

(* Mutant: operator= does not clear the key. *)
AssignKeyUncleared(text) ==
  LET r == parse_key(text)
  IN  /\ Len(key) + Len(text) <= MaxParts
      /\ key' = key \o r.parts /\ outcome' = r.error
      /\ UNCHANGED <<value, known, writes>>

(* key = text: what was read before an exception is the key then. *)
AssignKey(text) ==
  LET r == parse_key(text)
  IN  /\ Len(text) <= MaxParts
      /\ key' = r.parts /\ outcome' = r.error
      /\ UNCHANGED <<value, known, writes>>

(* key.assign( text ) adds to what the key has. *)
AddToKey(text) ==
  LET r == parse_key(text)
  IN  /\ Len(key) + Len(text) <= MaxParts
      /\ key' = key \o r.parts /\ outcome' = r.error
      /\ UNCHANGED <<value, known, writes>>

AppendToKey(part) ==
  /\ Len(key) < MaxParts
  /\ key' = Append(key, part) /\ outcome' = "none"
  /\ UNCHANGED <<value, known, writes>>

PopFront ==
  /\ key # <<>>
  /\ key' = Tail(key) /\ outcome' = "none"
  /\ UNCHANGED <<value, known, writes>>

PopBack ==
  /\ key # <<>>
  /\ key' = Front(key) /\ outcome' = "none"
  /\ UNCHANGED <<value, known, writes>>

(* What is above the place that was written has changed, and what was below *)
(* it is gone.  When it throws, only what is above may have changed.        *)
Assign(new) ==
  LET r == assign(value, key, new)
  IN  /\ writes < MaxWrites /\ writes' = writes + 1
      /\ value' = r.val /\ outcome' = r.error
      /\ known' = IF r.error = "none"
                  THEN {p \in known : ~ IsPrefix(p[1], key) /\ ~ IsPrefix(key, p[1])} \cup {<<key, new>>}
                  ELSE {p \in known : ~ IsPrefix(p[1], key)}
      /\ UNCHANGED key

ValuesNext ==
  \/ \E text \in Texts : AssignKey(text) \/ AddToKey(text)
  \/ \E part \in Parts : AppendToKey(part)
  \/ PopFront \/ PopBack
  \/ \E new \in Values : Assign(new)

ValuesSpec == ValuesInit /\ [][ValuesNext]_valuesVars
-----------------------------------------------------------------------------
(***************************************************************************)
(* Properties.                                                             *)
(***************************************************************************)

(* A key has only the two kinds of parts that access and assign know.       *)
ValuesTypeOK ==
  /\ key \in Seq(ValuePart)
  /\ outcome \in {"none", "parse_error", "runtime_error"} /\ writes \in 0..MaxWrites

(* A text that throws half way leaves in the key what its first words are   *)
(* read as on their own, nothing of a word that is not read to its end, and *)
(* what assign was to add it to.                                            *)
BeginningOf(text, k) ==
  k = <<>> \/ \E n \in 1..Len(text) - 1 : parse_key(SubSeq(text, 1, n)) = [parts |-> k, error |-> "none"]

FailedReadKeepsBeginning ==
  [][outcome' = "parse_error" =>
       \A text \in Texts :
         /\ AssignKey(text) => BeginningOf(text, key')
         /\ AddToKey(text)  => /\ IsPrefix(key, key')
                               /\ BeginningOf(text, SubSeq(key', Len(key) + 1, Len(key')))]_valuesVars

(* access finds what the file or the program put under a key, whatever the  *)
(* program did under other keys and whichever of its calls threw.           *)
KnownValuesStay == \A p \in known : access(value, p[1]) = {p[2]}

(* The key that a value carries, and that messages about it show, leads to  *)
(* it.                                                                      *)
KeysLead == \A p \in leads(value) : p[2].key \in {p[1], <<>>}

(* An assign that throws has made nothing but objects, each of them empty   *)
(* or with one more of them.                                                *)
FailedAssignMakesObjects ==
  [][outcome' = "runtime_error" /\ writes' # writes =>
       /\ \A p \in leads(value') :
            access(value, p[1]) = {} => p[2].kind = "object" /\ Cardinality(DOMAIN p[2].object) <= 1
       /\ \A p \in leads(value) : \E d \in access(value', p[1]) : d.kind = p[2].kind]_valuesVars

(* A key written as text is the same key when it is read: in a file, in a   *)
(* reference, and by a program unless it begins with an index.  Only an     *)
(* index with more digits than are read cannot be written.                  *)
KeyTextsReadBack ==
  LET same(r)  == r.error = "none" /\ r.parts = key
      text     == to_string(key)
      readable == key # <<>> /\ \A part \in ToSet(key) :
                    part.kind = "index" => part.index < power_of_ten(MaxIndexDigits)
  IN  /\ readable <=> same(parse_key1(text))
      /\ readable <=> same(parse_reference2(text))
      /\ readable /\ Head(key).kind = "name" <=> same(parse_key(text))
=============================================================================
