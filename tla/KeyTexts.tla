------------------------------ MODULE KeyTexts -------------------------------
(***************************************************************************)
(* The texts of keys and references and the parts they stand for: the      *)
(* public keys that a program uses to find values in the result, and the   *)
(* keys and references that a file is written with.                        *)
(*                                                                         *)
(* A text is the sequence of its words, with a dot between two of them.    *)
(* What characters a word is made of is left out, but not whether a name   *)
(* can go without quotes and how many digits an index has.                 *)
(***************************************************************************)
EXTENDS ConfigTree

CONSTANTS
  Identifiers,    \* the names that match ident
  MaxIndexDigits  \* 15 in the code

ASSUME KeyTextAssumption == Identifiers \subseteq STRING /\ MaxIndexDigits \in Nat \ {0}

(* What a key of a value is made of. *)
ValuePart == [kind : {"name"}, name : STRING] \cup [kind : {"index"}, index : Nat]

IdentWord(n)     == [form |-> "ident", name |-> n]
QuotedWord(n)    == [form |-> "quoted", name |-> n]
DigitsWord(ds)   == [form |-> "digits", digits |-> ds]
AsteriskWord     == [form |-> "asterisk"]
BracketsWord(ws) == [form |-> "brackets", words |-> ws]
OtherWord        == [form |-> "other"]   \* no rule matches, or no dot is before it

(* What a word of a text may be. *)
IsWord(w) ==
  /\ w.form \in {"ident", "quoted"} => w.name \in STRING
  /\ w.form = "digits" => w.digits \in Seq(0..9)

IsText(ws) == ws \in Seq(ToSet(ws)) /\ \A w \in ToSet(ws) : IsWord(w)

(* Of digits that are too many the rule for an index does not even match    *)
(* the first: in PEGTL nothing may follow a repetition that could be one    *)
(* more of it.                                                              *)
IsRead(w) == w.form = "digits" => Len(w.digits) <= MaxIndexDigits

(* The number that digits stand for; so_far[i] is that of the first i. *)
index_of(ds) ==
  LET so_far[i \in 0..Len(ds)] == IF i = 0 THEN 0 ELSE 10 * so_far[i - 1] + ds[i]
  IN  so_far[Len(ds)]

part_of(w, read) ==
  CASE w.form \in {"ident", "quoted"} -> NamePart(w.name)
    [] w.form = "digits"   -> IndexPart(index_of(w.digits))
    [] w.form = "asterisk" -> AsteriskPart
    [] w.form = "brackets" -> VectorPart(read[w.words].parts)

(* Reading words from left to right: an action adds one part for each that  *)
(* a rule matches, and those added before an exception stay (only those of  *)
(* the key of a program are ever seen).  What is in brackets comes from the *)
(* function read.                                                           *)
words_read(ws, first, other, read) ==
  LET matches(i) == IsRead(ws[i]) /\ ws[i].form \in (IF i = 1 THEN first ELSE other)
      whole(i)   == ws[i].form = "brackets" => read[ws[i].words].error = "none"
      added      == {i \in DOMAIN ws : matches(i) /\ \A j \in 1..i - 1 : matches(j) /\ whole(j)}
  IN  [parts |-> [i \in added |-> part_of(ws[i], read)],
       error |-> IF ws # <<>> /\ \A i \in DOMAIN ws : matches(i) /\ whole(i)
                 THEN "none" ELSE "parse_error"]

Names1 == {"ident", "quoted"}

(* References, with references in brackets; the words of keys have none. *)
reference_read[ws \in Any] ==
  words_read(ws, Names1 \cup {"digits", "brackets"}, Names1 \cup {"digits", "brackets"},
             reference_read)

keys_read(ws, first, other) == words_read(ws, first, other, reference_read)

(* Mutant: any key of a file is a key of a value. *)
parse_key_as_in_files(ws) ==
  keys_read(ws, Names1 \cup {"digits", "asterisk"}, Names1 \cup {"digits", "asterisk"})

parse_key(ws)        == keys_read(ws, Names1, Names1 \cup {"digits"})
parse_key1(ws)       == keys_read(ws, Names1 \cup {"digits", "asterisk"}, Names1 \cup {"digits", "asterisk"})
parse_reference2(ws) == keys_read(ws, Names1 \cup {"digits", "brackets"}, Names1 \cup {"digits", "brackets"})
-----------------------------------------------------------------------------
digits_of(n) ==
  LET of[m \in 0..n] == IF m < 10 THEN <<m>> ELSE Append(of[m \div 10], m % 10)
  IN  of[n]

(* The first number with more than m digits. *)
power_of_ten(m) ==
  LET power[i \in 0..m] == IF i = 0 THEN 1 ELSE 10 * power[i - 1]
  IN  power[m]

(* Mutant: names are written as they are. *)
name_to_string_unquoted(n) ==
  IF n \in Identifiers THEN IdentWord(n) ELSE OtherWord

name_to_string(n) == IF n \in Identifiers THEN IdentWord(n) ELSE QuotedWord(n)

to_string(key) ==
  [i \in DOMAIN key |-> IF key[i].kind = "name" THEN name_to_string(key[i].name)
                        ELSE DigitsWord(digits_of(key[i].index))]
=============================================================================
