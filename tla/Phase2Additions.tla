-------------------------- MODULE Phase2Additions ---------------------------
(***************************************************************************)
(* The pass that adds up what stands side by side in a concat.  It goes    *)
(* through the summands from left to right and merges the left one of a    *)
(* pair into the right one, so that each is added to all before it; what   *)
(* is below a concat is added up before the concat itself.  What comes     *)
(* after an addition that throws stays as it is.                           *)
(***************************************************************************)
EXTENDS Phase2Walk, ConfigIntegers

CONSTANT AddDouble(_, _)

(* Entries that another pass has to replace before they can be added. *)
ignore_entry(e) == IsFunction(e) \/ e.kind \in {"asterisk", "reference"}

(* Members of l that r has not are copied with their flags.  A member that  *)
(* r assigned to keeps nothing of that in l; otherwise the summands of l    *)
(* come first, and l hands on its remove and temporary.                     *)
process_object(l, r) ==
  [name \in DOMAIN l \cup DOMAIN r |->
     CASE name \notin DOMAIN r -> l[name]
       [] name \notin DOMAIN l -> r[name]
       [] OTHER -> IF r[name].remove THEN r[name] ELSE
                   [r[name] EXCEPT !.remove = l[name].remove,
                                   !.temporary = @ \/ l[name].temporary,
                                   !.concat = l[name].concat \o @]]

(* Signed arithmetic that overflows is undefined, unsigned wraps around. *)
add_signed(i, j) ==
  IF i + j \in Signed THEN Changed(SignedEntry(i + j)) ELSE Failed(SignedEntry(j), "undefined")

add_same_kind(l, r) ==
  CASE r.kind = "unsigned" -> Changed(UnsignedEntry(Wrapped(l.unsigned + r.unsigned)))
    [] r.kind = "signed"   -> add_signed(l.signed, r.signed)
    [] r.kind = "double"   -> Changed(DoubleEntry(AddDouble(l.double, r.double)))
    [] r.kind = "string"   -> Changed(StringEntry(l.string \o r.string))
    [] r.kind = "binary"   -> Changed(BinaryEntry(l.binary \o r.binary))
    [] r.kind = "array"    -> Changed(ArrayEntry(l.array \o r.array))
    [] r.kind = "object"   -> Changed(ObjectEntry(process_object(l.object, r.object)))

(* The sum of two neighbours.  No change and no error: they stay as they are. *)
add_entries(l, r) ==
  IF r.kind \in {"null", "boolean"} THEN Failed(r, "parse_error")
  ELSE IF ignore_entry(l) \/ ignore_entry(r) THEN Walked(r)
  ELSE IF l.kind = r.kind THEN add_same_kind(l, r)
  ELSE CASE l.kind = "unsigned" /\ r.kind = "signed" -> add_signed(ToSigned(l.unsigned), r.signed)
         [] l.kind = "signed" /\ r.kind = "unsigned" -> add_signed(l.signed, ToSigned(r.unsigned))
         [] OTHER                                    -> Failed(r, "parse_error")

(* Mutant: an addition is not counted. *)
add_next_uncounted(done, r) ==
  LET s == add_entries(Last(done), r)
  IN  [s EXCEPT !.val = Append(IF s.changes = 0 THEN done ELSE Front(done), s.val),
                !.changes = 0]

add_next(done, r) ==
  LET s == add_entries(Last(done), r)
  IN  [s EXCEPT !.val = Append(IF s.changes = 0 THEN done ELSE Front(done), s.val)]

add_neighbours(c) ==
  LET Next(walk, r) == IF walk.error # "none" THEN [walk EXCEPT !.val = Append(@, r)]
                       ELSE Then(walk, LAMBDA done : add_next(done, r))
      sum           == FoldLeft(Next, Walked(SubSeq(c.concat, 1, 1)), Tail(c.concat))
  IN  IF Len(c.concat) < 2 THEN Walked(c)
      ELSE [sum EXCEPT !.val = [c EXCEPT !.concat = sum.val]]

additions_concat[c \in Any] ==
  LET Inside(e) == IF e.kind = "asterisk"
                   THEN LET r == additions_concat[e.asterisk]
                        IN  [r EXCEPT !.val = AsteriskEntry(r.val)]
                   ELSE VisitBelow(LAMBDA d : additions_concat[d], e)
  IN  Then(VisitEntries(Inside, c), add_neighbours)

phase2_additions(root) == VisitMembers(LAMBDA c : additions_concat[c], root)
=============================================================================
