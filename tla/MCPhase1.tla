------------------------------ MODULE MCPhase1 ------------------------------
(* Small instances of Phase1. *)
EXTENDS Phase1

a == NamePart("a")
b == NamePart("b")

(* A member, a member below another, an element, all members of a member. *)
MCKeys       == {<<a>>, <<a, b>>, <<a, IndexPart(0)>>, <<a, AsteriskPart, b>>}
MCAtoms      == {UnsignedEntry(1)}
MCReferences == {ReferenceEntry(<<b>>)}
MCFunctions  == {"f", "g"}

(* A key that starts with an index, for parsers that go on after an error. *)
MCKeysReuse  == {<<a>>, <<IndexPart(0)>>}
=============================================================================
