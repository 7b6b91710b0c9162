------------------------------ MODULE MCValues -------------------------------
(* A program that works on the value of a small configuration.              *)
EXTENDS ConfigValues

Holding(e)  == [NewConcat EXCEPT !.concat = <<e>>]
MCArray     == ArrayEntry(<<Holding(UnsignedEntry(1)),
                            Holding(ObjectEntry("b" :> Holding(NullEntry)))>>)

(* a = { b = 1, "0" = [ 1 { b = null } ] }, and b = [ 1 { b = null } ] *)
MCRoots ==
  { "a" :> Holding(ObjectEntry("b" :> Holding(UnsignedEntry(1)) @@ "0" :> Holding(MCArray))),
    "b" :> Holding(MCArray),
    EmptyObject }

MCIdentifiers == {"a", "b"}

MCTexts == {
  <<QuotedWord("0"), DigitsWord(<<0, 0, 1>>)>>,
  <<DigitsWord(<<0>>), IdentWord("a")>>,
  <<IdentWord("b"), DigitsWord(<<0, 1>>), IdentWord("b")>>,
  <<IdentWord("a"), DigitsWord(<<1, 0, 0>>)>>,
  <<IdentWord("a"), QuotedWord("0"), DigitsWord(<<0>>)>>,
  <<IdentWord("b"), AsteriskWord>>,
  <<QuotedWord("b"), BracketsWord(<<IdentWord("a")>>)>>,
  <<IdentWord("a"), IdentWord("b"), OtherWord>> }

MCParts     == {NamePart("a"), IndexPart(0), IndexPart(100)}
MCNewValues == {empty_object, UnsignedEntry(2) @@ [key |-> <<>>]}
MCNames     == <<"0", "a", "b">>
=============================================================================
