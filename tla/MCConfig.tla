------------------------------ MODULE MCConfig ------------------------------
(* Small instances of ConfigParser: the statements that files consist of,   *)
(* and the world around the parser.                                         *)
EXTENDS ConfigRefinement

a == NamePart("a")
b == NamePart("b")
c == NamePart("c")
x == NamePart("x")
y == NamePart("y")
i0 == IndexPart(0)
star == AsteriskPart

Eq     == Event("=")
Add    == Event("+=")
Sum    == Event("+")
End    == Event("end")
One    == ValueEvent(UnsignedEntry(1))
Two    == ValueEvent(UnsignedEntry(2))
Zero   == ValueEvent(UnsignedEntry(0))
Text   == ValueEvent(StringEntry("x"))
Word   == ValueEvent(StringEntry("y"))
Ref(r) == ValueEvent(ReferenceEntry(r))

Member(key, op, parts) == <<KeyEvent(key), op>> \o parts \o <<End>>
DeleteMember(key)      == <<KeyEvent(key), Eq, Event("delete")>>
Obj(members)           == <<Event("{")>> \o members \o <<Event("}")>>
Arr(parts)             == <<Event("[")>> \o parts \o <<End, Event("]")>>
Call(f, parts)         == <<CallEvent(f)>> \o parts \o <<End, Event("]")>>

-----------------------------------------------------------------------------
MCEnvironment  == "xx" :> "y"
MCFiles        == "x" :> "x"
MCCommands     == "x" :> "y"
MCJaxnTexts    == "x" :> <<Jaxn!SignRule("number", FALSE), Jaxn!DigitsRule("idigits", <<1>>), Jaxn!Matched("end number")>>
MCConfigTexts  == "x" :> UnsignedEntry(1)
MCWords(t)     == <<t, t>>
MCPrinted(e)   == IF e.kind = "object" THEN "xx" ELSE "x"
MCNotUtf8      == {"y"}
MCExtensions   == [f \in {"rot", "shell"} |-> "x" :> StringEntry(f)]
MCArgumentOrder == <<1, 2>>
MCNameOrder    == <<"a", "b", "c", "x", "y">>
MCAddDouble(d, e) == d + e

LeftToRight == <<"functions", "additions", "references", "asterisks">>
OneOrder  == {LeftToRight}
TwoOrders == {LeftToRight, Reverse(LeftToRight)}
AllOrders == SetToSeqs(Passes)

(* Sums, references, deletions, temporaries. *)
MCStatements == {
  Member(<<a>>, Eq, <<Ref(<<b>>), Sum, One>>),
  Member(<<a>>, Add, <<Ref(<<b>>), Sum, Ref(<<c>>)>>),
  Member(<<b>>, Eq, <<One>>),
  Member(<<b>>, Add, <<Ref(<<c>>)>>),
  Member(<<c>>, Eq, <<Two>>),
  Member(<<c>>, Add, <<Ref(<<b>>)>>),
  Member(<<b>>, Add, <<Text>>),
  Member(<<c>>, Add, <<Word>>),
  Member(<<a>>, Add, Obj(Member(<<x>>, Eq, <<Ref(<<b>>)>>) \o Member(<<y>>, Add, <<Two>>))),
  Member(<<b>>, Eq, Obj(Member(<<x>>, Add, <<Word>>) \o Member(<<y>>, Eq, <<Ref(<<a, x>>)>>))),
  DeleteMember(<<b>>),
  DeleteMember(<<a, x>>),
  <<MarkEvent(<<b, x>>, TRUE)>>,
  <<MarkEvent(<<b>>, TRUE)>> }

(* References from nested scopes, arrays, and parts that are references. *)
MCScopes == {
  Member(<<a>>, Add, Obj(Member(<<x>>, Eq, <<Ref(<<y>>)>>))),
  Member(<<a>>, Add, Obj(Member(<<y>>, Add, <<Ref(<<b, i0>>)>>))),
  Member(<<a>>, Add, <<Ref(<<c>>)>>),
  Member(<<a, a>>, Add, Obj(Member(<<c>>, Eq, <<Ref(<<a, x>>)>>))),
  Member(<<a, a, x>>, Eq, <<Text>>),
  Member(<<y>>, Eq, <<Text>>),
  Member(<<b>>, Add, Arr(<<Ref(<<y>>)>>)),
  Member(<<b>>, Add, Arr(<<Two>>)),
  Member(<<b>>, Add, <<Ref(<<c>>)>>),
  Member(<<b, i0>>, Eq, <<Ref(<<a, VectorPart(<<y>>)>>)>>),
  Member(<<c>>, Eq, Arr(<<Ref(<<b, VectorPart(<<a, y>>)>>)>>)),
  Member(<<c>>, Eq, Obj(Member(<<y>>, Eq, <<Zero>>))),
  DeleteMember(<<y>>) }

(* Functions and their arguments. *)
MCFunctionStatements == {
  Member(<<a>>, Eq, Call("default", <<Ref(<<b>>), End, Text>>)),
  Member(<<a>>, Eq, Call("env", <<Text, Sum, Ref(<<c>>)>>)),
  Member(<<a>>, Eq, Call("rot", <<Text, Sum, ValueEvent(StringEntry(""))>>)),
  Member(<<b>>, Eq, <<ValueEvent(NullEntry)>>),
  Member(<<b>>, Eq, Call("string", Call("read", Call("binary", <<Text>>)))),
  Member(<<b>>, Eq, Call("shell", <<Text>>) \o <<Sum, Ref(<<c>>)>>),
  Member(<<b>>, Add, <<Word>>),
  Member(<<b>>, Eq, Call("parse", <<Text>>)),
  Member(<<c>>, Eq, Call("print", Obj(Member(<<x>>, Eq, <<Ref(<<b>>)>>)))),
  Member(<<c>>, Eq, Call("env?", <<Word, Sum, Ref(<<b>>), End, Text>>)),
  Member(<<c>>, Eq, Call("jaxn", <<Text>>) \o <<Sum, One>>),
  Member(<<c>>, Eq, Call("split", <<Text>>)),
  Member(<<x>>, Add, <<Ref(<<c>>)>>),
  Member(<<c>>, Eq, <<Ref(<<a>>)>>),
  DeleteMember(<<b>>) }

(* Integers at the limits of eight bits. *)
Unsigned8(n) == ValueEvent(UnsignedEntry(n))
Signed8(i)   == ValueEvent(SignedEntry(i))

MCIntegers == {
  Member(<<a>>, Add, <<Unsigned8(255)>>),
  Member(<<a>>, Add, <<One>>),
  Member(<<a>>, Add, <<Ref(<<b>>)>>),
  Member(<<b>>, Add, <<Unsigned8(127)>>),
  Member(<<b>>, Add, <<Unsigned8(128)>>),
  Member(<<b>>, Add, <<Signed8(-1)>>),
  Member(<<b>>, Add, <<Ref(<<c>>)>>),
  Member(<<c>>, Add, <<Signed8(-128)>>),
  Member(<<c>>, Add, <<Signed8(-1), Sum, Unsigned8(2)>>) }

(* Asterisks beside objects and arrays, before and after them. *)
MCAsterisks == {
  Member(<<a, x>>, Add, Obj(Member(<<b>>, Eq, <<One>>))),
  Member(<<a, y>>, Add, Obj(Member(<<c>>, Add, <<Ref(<<b>>)>>))),
  Member(<<a>>, Add, <<Ref(<<c>>)>>),
  Member(<<a, star, b>>, Add, <<Ref(<<b>>)>>),
  Member(<<a, star, c>>, Eq, <<Two>>),
  Member(<<a, star>>, Add, Obj(Member(<<star>>, Add, <<One>>))),
  Member(<<b>>, Eq, <<One>>),
  Member(<<a>>, Add, Arr(Obj(Member(<<b>>, Add, <<Two>>)))),
  DeleteMember(<<a, star, b>>),
  DeleteMember(<<a, star>>),
  <<MarkEvent(<<a, star, c>>, TRUE)>> }
(* What a program does that goes on after result() and after exceptions:    *)
(* statements that fail in phase 1, in each of the passes and in phase 3,   *)
(* and later ones that repair it.                                           *)
MCObjectStatements == {
  Member(<<a, i0>>, Eq, <<One>>),
  Member(<<a>>, Eq, Arr(<<Two>>)),
  Member(<<a>>, Add, Arr(<<Ref(<<b>>)>>)),
  Member(<<a, star>>, Add, <<One>>),
  DeleteMember(<<a, i0>>),
  Member(<<b>>, Eq, Call("rot", <<Text>>)),
  Member(<<b>>, Add, <<Word>>),
  Member(<<b>>, Eq, <<One>>),
  Member(<<c>>, Eq, Obj(DeleteMember(<<b>>) \o Member(<<x>>, Eq, <<Ref(<<b>>)>>))),
  Member(<<c, x>>, Add, <<Ref(<<b>>)>>),
  <<MarkEvent(<<b>>, TRUE)>> }

-----------------------------------------------------------------------------
(* Files that the documentation and the code disagree about. *)

(* A deletion below a member that is merged from elsewhere. *)
MCMergeStatements == {
  Member(<<a, x>>, Eq, Obj(Member(<<b>>, Eq, Obj(Member(<<c>>, Eq, <<One>>))))),
  DeleteMember(<<a, star, b, y>>) }

(* An asterisk beside a reference that needs another iteration. *)
MCAsteriskStatements == {
  Member(<<a>>, Eq, <<Ref(<<b>>)>>),
  Member(<<b>>, Eq, <<Ref(<<c>>)>>),
  Member(<<c, x>>, Eq, Obj(Member(<<y>>, Eq, <<One>>))),
  Member(<<a, star, y>>, Eq, <<Two>>) }

(* Functions whose arguments are references. *)
MCArgumentStatements == {
  Member(<<a>>, Eq, Call("string", <<Ref(<<b>>)>>)),
  Member(<<b>>, Eq, <<Text>>) }

(* parse, with an argument that is never ready. *)
MCParseStatements == {
  Member(<<a>>, Eq, Call("parse", <<Text, Sum, Ref(<<b>>)>>)),
  Member(<<b>>, Eq, <<Ref(<<c>>)>>) }

(* A value to print that has a deleted member. *)
MCPrintStatements == { Member(<<a>>, Eq, Call("print", Obj(DeleteMember(<<b>>)))) }
-----------------------------------------------------------------------------
MCPromiseSuites ==
  [sums      |-> Suite(MCStatements, 4, 1, 1, {}, AllOrders),
   scopes    |-> Suite(MCScopes, 3, 1, 1, {}, TwoOrders),
   asterisks |-> Suite(MCAsterisks, 3, 1, 1, {}, TwoOrders),
   integers  |-> Suite(MCIntegers, 4, 1, 1, {}, TwoOrders)]

MCObjectSuites ==
  [object    |-> Suite(MCObjectStatements, 3, 2, 3, {"rot"}, TwoOrders),
   functions |-> Suite(MCFunctionStatements, 3, 1, 1, {"shell"}, TwoOrders)]

MCMergeSuites    == [merge |-> Suite(MCMergeStatements, 2, 1, 1, {}, TwoOrders)]
MCAsteriskSuites == [asterisk |-> Suite(MCAsteriskStatements, 4, 1, 1, {}, OneOrder)]
MCArgumentSuites == [argument |-> Suite(MCArgumentStatements, 2, 1, 1, {}, OneOrder)]
MCParseSuites    == [parse |-> Suite(MCParseStatements, 2, 1, 1, {}, OneOrder)]
MCPrintSuites    == [print |-> Suite(MCPrintStatements, 1, 1, 1, {}, OneOrder)]
=============================================================================
