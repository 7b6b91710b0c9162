------------------------------- MODULE MCJaxn --------------------------------
(* Literals for JaxnReader: every kind of number around the limits of a     *)
(* small instance, and arrays and objects in one another.                   *)
EXTENDS JaxnReader

Strings(ds, from, to) == UNION {[1..n -> ds] : n \in from..to}

Whole == {<<0>>} \cup {<<1>> \o s : s \in Strings({0, 1}, 0, 6)}

(* Decimals with more digits before and after the point than the buffer has. *)
MCDecimals ==
  {Decimal(minus, w, f, FALSE, <<>>) : minus \in BOOLEAN, w \in Whole, f \in Strings({0, 1}, 0, 4)}
    \cup {Decimal(FALSE, <<0>>, f, FALSE, <<>>) : f \in Strings({0, 1}, 5, 7)}

MCExponents ==
  {Decimal(FALSE, w, f, eneg, e) : w \in {<<0>>, <<1, 0>>, <<1, 1, 1, 0, 1>>},
                                   f \in Strings({0, 1}, 0, 2),
                                   eneg \in BOOLEAN, e \in Strings({0, 1}, 1, 4)}

(* The integers around the limits of both types. *)
MCIntegers ==
  {Decimal(minus, ds, <<>>, FALSE, <<>>) :
     minus \in BOOLEAN, ds \in {<<1, t, u>> : t \in {2, 3}, u \in 0..9}
                               \cup {<<2, t, u>> : t \in {4, 5, 6}, u \in 0..9}}

MCHex == {Hex(minus, ds) : minus \in BOOLEAN, ds \in Strings({0, 1, 7, 8, 15}, 1, 4)}

Few(S) == UNION {[1..n -> S] : n \in 0..2}

(* One level, and two: at the top at most two of the lower level. *)
Leaves == {Atom(NullEntry), Decimal(FALSE, <<1>>, <<1>>, FALSE, <<>>), Hex(TRUE, <<15, 15>>)}
Pairs(S) == {Member2(k, l) : k \in {"a", "b"}, l \in S}
Level(S) == {Elements(ls) : ls \in Few(S)} \cup {Members(ms) : ms \in Few(Pairs(S))}

Level1 == Level(Leaves)
Level2 == Level({Atom(NullEntry)} \cup Level({Atom(NullEntry), Decimal(FALSE, <<1>>, <<1>>, FALSE, <<>>)}))

MCLiterals == MCDecimals \cup MCExponents \cup MCIntegers \cup MCHex \cup Level1 \cup Level2
=============================================================================
