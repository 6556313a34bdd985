---------------------------- MODULE MCFormatText ----------------------------
(***************************************************************************)
(* Calls of print over short format strings, arguments at the limits of    *)
(* their types, and texts to parse.                                        *)
(***************************************************************************)
EXTENDS FormatText

CONSTANTS Alphabet, MaxRaw, MaxFragments, MaxInput

Strings(alphabet, n) == UNION {[1 .. k -> alphabet] : k \in 0 .. n}

\* Fragments of which a format string is made: placeholders, near misses, text.
Fragments ==
  {<<"{", "}">>, <<"{", ":", "x", "}">>, <<"{", ":", "X", "}">>, <<"{", ":", "b", "}">>,
   <<"{", ":", ".", "1", "}">>, <<"{", ":", ".", "0", "2", "f", "}">>, <<"{", ":", ".", "0", "}">>,
   <<"{", ":", ".", "3", "}">>, <<"{", ":", ".", "f", "}">>, <<"{", ":", "o", "}">>, <<"{", ":", ".", "1">>,
   <<"{", ":", ".", "1", "x", "}">>, <<"{">>, <<"}">>, <<"a">>, <<"\\", "n">>, <<"\\", "\"">>}

Argument(type, number, text) == [type |-> type, number |-> number, text |-> text]
Number(type, number) == Argument(type, number, <<>>)

\* The least and the greatest number of each type, and some around nought.
Signed(w) == {-(2 ^ (w - 1)), -1, 0, 2 ^ (w - 1) - 1}
Unsigned(w) == {0, 10, 2 ^ w - 1}

\* All floats up to one, whose products and sums round up, down and half way; some with a
\* whole, on both sides of where they have no places left, and at the limits of the
\* conversion.
Units ==
  (0 .. One) \cup {-1, 1 - Half, 0 - Half, -3 * Half}
    \cup {n * Half : n \in {3, 15, 21, 29, 31}}
    \cup {n * One : n \in {2, 10, 15, 16, 17, 31, 128, 224, 248, 256}} \cup {80, 100, 136, 152}

Floats ==
  {Number("f64", v) : v \in {v \in Units : IsFloat(Absolute(v))}}
    \cup {Argument("f64", 0, name) : name \in {<<"n", "a", "n">>, <<"i", "n", "f">>, <<"-", "i", "n", "f">>}}

Arguments ==
  {Number("i32", v) : v \in Signed(IntBits)} \cup {Number("i64", v) : v \in Signed(Bits)}
    \cup {Number("u32", v) : v \in Unsigned(IntBits)} \cup {Number("u64", v) : v \in Unsigned(Bits)}
    \cup Floats \cup {Number("bool", 0), Number("bool", 1), Number("array", 0)}
    \cup {Argument("str", 0, <<"{", "}">>)}

\* What two of them print together is a number that TLC can compute.
Samples ==
  {Number("i32", 5), Number("f64", 80), Number("bool", 1), Argument("str", 0, <<"{", "}">>),
   Number("array", 0)}

Joined(n) == {FlattenSeq(f) : f \in Strings(Fragments, n)}

\* Any short text without an escape sequence.
Texts == Strings(Alphabet, MaxRaw)

Call(first, raw, arguments, newline) ==
  [first |-> first, raw |-> raw, arguments |-> arguments, newline |-> newline]

Calls ==
  {Call("literal", raw, <<>>, FALSE) : raw \in Texts}
  \cup {Call("literal", raw, arguments, FALSE) :
           <<raw, arguments>> \in Joined(MaxFragments) \X Strings(Samples, 1)}
  \cup {Call("literal", raw, <<argument>>, TRUE) : <<raw, argument>> \in Joined(1) \X Arguments}
  \cup {Call("literal", raw, arguments, TRUE) :
           <<raw, arguments>> \in Joined(2) \X [{1, 2} -> Samples]}
  \cup {Call(first, raw, arguments, TRUE) :
           <<first, raw, arguments>> \in {"paren", "str"} \X Joined(1) \X Strings(Samples, 1)}

Op(kind, blocks) == [kind |-> kind, blocks |-> blocks]
Literal == Op("literal", <<>>)

\* Blocks around and before the call, two deep.
Around(blocks) ==
  {<<Op("other", <<>>)>> \o b : b \in blocks}
    \cup {<<Op(kind, <<b, <<>>>>)>> : <<kind, b>> \in {"if", "while"} \X blocks}
    \cup {<<Op("if", <<<<>>, b>>)>> : b \in blocks}
    \cup {<<Op(kind, <<<<Op("if", <<<<>>, <<>>>>)>>, <<>>>>)>> \o b :
            <<kind, b>> \in {"if", "while"} \X blocks}

Here == {<<Literal>>}
Bodies == Here \cup Around(Here) \cup Around(Around(Here))

MCPrograms ==
  {[call |-> c, body |-> <<Literal>>] : c \in Calls}
    \cup {[call |-> Call("literal", raw, arguments, TRUE), body |-> b] :
            <<raw, arguments, b>> \in Joined(1) \X Strings(Samples, 1) \X Bodies}

MCInputs == Strings({"0", "1", "2", "5", "6", "-", "+", " ", "t"}, MaxInput) \cup {True, False}
=============================================================================
