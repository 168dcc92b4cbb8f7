-------------------------- MODULE MCJsonDocuments --------------------------
(***************************************************************************)
(* Values for the constants of CJsonDocuments: all JSON values with up to  *)
(* two members at each of two levels, some deeper ones, and texts that     *)
(* differ from theirs in one place.                                        *)
(***************************************************************************)
EXTENDS CJsonMeaning

MCStrings == {"id", "ID", "a"}
MCLower == [s \in MCStrings |-> IF s = "ID" THEN "id" ELSE s]
MCLexeme == [n \in {1, 22} |-> IF n = 1 THEN "n1" ELSE "n22"]
MCLength == [x \in MCStrings \cup {"n1", "n22"} |-> IF x \in {"a", "n1"} THEN 1 ELSE 2]

Leaf(type, number, t) == [type |-> type, number |-> number, text |-> t, members |-> <<>>]
List(type, ms) == [type |-> type, number |-> 0, text |-> NULL, members |-> ms]

Leaves == {Leaf("Number", 1, NULL), Leaf("Number", 22, NULL),
           Leaf("String", 0, "a"), Leaf("NULL", 0, NULL)}
Few == {Leaf("Number", 1, NULL), Leaf("True", 0, NULL)}

\* Arrays and objects with members out of V, or with two out of W.
ArraysOf(V, W) ==
    {List("Array", <<>>)} \cup {List("Array", << <<NULL, v>> >>) : v \in V}
    \cup {List("Array", << <<NULL, v>>, <<NULL, w>> >>) : v \in W, w \in W}
ObjectsOf(V, W) ==
    {List("Object", <<>>)} \cup {List("Object", << <<k, v>> >>) : k \in {"id"}, v \in V}
    \cup {List("Object", << <<k, v>>, <<l, w>> >>) : k \in {"id"}, l \in {"id", "ID", "a"}, v \in W, w \in W}

Flat == Leaves \cup ArraysOf(Leaves, Few) \cup ObjectsOf(Leaves, Few)
Nested == ArraysOf(Flat, {}) \cup ObjectsOf(Flat, {})
Pair == {List("Array", << <<NULL, List("Array", <<>>)>>, <<NULL, v>> >>) : v \in Few}
Deep == ArraysOf(ArraysOf(ArraysOf(Few, {}), {}), {})
MCValues == Flat \cup Nested \cup Pair \cup Deep

\* Texts of values; their beginnings; and texts with a lexeme more or another one.
Changed(t) ==
    {SubSeq(t, 1, n) : n \in 1..Len(t)}
    \cup {InsertAt(t, i, x) : i \in 1..Len(t) + 1, x \in {"ws", "junk"}}
    \cup {ReplaceAt(t, i, x) : i \in 1..Len(t), x \in {"]", "}", ",", "a"}}
    \cup {<<"bom">> \o t}

MCInputs == {JsonText(v) : v \in MCValues} \cup UNION {Changed(JsonText(v)) : v \in Flat}

MCLists == {[type |-> "Number", values |-> l] : l \in {<<>>, <<1>>, <<22, 1>>}}
           \cup {[type |-> "String", values |-> <<"a", "id">>]}

\* Characters that stand for themselves, one of them a control character and
\* one of two bytes; escapes; UTF-16 codes of one, two and three bytes and the
\* halves of a pair; digits that are not hexadecimal; and no escape at all.
Unit(bytes, code) == [bytes |-> bytes, code |-> code]
Utf16(a, b, c, d, code) == Unit(<<92, 117, a, b, c, d>>, code)
MCUnits == {Unit(<<97>>, 97), Unit(<<1>>, 1), Unit(<<195, 169>>, 233),
            Unit(<<92, 34>>, 34), Unit(<<92, 92>>, 92), Unit(<<92, 110>>, 10),
            Utf16(48, 48, 49, 70, 31), Utf16(48, 48, 101, 57, 233), Utf16(50, 48, 65, 67, 8364),
            Utf16(68, 56, 51, 68, 55357), Utf16(68, 69, 48, 65, 56842),
            Utf16(90, 90, 90, 90, 0), Unit(<<92, 120>>, -1)}
=============================================================================
