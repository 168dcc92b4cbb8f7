---------------------------- MODULE CJsonStrings ----------------------------
(***************************************************************************)
(* The escape sequences of cJSON.c, byte by byte: parse_string turns a     *)
(* string literal into UTF-8, print_string_ptr makes a literal of a C      *)
(* string. Bytes are numbers; a C string is a sequence without the 0 that  *)
(* ends it.                                                                *)
(***************************************************************************)
EXTENDS Integers, Sequences, Bitwise

Quote == 34
Backslash == 92
Small_u == 117

\* The escaped control characters b, f, n, r, t and the bytes they stand for.
Escapes == {<<98, 8>>, <<102, 12>>, <<110, 10>>, <<114, 13>>, <<116, 9>>}

HexDigit(c) == IF c \in 48..57 THEN c - 48
               ELSE IF c \in 65..70 THEN c - 55
               ELSE IF c \in 97..102 THEN c - 87
               ELSE -1

\* Four digits; anything else counts as 0.
parse_hex4(s) ==
    LET value[n \in 0..4] == IF n = 0 THEN 0 ELSE 16 * value[n - 1] + HexDigit(s[n])
    IN  IF \E i \in 1..4 : HexDigit(s[i]) = -1 THEN 0 ELSE value[4]

\* The bytes of a code point, from the last to the first: the loop keeps the
\* low six bits of each and shifts the rest down.
Utf8(codepoint) ==
    LET length == IF codepoint < 128 THEN 1 ELSE IF codepoint < 2048 THEN 2
                  ELSE IF codepoint < 65536 THEN 3 ELSE 4
        mark == IF length = 2 THEN 192 ELSE IF length = 3 THEN 224 ELSE 240
        shifted[n \in 0..3] == IF n = 0 THEN codepoint ELSE shifted[n - 1] \div 64
    IN  [i \in 1..length |->
           IF i > 1 THEN (shifted[length - i] | 128) & 191
           ELSE IF length > 1 THEN (shifted[length - 1] | mark) & 255
           ELSE codepoint & 127]

\* Mutant: the second unit of a pair keeps its marking bits.
PairWithMarks(first, second) == 65536 + (((first & 1023) * 1024) | second)

Pair(first, second) == 65536 + (((first & 1023) * 1024) | (second & 1023))

\* s begins with an escaped code unit and ends where the literal does. A
\* length of 0 is a failure.
utf16_literal_to_utf8(s) ==
    LET Fails == [length |-> 0, out |-> <<>>]
        first == parse_hex4(SubSeq(s, 3, 6))
        second == parse_hex4(SubSeq(s, 9, 12))
    IN  IF Len(s) < 6 \/ first \in 56320..57343
        THEN Fails
        ELSE IF first \notin 55296..56319
        THEN [length |-> 6, out |-> Utf8(first)]
        ELSE IF Len(s) < 12 \/ s[7] # Backslash \/ s[8] # Small_u \/ second \notin 56320..57343
        THEN Fails
        ELSE [length |-> 12, out |-> Utf8(Pair(first, second))]

\* The place of the closing quote and the backslashes passed on the way to it,
\* looking at every second byte after a backslash; 0 if there is none.
RECURSIVE Closing(_, _, _)
Closing(s, i, skipped) ==
    IF i > Len(s) THEN <<0, skipped>>
    ELSE IF s[i] = Quote THEN <<i, skipped>>
    ELSE IF s[i] = Backslash
    THEN IF i = Len(s) THEN <<0, skipped + 1>> ELSE Closing(s, i + 2, skipped + 1)
    ELSE Closing(s, i + 1, skipped)

\* The second loop: the bytes from i to the closing quote, unescaped.
RECURSIVE Unescaped(_, _, _)
Unescaped(s, i, end) ==
    LET rest == Unescaped(s, i + 1, end)
        c == s[i + 1]
        pairs == {e \in Escapes : e[1] = c}
        unit == utf16_literal_to_utf8(SubSeq(s, i, end - 1))
        Then(bytes, n) ==
            LET more == Unescaped(s, i + n, end)
            IN  [ok |-> more.ok, out |-> bytes \o more.out]
        Fails == [ok |-> FALSE, out |-> <<>>]
    IN  IF i >= end THEN [ok |-> TRUE, out |-> <<>>]
        ELSE IF s[i] # Backslash THEN Then(<<s[i]>>, 1)
        ELSE IF pairs # {} THEN Then(<<(CHOOSE e \in pairs : TRUE)[2]>>, 2)
        ELSE IF c \in {Quote, Backslash, 47} THEN Then(<<c>>, 2)
        ELSE IF c = Small_u /\ unit.length > 0 THEN Then(unit.out, unit.length)
        ELSE Fails

\* s begins with the opening quote. room is the size of the block allocated
\* for the result, used how many bytes the parser moves on.
parse_string(s) ==
    LET closing == Closing(s, 2, 0)
        end == closing[1]
        result == Unescaped(s, 2, end)
    IN  IF s[1] # Quote \/ end = 0
        THEN [ok |-> FALSE, out |-> <<>>, room |-> 0, used |-> 0]
        ELSE [ok |-> result.ok, out |-> result.out,
              room |-> end - 1 - closing[2] + 1, used |-> end]

-----------------------------------------------------------------------------
(* Printing *)

\* Mutant: a control character is counted as four more characters.
EscapeCharactersShort(c) ==
    IF c \in {Quote, Backslash} \cup {e[2] : e \in Escapes} THEN 1
    ELSE IF c < 32 THEN 4 ELSE 0

EscapeCharacters(c) ==
    IF c \in {Quote, Backslash} \cup {e[2] : e \in Escapes} THEN 1
    ELSE IF c < 32 THEN 5 ELSE 0

HexChar(n) == IF n < 10 THEN 48 + n ELSE 87 + n

Escaped(c) ==
    IF c > 31 /\ c \notin {Quote, Backslash} THEN <<c>>
    ELSE IF c \in {Quote, Backslash} THEN <<Backslash, c>>
    ELSE IF \E e \in Escapes : e[2] = c
    THEN <<Backslash, (CHOOSE e \in Escapes : e[2] = c)[1]>>
    ELSE <<Backslash, Small_u, 48, 48, HexChar(c \div 16), HexChar(c % 16)>>

\* The literal, and where the code puts its closing quote: at the length it
\* computed before it wrote the escapes.
print_string_ptr(s) ==
    LET all[n \in 0..Len(s)] == IF n = 0 THEN <<>> ELSE all[n - 1] \o Escaped(s[n])
        count[n \in 0..Len(s)] ==
            IF n = 0 THEN 0 ELSE count[n - 1] + 1 + EscapeCharacters(s[n])
        length == count[Len(s)]
        body == all[Len(s)]
    IN  [out |-> <<Quote>> \o SubSeq(body, 1, length) \o <<Quote>>, room |-> length + 3,
         written |-> Len(body) + 3]
=============================================================================
