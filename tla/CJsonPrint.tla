----------------------------- MODULE CJsonPrint -----------------------------
(***************************************************************************)
(* Printing in cJSON.c. A print buffer is a record:                        *)
(*                                                                         *)
(*   text, offset   the lexemes printed and passed over by offset, and the *)
(*                  characters they take                                   *)
(*   ahead, nul     lexemes written at offset but not passed over yet, and *)
(*                  whether a terminator follows them                      *)
(*   length, depth  the size of the buffer, the nesting of the object      *)
(*   noalloc        the buffer belongs to the caller and cannot grow       *)
(*   format         blanks are printed between the lexemes                 *)
(*   mem            how many allocations still succeed                     *)
(*   buffers        how many buffers were allocated and not freed          *)
(*   ok, overrun    whether the call goes on; whether something was        *)
(*                  written, or looked for, past the end of the buffer     *)
(***************************************************************************)
EXTENDS CJsonText

\* The characters of a lexeme: a string has quotes.
Width(x) == IF x \in Strings THEN Length[x] + 2
            ELSE IF x \in NumberLexemes THEN Length[x]
            ELSE IF x = "false" THEN 5
            ELSE IF x = "empty" THEN 2
            ELSE IF x \in DOMAIN Literals THEN 4
            ELSE 1

Widths(xs) ==
    LET to[n \in 0..Len(xs)] == IF n = 0 THEN 0 ELSE to[n - 1] + Width(xs[n])
    IN  to[Len(xs)]

\* Strings and numbers are told from what is printed as it is.
ASSUME PrintAssumption ==
    /\ \A x \in Strings \cup NumberLexemes : Length[x] \in Nat
    /\ (Strings \cup NumberLexemes) \cap
         ({"[", "]", "{", "}", ",", ":", "ws", "empty", "raw"} \cup DOMAIN Literals) = {}

Blanks(n) == [i \in 1..n |-> "ws"]

\* The text of a Raw item is printed as it is: "raw" is one character of it.
RawText(s) == [i \in 1..Length[s] |-> "raw"]

-----------------------------------------------------------------------------
(* The buffer *)

Printable == Lexemes \cup {"empty", "raw"}

PrintBuffers ==
    [text : Seq(Printable), offset : Nat, ahead : Seq(Printable), nul : BOOLEAN,
     length : Nat, depth : Int, noalloc : BOOLEAN, format : BOOLEAN, mem : Nat,
     buffer : BOOLEAN, buffers : Int, ok : BOOLEAN, overrun : BOOLEAN]

\* Mutant: what is in the buffer already is not counted.
ensureFromStart(p, needed) ==
    IF needed + 1 <= p.length THEN p
    ELSE IF p.noalloc \/ p.mem = 0 THEN [p EXCEPT !.ok = FALSE]
    ELSE [p EXCEPT !.mem = @ - 1, !.length = 2 * (needed + 1)]

\* Growing doubles what is needed; without memory the buffer is freed. The hooks
\* are the initial ones, with realloc.
ensure(p, needed) ==
    LET all == needed + p.offset + 1
    IN  IF ~p.ok \/ (p.length > 0 /\ p.offset >= p.length)
        THEN [p EXCEPT !.ok = FALSE]
        ELSE IF all <= p.length
        THEN p
        ELSE IF p.noalloc
        THEN [p EXCEPT !.ok = FALSE]
        ELSE IF p.mem = 0
        THEN [p EXCEPT !.ok = FALSE, !.buffer = FALSE, !.length = 0, !.buffers = @ - 1]
        ELSE [p EXCEPT !.mem = @ - 1, !.length = 2 * all]

\* Lexemes and perhaps a terminator are written at the offset.
Written(p, xs, nul) ==
    IF ~p.ok THEN p
    ELSE [p EXCEPT !.ahead = xs, !.nul = nul,
                   !.overrun = @ \/ p.offset + Widths(xs) + (IF nul THEN 1 ELSE 0) > p.length]

\* The offset passes over what was just written; update_offset finds its end
\* by the terminator.
Passed(p) ==
    IF ~p.ok THEN p
    ELSE [p EXCEPT !.text = @ \o p.ahead, !.offset = @ + Widths(p.ahead), !.ahead = <<>>]
update_offset(p) == Passed([p EXCEPT !.overrun = @ \/ (p.ok /\ ~p.nul)])

-----------------------------------------------------------------------------
(* The tree *)

\* print_string_ptr: a missing string prints like an empty one.
print_string_ptr(p, s) ==
    IF s = NULL THEN Written(ensure(p, 3), <<"empty">>, TRUE)
    ELSE Written(ensure(p, Length[s] + 3), <<s>>, TRUE)

print_array(p, h, item, loop) ==
    LET open == [Passed(Written(ensure(p, 1), <<"[">>, FALSE)) EXCEPT !.depth = @ + 1]
        listed == loop[open, h, "Array", h.child[item]]
        closed == Written(ensure(listed, 2), <<"]">>, TRUE)
    IN  [closed EXCEPT !.depth = @ - 1]

print_object(p, h, item, loop) ==
    LET n == IF p.format THEN 2 ELSE 1
        open == [Passed(Written(ensure(p, n + 1), <<"{">> \o Blanks(n - 1), FALSE))
                 EXCEPT !.depth = @ + 1]
        listed == loop[open, h, "Object", h.child[item]]
        closed == IF p.format
                  THEN Written(ensure(listed, listed.depth + 1),
                               Append(Blanks(listed.depth - 1), "}"), TRUE)
                  ELSE Written(ensure(listed, 2), <<"}">>, TRUE)
    IN  [closed EXCEPT !.depth = @ - 1]

print_value(p, h, item, loop) ==
    LET type == h.type[item]
        s == h.valuestring[item]
        Literal(x) == Written(ensure(p, Width(x) + 1), <<x>>, TRUE)
    IN  CASE type = "NULL" -> Literal("null")
          [] type = "False" -> Literal("false")
          [] type = "True" -> Literal("true")
          [] type = "Number" -> Passed(Literal(Lexeme[h.valueint[item]]))
          [] type = "Raw" /\ s # NULL -> Written(ensure(p, Length[s] + 1), RawText(s), TRUE)
          [] type = "String" -> print_string_ptr(p, s)
          [] type = "Array" -> print_array(p, h, item, loop)
          [] type = "Object" -> print_object(p, h, item, loop)
          [] OTHER -> [p EXCEPT !.ok = FALSE]

\* An element of an array, and the comma behind it.
print_element(p, h, c, loop) ==
    LET printed == update_offset(print_value(p, h, c, loop))
        n == IF p.format THEN 2 ELSE 1
        comma == <<",">> \o Blanks(n - 1)
    IN  IF h.next[c] = NULL
        THEN printed
        ELSE loop[Passed(Written(ensure(printed, n + 1), comma, TRUE)), h, "Array", h.next[c]]

\* Mutant: the comma looks at the member before.
CommaBehind(h, c) == IF h.prev[c] # NULL THEN <<",">> ELSE <<>>

Comma(h, c) == IF h.next[c] # NULL THEN <<",">> ELSE <<>>

\* A member of an object: key, colon, value and comma.
print_pair(p, h, c, loop) ==
    LET indented == IF p.format
                    THEN Passed(Written(ensure(p, p.depth), Blanks(p.depth), FALSE))
                    ELSE p
        key == update_offset(print_string_ptr(indented, h.string[c]))
        n == IF p.format THEN 2 ELSE 1
        colon == Passed(Written(ensure(key, n), <<":">> \o Blanks(n - 1), FALSE))
        value == update_offset(print_value(colon, h, c, loop))
        comma == Comma(h, c) \o Blanks(n - 1)
        ended == Passed(Written(ensure(value, Len(comma) + 1), comma, TRUE))
    IN  loop[ended, h, "Object", h.next[c]]

\* The loops of print_array and print_object from a member on, for at most n
\* members. From an item to one below it there are fewer steps than items.
PrintRounds == PrintBuffers \X Heap \X {"Array", "Object"} \X Pointers
NonePrinted == [r \in PrintRounds |-> IF r[4] = NULL THEN r[1] ELSE Fail(r[1])]
PrintedMembers(loop) ==
    [r \in PrintRounds |->
        IF r[4] = NULL \/ ~r[1].ok THEN r[1]
        ELSE IF r[3] = "Array" THEN print_element(r[1], r[2], r[4], loop)
        ELSE print_pair(r[1], r[2], r[4], loop)]
print_members[n \in Nat] == IF n = 0 THEN NonePrinted ELSE PrintedMembers(print_members[n - 1])

printed_value(p, h, item) == print_value(p, h, item, print_members[Cardinality(Items)])

-----------------------------------------------------------------------------
(* The calls *)

Buffer(length, noalloc, format, mem) ==
    [text |-> <<>>, offset |-> 0, ahead |-> <<>>, nul |-> FALSE, length |-> length,
     depth |-> 0, noalloc |-> noalloc, format |-> format, mem |-> mem,
     buffer |-> TRUE, buffers |-> IF noalloc THEN 0 ELSE 1, ok |-> TRUE, overrun |-> FALSE]

\* Without a buffer there is nothing to print into.
NoBuffer == [Buffer(0, FALSE, FALSE, 0) EXCEPT !.ok = FALSE, !.buffer = FALSE, !.buffers = 0]

\* deallocate(p->buffer), where the pointer may be NULL already.
Deallocated(p) == [p EXCEPT !.ok = FALSE, !.buffer = FALSE,
                            !.buffers = IF p.buffer THEN @ - 1 ELSE @]

\* cJSON_Print, cJSON_PrintUnformatted: the buffer is cut to the text.
print(h, item, size, format, mem) ==
    LET p == update_offset(printed_value(Buffer(size, FALSE, format, mem - 1), h, item))
    IN  IF mem = 0 THEN NoBuffer
        ELSE IF ~p.ok \/ p.mem = 0 THEN Deallocated(p)
        ELSE [p EXCEPT !.length = p.offset + 1]

cJSON_PrintBuffered(h, item, prebuffer, fmt, mem) ==
    LET p == printed_value(Buffer(prebuffer, FALSE, fmt, mem - 1), h, item)
    IN  IF mem = 0 THEN NoBuffer ELSE IF ~p.ok THEN Deallocated(p) ELSE p

cJSON_PrintPreallocated(h, item, len, fmt) == printed_value(Buffer(len, TRUE, fmt, 0), h, item)
=============================================================================
