---------------------------- MODULE CJsonMeaning ----------------------------
(***************************************************************************)
(* What trees, texts and string literals mean, and that the program of     *)
(* CJsonDocuments keeps these meanings. The operators here are recursive   *)
(* like the values they are about.                                         *)
(***************************************************************************)
EXTENDS CJsonDocuments, CJsonCompare, SequencesExt

CONSTANT Values   \* JSON values: their texts have to be accepted

-----------------------------------------------------------------------------
(* What a tree means *)

\* The value of an item: a record without pointers.
RECURSIVE ValueOf(_)
ValueOf(item) ==
    [type |-> heap.type[item],
     number |-> IF heap.type[item] = "Number" THEN heap.valueint[item] ELSE 0,
     text |-> heap.valuestring[item],
     members |-> LET L == ListOf(heap, item)
                 IN  [i \in 1..Len(L) |-> <<heap.string[L[i]], ValueOf(L[i])>>]]

\* The text of a value, by the grammar of JSON.
RECURSIVE JsonText(_)
JsonText(v) ==
    LET Member(m) == (IF m[1] = NULL THEN <<>> ELSE <<m[1], ":">>) \o JsonText(m[2])
        parts == [i \in 1..Len(v.members) |->
                    (IF i = 1 THEN <<>> ELSE <<",">>) \o Member(v.members[i])]
    IN  CASE v.type = "Number" -> <<Lexeme[v.number]>>
          [] v.type = "String" -> <<v.text>>
          [] v.type = "Array" -> <<"[">> \o FlattenSeq(parts) \o <<"]">>
          [] v.type = "Object" -> <<"{">> \o FlattenSeq(parts) \o <<"}">>
          [] OTHER -> <<CHOOSE x \in DOMAIN Literals : Literals[x] = v.type>>

RECURSIVE Depth(_)
Depth(v) ==
    IF v.type \notin {"Array", "Object"} THEN 0
    ELSE 1 + Max({0} \cup {Depth(v.members[i][2]) : i \in 1..Len(v.members)})

\* Values whose objects have no two members of one name: for those equality
\* does not depend on the order of the members.
SameName(x, y, case_sensitive) == IF case_sensitive THEN x = y ELSE Lower[x] = Lower[y]

RECURSIVE Distinct(_, _), Same(_, _, _)
Distinct(v, case_sensitive) ==
    \A i \in 1..Len(v.members) :
        /\ Distinct(v.members[i][2], case_sensitive)
        /\ v.type = "Object" =>
             \A j \in 1..i - 1 : ~SameName(v.members[i][1], v.members[j][1], case_sensitive)

Same(v, w, case_sensitive) ==
    /\ v.type = w.type /\ v.number = w.number /\ v.text = w.text
    /\ Len(v.members) = Len(w.members)
    /\ \A i \in 1..Len(v.members) :
         IF v.type = "Array"
         THEN Same(v.members[i][2], w.members[i][2], case_sensitive)
         ELSE \E j \in 1..Len(w.members) :
                /\ SameName(v.members[i][1], w.members[j][1], case_sensitive)
                /\ Same(v.members[i][2], w.members[j][2], case_sensitive)

Bare(xs) == SelectSeq(xs, LAMBDA x : x \notin {"ws", "bom"})

-----------------------------------------------------------------------------
(* Correctness of trees *)

(***************************************************************************)
(* The tree of a parsed text means what the text says up to where parsing  *)
(* ended and nothing behind it; and a text is refused only if no JSON text *)
(* it begins with, or is, nests within the limit. What follows a document, *)
(* like the bytes behind a payload, never changes the tree.                *)
(***************************************************************************)
ParsesJson ==
    call.name \in {"parse", "whole"} =>
        IF root # NULL
        THEN /\ Bare(SubSeq(text, 1, end)) = JsonText(ValueOf(root))
             /\ call.name = "whole" => end = Len(text)
             /\ Depth(ValueOf(root)) <= NestingLimit
        ELSE call.left > 0 =>
             ~\E v \in Values : /\ Depth(v) <= NestingLimit
                                /\ IF call.name = "whole" THEN JsonText(v) = Bare(text)
                                   ELSE IsPrefix(JsonText(v), Bare(text))

\* A duplicate means what the original means, a shallow one without its members.
CopiesEqual ==
    /\ call.name = "duplicate" /\ copy # NULL => ValueOf(copy) = ValueOf(root)
    /\ call.name = "shallow" /\ copy # NULL =>
         ValueOf(copy) = [ValueOf(root) EXCEPT !.members = <<>>]
    /\ call.name \in {"duplicate", "shallow"} /\ copy = NULL => call.left = 0

\* Comparing decides whether two trees mean the same, in either order.
ComparesContents ==
    copy # NULL =>
        \A cs \in BOOLEAN :
            LET v == ValueOf(root)
                w == ValueOf(copy)
            IN  Distinct(v, cs) /\ Distinct(w, cs) =>
                  /\ cJSON_Compare(heap, root, copy, cs) = Same(v, w, cs)
                  /\ cJSON_Compare(heap, copy, root, cs) = Same(v, w, cs)

-----------------------------------------------------------------------------
(* Correctness of printing *)

\* A call that succeeds printed the text of the tree: parsing gives it back.
PrintsText ==
    call.name = "print" /\ out.ok => Bare(Printed(out)) = JsonText(ValueOf(root))

-----------------------------------------------------------------------------
(* Correctness of string literals *)

Bytes == INSTANCE CJsonStrings

\* The UTF-8 of a code point, as RFC 3629 defines it.
Continuation(c) == 128 + (c % 64)
UTF8(c) ==
    IF c < 128 THEN <<c>>
    ELSE IF c < 2048 THEN <<192 + (c \div 64), Continuation(c)>>
    ELSE IF c < 65536 THEN <<224 + (c \div 4096), Continuation(c \div 64), Continuation(c)>>
    ELSE <<240 + (c \div 262144), Continuation(c \div 4096),
           Continuation(c \div 64), Continuation(c)>>

\* The units of a literal: the bytes of each, and the UTF-16 code it stands
\* for, -1 if for none. A code of the first half of the surrogates forms a pair
\* with one of the second half directly behind it.
Code(i) == literal[i].code
First(i) == i \in 1..Len(literal) /\ Code(i) \in 55296..56319
Second(i) == i \in 1..Len(literal) /\ Code(i) \in 56320..57343

Accepted == \A i \in 1..Len(literal) : Code(i) # -1 /\ (First(i) <=> Second(i + 1))
            /\ (i = 1 => ~Second(i))

Source == <<Bytes!Quote>> \o FlattenSeq([i \in 1..Len(literal) |-> literal[i].bytes])
Meaning == FlattenSeq([i \in 1..Len(literal) |->
             IF First(i) THEN UTF8(65536 + 1024 * (Code(i) - 55296) + (Code(i + 1) - 56320))
             ELSE IF Second(i) THEN <<>>
             ELSE UTF8(Code(i))])

\* A closed literal of these units is refused if one of them stands for nothing
\* or for half a pair. Any other is accepted: the result is the UTF-8 of its code
\* points and fits the allocated block. Two kinds of units that JSON forbids
\* are accepted as well, a control character as itself and an escape whose four
\* digits are not hexadecimal as code 0 (parse_hex4 has no other way to fail).
LiteralsDecode ==
    LET closed == Bytes!parse_string(Append(Source, Bytes!Quote))
    IN  /\ closed.ok = Accepted
        /\ Accepted => /\ closed.out = Meaning
                       /\ closed.used = Len(Source) + 1
                       /\ Len(closed.out) + 1 <= closed.room
        /\ ~Bytes!parse_string(Source).ok

CString(s) == SubSeq(s, 1, SelectInSeq(s \o <<0>>, LAMBDA b : b = 0) - 1)

\* A string ends at its first 0. Printing it and parsing what was printed gives
\* it back, and what is written is exactly what was reserved.
EscapesParse ==
    Accepted =>
        LET string == CString(Meaning)
            printed == Bytes!print_string_ptr(string)
            parsed == Bytes!parse_string(printed.out)
        IN  /\ parsed.ok /\ parsed.out = string
            /\ printed.written = printed.room
=============================================================================
