----------------------------- MODULE CJsonText -----------------------------
(***************************************************************************)
(* The functions of cJSON.c that make whole trees: parsing, duplicating and*)
(* building arrays. They work on the heap of CJsonHeap.                    *)
(*                                                                         *)
(* A text is a sequence of lexemes: a bracket, a comma, a colon, a blank   *)
(* ("ws"), a byte order mark ("bom"), a literal, a number, a whole string  *)
(* literal, which stands for its contents, or a byte no text has ("junk"). *)
(* Offsets and buffers of the parser count lexemes; those of the printer,  *)
(* where sizes matter, count characters.                                   *)
(*                                                                         *)
(* A loop whose body calls the function it is in is a recursive function   *)
(* of the rounds it may still make; its body, and the functions between,   *)
(* get the rest of the rounds as a parameter, loop.                        *)
(***************************************************************************)
EXTENDS CJsonHeap

CONSTANTS NestingLimit,   \* CJSON_NESTING_LIMIT
          Numbers,        \* numbers, also as lexemes
          Lexeme,         \* how a number is printed
          Length          \* the characters of a string, of a printed number

Literals == [x \in {"null", "false", "true"} |->
               IF x = "null" THEN "NULL" ELSE IF x = "false" THEN "False" ELSE "True"]
NumberOf(x) == CHOOSE n \in Numbers : Lexeme[n] = x
NumberLexemes == {Lexeme[n] : n \in Numbers}
Lexemes == {"[", "]", "{", "}", ",", ":", "ws", "bom", "junk"}
           \cup DOMAIN Literals \cup Strings \cup NumberLexemes

\* No lexeme is, or contains, the terminator of a text.
ASSUME TextAssumption == Numbers \subseteq Int /\ "nul" \notin Lexemes

Pointers == Items \cup {NULL}

-----------------------------------------------------------------------------
(* The parse buffer: s.content ends in the terminator "nul".               *)

ParseBuffers ==
    [content : Seq(Lexemes \cup {"nul"}), offset : Nat, depth : Int,
     h : Heap, head : Pointers, ok : BOOLEAN]

At(s) == s.content[s.offset + 1]
Move(s, n) == [s EXCEPT !.offset = @ + n]
Fail(s) == [s EXCEPT !.ok = FALSE]

\* The places that only blanks separate from the offset; the terminator is one.
Reached(s) == {n \in s.offset..Len(s.content) :
                 \A i \in s.offset + 1..n : s.content[i] \in {"ws", "nul"}}

\* At the end of the text the offset is put back on the terminator.
buffer_skip_whitespace(s) ==
    LET blanks == Reached(s)
        to == CHOOSE n \in blanks : \A m \in blanks : m <= n
    IN  [s EXCEPT !.offset = IF to = Len(s.content) THEN to - 1 ELSE to]

skip_utf8_bom(s) == IF Len(s.content) > 2 /\ At(s) = "bom" THEN Move(s, 1) ELSE s

\* The string at the offset becomes the text of an item.
parse_string(s, item) ==
    IF At(s) \in Strings /\ CanCopy(s.h, At(s))
    THEN Move([s EXCEPT !.h = [Copied(@) EXCEPT !.type[item] = "String",
                                                 !.valuestring[item] = At(s)]], 1)
    ELSE Fail(s)

\* Mutant: the name stays in valuestring, where the value overwrites it.
NamedTwice(s, item) ==
    [s EXCEPT !.h.string[item] = s.h.valuestring[item]]

\* The name of a member is parsed as its text and moved to its key.
Named(s, item) ==
    [s EXCEPT !.h.string[item] = s.h.valuestring[item], !.h.valuestring[item] = NULL]

\* Mutant: the new item does not point back.
AttachedOneWay(s, current) == [s EXCEPT !.h.next = Put(@, current, s.h.ret)]

\* Attaches a new item to the list that ends in current.
Attached(s, current) ==
    [s EXCEPT !.h.next = Put(@, current, s.h.ret), !.h.prev[s.h.ret] = current]

\* Mutant: one level too many.
DeeperAllowed(s) == s.depth <= NestingLimit

\* A list is opened only this deep.
Allowed(s) == s.depth < NestingLimit

\* The list becomes the child of the item; it is deleted when anything failed.
Closed(listed, item, type, close) ==
    IF listed.ok /\ At(listed) = close
    THEN Move([listed EXCEPT !.depth = @ - 1,
                             !.h = [@ EXCEPT !.type[item] = type, !.child[item] = listed.head]], 1)
    ELSE Fail([listed EXCEPT !.h = cJSON_Delete(@, listed.head)])

\* parse_array, parse_object.
parse_list(s, item, type, close, loop) ==
    LET opened == buffer_skip_whitespace(Move([s EXCEPT !.depth = @ + 1], 1))
        listed == IF At(opened) = close
                  THEN [opened EXCEPT !.head = NULL]
                  ELSE loop[Move(opened, -1), type, NULL, NULL]
    IN  IF Allowed(s) THEN Closed(listed, item, type, close) ELSE Fail(s)

parse_value(s, item, loop) ==
    LET x == At(s)
        Is(type, int) == Move([s EXCEPT !.h.type[item] = type, !.h.valueint[item] = int], 1)
    IN  IF x \in DOMAIN Literals
        THEN Is(Literals[x], IF x = "true" THEN 1 ELSE s.h.valueint[item])
        ELSE IF x \in Strings THEN parse_string(s, item)
        ELSE IF x \in NumberLexemes THEN Is("Number", NumberOf(x))
        ELSE IF x = "[" THEN parse_list(s, item, "Array", "]", loop)
        ELSE IF x = "{" THEN parse_list(s, item, "Object", "}", loop)
        ELSE Fail(s)

\* A member: head is the first one of its list, current the last so far.
parse_member(s, type, head, current, loop) ==
    LET n == [s EXCEPT !.h = cJSON_New_Item(@)]
        new == n.h.ret
        first == IF head = NULL THEN new ELSE head
        start == buffer_skip_whitespace(Move(Attached(n, current), 1))
        name == parse_string(start, new)
        colon == buffer_skip_whitespace(Named(name, new))
        value == IF type = "Array" THEN start
                 ELSE IF ~name.ok THEN name
                 ELSE IF At(colon) # ":" THEN Fail(colon)
                 ELSE buffer_skip_whitespace(Move(colon, 1))
        parsed == IF value.ok THEN parse_value(value, new, loop) ELSE value
        next == buffer_skip_whitespace(parsed)
    IN  IF new = NULL
        THEN Fail([n EXCEPT !.head = head])
        ELSE IF ~parsed.ok
        THEN [parsed EXCEPT !.head = first]
        ELSE IF At(next) = ","
        THEN loop[next, type, first, new]
        ELSE [next EXCEPT !.head = first]

\* What a round of the loops has: the buffer, the type, head and current.
ParseRounds == ParseBuffers \X {"Array", "Object"} \X Pointers \X Pointers
NoMembers == [r \in ParseRounds |-> Fail(r[1])]
ParsedMembers(loop) == [r \in ParseRounds |-> parse_member(r[1], r[2], r[3], r[4], loop)]

\* The loops of parse_array and parse_object, for at most n members.
parse_members[n \in Nat] == IF n = 0 THEN NoMembers ELSE ParsedMembers(parse_members[n - 1])

\* The root is returned, or deleted when anything failed.
Rooted(s, root, as_required) ==
    IF s.ok /\ as_required
    THEN [s EXCEPT !.h.ret = root]
    ELSE Fail([s EXCEPT !.h = [cJSON_Delete(@, root) EXCEPT !.ret = NULL]])

\* If it is required, only blanks may follow.
Terminated(s, root, require_null_terminated) ==
    IF s.ok /\ require_null_terminated
    THEN LET end == buffer_skip_whitespace(s) IN Rooted(end, root, At(end) = "nul")
    ELSE Rooted(s, root, TRUE)

\* Returns the parse buffer: the root in h.ret, the end of what was parsed,
\* or the place of the error, in offset.
cJSON_ParseWithOpts(h, text, require_null_terminated) ==
    LET n == cJSON_New_Item(h)
        buffer == [content |-> Append(text, "nul"), offset |-> 0, depth |-> 0,
                   h |-> n, head |-> NULL, ok |-> TRUE]
        begin == buffer_skip_whitespace(skip_utf8_bom(buffer))
        loop == parse_members[Len(buffer.content)]   \* a member has a lexeme
    IN  IF n.ret = NULL
        THEN Fail(buffer)
        ELSE Terminated(parse_value(begin, n.ret, loop), n.ret, require_null_terminated)

-----------------------------------------------------------------------------
(* Duplication *)

\* Mutant: every copy is linked as the first member.
LinkedFirst(d, newitem, last) == [d EXCEPT !.child[newitem] = d.ret]

\* The copied member d.ret is linked behind the last one.
LinkedLast(d, newitem, last) ==
    IF last = NULL THEN [d EXCEPT !.child[newitem] = d.ret]
    ELSE suffix_object(d, last, d.ret)

DuplicateItem(h, item, recurse, loop) ==
    LET n == cJSON_New_Item(h)
        new == n.ret
        fields == [n EXCEPT !.type[new] = h.type[item], !.valueint[new] = h.valueint[item],
                            !.const = IF item \in h.const THEN @ \cup {new} ELSE @]
        HasText == h.valuestring[item] # NULL
        text == IF ~HasText THEN fields
                ELSE [Copied(fields) EXCEPT !.valuestring[new] = h.valuestring[item]]
        HasKey == h.string[item] # NULL
        key == IF ~HasKey THEN text
               ELSE [(IF item \in h.const THEN text ELSE Copied(text))
                     EXCEPT !.string[new] = h.string[item]]
        whole == IF recurse THEN loop[key, new, h.child[item], NULL]
                 ELSE [key EXCEPT !.ret = new]
        Failed(f) == [cJSON_Delete(f, new) EXCEPT !.ret = NULL]
    IN  IF new = NULL
        THEN n
        ELSE IF HasText /\ ~CanCopy(fields, h.valuestring[item])
        THEN Failed(fields)
        ELSE IF HasKey /\ item \notin h.const /\ ~CanCopy(text, h.string[item])
        THEN Failed(text)
        ELSE IF whole.ret = NULL
        THEN Failed(whole)
        ELSE whole

\* A member is copied and linked behind the last one.
DuplicateMember(h, newitem, child, last, loop) ==
    LET d == DuplicateItem(h, child, TRUE, loop)
    IN  IF d.ret = NULL
        THEN d
        ELSE loop[LinkedLast(d, newitem, last), newitem, h.next[child], d.ret]

\* The loop over the members from child on, which are appended to those of
\* newitem, last so far; "ret" is NULL when a copy fails.
DuplicateRounds == Heap \X Items \X Pointers \X Pointers
NoDuplicates ==
    [r \in DuplicateRounds |-> [r[1] EXCEPT !.ret = IF r[3] = NULL THEN r[2] ELSE NULL]]
Duplicates(loop) ==
    [r \in DuplicateRounds |->
        IF r[3] = NULL THEN [r[1] EXCEPT !.ret = r[2]]
        ELSE DuplicateMember(r[1], r[2], r[3], r[4], loop)]
DuplicateMembers[n \in Nat] == IF n = 0 THEN NoDuplicates ELSE Duplicates(DuplicateMembers[n - 1])

\* From an item to one below it there are fewer steps than items.
cJSON_Duplicate(h, item, recurse) ==
    DuplicateItem(h, item, recurse, DuplicateMembers[Cardinality(Items)])

-----------------------------------------------------------------------------
(* Arrays of numbers and of strings *)

\* The next element of array a is created and linked behind the last one; when
\* that fails the array is deleted, and the elements after it are not created.
Element(f, a, type, value) ==
    LET n == IF type = "Number" THEN CreateItem(f.h, type, value)
             ELSE CreateText(f.h, type, value)
    IN  IF f.h.ret = NULL
        THEN f
        ELSE IF n.ret = NULL
        THEN [f EXCEPT !.h = [cJSON_Delete(n, a) EXCEPT !.ret = NULL]]
        ELSE [h |-> LinkedLast(n, a, f.last), last |-> n.ret]

\* cJSON_CreateIntArray, FloatArray, DoubleArray (type "Number") and StringArray.
CreateArrayOf(h, type, values) ==
    LET a == CreateItem(h, "Array", 0)
        filled[i \in 0..Len(values)] ==
            IF i = 0 THEN [h |-> a, last |-> NULL]
            ELSE Element(filled[i - 1], a.ret, type, values[i])
    IN  IF a.ret = NULL
        THEN a
        ELSE [filled[Len(values)].h EXCEPT !.ret = IF @ = NULL THEN NULL ELSE a.ret]

\* cJSON_SetNumberHelper, for a number an int can hold.
SetNumber(h, object, number) == [h EXCEPT !.valueint[object] = number]
=============================================================================
