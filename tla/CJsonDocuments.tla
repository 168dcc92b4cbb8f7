--------------------------- MODULE CJsonDocuments ---------------------------
(***************************************************************************)
(* A program that parses texts, builds arrays, duplicates, alters, compares*)
(* and prints them, with allocations that may fail at any point; and one   *)
(* that parses and prints string literals. What trees and texts mean is    *)
(* the subject of CJsonMeaning.                                            *)
(***************************************************************************)
EXTENDS CJsonPrint

CONSTANTS Inputs,     \* the texts that are received
          Lists,      \* the numbers and strings arrays are created of
          Memories,   \* how many allocations of one call succeed, at most
          Sizes,      \* sizes of the buffers the program prints into
          PrintSize,  \* the size cJSON_Print begins with
          Units,      \* what string literals are made of
          MaxUnits    \* how many units a literal has

ASSUME DocumentAssumption ==
    /\ Inputs \subseteq Seq(Lexemes)
    /\ Lists \subseteq [type : {"Number"}, values : Seq(Numbers)]
                     \cup [type : {"String"}, values : Seq(Strings)]
    /\ Memories \subseteq Nat /\ Sizes \subseteq Nat /\ PrintSize \in Nat

VARIABLES
  text,    \* the text received
  literal, \* the units of the string literal received
  heap,
  root,    \* the tree parsed or built
  copy,    \* its duplicate
  call,    \* what was called last, and the allocations that were left
  end,     \* where the parser stopped
  out      \* the print buffer

vars == <<text, literal, heap, root, copy, call, end, out>>

Called(name, h) == [name |-> name, left |-> h.mem]
Calls(mem) == [heap EXCEPT !.mem = mem]
Rest(h) == [h EXCEPT !.mem = 0, !.ret = NULL]

Init ==
    /\ text = <<>> /\ literal = <<>>
    /\ heap = EmptyHeap /\ root = NULL /\ copy = NULL
    /\ call = Called("none", EmptyHeap) /\ end = 0
    /\ out = NoBuffer

-----------------------------------------------------------------------------
(* The program *)

Idle == call.name = "none" /\ text = <<>> /\ literal = <<>>

Receive ==
    /\ Idle
    /\ text' \in Inputs
    /\ UNCHANGED <<literal, heap, root, copy, call, end, out>>

\* A string literal is received unit by unit.
ReceiveUnit ==
    /\ call.name = "none" /\ text = <<>> /\ Len(literal) < MaxUnits
    /\ \E u \in Units : literal' = Append(literal, u)
    /\ UNCHANGED <<text, heap, root, copy, call, end, out>>

\* cJSON_Parse, cJSON_ParseWithOpts.
ParseText ==
    /\ call.name = "none" /\ text # <<>>
    /\ \E mem \in Memories, require_null_terminated \in BOOLEAN :
         \E s \in {cJSON_ParseWithOpts(Calls(mem), text, require_null_terminated)} :
             /\ heap' = Rest(s.h)
             /\ root' = s.h.ret
             /\ end' = s.offset
             /\ call' = Called(IF require_null_terminated THEN "whole" ELSE "parse", s.h)
    /\ UNCHANGED <<text, literal, copy, out>>

\* cJSON_CreateIntArray and its siblings.
CreateArray ==
    /\ Idle
    /\ \E mem \in Memories, l \in Lists :
         LET h == CreateArrayOf(Calls(mem), l.type, l.values)
         IN  heap' = Rest(h) /\ root' = h.ret /\ call' = Called("create", h)
    /\ UNCHANGED <<text, literal, copy, end, out>>

Duplicate ==
    /\ root # NULL /\ call.name \in {"whole", "create"}
    /\ \E mem \in Memories, recurse \in BOOLEAN :
         LET h == cJSON_Duplicate(Calls(mem), root, recurse)
         IN  /\ heap' = Rest(h)
             /\ copy' = h.ret
             /\ call' = Called(IF recurse THEN "duplicate" ELSE "shallow", h)
    /\ UNCHANGED <<text, literal, root, end, out>>

\* One number of the copy is set, or one member of it deleted.
Alter ==
    /\ copy # NULL /\ call.name = "duplicate"
    /\ \/ \E a \in Freed(heap, copy), n \in Numbers :
            heap.type[a] = "Number" /\ heap' = SetNumber(heap, a, n)
       \/ \E a \in Members(heap, copy) :
            heap' = Rest(cJSON_Delete(cJSON_DetachItemViaPointer(heap, copy, a), a))
    /\ call' = Called("alter", heap)
    /\ UNCHANGED <<text, literal, root, copy, end, out>>

PrintTree ==
    /\ root # NULL /\ call.name \in {"whole", "create"}
    /\ \E format \in BOOLEAN :
         \/ \E mem \in Memories : out' = print(heap, root, PrintSize, format, mem)
         \/ \E mem \in Memories, size \in Sizes :
              out' = cJSON_PrintBuffered(heap, root, size, format, mem)
         \/ \E size \in Sizes :
              out' = cJSON_PrintPreallocated(heap, root, size, format)
    /\ call' = Called("print", out')
    /\ UNCHANGED <<text, literal, heap, root, copy, end>>

\* The trees are deleted and what was printed is freed.
Finish ==
    /\ call.name # "none" \/ literal # <<>>
    /\ heap' = Rest(cJSON_Delete(cJSON_Delete(heap, root), copy))
    /\ text' = <<>> /\ literal' = <<>> /\ root' = NULL /\ copy' = NULL
    /\ call' = Called("none", EmptyHeap) /\ end' = 0 /\ out' = NoBuffer

Next == Receive \/ ReceiveUnit \/ ParseText \/ CreateArray \/ Duplicate \/ Alter \/ PrintTree \/ Finish

Spec == Init /\ [][Next]_vars
-----------------------------------------------------------------------------
(* Correctness of trees and buffers *)

\* The trees the program has to delete.
Held == {root, copy} \ {NULL}

\* Whatever a call made before it ran out of memory or met an error, the lists
\* are well-formed and every item left belongs to a tree that was returned.
TreesWellFormed ==
    /\ WellFormed(heap, Held) /\ InOneTree(heap, Held)
    /\ heap.mem = 0 /\ heap.ret = NULL

\* The strings that are alive are the keys and texts of items that are.
NoStringLost == StringsMatch(heap)

\* What is in the buffer after a call, with the part its offset has not passed.
Printed(p) == p.text \o p.ahead

(***************************************************************************)
(* Nothing is written past the end of a buffer, a call that fails has freed*)
(* its buffer and one that succeeds has one; and when the text fits some   *)
(* buffer of the caller, every buffer that is five characters larger than  *)
(* the text is enough (the NOTE at cJSON_PrintPreallocated in cJSON.h).    *)
(***************************************************************************)
PrintFits ==
    call.name = "print" =>
        /\ ~out.overrun
        /\ out.ok => Widths(Printed(out)) + 1 <= out.length
        /\ out.buffers = IF out.ok /\ ~out.noalloc THEN 1 ELSE 0
        /\ out.noalloc => \A size \in Sizes :
             LET p == cJSON_PrintPreallocated(heap, root, size, out.format)
             IN  p.ok /\ Widths(Printed(p)) + 1 + 5 <= out.length => out.ok
=============================================================================
