----------------------------- MODULE CJsonTree -----------------------------
(***************************************************************************)
(* A program that builds and takes apart JSON trees with the functions of  *)
(* cJSON.c, in any order, with allocations that may fail at any point.     *)
(*                                                                         *)
(* held is the program's side: the roots it has to delete or hand over. A  *)
(* call keeps to rules cJSON.h does not state but cJSON.c needs: what is   *)
(* linked into a tree is a root of the program and not part of that tree,  *)
(* nothing is linked into or out of a reference, and no item is deleted    *)
(* while a reference that remains points at it.                            *)
(***************************************************************************)
EXTENDS CJsonHeap

CONSTANTS Kinds,      \* types of the items without text that are created
          Texts,      \* texts of created items
          Keys,       \* keys given to the items
          MaxRefs     \* references the program makes before it deletes one

ASSUME TreeAssumption ==
    /\ Kinds \subseteq Types
    /\ Texts \subseteq Strings
    /\ Keys \subseteq Strings
    /\ MaxRefs \in Nat

VARIABLES heap, held
vars == <<heap, held>>

Init == heap = EmptyHeap /\ held = {}

-----------------------------------------------------------------------------
(* The calling program *)

\* The items a pointer of the program can name, and the parents it links into.
Parents == {p \in heap.live \ heap.ref : heap.type[p] \in {"Array", "Object"}}

\* A held root that is not the tree p belongs to.
Loose(p) == {a \in held : p \notin Freed(heap, a)}

\* No reference outside a deleted tree points into it.
Unshared(F) == \A r \in heap.ref \ F : heap.child[r] \notin F

\* A call that allocates n times, any number of which succeed before one
\* fails, and what the program holds after a call.
Calls(n) == {[heap EXCEPT !.mem = m] : m \in 0..n}
Return(h, roots) ==
    /\ heap' = [h EXCEPT !.mem = 0, !.ret = NULL]
    /\ held' = roots

-----------------------------------------------------------------------------
(* Creation *)

Create ==
    \/ \E h \in Calls(1), k \in Kinds :
         LET n == CreateItem(h, k, 0) IN Return(n, held \cup Returned(n))
    \/ \E h \in Calls(2), s \in Texts :
         LET n == CreateText(h, "String", s) IN Return(n, held \cup Returned(n))

CreateShared ==
    /\ Cardinality(heap.ref) < MaxRefs
    /\ \E h \in Calls(1) :
         \/ \E s \in Texts :
              LET n == CreateReference(h, "String", s, NULL)
              IN  Return(n, held \cup Returned(n))
         \/ \E c \in heap.live :
              LET n == CreateReference(h, "Object", NULL, c)
              IN  Return(n, held \cup Returned(n))

-----------------------------------------------------------------------------
(* Linking *)

\* cJSON_AddItemToArray. A call that adds nothing leaves the item with the program.
AddItemToArray ==
    \E p \in Parents : \E item \in Loose(p) :
        LET n == add_item_to_array(heap, p, item)
        IN  Return(n, held \ Returned(n))

\* cJSON_AddItemToObject, cJSON_AddItemToObjectCS.
AddItemToObject ==
    \E p \in Parents : \E item \in Loose(p) :
        \E h \in Calls(1), name \in Keys, constant_key \in BOOLEAN :
            LET n == add_item_to_object(h, p, name, item, constant_key)
            IN  Return(n, held \ Returned(n))

\* cJSON_AddItemReferenceToArray, cJSON_AddItemReferenceToObject. A reference
\* whose key cannot be copied stays behind: no one has a pointer to it.
AddItemReference ==
    /\ Cardinality(heap.ref) < MaxRefs
    /\ \E h \in Calls(2), p \in Parents, item \in heap.live :
         LET n == create_reference(h, item)
         IN  \/ Return(add_item_to_array(n, p, n.ret), held)
             \/ \E name \in Keys : Return(add_item_to_object(n, p, name, n.ret, FALSE), held)

\* cJSON_AddNullToObject, and for each other kind of item.
AddToObject ==
    \E h \in Calls(3), p \in Parents, name \in Keys :
        \/ \E k \in Kinds :
             Return(AddCreatedToObject(CreateItem(h, k, 0), p, name), held)
        \/ \E s \in Texts :
             Return(AddCreatedToObject(CreateText(h, "String", s), p, name), held)

InsertItemInArray ==
    \E p \in Parents : \E item \in Loose(p), at \in ArrayItems(heap, p) :
        Return(cJSON_InsertItemInArray(heap, p, at, item), held \ {item})

-----------------------------------------------------------------------------
(* Unlinking *)

\* The members the functions ...FromArray, ...FromObject, ...ViaPointer can name.
Chosen(p) == ArrayItems(heap, p)
    \cup {get_object_item(heap, p, name, cs) : name \in Keys, cs \in BOOLEAN}

DetachItem ==
    \E p \in Parents : \E item \in Chosen(p) :
        LET n == cJSON_DetachItemViaPointer(heap, p, item)
        IN  Return(n, held \cup Returned(n))

DeleteItem ==
    \E p \in Parents : \E item \in Chosen(p) :
        LET n == cJSON_DetachItemViaPointer(heap, p, item)
        IN  /\ Unshared(Freed(n, item))
            /\ Return(cJSON_Delete(n, item), held)

Delete ==
    \E item \in held :
        /\ Unshared(Freed(heap, item))
        /\ Return(cJSON_Delete(heap, item), held \ {item})

ReplaceItem ==
    \E p \in Parents : \E item \in ArrayItems(heap, p), replacement \in Loose(p) :
        LET n == cJSON_ReplaceItemViaPointer(heap, p, item, replacement)
        IN  /\ Unshared(heap.live \ n.live)
            /\ Return(n, IF item = NULL THEN held ELSE held \ {replacement})

\* cJSON_ReplaceItemInObject and its case-sensitive form. The call does not say
\* whether it replaced anything: the program looks whether its item is linked.
ReplaceItemInObject ==
    \E p \in Parents : \E replacement \in Loose(p) :
        \E h \in Calls(1), name \in Keys, cs \in BOOLEAN :
            LET n == replace_item_in_object(h, p, name, replacement, cs)
            IN  /\ Unshared(heap.live \ n.live)
                /\ Return(n, IF n.live = heap.live THEN held ELSE held \ {replacement})

Next ==
    \/ Create \/ CreateShared
    \/ AddItemToArray \/ AddItemToObject \/ AddItemReference \/ AddToObject
    \/ InsertItemInArray
    \/ DetachItem \/ DeleteItem \/ Delete
    \/ ReplaceItem \/ ReplaceItemInObject

Spec == Init /\ [][Next]_vars
-----------------------------------------------------------------------------
(* Correctness *)

(***************************************************************************)
(* Between two calls the lists are what cJSON's loops expect, whatever was *)
(* linked, detached, replaced or deleted before and whatever failed.       *)
(***************************************************************************)
Linked == WellFormed(heap, held) /\ heap.mem = 0 /\ heap.ret = NULL

(***************************************************************************)
(* Every live item is in the tree of exactly one root, and the program     *)
(* holds the root unless it is a reference: whatever fails half way,       *)
(* nothing is lost but the reference cJSON_AddItemReferenceToObject made   *)
(* for a key it could not copy, and no deletion frees an item twice.       *)
(***************************************************************************)
Accounted == InOneTree(heap, held)

\* Every string made by cJSON_strdup has exactly one item that will free it.
StringsOwned == StringsMatch(heap)

\* The members of every item that is not a reference, read off the pointers.
KidsOf == [p \in Items |-> IF p \in heap.ref THEN <<>> ELSE ListOf(heap, p)]

\* The pointers implement a forest of sequences: each call links, unlinks,
\* exchanges or discards one member, and leaves every other list as it was.
Forest == INSTANCE JsonForest WITH
    Nodes <- Items, NoKey <- NULL, kids <- KidsOf, key <- heap.string
ImplementsForest == Forest!Spec
=============================================================================
