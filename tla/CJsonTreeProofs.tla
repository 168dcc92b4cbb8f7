-------------------------- MODULE CJsonTreeProofs --------------------------
(***************************************************************************)
(* Whatever sequence of calls a program makes and whichever allocations    *)
(* fail, the lists of cJSON stay linked, no item and no string is lost or  *)
(* freed twice, and the pointers implement the forest of JsonForest:       *)
(* THEOREMS LinkedAlways, AccountedAlways, StringsOwnedAlways,             *)
(* CallsMakeForest. For the last: the list of a parent is the sequence its *)
(* loops walk, each function changes that sequence at one place, and what  *)
(* cJSON_Delete visits is what is below the item it is given.              *)
(***************************************************************************)
EXTENDS CJsonTree, CJsonOwnerProofs

-----------------------------------------------------------------------------
(* The program *)

LEMMA Called ==
    ASSUME Linked, NEW n \in Nat, NEW h \in Calls(n)
    PROVE  WellFormed(h, held) /\ h.live = heap.live /\ h.ref = heap.ref
  <1>1. PICK m \in 0..n : h = [heap EXCEPT !.mem = m]
    BY DEF Calls
  <1>2. WellFormed(heap, held) /\ m \in Nat
    BY DEF Linked
  <1>3. heap \in Heap
    BY <1>2 DEF WellFormed, HeapOK
  <1>4. WellFormed([heap EXCEPT !.mem = m], held)
    BY <1>2, NULL \in Items \cup {NULL}, OtherCall
  <1> QED
    BY <1>1, <1>3, <1>4 DEF Heap

LEMMA Returns ==
    ASSUME NEW h, NEW roots, WellFormed(h, roots), Return(h, roots)
    PROVE  Linked'
  <1>1. h \in Heap
    BY DEF WellFormed, HeapOK
  <1>2. WellFormed([h EXCEPT !.mem = 0, !.ret = NULL], roots)
    BY 0 \in Nat, NULL \in Items \cup {NULL}, OtherCall
  <1>3. /\ [h EXCEPT !.mem = 0, !.ret = NULL].mem = 0
        /\ [h EXCEPT !.mem = 0, !.ret = NULL].ret = NULL
    BY <1>1 DEF Heap
  <1> HIDE DEF WellFormed
  <1> QED
    BY <1>2, <1>3 DEF Linked, Return

\* Creating an item gives the program a root.
LEMMA CreatedReturns ==
    ASSUME NEW h, WellFormed(h, held), NEW n, Creates(h, held, n),
           Return(n, held \cup Returned(n))
    PROVE  Linked'
  BY Returns DEF Creates

LEMMA LinkedInit == ASSUME Init PROVE Linked
  <1>1. EmptyHeap \in Heap
    BY DEF EmptyHeap, Heap, Types
  <1>2. /\ EmptyHeap.live = {} /\ EmptyHeap.ref = {} /\ EmptyHeap.const = {}
        /\ EmptyHeap.mem = 0 /\ EmptyHeap.ret = NULL
        /\ \A a \in Items : /\ EmptyHeap.next[a] = NULL /\ EmptyHeap.prev[a] = NULL
                            /\ EmptyHeap.child[a] = NULL
    BY DEF EmptyHeap
  <1>3. heap = EmptyHeap /\ held = {}
    BY DEF Init
  <1>4. WellFormed(heap, held)
    <2> HIDE DEF EmptyHeap
    <2> QED
      BY <1>1, <1>2, <1>3
      DEF WellFormed, HeapOK, Chained, Owned, HeldApart, ListsEnd
  <1> QED
    BY <1>2, <1>3, <1>4 DEF Linked

LEMMA LinkedNext == ASSUME Linked, [Next]_vars PROVE Linked'
  <1> USE TreeAssumption
  <1>1. /\ WellFormed(heap, held) /\ heap \in Heap /\ heap.live \subseteq Items
        /\ held \subseteq heap.live /\ Parents \subseteq heap.live \ heap.ref
        /\ \A p \in Parents : Loose(p) \subseteq held
    BY PointersOf DEF Linked, Parents, Loose
  <1>2. 0 \in Int /\ {"String", "Object"} \subseteq Types
    BY DEF Types
  <1>3. CASE Create
    <2>1. ASSUME NEW h \in Calls(1), NEW k \in Kinds,
                 Return(CreateItem(h, k, 0), held \cup Returned(CreateItem(h, k, 0)))
          PROVE  Linked'
      <3>1. WellFormed(h, held)
        BY Called
      <3>2. Creates(h, held, CreateItem(h, k, 0))
        BY <1>2, <3>1, ItemCreated
      <3> QED
        BY <2>1, <3>1, <3>2, CreatedReturns
    <2>2. ASSUME NEW h \in Calls(2), NEW s \in Texts,
                 Return(CreateText(h, "String", s),
                        held \cup Returned(CreateText(h, "String", s)))
          PROVE  Linked'
      <3>1. WellFormed(h, held)
        BY Called
      <3>2. Creates(h, held, CreateText(h, "String", s))
        BY <1>2, <3>1, TextCreated
      <3> QED
        BY <2>2, <3>1, <3>2, CreatedReturns
    <2> QED
      BY <1>3, <2>1, <2>2 DEF Create
  <1>4. CASE CreateShared
    <2>1. ASSUME NEW h \in Calls(1), NEW s \in Strings \cup {NULL}, NEW c \in Items \cup {NULL},
                 NEW type \in {"String", "Object"},
                 Return(CreateReference(h, type, s, c),
                        held \cup Returned(CreateReference(h, type, s, c)))
          PROVE  Linked'
      <3>1. WellFormed(h, held)
        BY Called
      <3>2. Creates(h, held, CreateReference(h, type, s, c))
        BY <1>2, <3>1, ReferenceCreated
      <3> QED
        BY <2>1, <3>1, <3>2, CreatedReturns
    <2> QED
      BY <1>1, <1>4, <2>1 DEF CreateShared
  <1>5. CASE AddItemToArray
    <2>1. PICK p \in Parents, item \in held :
            Return(add_item_to_array(heap, p, item),
                   held \ Returned(add_item_to_array(heap, p, item)))
      BY <1>1, <1>5 DEF AddItemToArray
    <2>2. WellFormed(add_item_to_array(heap, p, item),
                     held \ Returned(add_item_to_array(heap, p, item)))
      BY <1>1, Appended, p \in heap.live \ heap.ref, item \in held \cup {NULL}
    <2> QED
      BY <2>1, <2>2, Returns
  <1>6. CASE AddItemToObject
    <2>1. PICK p \in Parents, item \in held, h \in Calls(1), name \in Keys, ck \in BOOLEAN :
            Return(add_item_to_object(h, p, name, item, ck),
                   held \ Returned(add_item_to_object(h, p, name, item, ck)))
      BY <1>1, <1>6 DEF AddItemToObject
    <2>2. WellFormed(h, held) /\ p \in h.live \ h.ref
      BY <1>1, Called
    <2>3. WellFormed(add_item_to_object(h, p, name, item, ck),
                     held \ Returned(add_item_to_object(h, p, name, item, ck)))
      BY <2>2, AddedToObject, item \in held \cup {NULL}, name \in Strings
    <2> QED
      BY <2>1, <2>3, Returns
  <1>7. CASE AddItemReference
    <2>1. PICK h \in Calls(2), p \in Parents, item \in heap.live :
            LET n == create_reference(h, item)
            IN  \/ Return(add_item_to_array(n, p, n.ret), held)
                \/ \E name \in Keys : Return(add_item_to_object(n, p, name, n.ret, FALSE), held)
      BY <1>7 DEF AddItemReference
    <2> DEFINE n == create_reference(h, item)
    <2>2. WellFormed(h, held) /\ p \in h.live \ h.ref /\ item \in h.live
      BY <1>1, Called
    <2>3. Creates(h, held, n)
      BY <2>2, ReferenceMade
    <2> HIDE DEF n
    <2>4. /\ WellFormed(n, held \cup Returned(n)) /\ p \in n.live \ n.ref
          /\ n.ret \in (held \cup Returned(n)) \cup {NULL}
          /\ n.ret \notin held
      <3>1. held \subseteq h.live /\ h.live \subseteq Items
        BY <2>2, PointersOf
      <3> QED
        BY <2>2, <2>3, <3>1, HeapAssumption DEF Creates, Returned
    <2>5. ASSUME NEW g, WellFormed(g, (held \cup Returned(n)) \ Returned(g)),
                 g.ret \in {n.ret, NULL}, Return(g, held)
          PROVE  Linked'
      <3>1. held \in SUBSET ((held \cup Returned(n)) \ Returned(g))
        BY <1>1, <2>4, <2>5, HeapAssumption DEF Returned
      <3>2. WellFormed(g, held)
        BY <2>5, <3>1, FewerRoots
      <3> QED
        BY <2>5, <3>2, Returns
    <2>6. CASE Return(add_item_to_array(n, p, n.ret), held)
      <3>1. /\ WellFormed(add_item_to_array(n, p, n.ret),
                          (held \cup Returned(n)) \ Returned(add_item_to_array(n, p, n.ret)))
            /\ add_item_to_array(n, p, n.ret).ret = n.ret
        BY <2>4, Appended
      <3> QED
        BY <2>5, <2>6, <3>1
    <2>7. ASSUME NEW name \in Keys, Return(add_item_to_object(n, p, name, n.ret, FALSE), held)
          PROVE  Linked'
      <3>1. /\ WellFormed(add_item_to_object(n, p, name, n.ret, FALSE),
                          (held \cup Returned(n))
                              \ Returned(add_item_to_object(n, p, name, n.ret, FALSE)))
            /\ add_item_to_object(n, p, name, n.ret, FALSE).ret \in {n.ret, NULL}
        BY <2>4, AddedToObject, name \in Strings, FALSE \in BOOLEAN
      <3> QED
        BY <2>5, <2>7, <3>1
    <2> QED
      BY <2>1, <2>6, <2>7 DEF n
  <1>8. CASE AddToObject
    <2>1. PICK h \in Calls(3), p \in Parents, name \in Keys :
            \/ \E k \in Kinds : Return(AddCreatedToObject(CreateItem(h, k, 0), p, name), held)
            \/ \E s \in Texts :
                 Return(AddCreatedToObject(CreateText(h, "String", s), p, name), held)
      BY <1>8 DEF AddToObject
    <2>2. WellFormed(h, held) /\ p \in h.live \ h.ref
      BY <1>1, Called
    <2>3. ASSUME NEW n, Creates(h, held, n), Return(AddCreatedToObject(n, p, name), held)
          PROVE  Linked'
      <3>1. WellFormed(AddCreatedToObject(n, p, name), held)
        BY <2>2, <2>3, AddedCreated, name \in Strings
      <3> QED
        BY <2>3, <3>1, Returns
    <2>4. \A k \in Kinds : Creates(h, held, CreateItem(h, k, 0))
      BY <1>2, <2>2, ItemCreated
    <2>5. \A s \in Texts : Creates(h, held, CreateText(h, "String", s))
      BY <1>2, <2>2, TextCreated
    <2> QED
      BY <2>1, <2>3, <2>4, <2>5
  <1>9. CASE InsertItemInArray
    <2>0. PICK p \in Parents : \E item \in held, at \in ArrayItems(heap, p) :
            Return(cJSON_InsertItemInArray(heap, p, at, item), held \ {item})
      BY <1>1, <1>9 DEF InsertItemInArray
    <2>1. PICK item \in held, at \in ArrayItems(heap, p) :
            Return(cJSON_InsertItemInArray(heap, p, at, item), held \ {item})
      BY <2>0
    <2>2. WellFormed(cJSON_InsertItemInArray(heap, p, at, item), held \ {item})
      BY <1>1, Inserted, p \in heap.live \ heap.ref DEF ArrayItems
    <2> QED
      BY <2>1, <2>2, Returns
  <1>10. ASSUME NEW p \in Parents
         PROVE  Chosen(p) \subseteq Members(heap, p) \cup {NULL}
    BY <1>1, GetObjectItem DEF Chosen, ArrayItems
  <1>11. CASE DetachItem
    <2>0. PICK p \in Parents : \E item \in Chosen(p) :
            Return(cJSON_DetachItemViaPointer(heap, p, item),
                   held \cup Returned(cJSON_DetachItemViaPointer(heap, p, item)))
      BY <1>11 DEF DetachItem
    <2>1. PICK item \in Chosen(p) :
            Return(cJSON_DetachItemViaPointer(heap, p, item),
                   held \cup Returned(cJSON_DetachItemViaPointer(heap, p, item)))
      BY <2>0
    <2>2. WellFormed(cJSON_DetachItemViaPointer(heap, p, item),
                     held \cup Returned(cJSON_DetachItemViaPointer(heap, p, item)))
      BY <1>1, <1>10, Detached, p \in heap.live \ heap.ref
    <2> QED
      BY <2>1, <2>2, Returns
  <1>12. CASE DeleteItem
    <2>0. PICK p \in Parents : \E item \in Chosen(p) :
            Return(cJSON_Delete(cJSON_DetachItemViaPointer(heap, p, item), item), held)
      BY <1>12 DEF DeleteItem
    <2>1. PICK item \in Chosen(p) :
            Return(cJSON_Delete(cJSON_DetachItemViaPointer(heap, p, item), item), held)
      BY <2>0
    <2> DEFINE n == cJSON_DetachItemViaPointer(heap, p, item)
    <2>2. item \in Members(heap, p) \cup {NULL} /\ p \in heap.live \ heap.ref
      BY <1>1, <1>10
    <2>3. WellFormed(n, held \cup Returned(n)) /\ n.ret = item
      BY <1>1, <2>2, Detached
    <2> HIDE DEF n
    <2>4. CASE item = NULL
      <3>1. held \cup Returned(n) = held
        BY <2>3, <2>4 DEF Returned
      <3>2. WellFormed(cJSON_Delete(n, item), held)
        BY <2>3, <2>4, <3>1, DeleteNothing
      <3> QED
        BY <2>1, <3>2, Returns DEF n
    <2>5. CASE item # NULL
      <3>1. Returned(n) = {item}
        BY <2>3, <2>5 DEF Returned
      <3>2. WellFormed(cJSON_Delete(n, item), (held \cup {item}) \ {item})
        BY <2>3, <3>1, DeleteFrees, item \in held \cup {item}
      <3>3. item \notin held
        BY <1>1, <2>2, <2>5, RootsAreNotMembers
      <3>4. (held \cup {item}) \ {item} = held
        BY <3>3
      <3>5. WellFormed(cJSON_Delete(n, item), held)
        BY <3>2, <3>4
      <3> QED
        BY <2>1, <3>5, Returns DEF n
    <2> QED
      BY <2>4, <2>5
  <1>13. CASE Delete
    <2>1. PICK item \in held : Return(cJSON_Delete(heap, item), held \ {item})
      BY <1>13 DEF Delete
    <2>2. WellFormed(cJSON_Delete(heap, item), held \ {item})
      BY <1>1, DeleteFrees
    <2> QED
      BY <2>1, <2>2, Returns
  <1>14. CASE ReplaceItem
    <2>0. PICK p \in Parents : \E item \in ArrayItems(heap, p), r \in held :
            Return(cJSON_ReplaceItemViaPointer(heap, p, item, r),
                   IF item = NULL THEN held ELSE held \ {r})
      BY <1>1, <1>14 DEF ReplaceItem
    <2>1. PICK item \in ArrayItems(heap, p), r \in held :
            Return(cJSON_ReplaceItemViaPointer(heap, p, item, r),
                   IF item = NULL THEN held ELSE held \ {r})
      BY <2>0
    <2>2. WellFormed(cJSON_ReplaceItemViaPointer(heap, p, item, r),
                     IF item = NULL THEN held ELSE held \ {r})
      BY <1>1, Replaced, p \in heap.live \ heap.ref DEF ArrayItems
    <2> QED
      BY <2>1, <2>2, Returns
  <1>15. CASE ReplaceItemInObject
    <2>1. PICK p \in Parents, r \in held, h \in Calls(1), name \in Keys, cs \in BOOLEAN :
            LET n == replace_item_in_object(h, p, name, r, cs)
            IN  Return(n, IF n.live = heap.live THEN held ELSE held \ {r})
      BY <1>1, <1>15, ZenonT(60) DEF ReplaceItemInObject
    <2> DEFINE n == replace_item_in_object(h, p, name, r, cs)
    <2>2. WellFormed(h, held) /\ p \in h.live \ h.ref /\ h.live = heap.live
      BY <1>1, Called
    <2>3. WellFormed(n, IF n.live = heap.live THEN held ELSE held \ {r})
      BY <2>2, ReplacedInObject, name \in Strings
    <2> QED
      BY <2>1, <2>3, Returns
  <1>16. CASE UNCHANGED vars
    BY <1>16 DEF vars, Linked
  <1> QED
    BY <1>3, <1>4, <1>5, <1>6, <1>7, <1>8, <1>9, <1>11, <1>12, <1>13, <1>14, <1>15, <1>16
    DEF Next

(***************************************************************************)
(* The lists stay linked as cJSON's loops expect them (cJSON.c:1884-2263), *)
(* for any number of items, any calls in any order, and any failures.      *)
(***************************************************************************)
THEOREM LinkedAlways == Spec => []Linked
  <1>1. Init => Linked
    BY LinkedInit
  <1>2. Linked /\ [Next]_vars => Linked'
    BY LinkedNext
  <1> QED
    BY <1>1, <1>2, PTL DEF Spec

-----------------------------------------------------------------------------
(* The program *)

Kept == Sound(heap, held) /\ heap.mem = 0 /\ heap.ret = NULL

LEMMA KeptCalled ==
    ASSUME Kept, NEW n \in Nat, NEW h \in Calls(n)
    PROVE  Sound(h, held) /\ SameTree(heap, h)
  <1>1. PICK m \in 0..n : h = [heap EXCEPT !.mem = m]
    BY DEF Calls
  <1>2. heap \in Heap /\ m \in Nat
    BY PointersOf DEF Kept, Sound
  <1>3. Sound([heap EXCEPT !.mem = m], held)
    BY <1>2, NULL \in Items \cup {NULL}, SoundCall DEF Kept
  <1> QED
    BY <1>1, <1>2, <1>3 DEF Heap, SameTree

LEMMA KeptReturns ==
    ASSUME NEW h, NEW roots, Sound(h, roots), Return(h, roots)
    PROVE  Kept'
  <1>1. h \in Heap
    BY PointersOf DEF Sound
  <1>2. PICK g : g = [h EXCEPT !.mem = 0, !.ret = NULL]
    OBVIOUS
  <1>3. Sound(g, roots)
    BY <1>2, 0 \in Nat, NULL \in Items \cup {NULL}, SoundCall
  <1>4. g.mem = 0 /\ g.ret = NULL
    BY <1>1, <1>2 DEF Heap
  <1>5. heap' = g /\ held' = roots
    BY <1>2 DEF Return
  <1> HIDE DEF Sound
  <1> QED
    BY <1>3, <1>4, <1>5 DEF Kept

LEMMA KeptInit == ASSUME Init PROVE Kept
  <1>1. Linked
    BY LinkedInit
  <1>2. heap = EmptyHeap /\ held = {}
    BY DEF Init
  <1>3. /\ EmptyHeap.live = {} /\ EmptyHeap.blocks = 0
        /\ \A a \in Items : EmptyHeap.string[a] = NULL /\ EmptyHeap.valuestring[a] = NULL
    BY DEF EmptyHeap
  <1> HIDE DEF EmptyHeap
  <1>4. Anchored(EmptyHeap, {})
    BY <1>3 DEF Anchored, Grounded, Claimed
  <1>5. Counted(EmptyHeap)
    <2>1. StringOwners(EmptyHeap) = {} /\ ValueOwners(EmptyHeap) = {}
      BY <1>3 DEF StringOwners, ValueOwners
    <2> QED
      BY <1>3, <2>1, FS_EmptySet DEF Counted
  <1> QED
    BY <1>1, <1>2, <1>4, <1>5 DEF Kept, Sound, Linked

LEMMA KeptNext == ASSUME Kept, [Next]_vars PROVE Kept'
  <1> USE TreeAssumption
  <1>1. /\ Sound(heap, held) /\ WellFormed(heap, held)
        /\ heap \in Heap /\ heap.live \subseteq Items
        /\ held \subseteq heap.live /\ Parents \subseteq heap.live \ heap.ref
        /\ \A p \in Parents : \A item \in Loose(p) : item \in held /\ p \notin Freed(heap, item)
    BY PointersOf DEF Kept, Sound, Parents, Loose
  <1>2. 0 \in Int /\ {"String", "Object"} \subseteq Types
    BY DEF Types
  <1>3. ASSUME NEW h, Sound(h, held), NEW n, Creates(h, held, n), Fresh(h, n),
               Return(n, held \cup Returned(n))
        PROVE  Kept'
    BY <1>3, SoundFresh, KeptReturns
  <1>4. CASE Create
    <2>1. ASSUME NEW h \in Calls(1), NEW k \in Kinds,
                 Return(CreateItem(h, k, 0), held \cup Returned(CreateItem(h, k, 0)))
          PROVE  Kept'
      <3>1. Sound(h, held) /\ WellFormed(h, held)
        BY KeptCalled DEF Sound
      <3>2. Creates(h, held, CreateItem(h, k, 0)) /\ Fresh(h, CreateItem(h, k, 0))
        BY <1>2, <3>1, ItemCreated, FreshItem
      <3> QED
        BY <1>3, <2>1, <3>1, <3>2
    <2>2. ASSUME NEW h \in Calls(2), NEW s \in Texts,
                 Return(CreateText(h, "String", s),
                        held \cup Returned(CreateText(h, "String", s)))
          PROVE  Kept'
      <3>1. Sound(h, held) /\ WellFormed(h, held)
        BY KeptCalled DEF Sound
      <3>2. Creates(h, held, CreateText(h, "String", s)) /\ Fresh(h, CreateText(h, "String", s))
        BY <1>2, <3>1, TextCreated, FreshText
      <3> QED
        BY <1>3, <2>2, <3>1, <3>2
    <2> QED
      BY <1>4, <2>1, <2>2 DEF Create
  <1>5. CASE CreateShared
    <2>1. ASSUME NEW h \in Calls(1), NEW s \in Strings \cup {NULL}, NEW c \in Items \cup {NULL},
                 NEW type \in {"String", "Object"},
                 Return(CreateReference(h, type, s, c),
                        held \cup Returned(CreateReference(h, type, s, c)))
          PROVE  Kept'
      <3>1. Sound(h, held) /\ WellFormed(h, held)
        BY KeptCalled DEF Sound
      <3>2. /\ Creates(h, held, CreateReference(h, type, s, c))
            /\ Fresh(h, CreateReference(h, type, s, c))
        BY <1>2, <3>1, ReferenceCreated, FreshReference
      <3> QED
        BY <1>3, <2>1, <3>1, <3>2
    <2> QED
      BY <1>1, <1>5, <2>1 DEF CreateShared
  <1>6. CASE AddItemToArray
    <2>0. PICK p \in Parents : \E item \in Loose(p) :
            Return(add_item_to_array(heap, p, item),
                   held \ Returned(add_item_to_array(heap, p, item)))
      BY <1>6 DEF AddItemToArray
    <2>1. PICK item \in Loose(p) :
            Return(add_item_to_array(heap, p, item),
                   held \ Returned(add_item_to_array(heap, p, item)))
      BY <2>0
    <2>2. PICK n : n = add_item_to_array(heap, p, item)
      OBVIOUS
    <2>3. p \in heap.live \ heap.ref /\ item \in held \cup {NULL} /\ p \notin Freed(heap, item)
      BY <1>1
    <2>4. Sound(n, held \ Returned(n))
      BY <1>1, <2>2, <2>3, SoundAppended
    <2> QED
      BY <2>1, <2>2, <2>4, KeptReturns
  <1>7. CASE AddItemToObject
    <2>0. PICK p \in Parents : \E item \in Loose(p), h \in Calls(1), name \in Keys, ck \in BOOLEAN :
            Return(add_item_to_object(h, p, name, item, ck),
                   held \ Returned(add_item_to_object(h, p, name, item, ck)))
      BY <1>7 DEF AddItemToObject
    <2>1. PICK item \in Loose(p), h \in Calls(1), name \in Keys, ck \in BOOLEAN :
            Return(add_item_to_object(h, p, name, item, ck),
                   held \ Returned(add_item_to_object(h, p, name, item, ck)))
      BY <2>0
    <2>2. PICK n : n = add_item_to_object(h, p, name, item, ck)
      OBVIOUS
    <2>3. Sound(h, held) /\ SameTree(heap, h)
      BY KeptCalled
    <2>4. /\ p \in h.live \ h.ref /\ item \in held \cup {NULL} /\ p \notin Freed(h, item)
          /\ name \in Strings
      BY <1>1, <2>3, SameFreed DEF SameTree
    <2>5. Sound(n, held \ Returned(n))
      BY <2>2, <2>3, <2>4, SoundAddedToObject
    <2> QED
      BY <2>1, <2>2, <2>5, KeptReturns
  <1>8. CASE AddItemReference
    <2>1. PICK h \in Calls(2), p \in Parents, item \in heap.live :
            LET n == create_reference(h, item)
            IN  \/ Return(add_item_to_array(n, p, n.ret), held)
                \/ \E name \in Keys : Return(add_item_to_object(n, p, name, n.ret, FALSE), held)
      BY <1>8 DEF AddItemReference
    <2>2. PICK n : n = create_reference(h, item)
      OBVIOUS
    <2>3. Sound(h, held) /\ SameTree(heap, h) /\ WellFormed(h, held)
      BY KeptCalled DEF Sound
    <2>4. p \in h.live \ h.ref /\ item \in h.live
      BY <1>1, <2>3 DEF SameTree
    <2>5. Creates(h, held, n) /\ Fresh(h, n) /\ (n.ret # NULL => n.ret \in n.ref)
      BY <2>2, <2>3, <2>4, ReferenceMade, FreshCopyOfItem
    <2>6. Sound(n, held \cup Returned(n))
      BY <2>3, <2>5, SoundFresh
    <2>7. /\ p \in n.live \ n.ref /\ n.ret \in (held \cup Returned(n)) \cup {NULL}
          /\ n.ret \notin held /\ n \in Heap
      <3>1. held \subseteq h.live /\ h.live \subseteq Items /\ n \in Heap
        BY <2>3, <2>6, PointersOf DEF Sound
      <3> QED
        BY <2>4, <2>5, <3>1, HeapAssumption DEF Creates, Returned
    <2>8. n.ret # NULL => p \notin Freed(n, n.ret)
      <3>1. n.ret # NULL => n.ret # p
        BY <2>4, <2>5 DEF Creates
      <3> QED
        BY <2>3, <2>5, <2>7, <3>1, FreshFreed
    \* What was not added is a reference no one has.
    <2>9. ASSUME NEW g, Sound(g, (held \cup Returned(n)) \ Returned(g)), g.ref = n.ref,
                 g.ret \in {n.ret, NULL}, Return(g, held)
          PROVE  Kept'
      <3>1. held \in SUBSET ((held \cup Returned(n)) \ Returned(g))
        BY <1>1, <2>7, <2>9, HeapAssumption DEF Returned
      <3>2. WellFormed(g, held)
        BY <2>9, <3>1, FewerRoots DEF Sound
      <3>3. (held \cup Returned(n)) \subseteq held \cup g.ref
        BY <2>5, <2>9 DEF Returned
      <3>4. Claimed(g, held)
        BY <2>9, <3>3 DEF Claimed, Sound, Anchored
      <3>5. Sound(g, held)
        BY <2>9, <3>2, <3>4 DEF Sound, Anchored
      <3> QED
        BY <2>9, <3>5, KeptReturns
    <2>10. WellFormed(n, held \cup Returned(n))
      BY <2>6 DEF Sound
    <2>11. CASE Return(add_item_to_array(n, p, n.ret), held)
      <3>1. PICK g : g = add_item_to_array(n, p, n.ret)
        OBVIOUS
      <3>2. Sound(g, (held \cup Returned(n)) \ Returned(g)) /\ g.ref = n.ref
        BY <2>6, <2>7, <2>8, <3>1, SoundAppended
      <3>3. WellFormed(g, (held \cup Returned(n)) \ Returned(g)) /\ g.ret = n.ret
        BY <2>7, <2>10, <3>1, Appended
      <3> QED
        BY <2>9, <2>11, <3>1, <3>2, <3>3
    <2>12. ASSUME NEW name \in Keys, Return(add_item_to_object(n, p, name, n.ret, FALSE), held)
           PROVE  Kept'
      <3>1. PICK g : g = add_item_to_object(n, p, name, n.ret, FALSE)
        OBVIOUS
      <3>2. Sound(g, (held \cup Returned(n)) \ Returned(g)) /\ g.ref = n.ref
        BY <2>6, <2>7, <2>8, <3>1, SoundAddedToObject, name \in Strings, FALSE \in BOOLEAN
      <3>3. WellFormed(g, (held \cup Returned(n)) \ Returned(g)) /\ g.ret \in {n.ret, NULL}
        BY <2>7, <2>10, <3>1, AddedToObject, name \in Strings, FALSE \in BOOLEAN
      <3> QED
        BY <2>9, <2>12, <3>1, <3>2, <3>3
    <2> QED
      BY <2>1, <2>2, <2>11, <2>12
  <1>9. CASE AddToObject
    <2>1. PICK h \in Calls(3), p \in Parents, name \in Keys :
            \/ \E k \in Kinds : Return(AddCreatedToObject(CreateItem(h, k, 0), p, name), held)
            \/ \E s \in Texts :
                 Return(AddCreatedToObject(CreateText(h, "String", s), p, name), held)
      BY <1>9 DEF AddToObject
    <2>2. Sound(h, held) /\ SameTree(heap, h) /\ WellFormed(h, held)
      BY KeptCalled DEF Sound
    <2>3. p \in h.live \ h.ref /\ name \in Strings
      BY <1>1, <2>2 DEF SameTree
    <2>4. ASSUME NEW n, Creates(h, held, n), Fresh(h, n),
                 Return(AddCreatedToObject(n, p, name), held)
          PROVE  Kept'
      BY <2>2, <2>3, <2>4, SoundAddedCreated, KeptReturns
    <2>5. \A k \in Kinds : Creates(h, held, CreateItem(h, k, 0)) /\ Fresh(h, CreateItem(h, k, 0))
      BY <1>2, <2>2, ItemCreated, FreshItem
    <2>6. \A s \in Texts : Creates(h, held, CreateText(h, "String", s))
                           /\ Fresh(h, CreateText(h, "String", s))
      BY <1>2, <2>2, TextCreated, FreshText
    <2> QED
      BY <2>1, <2>4, <2>5, <2>6
  <1>10. CASE InsertItemInArray
    <2>0. PICK p \in Parents : \E item \in Loose(p), at \in ArrayItems(heap, p) :
            Return(cJSON_InsertItemInArray(heap, p, at, item), held \ {item})
      BY <1>10 DEF InsertItemInArray
    <2>1. PICK item \in Loose(p), at \in ArrayItems(heap, p) :
            Return(cJSON_InsertItemInArray(heap, p, at, item), held \ {item})
      BY <2>0
    <2>2. /\ p \in heap.live \ heap.ref /\ item \in held /\ p \notin Freed(heap, item)
          /\ at \in Members(heap, p) \cup {NULL}
      BY <1>1 DEF ArrayItems
    <2>3. Sound(cJSON_InsertItemInArray(heap, p, at, item), held \ {item})
      BY <1>1, <2>2, SoundInserted
    <2> QED
      BY <2>1, <2>3, KeptReturns
  <1>11. ASSUME NEW p \in Parents
         PROVE  Chosen(p) \subseteq Members(heap, p) \cup {NULL}
    BY <1>1, GetObjectItem DEF Chosen, ArrayItems
  <1>12. CASE DetachItem
    <2>0. PICK p \in Parents : \E item \in Chosen(p) :
            Return(cJSON_DetachItemViaPointer(heap, p, item),
                   held \cup Returned(cJSON_DetachItemViaPointer(heap, p, item)))
      BY <1>12 DEF DetachItem
    <2>1. PICK item \in Chosen(p) :
            Return(cJSON_DetachItemViaPointer(heap, p, item),
                   held \cup Returned(cJSON_DetachItemViaPointer(heap, p, item)))
      BY <2>0
    <2>2. item \in Members(heap, p) \cup {NULL} /\ p \in heap.live \ heap.ref
      BY <1>1, <1>11
    <2>3. PICK n : n = cJSON_DetachItemViaPointer(heap, p, item)
      OBVIOUS
    <2>4. Sound(n, held \cup Returned(n))
      BY <1>1, <2>2, <2>3, SoundDetached
    <2> QED
      BY <2>1, <2>3, <2>4, KeptReturns
  <1>13. CASE DeleteItem
    <2>0. PICK p \in Parents : \E item \in Chosen(p) :
            Return(cJSON_Delete(cJSON_DetachItemViaPointer(heap, p, item), item), held)
      BY <1>13 DEF DeleteItem
    <2>1. PICK item \in Chosen(p) :
            Return(cJSON_Delete(cJSON_DetachItemViaPointer(heap, p, item), item), held)
      BY <2>0
    <2>2. item \in Members(heap, p) \cup {NULL} /\ p \in heap.live \ heap.ref
      BY <1>1, <1>11
    <2>3. PICK n : n = cJSON_DetachItemViaPointer(heap, p, item)
      OBVIOUS
    <2>4. Sound(n, held \cup Returned(n)) /\ n.ret = item
      BY <1>1, <2>2, <2>3, SoundDetached, Detached
    <2>5. Sound(cJSON_Delete(n, item), held)
      <3>1. CASE item = NULL
        <4>1. held \cup Returned(n) = held
          BY <2>4, <3>1 DEF Returned
        <4> QED
          BY <2>4, <3>1, <4>1, SoundDeleteNothing
      <3>2. CASE item # NULL
        <4>1. held \cup Returned(n) = held \cup {item} /\ item \in held \cup {item}
          BY <2>4, <3>2 DEF Returned
        <4>2. Sound(cJSON_Delete(n, item), (held \cup {item}) \ {item})
          BY <2>4, <4>1, SoundDelete
        <4>3. item \notin held
          BY <1>1, <2>2, <3>2, RootsAreNotMembers
        <4>4. (held \cup {item}) \ {item} = held
          BY <4>3
        <4> QED
          BY <4>2, <4>4
      <3> QED
        BY <3>1, <3>2
    <2> QED
      BY <2>1, <2>3, <2>5, KeptReturns
  <1>14. CASE Delete
    <2>1. PICK item \in held : Return(cJSON_Delete(heap, item), held \ {item})
      BY <1>14 DEF Delete
    <2>2. Sound(cJSON_Delete(heap, item), held \ {item})
      BY <1>1, SoundDelete
    <2> QED
      BY <2>1, <2>2, KeptReturns
  <1>15. CASE ReplaceItem
    <2>0. PICK p \in Parents : \E item \in ArrayItems(heap, p), r \in Loose(p) :
            Return(cJSON_ReplaceItemViaPointer(heap, p, item, r),
                   IF item = NULL THEN held ELSE held \ {r})
      BY <1>15 DEF ReplaceItem
    <2>1. PICK item \in ArrayItems(heap, p), r \in Loose(p) :
            Return(cJSON_ReplaceItemViaPointer(heap, p, item, r),
                   IF item = NULL THEN held ELSE held \ {r})
      BY <2>0
    <2>2. /\ p \in heap.live \ heap.ref /\ r \in held /\ p \notin Freed(heap, r)
          /\ item \in Members(heap, p) \cup {NULL}
      BY <1>1 DEF ArrayItems
    <2>3. Sound(cJSON_ReplaceItemViaPointer(heap, p, item, r),
                IF item = NULL THEN held ELSE held \ {r})
      BY <1>1, <2>2, SoundReplaced
    <2> QED
      BY <2>1, <2>3, KeptReturns
  <1>16. CASE ReplaceItemInObject
    <2>0. PICK p \in Parents : \E r \in Loose(p), h \in Calls(1), name \in Keys, cs \in BOOLEAN :
            LET n == replace_item_in_object(h, p, name, r, cs)
            IN  Return(n, IF n.live = heap.live THEN held ELSE held \ {r})
      BY <1>16 DEF ReplaceItemInObject
    <2>1. PICK r \in Loose(p), h \in Calls(1), name \in Keys, cs \in BOOLEAN :
            LET n == replace_item_in_object(h, p, name, r, cs)
            IN  Return(n, IF n.live = heap.live THEN held ELSE held \ {r})
      BY <2>0
    <2>2. PICK n : n = replace_item_in_object(h, p, name, r, cs)
      OBVIOUS
    <2>3. Sound(h, held) /\ SameTree(heap, h)
      BY KeptCalled
    <2>4. /\ p \in h.live \ h.ref /\ r \in held /\ p \notin Freed(h, r)
          /\ name \in Strings /\ h.live = heap.live
      BY <1>1, <2>3, SameFreed DEF SameTree
    <2>5. Sound(n, IF n.live = heap.live THEN held ELSE held \ {r})
      BY <2>2, <2>3, <2>4, SoundReplacedInObject
    <2> QED
      BY <2>1, <2>2, <2>5, KeptReturns
  <1>17. CASE UNCHANGED vars
    <2> HIDE DEF Sound
    <2> QED
      BY <1>17 DEF vars, Kept
  <1> QED
    BY <1>4, <1>5, <1>6, <1>7, <1>8, <1>9, <1>10, <1>12, <1>13, <1>14, <1>15, <1>16, <1>17
    DEF Next

LEMMA KeptAlways == Spec => []Kept
  <1>1. Init => Kept
    BY KeptInit
  <1>2. Kept /\ [Next]_vars => Kept'
    BY KeptNext
  <1> QED
    BY <1>1, <1>2, PTL DEF Spec

(***************************************************************************)
(* Nothing is lost and nothing is freed twice: every live item is in the   *)
(* tree of exactly one root, the program or a reference is that root, and  *)
(* cJSON_Delete on it (cJSON.c:224-248) frees each of its items once.      *)
(***************************************************************************)
THEOREM AccountedAlways == Spec => []Accounted
  <1>1. Kept => Accounted
    BY SoundAccounts DEF Kept, Accounted
  <1> QED
    BY <1>1, KeptAlways, PTL

(***************************************************************************)
(* The strings cJSON_strdup made (cJSON.c:159-178) are as many as the keys *)
(* and texts live items own, whichever allocation failed.                  *)
(***************************************************************************)
THEOREM StringsOwnedAlways == Spec => []StringsOwned
  <1>1. Kept => StringsOwned
    BY SoundAccounts DEF Kept, StringsOwned
  <1> QED
    BY <1>1, KeptAlways, PTL

-----------------------------------------------------------------------------
(* Walks along next *)

\* The walk along next from b, cut off after n items.
Walk(h, b, n, s) ==
    /\ s \in Seq(Items) /\ Len(s) <= n
    /\ b = NULL => s = <<>>
    /\ s # <<>> => s[1] = b
    /\ \A i \in 1..Len(s) - 1 : h.next[s[i]] = s[i + 1]
    /\ Len(s) < n => IF s = <<>> THEN b = NULL ELSE h.next[s[Len(s)]] = NULL

\* The walk from b to the end of the list.
IsList(h, b, s) ==
    /\ s \in Seq(Items)
    /\ b = IF s = <<>> THEN NULL ELSE s[1]
    /\ \A i \in 1..Len(s) : h.next[s[i]] = IF i = Len(s) THEN NULL ELSE s[i + 1]

LEMMA ListIsWalk ==
    ASSUME NEW h, NEW b, NEW s, IsList(h, b, s), NEW n \in Nat, Len(s) <= n
    PROVE  Walk(h, b, n, s)
  <1> USE HeapAssumption DEF IsList, Walk
  <1>1. CASE s = <<>>
    BY <1>1
  <1>2. CASE s # <<>>
    <2>1. Len(s) \in Nat \ {0} /\ s[1] \in Items
      BY <1>2
    <2> QED
      BY <1>2, <2>1
  <1> QED
    BY <1>1, <1>2

\* One walk goes as far as the other.
LEMMA WalkAgrees ==
    ASSUME NEW h, NEW b, NEW n \in Nat, NEW s, Walk(h, b, n, s), NEW t, Walk(h, b, n, t)
    PROVE  Len(s) <= Len(t) /\ \A i \in 1..Len(s) : s[i] = t[i]
  <1> DEFINE S == {i \in 0..Len(s) : i <= Len(t) /\ (i > 0 => s[i] = t[i])}
  <1>1. Len(s) \in Nat /\ Len(t) \in Nat /\ \A i \in 1..Len(s) : s[i] \in Items
    BY DEF Walk
  <1>2. 0 \in S
    BY <1>1
  <1>3. ASSUME NEW i \in 0..Len(s) - 1, i \in S PROVE i + 1 \in S
    <2>1. CASE i = 0
      <3>1. s # <<>> /\ s[1] = b /\ b \in Items /\ 0 < n
        BY <1>1, <1>3, <2>1 DEF Walk
      <3>2. t # <<>>
        BY <3>1, HeapAssumption DEF Walk
      <3> QED
        BY <1>1, <1>3, <2>1, <3>1, <3>2 DEF Walk
    <2>2. CASE i > 0
      <3>1. h.next[s[i]] = s[i + 1] /\ s[i + 1] \in Items /\ s[i] = t[i] /\ i <= Len(t) /\ i < n
        BY <1>1, <1>3, <2>2 DEF Walk
      <3>2. i # Len(t)
        BY <1>1, <2>2, <3>1, HeapAssumption DEF Walk
      <3>3. t[i + 1] = h.next[t[i]]
        BY <1>1, <2>2, <3>1, <3>2 DEF Walk
      <3> QED
        BY <1>1, <1>3, <3>1, <3>2, <3>3
    <2> QED
      BY <1>1, <2>1, <2>2
  <1> HIDE DEF S
  <1>4. 0..Len(s) \subseteq S
    BY <1>1, <1>2, <1>3, UpTo
  <1> QED
    BY <1>1, <1>4 DEF S

LEMMA WalkUnique ==
    ASSUME NEW h, NEW b, NEW n \in Nat, NEW s, Walk(h, b, n, s), NEW t, Walk(h, b, n, t)
    PROVE  s = t
  <1>1. s \in Seq(Items) /\ t \in Seq(Items)
    BY DEF Walk
  <1>2. Len(s) <= Len(t) /\ \A i \in 1..Len(s) : s[i] = t[i]
    BY WalkAgrees
  <1>3. Len(t) <= Len(s)
    BY WalkAgrees
  <1>4. Len(s) = Len(t)
    BY <1>1, <1>2, <1>3
  <1> QED
    BY <1>1, <1>2, <1>4

LEMMA ListUnique ==
    ASSUME NEW h, NEW b, NEW s, IsList(h, b, s), NEW t, IsList(h, b, t)
    PROVE  s = t
  <1>1. Len(s) \in Nat /\ Len(t) \in Nat
    BY DEF IsList
  <1>2. PICK n \in Nat : Len(s) <= n /\ Len(t) <= n
    BY <1>1
  <1> QED
    BY <1>2, ListIsWalk, WalkUnique

\* A list has no item twice.
LEMMA ListRestIsList ==
    ASSUME NEW h, NEW b, NEW s, IsList(h, b, s), NEW i \in 1..Len(s)
    PROVE  IsList(h, s[i], SubSeq(s, i, Len(s)))
  <1>1. PICK t : t = SubSeq(s, i, Len(s))
    OBVIOUS
  <1>2. /\ s \in Seq(Items) /\ t \in Seq(Items) /\ Len(t) = Len(s) - i + 1
        /\ \A j \in 1..Len(t) : t[j] = s[i + j - 1]
    BY <1>1 DEF IsList
  <1>3. t # <<>> /\ t[1] = s[i]
    BY <1>2
  <1>4. ASSUME NEW j \in 1..Len(t)
        PROVE  h.next[t[j]] = IF j = Len(t) THEN NULL ELSE t[j + 1]
    <2>1. t[j] = s[i + j - 1] /\ i + j - 1 \in 1..Len(s)
      BY <1>2
    <2>2. h.next[t[j]] = IF i + j - 1 = Len(s) THEN NULL ELSE s[i + j - 1 + 1]
      BY <2>1 DEF IsList
    <2>3. i + j - 1 = Len(s) <=> j = Len(t)
      BY <1>2
    <2>4. CASE j # Len(t)
      <3>1. t[j + 1] = s[i + j - 1 + 1]
        BY <1>2, <2>4
      <3> QED
        BY <2>2, <2>3, <3>1
    <2> QED
      BY <2>2, <2>3, <2>4
  <1> QED
    BY <1>1, <1>2, <1>3, <1>4 DEF IsList

LEMMA ListInjective ==
    ASSUME NEW h, NEW b, NEW s, IsList(h, b, s),
           NEW i \in 1..Len(s), NEW j \in 1..Len(s), s[i] = s[j]
    PROVE  i = j
  <1>1. s \in Seq(Items)
    BY DEF IsList
  <1>2. SubSeq(s, i, Len(s)) = SubSeq(s, j, Len(s))
    BY ListRestIsList, ListUnique
  <1>3. Len(SubSeq(s, i, Len(s))) = Len(s) - i + 1 /\ Len(SubSeq(s, j, Len(s))) = Len(s) - j + 1
    BY <1>1
  <1> QED
    BY <1>1, <1>2, <1>3

LEMMA ListIsShort ==
    ASSUME NEW h, NEW b, NEW s, IsList(h, b, s)
    PROVE  Len(s) <= Cardinality(Items) /\ Cardinality(Items) \in Nat
  <1>1. s \in Seq(Items) /\ s \in [1..Len(s) -> Items] /\ Len(s) \in Nat
    BY DEF IsList
  <1>2. s \in Injection(1..Len(s), Items)
    BY <1>1, ListInjective DEF Injection, IsInjective
  <1>3. Cardinality(1..Len(s)) <= Cardinality(Items)
    BY <1>2, FS_Injection, HeapAssumption
  <1>4. Cardinality(1..Len(s)) = Len(s)
    <2>1. PICK n \in Nat : n = Len(s)
      BY <1>1
    <2>2. Cardinality(1..n) = IF 1 > n THEN 0 ELSE n - 1 + 1
      BY FS_Interval
    <2> QED
      BY <2>1, <2>2
  <1> QED
    BY <1>3, <1>4, FS_CardinalityType, HeapAssumption

LEMMA WalkCons ==
    ASSUME NEW h \in Heap, NEW b \in Items, NEW n \in Nat, n > 0,
           NEW s, Walk(h, h.next[b], n - 1, s)
    PROVE  Walk(h, b, n, <<b>> \o s)
  <1>1. PICK t : t = <<b>> \o s
    OBVIOUS
  <1>2. /\ s \in Seq(Items) /\ t \in Seq(Items) /\ Len(t) = Len(s) + 1 /\ t[1] = b
        /\ \A i \in 1..Len(s) : t[i + 1] = s[i]
    BY <1>1 DEF Walk
  <1>3. Len(s) <= n - 1 /\ t # <<>> /\ b # NULL
    BY <1>2, HeapAssumption DEF Walk
  <1>4. h.next[b] \in Items \cup {NULL}
    BY DEF Heap
  <1>5. ASSUME NEW i \in 1..Len(t) - 1 PROVE h.next[t[i]] = t[i + 1]
    <2>1. CASE i = 1
      <3>1. s # <<>> /\ s[1] = h.next[b]
        BY <1>2, <1>5, <2>1 DEF Walk
      <3> QED
        BY <1>2, <1>5, <2>1, <3>1
    <2>2. CASE i > 1
      <3>1. h.next[s[i - 1]] = s[i - 1 + 1]
        BY <1>2, <1>5, <2>2 DEF Walk
      <3>2. t[i - 1 + 1] = s[i - 1] /\ t[i + 1] = s[i]
        BY <1>2, <1>5, <2>2
      <3> QED
        BY <1>2, <3>1, <3>2
    <2> QED
      BY <1>2, <2>1, <2>2
  <1>6. ASSUME Len(t) < n PROVE h.next[t[Len(t)]] = NULL
    <2>1. Len(s) < n - 1
      BY <1>2, <1>6
    <2>2. CASE s = <<>>
      BY <1>2, <2>1, <2>2 DEF Walk
    <2>3. CASE s # <<>>
      <3>1. Len(s) \in 1..Len(s) /\ h.next[s[Len(s)]] = NULL
        BY <1>2, <2>1, <2>3 DEF Walk
      <3>2. t[Len(t)] = s[Len(s)]
        BY <1>2, <3>1
      <3> QED
        BY <3>1, <3>2
    <2> QED
      BY <2>2, <2>3
  <1> QED
    BY <1>1, <1>2, <1>3, <1>5, <1>6 DEF Walk

LEMMA WalkExists ==
    ASSUME NEW h \in Heap, NEW n \in Nat, NEW b \in Items \cup {NULL}
    PROVE  \E s : Walk(h, b, n, s)
  <1> DEFINE S == {i \in Nat : \A c \in Items \cup {NULL} : \E s : Walk(h, c, i, s)}
  <1>1. 0 \in S
    <2>1. ASSUME NEW c \in Items \cup {NULL} PROVE Walk(h, c, 0, <<>>)
      BY DEF Walk
    <2> QED
      BY <2>1
  <1>2. ASSUME NEW i \in 0..n-1, i \in S PROVE i + 1 \in S
    <2> SUFFICES ASSUME NEW c \in Items \cup {NULL} PROVE \E s : Walk(h, c, i + 1, s)
      OBVIOUS
    <2>1. CASE c = NULL
      <3>1. Walk(h, c, i + 1, <<>>)
        BY <2>1 DEF Walk
      <3> QED
        BY <3>1
    <2>2. CASE c # NULL
      <3>1. h.next[c] \in Items \cup {NULL} /\ c \in Items /\ i + 1 \in Nat /\ i + 1 > 0
            /\ i + 1 - 1 = i
        BY <2>2 DEF Heap
      <3>2. PICK s : Walk(h, h.next[c], i, s)
        BY <1>2, <3>1
      <3>3. Walk(h, c, i + 1, <<c>> \o s)
        BY <3>1, <3>2, WalkCons
      <3> QED
        BY <3>3
    <2> QED
      BY <2>1, <2>2
  <1> HIDE DEF S
  <1>3. 0..n \subseteq S
    BY <1>1, <1>2, UpTo
  <1> QED
    BY <1>3 DEF S

\* The equation that defines the function inside ListOf.
Unfolded(h, from, n, b) ==
    IF n = 0 \/ b = NULL THEN <<>> ELSE <<b>> \o from[n - 1][h.next[b]]

Unfolds(h, from) ==
    from = [n \in 0..Cardinality(Items) |->
              [b \in Items \cup {NULL} |-> Unfolded(h, from, n, b)]]

\* ListOf finds the walk along next from the child.
LEMMA WalksUnfold ==
    ASSUME NEW h \in Heap
    PROVE  \E from : Unfolds(h, from)
  <1> DEFINE N == Cardinality(Items)
             F == [n \in 0..N |-> [b \in Items \cup {NULL} |-> CHOOSE s : Walk(h, b, n, s)]]
  <1>1. N \in Nat
    BY FS_CardinalityType, HeapAssumption
  <1>2. ASSUME NEW n \in 0..N, NEW b \in Items \cup {NULL}
        PROVE  Walk(h, b, n, F[n][b])
    BY <1>1, WalkExists
  <1>3. ASSUME NEW n \in 0..N, NEW b \in Items \cup {NULL}
        PROVE  F[n][b] = Unfolded(h, F, n, b)
    <2>1. Walk(h, b, n, F[n][b])
      BY <1>2
    <2> HIDE DEF F
    <2>2. CASE n = 0 \/ b = NULL
      BY <2>1, <2>2 DEF Walk, Unfolded
    <2>3. CASE n # 0 /\ b # NULL
      <3>1. h.next[b] \in Items \cup {NULL} /\ n - 1 \in 0..N /\ n \in Nat /\ n > 0 /\ b \in Items
        BY <1>1, <2>3 DEF Heap
      <3>2. Walk(h, h.next[b], n - 1, F[n - 1][h.next[b]])
        BY <1>2, <3>1
      <3>3. Walk(h, b, n, <<b>> \o F[n - 1][h.next[b]])
        BY <3>1, <3>2, WalkCons
      <3> QED
        BY <2>1, <2>3, <3>1, <3>3, WalkUnique DEF Unfolded
    <2> QED
      BY <2>2, <2>3
  <1>4. F = [n \in 0..N |-> [b \in Items \cup {NULL} |-> F[n][b]]]
    OBVIOUS
  <1> HIDE DEF F
  <1>5. Unfolds(h, F)
    BY <1>3, <1>4 DEF Unfolds
  <1> QED
    BY <1>5

LEMMA UnfoldedWalks ==
    ASSUME NEW h \in Heap, NEW from, Unfolds(h, from),
           NEW n \in 0..Cardinality(Items), NEW b \in Items \cup {NULL}
    PROVE  Walk(h, b, n, from[n][b])
  <1> DEFINE N == Cardinality(Items)
             S == {i \in 0..N : \A c \in Items \cup {NULL} : Walk(h, c, i, from[i][c])}
  <1>1. N \in Nat
    BY FS_CardinalityType, HeapAssumption
  <1>2. ASSUME NEW i \in 0..N, NEW c \in Items \cup {NULL}
        PROVE  from[i][c] = Unfolded(h, from, i, c)
    <2>1. PICK g : g = [k \in 0..N |-> [d \in Items \cup {NULL} |-> Unfolded(h, from, k, d)]]
      OBVIOUS
    <2>2. g[i][c] = Unfolded(h, from, i, c)
      BY <2>1
    <2>3. from = g
      BY <2>1 DEF Unfolds
    <2> QED
      BY ONLY <2>2, <2>3
  <1>3. 0 \in S
    <2>1. 0 \in 0..N
      BY <1>1
    <2>2. \A c \in Items \cup {NULL} : Walk(h, c, 0, <<>>)
      BY DEF Walk
    <2> QED
      BY <1>2, <2>1, <2>2 DEF Unfolded
  <1>4. ASSUME NEW i \in 0..N-1, i \in S PROVE i + 1 \in S
    <2>0. i + 1 \in 0..N
      BY <1>1
    <2> SUFFICES ASSUME NEW c \in Items \cup {NULL} PROVE Walk(h, c, i + 1, from[i + 1][c])
      BY <2>0
    <2>1. CASE c = NULL
      <3>1. Walk(h, c, i + 1, <<>>)
        BY <2>1 DEF Walk
      <3> QED
        BY <1>2, <2>0, <2>1, <3>1 DEF Unfolded
    <2>2. CASE c # NULL
      <3>1. h.next[c] \in Items \cup {NULL} /\ c \in Items /\ i + 1 \in Nat /\ i + 1 > 0
            /\ i + 1 - 1 = i /\ i + 1 # 0
        BY <2>2 DEF Heap
      <3>2. Walk(h, h.next[c], i, from[i][h.next[c]])
        BY <1>4, <3>1
      <3>3. Walk(h, c, i + 1, <<c>> \o from[i][h.next[c]])
        BY <3>1, <3>2, WalkCons
      <3>4. from[i + 1][c] = <<c>> \o from[i][h.next[c]]
        <4>1. from[i + 1][c] = Unfolded(h, from, i + 1, c)
          BY <1>2, <2>0
        <4> QED
          BY <2>2, <3>1, <4>1 DEF Unfolded
      <3> QED
        BY <3>3, <3>4
    <2> QED
      BY <2>1, <2>2
  <1> HIDE DEF S
  <1>5. 0..N \subseteq S
    BY <1>1, <1>3, <1>4, UpTo
  <1> QED
    BY <1>5 DEF S

LEMMA ListOfWalks ==
    ASSUME NEW h \in Heap, NEW p \in Items
    PROVE  Walk(h, h.child[p], Cardinality(Items), ListOf(h, p))
  <1> DEFINE from == CHOOSE f : Unfolds(h, f)
  <1>1. Unfolds(h, from)
    BY WalksUnfold
  <1>2. ListOf(h, p) = from[Cardinality(Items)][h.child[p]]
    BY DEF ListOf, Unfolds, Unfolded
  <1>3. h.child[p] \in Items \cup {NULL} /\ Cardinality(Items) \in 0..Cardinality(Items)
    BY FS_CardinalityType, HeapAssumption DEF Heap
  <1> QED
    BY <1>1, <1>2, <1>3, UnfoldedWalks

\* Where the list has an end, ListOf is the whole list.
LEMMA ListOfIsList ==
    ASSUME NEW h \in Heap, NEW p \in Items, NEW s, IsList(h, h.child[p], s)
    PROVE  ListOf(h, p) = s
  <1>1. Len(s) <= Cardinality(Items) /\ Cardinality(Items) \in Nat
    BY ListIsShort
  <1> QED
    BY <1>1, ListIsWalk, ListOfWalks, WalkUnique

-----------------------------------------------------------------------------
(* The lists of a well-formed heap *)

\* A list that ends is the items from its first one on.
LEMMA EndedList ==
    ASSUME NEW h \in Heap, NEW f \in Items, EndsFrom(h, f)
    PROVE  \E s : IsList(h, f, s)
  <1> DEFINE Path(t, b) == /\ t \in Seq(Items) /\ t # <<>> /\ t[1] = f /\ t[Len(t)] = b
                           /\ \A i \in 1..Len(t) - 1 : h.next[t[i]] = t[i + 1]
             S == {b \in Items : \E t : Path(t, b)}
  <1>1. PICK c \in Items : /\ h.next[c] = NULL
                           /\ \A T \in SUBSET Items : f \in T /\ WalkCloses(h, {}, T) => c \in T
    BY EndInEveryClosure
  <1>2. f \in S
    <2>1. Path(<<f>>, f)
      OBVIOUS
    <2> QED
      BY <2>1
  <1>3. WalkCloses(h, {}, S)
    <2> SUFFICES ASSUME NEW b \in S, h.next[b] # NULL PROVE h.next[b] \in S
      BY DEF WalkCloses
    <2>1. PICK d \in Items : d = h.next[b]
      BY DEF Heap
    <2>2. PICK t : Path(t, b)
      OBVIOUS
    <2>3. PICK u : u = Append(t, d)
      OBVIOUS
    <2>4. /\ u \in Seq(Items) /\ Len(u) = Len(t) + 1 /\ u[Len(u)] = d /\ Len(t) \in Nat \ {0}
          /\ \A i \in 1..Len(t) : u[i] = t[i]
      BY <2>2, <2>3
    <2>5. ASSUME NEW i \in 1..Len(u) - 1 PROVE h.next[u[i]] = u[i + 1]
      <3>1. CASE i = Len(t)
        <4>1. u[i] = b /\ u[i + 1] = d
          BY <2>2, <2>4, <3>1
        <4> QED
          BY <2>1, <4>1
      <3>2. CASE i # Len(t)
        <4>1. i \in 1..Len(t) - 1 /\ i \in 1..Len(t) /\ i + 1 \in 1..Len(t)
          BY <2>4, <3>2
        <4>2. u[i] = t[i] /\ u[i + 1] = t[i + 1]
          BY <2>4, <4>1
        <4> QED
          BY <2>2, <4>1, <4>2
      <3> QED
        BY <3>1, <3>2
    <2>6. Path(u, d)
      BY <2>2, <2>4, <2>5
    <2> QED
      BY <2>1, <2>6
  <1>4. PICK t : Path(t, c)
    <2>1. S \in SUBSET Items
      OBVIOUS
    <2> HIDE DEF S
    <2>2. c \in S
      BY <1>1, <1>2, <1>3, <2>1
    <2> QED
      BY <2>2 DEF S
  <1>5. IsList(h, f, t)
    BY <1>1, <1>4 DEF IsList
  <1> QED
    BY <1>5

\* What is in the list of p is what Members finds.
Holds(s, b) == \E i \in 1..Len(s) : s[i] = b

LEMMA ListHoldsMembers ==
    ASSUME NEW h \in Heap, NEW p \in Items, NEW s, IsList(h, h.child[p], s), NEW b
    PROVE  b \in Members(h, p) <=> Holds(s, b)
  <1> DEFINE M == Members(h, p)
             R == {c \in Items : Holds(s, c)}
  <1>1. h.child[p] \in Items \cup {NULL} /\ s \in Seq(Items) /\ Len(s) \in Nat
    BY DEF Heap, IsList
  <1>2. /\ M \subseteq Items /\ h.child[p] \in M \cup {NULL}
        /\ \A c \in M : h.next[c] \in M \cup {NULL}
    BY <1>1, WalkedCloses DEF Members, WalkCloses
  <1>3. M \subseteq R
    <2>1. h.child[p] \in R \cup {NULL}
      BY <1>1 DEF IsList, Holds
    <2>2. WalkCloses(h, {}, R)
      <3> SUFFICES ASSUME NEW i \in 1..Len(s), h.next[s[i]] # NULL
                   PROVE  h.next[s[i]] \in R
        BY DEF WalkCloses, Holds
      <3>1. i + 1 \in 1..Len(s) /\ h.next[s[i]] = s[i + 1] /\ s[i + 1] \in Items
        BY <1>1 DEF IsList
      <3> QED
        BY <3>1 DEF Holds
    <2> HIDE DEF R
    <2>3. R \in SUBSET Items
      BY DEF R
    <2> QED
      BY <1>1, <2>1, <2>2, <2>3, WalkedSmallest DEF Members
  <1>4. ASSUME NEW i \in 1..Len(s) PROVE s[i] \in M
    <2> DEFINE S == {j \in 0..Len(s) : j > 0 => s[j] \in M}
    <2>1. 0 \in S
      BY <1>1
    <2>2. ASSUME NEW j \in 0..Len(s) - 1, j \in S PROVE j + 1 \in S
      <3>1. CASE j = 0
        <4>1. s # <<>> /\ s[1] = h.child[p] /\ s[1] \in Items
          BY <1>1, <2>2, <3>1 DEF IsList
        <4> QED
          BY <1>1, <1>2, <2>2, <3>1, <4>1, HeapAssumption
      <3>2. CASE j > 0
        <4>1. h.next[s[j]] = s[j + 1] /\ s[j] \in M /\ s[j + 1] \in Items
          BY <1>1, <2>2, <3>2 DEF IsList
        <4> QED
          BY <1>1, <1>2, <2>2, <3>2, <4>1, HeapAssumption
      <3> QED
        BY <1>1, <3>1, <3>2
    <2> HIDE DEF S
    <2>3. 0..Len(s) \subseteq S
      BY <1>1, <2>1, <2>2, UpTo
    <2> QED
      BY <2>3 DEF S
  <1> QED
    BY <1>3, <1>4 DEF Holds

LEMMA ListOfEnds ==
    ASSUME NEW h, NEW roots, WellFormed(h, roots), NEW p \in Items \ h.ref
    PROVE  /\ IsList(h, h.child[p], ListOf(h, p))
           /\ \A b : b \in Members(h, p) <=> Holds(ListOf(h, p), b)
  <1>1. h \in Heap /\ HeapOK(h) /\ h.child[p] \in Items \cup {NULL}
    BY DEF WellFormed, HeapOK, Heap
  <1>2. \E s : IsList(h, h.child[p], s)
    <2>1. CASE h.child[p] = NULL
      <3>1. IsList(h, NULL, <<>>)
        BY DEF IsList
      <3> QED
        BY <2>1, <3>1
    <2>2. CASE h.child[p] # NULL
      <3>1. p \in h.live \ h.ref
        BY <1>1, <2>2 DEF HeapOK
      <3>2. EndsFrom(h, h.child[p])
        BY <2>2, <3>1, PointersOf
      <3> QED
        BY <1>1, <2>2, <3>2, EndedList
    <2> QED
      BY <2>1, <2>2
  <1>3. PICK s : IsList(h, h.child[p], s)
    BY <1>2
  <1>4. ListOf(h, p) = s
    BY <1>1, <1>3, ListOfIsList
  <1> QED
    BY <1>1, <1>3, <1>4, ListHoldsMembers

\* The lists of two items have nothing in common.
LEMMA MembersApart ==
    ASSUME NEW h, NEW roots, WellFormed(h, roots),
           NEW p \in h.live \ h.ref, NEW q \in h.live \ h.ref, p # q
    PROVE  Members(h, p) \cap Members(h, q) = {}
  <1> DEFINE S == Members(h, p) \ Members(h, q)
  <1>1. /\ h \in Heap /\ p \in Items /\ q \in Items /\ h.child[p] \in Items \cup {NULL}
        /\ h.child[q] \in Items \cup {NULL} /\ NULL \notin Items
    BY PointersOf, HeapAssumption
  <1>2. Members(h, p) \subseteq Items
    BY <1>1, WalkedCloses DEF Members
  <1>3. h.child[p] \in S \cup {NULL}
    <2> SUFFICES ASSUME h.child[p] # NULL PROVE h.child[p] \in S
      OBVIOUS
    <2>1. h.child[p] \in Members(h, p)
      BY <1>1, WalkedCloses DEF Members
    <2>2. ASSUME h.child[p] \in Members(h, q) PROVE FALSE
      <3>1. h.prev[h.child[p]] = NULL /\ h.child[q] # h.child[p]
        BY PointersOf
      <3>2. h.next[h.prev[h.child[p]]] = h.child[p] /\ h.prev[h.child[p]] \in Members(h, q)
        BY <2>2, <3>1, MemberPred
      <3>3. Members(h, q) \subseteq Items
        BY <1>1, WalkedCloses DEF Members
      <3> QED
        BY <1>1, <3>1, <3>2, <3>3
    <2> QED
      BY <2>1, <2>2
  <1>4. WalkCloses(h, {}, S)
    <2> SUFFICES ASSUME NEW c \in S, h.next[c] # NULL PROVE h.next[c] \in S
      BY DEF WalkCloses
    <2>1. h.next[c] \in Members(h, p) /\ c \in Items
      BY <1>1, <1>2, WalkedCloses DEF Members, WalkCloses
    <2>2. h.prev[h.next[c]] = c /\ h.next[c] \in h.live
      BY <2>1, PointersOf
    <2>3. ASSUME h.next[c] \in Members(h, q) PROVE FALSE
      <3>1. h.child[q] # h.next[c]
        BY <1>1, <2>1, <2>2, PointersOf
      <3>2. h.prev[h.next[c]] \in Members(h, q)
        BY <2>3, <3>1, MemberPred
      <3> QED
        BY <2>2, <3>2
    <2> QED
      BY <2>1, <2>3
  <1>5. Members(h, p) \subseteq S
    <2>1. S \in SUBSET Items
      BY <1>2
    <2> HIDE DEF S
    <2> QED
      BY <1>1, <1>3, <1>4, <2>1, WalkedSmallest DEF Members
  <1> QED
    BY <1>5

-----------------------------------------------------------------------------
(* Changing one list *)

LEMMA InsertAtSpelledOut ==
    ASSUME NEW S, NEW s \in Seq(S), NEW i \in 1..Len(s) + 1, NEW e \in S
    PROVE  LET t == Forest!InsertAt(s, i, e)
           IN  /\ t \in Seq(S) /\ Len(t) = Len(s) + 1
               /\ \A j \in 1..Len(s) + 1 :
                    t[j] = IF j < i THEN s[j] ELSE IF j = i THEN e ELSE s[j - 1]
  <1>1. PICK a, c : a = SubSeq(s, 1, i - 1) /\ c = SubSeq(s, i, Len(s))
    OBVIOUS
  <1>2. /\ a \in Seq(S) /\ Len(a) = i - 1 /\ \A j \in 1..i - 1 : a[j] = s[j]
        /\ c \in Seq(S) /\ Len(c) = Len(s) - i + 1
        /\ \A j \in 1..Len(s) - i + 1 : c[j] = s[i + j - 1]
    BY <1>1
  <1>3. PICK b : b = a \o <<e>>
    OBVIOUS
  <1>4. /\ b \in Seq(S) /\ Len(b) = i /\ \A j \in 1..i - 1 : b[j] = s[j]
        /\ b[i] = e
    BY <1>2, <1>3
  <1>5. PICK t : t = b \o c
    OBVIOUS
  <1>6. t \in Seq(S) /\ Len(t) = Len(s) + 1
    BY <1>2, <1>4, <1>5
  <1>7. ASSUME NEW j \in 1..Len(s) + 1
        PROVE  t[j] = IF j < i THEN s[j] ELSE IF j = i THEN e ELSE s[j - 1]
    <2>1. CASE j <= i
      <3>1. t[j] = b[j]
        BY <1>2, <1>4, <1>5, <2>1
      <3> QED
        BY <1>4, <2>1, <3>1
    <2>2. CASE j > i
      <3>1. t[j] = c[j - i] /\ j - i \in 1..Len(s) - i + 1
        BY <1>2, <1>4, <1>5, <2>2
      <3>2. c[j - i] = s[i + (j - i) - 1] /\ i + (j - i) - 1 = j - 1
        BY <1>2, <3>1
      <3> QED
        BY <2>2, <3>1, <3>2
    <2> QED
      BY <2>1, <2>2
  <1>8. Forest!InsertAt(s, i, e) = t
    BY <1>1, <1>3, <1>5 DEF Forest!InsertAt
  <1> QED
    BY <1>6, <1>7, <1>8

LEMMA RemoveAtSpelledOut ==
    ASSUME NEW S, NEW s \in Seq(S), NEW i \in 1..Len(s)
    PROVE  LET t == Forest!RemoveAt(s, i)
           IN  /\ t \in Seq(S) /\ Len(t) = Len(s) - 1
               /\ \A j \in 1..Len(s) - 1 : t[j] = IF j < i THEN s[j] ELSE s[j + 1]
  <1>1. PICK a, c : a = SubSeq(s, 1, i - 1) /\ c = SubSeq(s, i + 1, Len(s))
    OBVIOUS
  <1>2. /\ a \in Seq(S) /\ Len(a) = i - 1 /\ \A j \in 1..i - 1 : a[j] = s[j]
        /\ c \in Seq(S) /\ Len(c) = Len(s) - i
        /\ \A j \in 1..Len(s) - i : c[j] = s[i + j]
    BY <1>1, SMTT(30)
  <1>3. PICK t : t = a \o c
    OBVIOUS
  <1>4. t \in Seq(S) /\ Len(t) = Len(s) - 1
    BY <1>2, <1>3
  <1>5. ASSUME NEW j \in 1..Len(s) - 1
        PROVE  t[j] = IF j < i THEN s[j] ELSE s[j + 1]
    <2>1. CASE j < i
      BY <1>2, <1>3, <2>1
    <2>2. CASE j >= i
      <3>1. t[j] = c[j - i + 1] /\ j - i + 1 \in 1..Len(s) - i
        BY <1>2, <1>3, <2>2
      <3>2. c[j - i + 1] = s[i + (j - i + 1)] /\ i + (j - i + 1) = j + 1
        BY <1>2, <3>1
      <3> QED
        BY <2>2, <3>1, <3>2
    <2> QED
      BY <2>1, <2>2
  <1>6. Forest!RemoveAt(s, i) = t
    BY <1>1, <1>3 DEF Forest!RemoveAt
  <1> QED
    BY <1>4, <1>5, <1>6

\* An item linked in as the i-th.
LEMMA ListInserted ==
    ASSUME NEW h \in Heap, NEW g \in Heap, NEW b, NEW s, IsList(h, b, s),
           NEW i \in 1..Len(s) + 1, NEW item \in Items,
           g.next[item] = IF i <= Len(s) THEN s[i] ELSE NULL,
           i > 1 => g.next[s[i - 1]] = item,
           \A j \in 1..Len(s) : j # i - 1 => g.next[s[j]] = h.next[s[j]]
    PROVE  IsList(g, IF i = 1 THEN item ELSE b, Forest!InsertAt(s, i, item))
  <1>1. s \in Seq(Items)
    BY DEF IsList
  <1>2. PICK t : t = Forest!InsertAt(s, i, item)
    OBVIOUS
  <1>3. /\ t \in Seq(Items) /\ Len(t) = Len(s) + 1
        /\ \A j \in 1..Len(s) + 1 :
             t[j] = IF j < i THEN s[j] ELSE IF j = i THEN item ELSE s[j - 1]
    BY <1>1, <1>2, InsertAtSpelledOut
  <1>4. (IF i = 1 THEN item ELSE b) = t[1] /\ t # <<>>
    BY <1>1, <1>3 DEF IsList
  <1>5. ASSUME NEW j \in 1..Len(t)
        PROVE  g.next[t[j]] = IF j = Len(t) THEN NULL ELSE t[j + 1]
    <2>1. CASE j < i - 1
      <3>1. t[j] = s[j] /\ g.next[s[j]] = h.next[s[j]] /\ j < Len(s)
        BY <1>1, <1>3, <2>1
      <3>2. h.next[s[j]] = s[j + 1] /\ t[j + 1] = s[j + 1]
        BY <1>1, <1>3, <2>1, <3>1 DEF IsList
      <3> QED
        BY <1>1, <1>3, <3>1, <3>2
    <2>2. CASE j = i - 1
      BY <1>1, <1>3, <2>2
    <2>3. CASE j = i
      BY <1>1, <1>3, <2>3
    <2>4. CASE j > i
      <3>1. j - 1 \in 1..Len(s) /\ j - 1 # i - 1 /\ t[j] = s[j - 1]
        BY <1>1, <1>3, <2>4
      <3>2. g.next[t[j]] = h.next[s[j - 1]]
        BY <3>1
      <3>3. h.next[s[j - 1]] = IF j - 1 = Len(s) THEN NULL ELSE s[j - 1 + 1]
        BY <3>1 DEF IsList
      <3>4. ASSUME j # Len(t) PROVE t[j + 1] = s[j]
        <4>1. PICK k : k = j + 1
          OBVIOUS
        <4>2. k \in 1..Len(s) + 1 /\ k > i /\ k - 1 = j
          <5>1. Len(s) \in Nat /\ j \in Nat /\ j <= Len(s) + 1 /\ j # Len(s) + 1 /\ i \in Nat
            BY <1>1, <1>3, <3>4
          <5> QED
            BY <2>4, <4>1, <5>1
        <4>3. t[k] = s[k - 1]
          BY <1>3, <4>2
        <4> QED
          BY <4>1, <4>2, <4>3
      <3> QED
        BY <1>1, <1>3, <3>1, <3>2, <3>3, <3>4
    <2> QED
      BY <1>1, <1>3, <2>1, <2>2, <2>3, <2>4
  <1> QED
    BY <1>2, <1>3, <1>4, <1>5 DEF IsList

\* The i-th item unlinked.
LEMMA ListRemoved ==
    ASSUME NEW h \in Heap, NEW g \in Heap, NEW b, NEW s, IsList(h, b, s),
           NEW i \in 1..Len(s),
           i > 1 => g.next[s[i - 1]] = h.next[s[i]],
           \A j \in 1..Len(s) : j \notin {i - 1, i} => g.next[s[j]] = h.next[s[j]]
    PROVE  IsList(g, IF i = 1 THEN h.next[s[i]] ELSE b, Forest!RemoveAt(s, i))
  <1>1. s \in Seq(Items)
    BY DEF IsList
  <1>2. PICK t : t = Forest!RemoveAt(s, i)
    OBVIOUS
  <1>3. /\ t \in Seq(Items) /\ Len(t) = Len(s) - 1
        /\ \A j \in 1..Len(s) - 1 : t[j] = IF j < i THEN s[j] ELSE s[j + 1]
    BY <1>1, <1>2, RemoveAtSpelledOut
  <1>4. (IF i = 1 THEN h.next[s[i]] ELSE b) = IF t = <<>> THEN NULL ELSE t[1]
    <2>1. h.next[s[i]] = IF i = Len(s) THEN NULL ELSE s[i + 1]
      BY DEF IsList
    <2>2. s # <<>> /\ b = s[1]
      BY <1>1 DEF IsList
    <2>3. t = <<>> <=> Len(s) = 1
      BY <1>1, <1>3
    <2> QED
      BY <1>1, <1>3, <2>1, <2>2, <2>3
  <1>5. ASSUME NEW j \in 1..Len(t)
        PROVE  g.next[t[j]] = IF j = Len(t) THEN NULL ELSE t[j + 1]
    <2>1. CASE j < i - 1
      <3>0. j \in 1..Len(s) - 1 /\ j \in 1..Len(s) /\ j \notin {i - 1, i} /\ j < i
        BY <1>1, <1>3, <2>1
      <3>1. t[j] = s[j] /\ g.next[s[j]] = h.next[s[j]] /\ j < Len(s)
        BY <1>1, <1>3, <3>0
      <3>2. h.next[s[j]] = s[j + 1] /\ t[j + 1] = s[j + 1] /\ j # Len(t)
        BY <1>1, <1>3, <2>1, <3>1 DEF IsList
      <3> QED
        BY <3>1, <3>2
    <2>2. CASE j = i - 1
      <3>1. t[j] = s[i - 1] /\ i > 1 /\ g.next[t[j]] = h.next[s[i]]
        BY <1>1, <1>3, <2>2
      <3>2. h.next[s[i]] = IF i = Len(s) THEN NULL ELSE s[i + 1]
        BY DEF IsList
      <3>3. j # Len(t) => t[j + 1] = s[i + 1]
        BY <1>1, <1>3, <2>2
      <3> QED
        BY <1>1, <1>3, <2>2, <3>1, <3>2, <3>3
    <2>3. CASE j >= i
      <3>1. j + 1 \in 1..Len(s) /\ j + 1 \notin {i - 1, i} /\ t[j] = s[j + 1]
        BY <1>1, <1>3, <2>3
      <3>2. g.next[t[j]] = h.next[s[j + 1]]
        BY <3>1
      <3>3. h.next[s[j + 1]] = IF j + 1 = Len(s) THEN NULL ELSE s[j + 1 + 1]
        BY <3>1 DEF IsList
      <3>4. j # Len(t) => t[j + 1] = s[j + 1 + 1]
        BY <1>1, <1>3, <2>3
      <3> QED
        BY <1>1, <1>3, <3>1, <3>2, <3>3, <3>4
    <2> QED
      BY <1>1, <1>3, <2>1, <2>2, <2>3
  <1> QED
    BY <1>2, <1>3, <1>4, <1>5 DEF IsList

\* Another item in the place of the i-th.
LEMMA ListExchanged ==
    ASSUME NEW h \in Heap, NEW g \in Heap, NEW b, NEW s, IsList(h, b, s),
           NEW i \in 1..Len(s), NEW r \in Items,
           g.next[r] = h.next[s[i]],
           i > 1 => g.next[s[i - 1]] = r,
           \A j \in 1..Len(s) : j \notin {i - 1, i} => g.next[s[j]] = h.next[s[j]]
    PROVE  IsList(g, IF i = 1 THEN r ELSE b, Forest!ReplaceAt(s, i, r))
  <1>1. s \in Seq(Items)
    BY DEF IsList
  <1>2. PICK t : t = [s EXCEPT ![i] = r]
    OBVIOUS
  <1>3. /\ t \in Seq(Items) /\ Len(t) = Len(s)
        /\ \A j \in 1..Len(s) : t[j] = IF j = i THEN r ELSE s[j]
    BY <1>1, <1>2
  <1>4. (IF i = 1 THEN r ELSE b) = t[1] /\ t # <<>>
    BY <1>1, <1>3 DEF IsList
  <1>5. ASSUME NEW j \in 1..Len(t)
        PROVE  g.next[t[j]] = IF j = Len(t) THEN NULL ELSE t[j + 1]
    <2>1. h.next[s[j]] = IF j = Len(s) THEN NULL ELSE s[j + 1]
      BY <1>3 DEF IsList
    <2>2. CASE j = i - 1
      BY <1>1, <1>3, <2>2
    <2>3. CASE j = i
      BY <1>1, <1>3, <2>1, <2>3
    <2>4. CASE j \notin {i - 1, i}
      <3>1. t[j] = s[j] /\ g.next[s[j]] = h.next[s[j]] /\ (j # Len(t) => t[j + 1] = s[j + 1])
        BY <1>1, <1>3, <2>4
      <3> QED
        BY <1>3, <2>1, <3>1
    <2> QED
      BY <2>2, <2>3, <2>4
  <1> QED
    <2>1. Forest!ReplaceAt(s, i, r) = t
      BY <1>2 DEF Forest!ReplaceAt
    <2>2. IsList(g, IF i = 1 THEN r ELSE b, t)
      BY <1>3, <1>4, <1>5 DEF IsList
    <2> QED
      BY <2>1, <2>2

\* A list none of whose pointers changed.
LEMMA ListUnchanged ==
    ASSUME NEW h, NEW g, NEW b, NEW s, IsList(h, b, s),
           \A j \in 1..Len(s) : g.next[s[j]] = h.next[s[j]]
    PROVE  IsList(g, b, s)
  BY DEF IsList

-----------------------------------------------------------------------------
(* The lists of a heap *)

Kids(h) == [p \in Items |-> IF p \in h.ref THEN <<>> ELSE ListOf(h, p)]

\* From h to g only the list of p changes; only keys of items in S change.
KidsBut(h, g, p, s) ==
    Kids(g)[p] = s /\ \A q \in Items \ {p} : Kids(g)[q] = Kids(h)[q]
KeysBut(h, g, S) == \A b \in Items \ S : g.string[b] = h.string[b]

LEMMA KidsOfParent ==
    ASSUME NEW h, NEW roots, WellFormed(h, roots), NEW p \in h.live \ h.ref
    PROVE  /\ p \in Items
           /\ Kids(h)[p] = ListOf(h, p)
           /\ IsList(h, h.child[p], Kids(h)[p])
           /\ Kids(h)[p] \in Seq(Items)
           /\ Len(Kids(h)[p]) \in Nat
           /\ \A b : b \in Members(h, p) <=> Holds(Kids(h)[p], b)
  <1>1. p \in Items \ h.ref /\ h.live \subseteq Items
    BY PointersOf
  <1>2. PICK s : s = Kids(h)[p]
    OBVIOUS
  <1>3. s = ListOf(h, p)
    BY <1>1, <1>2 DEF Kids
  <1>4. IsList(h, h.child[p], s) /\ \A b : b \in Members(h, p) <=> Holds(s, b)
    BY <1>1, <1>3, ListOfEnds
  <1>5. s \in Seq(Items)
    BY <1>4 DEF IsList
  <1> QED
    BY <1>1, <1>2, <1>3, <1>4, <1>5

\* The items around the i-th member.
Placed(h, p, s, i) ==
    /\ s[i] \in Members(h, p) /\ s[i] \in Items /\ s[i] # NULL
    /\ h.child[p] = s[i] <=> i = 1
    /\ i = 1 => h.prev[s[i]] = NULL
    /\ i > 1 => h.prev[s[i]] = s[i - 1] /\ s[i - 1] # s[i] /\ s[i - 1] \in Items
    /\ \A j \in 1..Len(s) : s[j] \in Items
    /\ \A j \in 1..Len(s) : j # i => s[j] # s[i]
    /\ \A j \in 1..Len(s) : j # i - 1 => s[j] # h.prev[s[i]]

LEMMA Neighbours ==
    ASSUME NEW h, NEW roots, WellFormed(h, roots), NEW p \in h.live \ h.ref,
           NEW s, s = Kids(h)[p], NEW i \in 1..Len(s)
    PROVE  Placed(h, p, s, i)
  <1>1. /\ IsList(h, h.child[p], s) /\ s \in Seq(Items) /\ Len(s) \in Nat
        /\ \A b : b \in Members(h, p) <=> Holds(s, b)
    BY KidsOfParent
  <1>2. \A j \in 1..Len(s) : s[j] \in Items /\ s[j] # NULL
    BY <1>1, HeapAssumption
  <1>3. \A j, k \in 1..Len(s) : s[j] = s[k] => j = k
    BY <1>1, ListInjective
  <1>4. h.child[p] = s[1] /\ 1 \in 1..Len(s)
    BY <1>1 DEF IsList
  <1>5. ASSUME i = 1 PROVE h.prev[s[i]] = NULL
    BY <1>2, <1>4, <1>5, PointersOf
  <1>6. ASSUME i > 1 PROVE h.prev[s[i]] = s[i - 1] /\ i - 1 \in 1..Len(s)
    <2>1. i - 1 \in 1..Len(s) /\ i - 1 # Len(s) /\ i - 1 + 1 = i
      BY <1>1, <1>6
    <2>2. h.next[s[i - 1]] = s[i - 1 + 1]
      BY <1>1, <2>1 DEF IsList
    <2>3. h.prev[h.next[s[i - 1]]] = s[i - 1]
      BY <1>2, <2>1, <2>2, PointersOf
    <2> QED
      BY <2>1, <2>2, <2>3
  <1>7. s[i] \in Members(h, p)
    BY <1>1 DEF Holds
  <1>8. \A j \in 1..Len(s) : j # i - 1 => s[j] # h.prev[s[i]]
    BY <1>1, <1>2, <1>3, <1>5, <1>6
  <1>9. i > 1 => s[i - 1] # s[i] /\ s[i - 1] \in Items
    BY <1>1, <1>2, <1>3, <1>6
  <1> QED
    BY <1>2, <1>3, <1>4, <1>5, <1>6, <1>7, <1>8, <1>9 DEF Placed

LEMMA SameList ==
    ASSUME NEW h, NEW g, NEW q, g.next = h.next, g.child[q] = h.child[q]
    PROVE  ListOf(g, q) = ListOf(h, q)
  BY DEF ListOf

LEMMA KidsSame ==
    ASSUME NEW h, NEW g, SameTree(h, g)
    PROVE  Kids(g) = Kids(h)
  BY DEF SameTree, Kids, ListOf

\* Pointers that are not those of members leave a list as it is.
LEMMA OthersKeep ==
    ASSUME NEW h, NEW roots, WellFormed(h, roots), NEW g \in Heap, g.ref = h.ref,
           NEW p \in h.live \ h.ref, NEW D,
           \A b \in D : b \in Members(h, p) \/ b \in roots,
           \A b \in Items \ D : g.next[b] = h.next[b],
           \A q \in Items \ {p} : g.child[q] = h.child[q]
    PROVE  \A q \in Items \ {p} : Kids(g)[q] = Kids(h)[q]
  <1> SUFFICES ASSUME NEW q \in Items \ {p}, q \notin h.ref
               PROVE  ListOf(g, q) = ListOf(h, q)
    BY DEF Kids
  <1>1. h \in Heap /\ HeapOK(h)
    BY DEF WellFormed, HeapOK
  <1>2. PICK s : s = ListOf(h, q)
    OBVIOUS
  <1>3. IsList(h, h.child[q], s) /\ \A b : b \in Members(h, q) <=> Holds(s, b)
    BY <1>2, ListOfEnds
  <1>4. \A j \in 1..Len(s) : g.next[s[j]] = h.next[s[j]]
    <2>1. CASE q \notin h.live
      <3>1. h.child[q] = NULL
        BY <1>1, <2>1 DEF HeapOK
      <3>2. IsList(h, NULL, <<>>)
        BY DEF IsList
      <3>3. s = <<>>
        BY <1>3, <3>1, <3>2, ListUnique
      <3> QED
        BY <3>3
    <2>2. CASE q \in h.live
      <3> SUFFICES ASSUME NEW j \in 1..Len(s) PROVE s[j] \in Items \ D
        OBVIOUS
      <3>1. s[j] \in Members(h, q) /\ s[j] \in Items
        BY <1>3 DEF Holds, IsList
      <3>2. s[j] \notin Members(h, p)
        BY <2>2, <3>1, MembersApart
      <3>3. s[j] \notin roots
        BY <2>2, <3>1, RootsAreNotMembers
      <3> QED
        BY <3>1, <3>2, <3>3
    <2> QED
      BY <2>1, <2>2
  <1>5. IsList(g, g.child[q], s)
    BY <1>3, <1>4, ListUnchanged
  <1> QED
    BY <1>2, <1>5, ListOfIsList

-----------------------------------------------------------------------------
(* What the functions do to the lists *)

LEMMA KidsAppended ==
    ASSUME NEW h, NEW roots, WellFormed(h, roots), NEW p \in h.live \ h.ref, NEW item \in roots
    PROVE  LET n == add_item_to_array(h, p, item)
           IN  /\ KidsBut(h, n, p, Forest!InsertAt(Kids(h)[p], Len(Kids(h)[p]) + 1, item))
               /\ n.string = h.string
  <1>0. PICK n : n = add_item_to_array(h, p, item)
    OBVIOUS
  <1>1. /\ h \in Heap /\ item \in Items /\ item # NULL /\ h.next[item] = NULL /\ p \in Items
        /\ h.child \in [Items -> Items \cup {NULL}] /\ h.next \in [Items -> Items \cup {NULL}]
    BY PointersOf, HeapAssumption
  <1>2. n \in Heap
    <2>1. item \in roots \cup {NULL}
      OBVIOUS
    <2>2. WellFormed(n, roots \ Returned(n))
      BY <1>0, <2>1, Appended
    <2> QED
      BY <2>2, PointersOf
  <1>3. PICK s : s = Kids(h)[p]
    OBVIOUS
  <1>4. /\ IsList(h, h.child[p], s) /\ s \in Seq(Items) /\ Len(s) \in Nat
        /\ \A b : b \in Members(h, p) <=> Holds(s, b)
    BY <1>3, KidsOfParent
  <1>5. \A j \in 1..Len(s) : s[j] # item
    BY <1>4, RootsAreNotMembers DEF Holds
  <1>6. ASSUME n.ref = h.ref, n.string = h.string,
               \A q \in Items \ {p} : n.child[q] = h.child[q],
               \A b \in Items : b \in Members(h, p) \/ n.next[b] = h.next[b],
               n.child[p] = IF Len(s) + 1 = 1 THEN item ELSE h.child[p],
               Len(s) + 1 > 1 => n.next[s[Len(s) + 1 - 1]] = item,
               \A j \in 1..Len(s) : j # Len(s) + 1 - 1 => n.next[s[j]] = h.next[s[j]]
        PROVE  /\ KidsBut(h, n, p, Forest!InsertAt(s, Len(s) + 1, item))
               /\ n.string = h.string
    <2>1. n.next[item] = NULL
      BY <1>1, <1>6, RootsAreNotMembers
    <2>2. n.next[item] = IF Len(s) + 1 <= Len(s) THEN s[Len(s) + 1] ELSE NULL
      BY <1>4, <2>1
    <2>3. IsList(n, IF Len(s) + 1 = 1 THEN item ELSE h.child[p], Forest!InsertAt(s, Len(s) + 1, item))
      BY <1>1, <1>2, <1>4, <1>6, <2>2, ListInserted, Len(s) + 1 \in 1..Len(s) + 1
    <2>4. ListOf(n, p) = Forest!InsertAt(s, Len(s) + 1, item)
      BY <1>1, <1>2, <1>6, <2>3, ListOfIsList
    <2>5. \A q \in Items \ {p} : Kids(n)[q] = Kids(h)[q]
      <3>1. PICK D : D = Members(h, p)
        OBVIOUS
      <3>2. \A b \in D : b \in Members(h, p) \/ b \in roots
        BY <3>1
      <3>3. \A b \in Items \ D : n.next[b] = h.next[b]
        BY <1>6, <3>1
      <3>4. n.ref = h.ref /\ \A q \in Items \ {p} : n.child[q] = h.child[q]
        BY <1>6
      <3> QED
        BY <1>2, <3>2, <3>3, <3>4, OthersKeep
    <2> QED
      BY <1>1, <1>6, <2>4, <2>5 DEF KidsBut, Kids
  <1>7. CASE h.child[p] = NULL
    <2>1. n = [h EXCEPT !.child = [h.child EXCEPT ![p] = item], !.ret = item]
      BY <1>0, <1>1, <1>7 DEF add_item_to_array, Heap
    <2>2. /\ n.ref = h.ref /\ n.next = h.next /\ n.child = [h.child EXCEPT ![p] = item]
          /\ n.string = h.string
      BY <1>1, <2>1 DEF Heap
    <2>3. s = <<>>
      BY <1>4, <1>7, HeapAssumption DEF IsList
    <2> QED
      BY <1>0, <1>1, <1>3, <1>6, <2>2, <2>3
  <1>8. CASE h.child[p] # NULL
    <2>0. PICK last : last = CHOOSE c \in Members(h, p) : h.next[c] = NULL
      OBVIOUS
    <2>1. last \in Members(h, p) /\ h.next[last] = NULL
      BY <1>8, <2>0 DEF WellFormed, ListsEnd
    <2>2. PICK i \in 1..Len(s) : s[i] = last
      BY <1>4, <2>1 DEF Holds
    <2>3. i = Len(s) /\ last \in Items
      <3>1. ASSUME i # Len(s) PROVE FALSE
        <4>1. i + 1 \in 1..Len(s)
          BY <1>4, <3>1
        <4>2. s[i + 1] \in Items /\ h.next[s[i]] = s[i + 1]
          BY <1>4, <3>1, <4>1 DEF IsList
        <4> QED
          BY <2>1, <2>2, <4>2, HeapAssumption
      <3> QED
        BY <1>4, <2>2, <3>1
    <2>4. n = [suffix_object(h, last, item) EXCEPT !.ret = item]
      BY <1>0, <1>1, <1>8, <2>0 DEF add_item_to_array
    <2>5. n = [h EXCEPT !.next = [h.next EXCEPT ![last] = item],
                        !.prev = [h.prev EXCEPT ![item] = last], !.ret = item]
      BY <1>1, <2>4 DEF suffix_object, Heap
    <2>6. /\ n.ref = h.ref /\ n.child = h.child
          /\ n.next = [h.next EXCEPT ![last] = item] /\ n.string = h.string
      BY <1>1, <2>5 DEF Heap
    <2>7. \A j \in 1..Len(s) : s[j] \in Items /\ (j # Len(s) => s[j] # last)
      BY <1>4, <2>2, <2>3, ListInjective
    <2>8. Len(s) + 1 # 1 /\ Len(s) + 1 - 1 = Len(s) /\ s[Len(s)] = last
      BY <1>4, <2>2, <2>3
    <2> QED
      BY <1>0, <1>1, <1>3, <1>6, <2>1, <2>3, <2>6, <2>7, <2>8
  <1> QED
    BY <1>7, <1>8

LEMMA KidsInserted ==
    ASSUME NEW h, NEW roots, WellFormed(h, roots), NEW p \in h.live \ h.ref,
           NEW after \in Members(h, p) \cup {NULL}, NEW item \in roots
    PROVE  LET n == cJSON_InsertItemInArray(h, p, after, item)
           IN  /\ \E i \in 1..Len(Kids(h)[p]) + 1 :
                     KidsBut(h, n, p, Forest!InsertAt(Kids(h)[p], i, item))
               /\ n.string = h.string
  <1>0. PICK n : n = cJSON_InsertItemInArray(h, p, after, item)
    OBVIOUS
  <1>1. /\ h \in Heap /\ item \in Items /\ item # NULL /\ p \in Items
        /\ h.child \in [Items -> Items \cup {NULL}] /\ h.next \in [Items -> Items \cup {NULL}]
        /\ h.prev \in [Items -> Items \cup {NULL}]
    BY PointersOf, HeapAssumption
  <1>2. n \in Heap
    BY <1>0, Inserted, PointersOf
  <1>3. PICK s : s = Kids(h)[p]
    OBVIOUS
  <1>4. /\ IsList(h, h.child[p], s) /\ s \in Seq(Items) /\ Len(s) \in Nat
        /\ \A b : b \in Members(h, p) <=> Holds(s, b)
    BY <1>3, KidsOfParent
  <1>5. \A j \in 1..Len(s) : s[j] # item
    BY <1>4, RootsAreNotMembers DEF Holds
  <1>6. CASE after = NULL
    <2>1. n = add_item_to_array(h, p, item)
      BY <1>0, <1>6 DEF cJSON_InsertItemInArray
    <2>2. Len(s) + 1 \in 1..Len(s) + 1
      BY <1>4
    <2> QED
      BY <1>0, <1>3, <2>1, <2>2, KidsAppended
  <1>7. CASE after # NULL
    <2> DEFINE next == [(IF after = h.child[p] THEN h.next ELSE Put(h.next, h.prev[after], item))
                        EXCEPT ![item] = after]
               prev == [h.prev EXCEPT ![item] = h.prev[after], ![after] = item]
               child == [h.child EXCEPT ![p] = IF after = h.child[p] THEN item ELSE h.child[p]]
    <2>1. after \in Members(h, p) /\ item # after
      BY <1>7, RootsAreNotMembers
    <2>2. n = [h EXCEPT !.next = next, !.prev = prev, !.child = child]
      BY <1>0, <1>1, <1>7 DEF cJSON_InsertItemInArray, Heap
    <2> HIDE DEF next, prev, child
    <2>3. n.ref = h.ref /\ n.next = next /\ n.child = child /\ n.string = h.string
      BY <1>1, <2>2 DEF Heap
    <2>4. PICK i \in 1..Len(s) : s[i] = after
      BY <1>4, <2>1 DEF Holds
    <2>5. /\ after \in Items
          /\ h.child[p] = after <=> i = 1
          /\ i > 1 => h.prev[after] = s[i - 1] /\ s[i - 1] \in Items
          /\ \A j \in 1..Len(s) : s[j] \in Items
          /\ \A j \in 1..Len(s) : j # i - 1 => s[j] # h.prev[after]
          /\ i > 1 => i - 1 \in 1..Len(s)
      <3>1. Placed(h, p, s, i)
        BY <1>3, <1>4, <2>4, Neighbours
      <3> QED
        BY <1>3, <1>4, <2>4, <3>1 DEF Placed
    <2>6. n.next[item] = IF i <= Len(s) THEN s[i] ELSE NULL
      BY <1>1, <2>3, <2>4, <2>5 DEF next, Put
    <2>7. ASSUME i > 1 PROVE n.next[s[i - 1]] = item
      <3>1. PICK b \in Items : b = s[i - 1]
        BY <2>5, <2>7
      <3>2. h.prev[after] = b /\ b # item /\ after # h.child[p] /\ b # NULL
        BY <1>5, <2>5, <2>7, <3>1, HeapAssumption
      <3> QED
        BY <1>1, <2>3, <3>1, <3>2 DEF next, Put
    <2>8. \A j \in 1..Len(s) : j # i - 1 => n.next[s[j]] = h.next[s[j]]
      BY <1>1, <1>5, <2>3, <2>5 DEF next, Put
    <2>9. n.child[p] = IF i = 1 THEN item ELSE h.child[p]
      BY <1>1, <2>3, <2>5 DEF child
    <2>10. IsList(n, n.child[p], Forest!InsertAt(s, i, item))
      BY <1>1, <1>2, <1>4, <2>6, <2>7, <2>8, <2>9, ListInserted, i \in 1..Len(s) + 1
    <2>11. ListOf(n, p) = Forest!InsertAt(s, i, item)
      BY <1>1, <1>2, <2>10, ListOfIsList
    <2>12. \A q \in Items \ {p} : Kids(n)[q] = Kids(h)[q]
      <3>1. PICK D : D = {item} \cup (IF i > 1 THEN {h.prev[after]} ELSE {})
        OBVIOUS
      <3>2. \A b \in D : b \in Members(h, p) \/ b \in roots
        BY <1>4, <2>5, <3>1 DEF Holds
      <3>3. \A b \in Items \ D : n.next[b] = h.next[b]
        BY <1>1, <2>3, <2>4, <2>5, <3>1 DEF next, Put
      <3>4. \A q \in Items \ {p} : n.child[q] = h.child[q]
        BY <1>1, <2>3 DEF child
      <3> QED
        BY <1>2, <2>3, <3>2, <3>3, <3>4, OthersKeep
    <2>13. KidsBut(h, n, p, Forest!InsertAt(s, i, item))
      BY <1>1, <2>3, <2>11, <2>12 DEF KidsBut, Kids
    <2> QED
      BY <1>0, <1>3, <1>4, <2>3, <2>13, i \in 1..Len(s) + 1
  <1> QED
    BY <1>6, <1>7

LEMMA KidsDetached ==
    ASSUME NEW h, NEW roots, WellFormed(h, roots), NEW p \in h.live \ h.ref,
           NEW i \in 1..Len(Kids(h)[p])
    PROVE  LET n == cJSON_DetachItemViaPointer(h, p, Kids(h)[p][i])
           IN  /\ KidsBut(h, n, p, Forest!RemoveAt(Kids(h)[p], i))
               /\ n.string = h.string
  <1>1. /\ h \in Heap /\ p \in Items
        /\ h.child \in [Items -> Items \cup {NULL}] /\ h.next \in [Items -> Items \cup {NULL}]
        /\ h.prev \in [Items -> Items \cup {NULL}]
    BY PointersOf, HeapAssumption
  <1>2. PICK s : s = Kids(h)[p]
    OBVIOUS
  <1>3. PICK item : item = s[i]
    OBVIOUS
  <1>4. PICK n : n = cJSON_DetachItemViaPointer(h, p, item)
    OBVIOUS
  <1>5. /\ IsList(h, h.child[p], s) /\ s \in Seq(Items) /\ Len(s) \in Nat /\ i \in 1..Len(s)
        /\ \A b : b \in Members(h, p) <=> Holds(s, b)
    BY <1>2, KidsOfParent
  <1>6. /\ item \in Members(h, p) /\ item \in Items /\ item # NULL
        /\ h.child[p] = item <=> i = 1
        /\ i = 1 => h.prev[item] = NULL
        /\ i > 1 => h.prev[item] = s[i - 1] /\ s[i - 1] # item /\ s[i - 1] \in Items
        /\ \A j \in 1..Len(s) : s[j] \in Items
        /\ \A j \in 1..Len(s) : j # i => s[j] # item
        /\ \A j \in 1..Len(s) : j # i - 1 => s[j] # h.prev[item]
    <2>1. Placed(h, p, s, i)
      BY <1>2, <1>5, Neighbours
    <2> QED
      BY <1>3, <2>1 DEF Placed
  <1> DEFINE next == [Put(h.next, h.prev[item], h.next[item]) EXCEPT ![item] = NULL]
             prev == [Put(h.prev, h.next[item], h.prev[item]) EXCEPT ![item] = NULL]
             child == [h.child EXCEPT ![p] = IF h.child[p] = item THEN h.next[item]
                                             ELSE h.child[p]]
  <1>7. n = [h EXCEPT !.next = next, !.prev = prev, !.child = child, !.ret = item]
    BY <1>1, <1>4, <1>6 DEF cJSON_DetachItemViaPointer, Heap
  <1> HIDE DEF next, prev, child
  <1>8. n.ref = h.ref /\ n.next = next /\ n.child = child /\ n.string = h.string
    BY <1>1, <1>7 DEF Heap
  <1>9. n \in Heap
    <2>1. item \in Members(h, p) \cup {NULL}
      BY <1>6
    <2>2. WellFormed(n, roots \cup Returned(n))
      BY <1>4, <2>1, Detached
    <2> QED
      BY <2>2, PointersOf
  <1>10. ASSUME i > 1 PROVE n.next[s[i - 1]] = h.next[s[i]]
    <2>1. PICK b \in Items : b = s[i - 1]
      BY <1>6, <1>10
    <2>2. h.prev[item] = b /\ b # item /\ b # NULL
      BY <1>6, <1>10, <2>1, HeapAssumption
    <2> QED
      BY <1>1, <1>3, <1>8, <2>1, <2>2 DEF next, Put
  <1>11. \A j \in 1..Len(s) : j \notin {i - 1, i} => n.next[s[j]] = h.next[s[j]]
    BY <1>1, <1>6, <1>8 DEF next, Put
  <1>12. n.child[p] = IF i = 1 THEN h.next[s[i]] ELSE h.child[p]
    BY <1>1, <1>3, <1>6, <1>8 DEF child
  <1>13. IsList(n, n.child[p], Forest!RemoveAt(s, i))
    BY <1>1, <1>5, <1>9, <1>10, <1>11, <1>12, ListRemoved
  <1>14. ListOf(n, p) = Forest!RemoveAt(s, i)
    BY <1>1, <1>9, <1>13, ListOfIsList
  <1>15. \A q \in Items \ {p} : Kids(n)[q] = Kids(h)[q]
    <2>1. PICK D : D = {item} \cup (IF i > 1 THEN {h.prev[item]} ELSE {})
      OBVIOUS
    <2>2. \A b \in D : b \in Members(h, p) \/ b \in roots
      <3>1. ASSUME i > 1 PROVE i - 1 \in 1..Len(s)
        BY <1>5, <3>1
      <3> QED
        BY <1>5, <1>6, <2>1, <3>1 DEF Holds
    <2>3. \A b \in Items \ D : n.next[b] = h.next[b]
      BY <1>1, <1>5, <1>6, <1>8, <2>1 DEF next, Put
    <2>4. \A q \in Items \ {p} : n.child[q] = h.child[q]
      BY <1>1, <1>8 DEF child
    <2> QED
      BY <1>8, <1>9, <2>2, <2>3, <2>4, OthersKeep
  <1>16. KidsBut(h, n, p, Forest!RemoveAt(s, i))
    BY <1>1, <1>8, <1>14, <1>15 DEF KidsBut, Kids
  <1> QED
    BY <1>2, <1>3, <1>4, <1>8, <1>16

\* Before the item that is replaced is deleted.
LEMMA KidsExchanged ==
    ASSUME NEW h, NEW roots, WellFormed(h, roots), NEW p \in h.live \ h.ref,
           NEW i \in 1..Len(Kids(h)[p]), NEW item, item = Kids(h)[p][i],
           NEW r \in roots, NEW g \in Heap, g.ref = h.ref,
           g.next = [Put(h.next, h.prev[item], r) EXCEPT ![r] = h.next[item], ![item] = NULL],
           g.child = [h.child EXCEPT ![p] = IF h.child[p] = item THEN r ELSE h.child[p]]
    PROVE  KidsBut(h, g, p, Forest!ReplaceAt(Kids(h)[p], i, r))
  <1>1. /\ h \in Heap /\ p \in Items /\ r \in Items
        /\ h.child \in [Items -> Items \cup {NULL}] /\ h.next \in [Items -> Items \cup {NULL}]
        /\ h.prev \in [Items -> Items \cup {NULL}]
    BY PointersOf, HeapAssumption
  <1>2. PICK s : s = Kids(h)[p]
    OBVIOUS
  <1>5. /\ IsList(h, h.child[p], s) /\ s \in Seq(Items) /\ Len(s) \in Nat /\ i \in 1..Len(s)
        /\ item = s[i] /\ \A b : b \in Members(h, p) <=> Holds(s, b)
    BY <1>2, KidsOfParent
  <1>6. /\ item \in Members(h, p) /\ item \in Items /\ item # NULL
        /\ h.child[p] = item <=> i = 1
        /\ i = 1 => h.prev[item] = NULL
        /\ i > 1 => h.prev[item] = s[i - 1] /\ s[i - 1] # item /\ s[i - 1] \in Items
        /\ \A j \in 1..Len(s) : s[j] \in Items
        /\ \A j \in 1..Len(s) : j # i => s[j] # item
        /\ \A j \in 1..Len(s) : j # i - 1 => s[j] # h.prev[item]
    <2>1. Placed(h, p, s, i)
      BY <1>2, <1>5, Neighbours
    <2> QED
      BY <1>5, <2>1 DEF Placed
  <1>7. \A j \in 1..Len(s) : s[j] # r
    BY <1>5, RootsAreNotMembers DEF Holds
  <1>8. item # r
    BY <1>5, <1>7
  <1>9. g.next[r] = h.next[s[i]]
    BY <1>1, <1>5, <1>6, <1>8 DEF Put
  <1>10. ASSUME i > 1 PROVE g.next[s[i - 1]] = r
    <2>1. PICK b \in Items : b = s[i - 1]
      BY <1>6, <1>10
    <2>2. i - 1 \in 1..Len(s)
      BY <1>5, <1>10
    <2>3. h.prev[item] = b /\ b # item /\ b # NULL /\ b # r
      BY <1>6, <1>7, <1>10, <2>1, <2>2, HeapAssumption
    <2> QED
      BY <1>1, <1>6, <2>1, <2>3 DEF Put
  <1>11. \A j \in 1..Len(s) : j \notin {i - 1, i} => g.next[s[j]] = h.next[s[j]]
    BY <1>1, <1>6, <1>7 DEF Put
  <1>12. g.child[p] = IF i = 1 THEN r ELSE h.child[p]
    BY <1>1, <1>6
  <1>13. IsList(g, g.child[p], Forest!ReplaceAt(s, i, r))
    BY <1>1, <1>5, <1>9, <1>10, <1>11, <1>12, ListExchanged, ZenonT(60)
  <1>14. ListOf(g, p) = Forest!ReplaceAt(s, i, r)
    BY <1>1, <1>13, ListOfIsList
  <1>15. \A q \in Items \ {p} : Kids(g)[q] = Kids(h)[q]
    <2>1. PICK D : D = {item, r} \cup (IF i > 1 THEN {h.prev[item]} ELSE {})
      OBVIOUS
    <2>2. \A b \in D : b \in Members(h, p) \/ b \in roots
      <3>1. ASSUME i > 1 PROVE i - 1 \in 1..Len(s)
        BY <1>5, <3>1
      <3> QED
        BY <1>5, <1>6, <2>1, <3>1 DEF Holds
    <2>3. \A b \in Items \ D : g.next[b] = h.next[b]
      BY <1>1, <1>5, <1>6, <2>1 DEF Put
    <2>4. \A q \in Items \ {p} : g.child[q] = h.child[q]
      BY <1>1
    <2>5. /\ WellFormed(h, roots) /\ p \in h.live \ h.ref
          /\ g \in Heap /\ g.ref = h.ref
      OBVIOUS
    <2> QED
      BY ONLY <2>2, <2>3, <2>4, <2>5, OthersKeep
  <1> QED
    BY <1>1, <1>2, <1>14, <1>15 DEF KidsBut, Kids

LEMMA KidsDeleted ==
    ASSUME NEW h, NEW roots, WellFormed(h, roots), NEW a \in roots
    PROVE  LET n == cJSON_Delete(h, a)
               F == Freed(h, a)
           IN  \A q \in Items : /\ Kids(n)[q] = IF q \in F THEN <<>> ELSE Kids(h)[q]
                                /\ n.string[q] = IF q \in F THEN NULL ELSE h.string[q]
  <1>0. PICK n, F : n = cJSON_Delete(h, a) /\ F = Freed(h, a)
    OBVIOUS
  <1>1. h \in Heap /\ a \in Items /\ a \in Items \cup {NULL} /\ HeapOK(h)
    BY PointersOf DEF WellFormed
  <1>2. /\ n \in Heap /\ n.ref = h.ref \ F
        /\ n.next = Erase(h.next, F, NULL) /\ n.child = Erase(h.child, F, NULL)
    BY <1>0, <1>1, DeletedFields
  <1>3. n.string = Erase(h.string, F, NULL)
    BY <1>0, <1>1, DeletedStrings
  <1>4. ASSUME NEW q \in Items
        PROVE  Kids(n)[q] = IF q \in F THEN <<>> ELSE Kids(h)[q]
    <2>1. CASE q \in F
      <3>1. n.child[q] = NULL /\ q \notin n.ref
        BY <1>2, <2>1 DEF Erase
      <3>2. IsList(n, n.child[q], <<>>)
        BY <3>1 DEF IsList
      <3>3. ListOf(n, q) = <<>>
        BY <1>2, <3>2, ListOfIsList
      <3> QED
        BY <2>1, <3>1, <3>3 DEF Kids
    <2>2. CASE q \notin F /\ q \in h.ref
      BY <1>2, <2>2 DEF Kids
    <2>3. CASE q \notin F /\ q \notin h.ref
      <3>1. PICK s : s = ListOf(h, q)
        OBVIOUS
      <3>2. IsList(h, h.child[q], s) /\ \A b : b \in Members(h, q) <=> Holds(s, b)
        BY <2>3, <3>1, ListOfEnds
      <3>3. n.child[q] = h.child[q] /\ q \notin n.ref
        BY <1>2, <2>3 DEF Erase
      <3>4. \A j \in 1..Len(s) : n.next[s[j]] = h.next[s[j]]
        <4>1. CASE q \notin h.live
          <5>1. h.child[q] = NULL
            BY <1>1, <4>1 DEF HeapOK
          <5>2. IsList(h, NULL, <<>>)
            BY DEF IsList
          <5>3. s = <<>>
            BY <3>2, <5>1, <5>2, ListUnique
          <5> QED
            BY <5>3
        <4>2. CASE q \in h.live
          <5> SUFFICES ASSUME NEW j \in 1..Len(s) PROVE s[j] \in Items \ F
            BY <1>2 DEF Erase
          <5>1. s[j] \in Members(h, q) /\ s[j] \in Items
            BY <3>2 DEF Holds, IsList
          <5> QED
            BY <1>0, <2>3, <4>2, <5>1, MembersOutside
        <4> QED
          BY <4>1, <4>2
      <3>5. IsList(n, n.child[q], s)
        BY <3>2, <3>3, <3>4, ListUnchanged
      <3>6. ListOf(n, q) = s
        BY <1>2, <3>5, ListOfIsList
      <3> QED
        BY <2>3, <3>1, <3>3, <3>6 DEF Kids
    <2> QED
      BY <2>1, <2>2, <2>3
  <1> QED
    BY <1>0, <1>3, <1>4 DEF Erase

\* A new item has no members.
LEMMA KidsFresh ==
    ASSUME NEW h, NEW roots, Sound(h, roots), NEW n, n \in Heap, Fresh(h, n)
    PROVE  Kids(n) = Kids(h) /\ n.string = h.string
  <1>1. CASE n.ret = NULL
    <2>1. n.string = h.string /\ SameTree(h, n)
      BY <1>1, HeapAssumption DEF Fresh, SameStrings
    <2> QED
      BY <2>1, KidsSame
  <1>2. CASE n.ret # NULL
    <2>0. PICK a : a = n.ret
      OBVIOUS
    <2>1. /\ a \in Items \ h.live /\ n.ref \in {h.ref, h.ref \cup {a}}
          /\ n.next = h.next /\ \A p \in Items \ {a} : n.child[p] = h.child[p]
          /\ a \in n.ref \/ n.child[a] = h.child[a]
          /\ n.string = h.string
      BY <1>2, <2>0 DEF Fresh
    <2>2. h \in Heap /\ a \notin h.ref /\ h.child[a] = NULL
      BY <2>1 DEF Sound, WellFormed, HeapOK
    <2>3. ASSUME NEW g \in Heap, g.child[a] = NULL PROVE ListOf(g, a) = <<>>
      <3>1. IsList(g, g.child[a], <<>>)
        BY <2>3 DEF IsList
      <3> QED
        BY <2>1, <3>1, ListOfIsList
    <2>4. ASSUME NEW q \in Items PROVE Kids(n)[q] = Kids(h)[q]
      <3>1. CASE q = a
        BY <2>1, <2>2, <2>3, <3>1 DEF Kids
      <3>2. CASE q # a
        <4>1. n.next = h.next /\ n.child[q] = h.child[q]
          BY <2>1, <3>2
        <4>2. ListOf(n, q) = ListOf(h, q)
          BY <4>1, SameList
        <4> QED
          BY <2>1, <3>2, <4>2 DEF Kids
      <3> QED
        BY <3>1, <3>2
    <2>5. Kids(n) = Kids(h)
      BY <2>4 DEF Kids
    <2> QED
      BY <2>1, <2>5
  <1> QED
    BY <1>1, <1>2

-----------------------------------------------------------------------------
(* Trees of the forest *)

\* Forest!Below for the lists of any heap.
BelowCloses(h, S) == \A c \in S, b \in Items : Holds(Kids(h)[c], b) => b \in S
Below(h, a) == {b \in Items : \A S \in SUBSET Items : a \in S /\ BelowCloses(h, S) => b \in S}

LEMMA BelowIsClosed ==
    ASSUME NEW h, NEW a \in Items
    PROVE  Below(h, a) \subseteq Items /\ a \in Below(h, a) /\ BelowCloses(h, Below(h, a))
  BY DEF Below, BelowCloses

LEMMA BelowSmallest ==
    ASSUME NEW h, NEW a \in Items, NEW S \in SUBSET Items, a \in S, BelowCloses(h, S)
    PROVE  Below(h, a) \subseteq S
  BY DEF Below

\* What is below an item came there from a parent.
LEMMA BelowHasParent ==
    ASSUME NEW h, NEW a \in Items, NEW b \in Below(h, a), b # a
    PROVE  \E c \in Below(h, a) : Holds(Kids(h)[c], b)
  <1> SUFFICES ASSUME \A c \in Below(h, a) : ~Holds(Kids(h)[c], b)
               PROVE  FALSE
    OBVIOUS
  <1> DEFINE S == Below(h, a) \ {b}
  <1>1. S \in SUBSET Items /\ a \in S
    BY BelowIsClosed
  <1>2. BelowCloses(h, S)
    BY BelowIsClosed DEF BelowCloses
  <1> HIDE DEF S
  <1>3. Below(h, a) \subseteq S
    BY <1>1, <1>2, BelowSmallest
  <1> QED
    BY <1>3 DEF S

\* cJSON_Delete on an item with no successor visits what is below it.
LEMMA FreedIsBelow ==
    ASSUME NEW h, NEW roots, WellFormed(h, roots), NEW a \in h.live, h.next[a] = NULL
    PROVE  Freed(h, a) = Below(h, a)
  <1>1. /\ h \in Heap /\ a \in Items /\ a # NULL /\ h.live \subseteq Items
        /\ a \in Items \cup {NULL} /\ HeapOK(h) /\ NULL \notin Items
        /\ h.child \in [Items -> Items \cup {NULL}] /\ h.next \in [Items -> Items \cup {NULL}]
    BY PointersOf, HeapAssumption DEF WellFormed
  <1>2. ASSUME NEW c \in Items PROVE Kids(h)[c] = <<>> \/ (c \in h.live \ h.ref)
    <2>1. CASE c \in h.ref
      BY <2>1 DEF Kids
    <2>2. CASE c \notin h.ref /\ c \notin h.live
      <3>1. h.child[c] = NULL
        BY <1>1, <2>2 DEF HeapOK
      <3>2. IsList(h, h.child[c], <<>>)
        BY <3>1 DEF IsList
      <3>3. ListOf(h, c) = <<>>
        BY <1>1, <3>2, ListOfIsList
      <3> QED
        BY <2>2, <3>3 DEF Kids
    <2> QED
      BY <2>1, <2>2
  <1>3. Below(h, a) \subseteq Freed(h, a)
    <2>1. Freed(h, a) \in SUBSET Items /\ a \in Freed(h, a)
      BY <1>1, FreedCloses
    <2>2. BelowCloses(h, Freed(h, a))
      <3> SUFFICES ASSUME NEW c \in Freed(h, a), NEW b \in Items, Holds(Kids(h)[c], b)
                   PROVE  b \in Freed(h, a)
        BY DEF BelowCloses
      <3>1. c \in h.live \ h.ref
        BY <1>2, <2>1 DEF Holds
      <3>2. b \in Members(h, c)
        BY <3>1, KidsOfParent
      <3>3. h.child[c] \in Freed(h, a) \cup {NULL}
        BY <1>1, <3>1, FreedCloses
      <3>4. WalkCloses(h, {}, Freed(h, a))
        BY <1>1, FreedCloses DEF WalkCloses
      <3>5. Members(h, c) \subseteq Freed(h, a)
        BY <1>1, <2>1, <3>1, <3>3, <3>4, WalkedSmallest DEF Members
      <3> QED
        BY <3>2, <3>5
    <2> QED
      BY <1>1, <2>1, <2>2, BelowSmallest
  <1>4. Freed(h, a) \subseteq Below(h, a)
    <2> DEFINE B == Below(h, a)
    <2>1. B \in SUBSET Items /\ a \in B /\ a \in B \cup {NULL}
      BY <1>1, BelowIsClosed
    <2>2. ASSUME NEW b \in B PROVE h.next[b] \in B \cup {NULL}
      <3>1. CASE b = a
        BY <3>1
      <3>2. CASE b # a
        <4>1. PICK c \in B : Holds(Kids(h)[c], b)
          BY <1>1, <3>2, BelowHasParent
        <4>2. c \in h.live \ h.ref
          BY <1>2, <2>1, <4>1 DEF Holds
        <4>3. b \in Members(h, c)
          BY <4>1, <4>2, KidsOfParent
        <4>4. h.next[b] \in Members(h, c) \cup {NULL}
          BY <1>1, <4>2, <4>3, WalkedCloses DEF Members, WalkCloses
        <4>5. h.next[b] # NULL => Holds(Kids(h)[c], h.next[b]) /\ h.next[b] \in Items
          BY <1>1, <2>1, <4>2, <4>4, KidsOfParent
        <4> QED
          BY <1>1, <4>1, <4>5, BelowIsClosed DEF BelowCloses
      <3> QED
        BY <3>1, <3>2
    <2>3. ASSUME NEW b \in B, b \notin h.ref PROVE h.child[b] \in B \cup {NULL}
      <3> SUFFICES ASSUME h.child[b] # NULL PROVE h.child[b] \in B
        OBVIOUS
      <3>1. b \in Items /\ h.child[b] \in Items
        BY <1>1, <2>1
      <3>2. b \in h.live \ h.ref
        BY <1>1, <2>3, <3>1 DEF HeapOK
      <3>3. h.child[b] \in Members(h, b)
        BY <1>1, <3>1, WalkedCloses DEF Members
      <3>4. Holds(Kids(h)[b], h.child[b])
        BY <3>2, <3>3, KidsOfParent
      <3> QED
        BY <1>1, <3>1, <3>4, BelowIsClosed DEF BelowCloses
    <2> HIDE DEF B
    <2>4. DeleteCloses(h, B)
      BY <2>2, <2>3 DEF DeleteCloses
    <2>5. Freed(h, a) \subseteq B
      BY <1>1, <2>1, <2>4, FreedSmallest
    <2> QED
      BY <2>5 DEF B
  <1> QED
    BY <1>3, <1>4

\* What changes outside a tree leaves the tree as it is.
LEMMA BelowUnchanged ==
    ASSUME NEW h, NEW g, NEW p \in Items, NEW a \in Items, p \notin Below(g, a),
           \A q \in Items \ {p} : Kids(g)[q] = Kids(h)[q]
    PROVE  Below(h, a) = Below(g, a)
  <1>1. /\ Below(g, a) \in SUBSET Items /\ a \in Below(g, a) /\ BelowCloses(g, Below(g, a))
        /\ Below(h, a) \in SUBSET Items /\ a \in Below(h, a) /\ BelowCloses(h, Below(h, a))
    BY BelowIsClosed
  <1>2. Below(h, a) \subseteq Below(g, a)
    <2>1. BelowCloses(h, Below(g, a))
      BY <1>1 DEF BelowCloses
    <2> QED
      BY <1>1, <2>1, BelowSmallest
  <1>3. Below(g, a) \subseteq Below(h, a)
    <2>1. BelowCloses(g, Below(h, a))
      BY <1>1, <1>2 DEF BelowCloses
    <2> QED
      BY <1>1, <2>1, BelowSmallest
  <1> QED
    BY <1>2, <1>3

\* An item is not below its member, once the member is taken out.
LEMMA ParentNotBelow ==
    ASSUME NEW h, NEW roots, Sound(h, roots), NEW p \in h.live \ h.ref,
           NEW item \in Members(h, p)
    PROVE  p \notin Freed(cJSON_DetachItemViaPointer(h, p, item), item)
  <1>0. PICK n, x, F : /\ n = cJSON_DetachItemViaPointer(h, p, item)
                       /\ x = Before(h, p, item) /\ F = Freed(n, item)
    OBVIOUS
  <1>1. /\ WellFormed(h, roots) /\ Grounded(h) /\ item \in h.live /\ item # NULL
        /\ x \in h.live /\ Pred(h, x, item) /\ NULL \notin h.live
    BY <1>0, MemberPred, PointersOf, HeapAssumption DEF Sound, Anchored
  <1>2. /\ WellFormed(n, roots \cup {item}) /\ Splice(n, h, x, item, h.next[item])
    <2>1. item \in Members(h, p) \cup {NULL}
      OBVIOUS
    <2>2. WellFormed(n, roots \cup Returned(n)) /\ n.ret = item
      BY <1>0, <1>1, <2>1, Detached
    <2>3. Splice(n, h, x, item, h.next[item])
      BY <1>0, <1>1, <2>1, SoundDetached
    <2> QED
      BY <1>1, <2>2, <2>3 DEF Returned
  <1>3. n.live = h.live /\ n.ref = h.ref
    BY <1>2 DEF Splice
  <1> SUFFICES ASSUME p \in F PROVE FALSE
    BY <1>0
  <1>4. /\ F \subseteq h.live /\ item \in F
        /\ \A c \in F, b \in h.live : Pred(n, c, b) => b \in F
        /\ \A b \in F \ {item} : \E c \in F : Pred(n, c, b)
    BY <1>0, <1>1, <1>2, <1>3, FreedIsLive
  \* The member before the item is still a member.
  <1>5. x \in F
    <2>1. CASE h.child[p] = item
      BY <1>0, <2>1 DEF Before
    <2>2. CASE h.child[p] # item
      <3>1. x = h.prev[item] /\ x \in Members(h, p) \ {item}
        BY <1>0, <1>1, <2>2, MemberPred DEF Before
      <3>2. PICK s : s = Kids(h)[p]
        OBVIOUS
      <3>3. PICK i \in 1..Len(s) : s[i] = item
        BY <1>1, <3>2, KidsOfParent DEF Holds
      <3>4. KidsBut(h, n, p, Forest!RemoveAt(s, i))
        BY <1>0, <1>1, <3>2, <3>3, KidsDetached
      <3>5. s \in Seq(Items) /\ Len(s) \in Nat
        BY <1>1, <3>2, KidsOfParent
      <3>6. PICK k \in 1..Len(s) : s[k] = x
        BY <1>1, <3>1, <3>2, KidsOfParent DEF Holds
      <3>7. k # i
        BY <3>1, <3>3, <3>6
      <3>8. PICK t : t = Forest!RemoveAt(s, i)
        OBVIOUS
      <3>9. /\ Len(t) = Len(s) - 1
            /\ \A j \in 1..Len(s) - 1 : t[j] = IF j < i THEN s[j] ELSE s[j + 1]
        BY <3>5, <3>8, RemoveAtSpelledOut
      <3>10. Holds(t, x)
        <4>1. CASE k < i
          <5>1. k \in 1..Len(t) /\ t[k] = s[k]
            BY <3>5, <3>9, <4>1
          <5> QED
            BY <3>6, <5>1 DEF Holds
        <4>2. CASE k > i
          <5>1. PICK j : j = k - 1
            OBVIOUS
          <5>2. j \in 1..Len(s) - 1 /\ ~(j < i) /\ j + 1 = k
            BY <3>5, <4>2, <5>1
          <5>3. t[j] = s[k] /\ j \in 1..Len(t)
            BY <3>9, <5>2
          <5> QED
            BY <3>6, <5>3 DEF Holds
        <4> QED
          BY <3>5, <3>7, <4>1, <4>2
      <3>11. x \in Members(n, p)
        <4>1. Kids(n)[p] = t
          BY <3>4, <3>8 DEF KidsBut
        <4> QED
          BY <1>2, <1>3, <3>10, <4>1, KidsOfParent
      <3>12. n \in Heap /\ item \in Items /\ p \in Items
        BY <1>1, <1>2, PointersOf
      <3>13. F \in SUBSET Items /\ n.child[p] \in F \cup {NULL} /\ WalkCloses(n, {}, F)
        BY <1>0, <1>3, <3>12, FreedCloses DEF WalkCloses
      <3>14. Members(n, p) \subseteq F
        <4>1. n.child[p] \in Items \cup {NULL}
          BY <3>12 DEF Heap
        <4> QED
          BY <3>12, <3>13, <4>1, WalkedSmallest DEF Members
      <3> QED
        BY <3>11, <3>14
    <2> QED
      BY <2>1, <2>2
  <1>6. ASSUME NEW b \in F PROVE \E c \in F : Pred(h, c, b)
    <2>1. CASE b = item
      BY <1>1, <1>5, <2>1
    <2>2. CASE b # item /\ b = h.next[item]
      BY <1>4, <2>2 DEF Pred
    <2>3. CASE b \notin {item, h.next[item]}
      <3>1. PICK c \in F : Pred(n, c, b)
        BY <1>4, <2>3
      <3> QED
        BY <1>2, <1>3, <1>4, <2>3, <3>1 DEF Splice
    <2> QED
      BY <2>1, <2>2, <2>3
  <1>7. F \in SUBSET h.live
    BY <1>4
  <1> QED
    BY <1>1, <1>4, <1>6, <1>7 DEF Grounded

-----------------------------------------------------------------------------
(* The steps of the forest, between two heaps *)

\* What the forest sees of a heap.
View(h) == <<Kids(h), h.string>>

\* No one's member.
Apart(h, a) == \A q \in Items : ~Holds(Kids(h)[q], a)

Attaches(h, g, p, i, a) ==
    /\ KidsBut(h, g, p, Forest!InsertAt(Kids(h)[p], i, a))
    /\ KeysBut(h, g, {a})
    /\ Apart(h, a) /\ p \notin Below(h, a)

Renames(h, g, a) == Apart(h, a) /\ Kids(g) = Kids(h) /\ KeysBut(h, g, {a})

Detaches(h, g, p, i) ==
    KidsBut(h, g, p, Forest!RemoveAt(Kids(h)[p], i)) /\ g.string = h.string

Loses(h, g, a, p, s) ==
    /\ \A q \in Items : Kids(g)[q] = IF q \in Below(h, a) THEN <<>>
                                     ELSE IF q = p THEN s ELSE Kids(h)[q]
    /\ \A b \in Below(h, a) : g.string[b] = NULL

Discards(h, g, a) == Apart(h, a) /\ Loses(h, g, a, a, <<>>) /\ KeysBut(h, g, Below(h, a))

DetachesAndDiscards(h, g, p, i) ==
    /\ Loses(h, g, Kids(h)[p][i], p, Forest!RemoveAt(Kids(h)[p], i))
    /\ KeysBut(h, g, Below(h, Kids(h)[p][i]))

Exchanges(h, g, p, i, a) ==
    /\ Loses(h, g, Kids(h)[p][i], p, Forest!ReplaceAt(Kids(h)[p], i, a))
    /\ KeysBut(h, g, Below(h, Kids(h)[p][i]) \cup {a})
    /\ Apart(h, a) /\ p \notin Below(h, a)

\* One step of the forest, or none, leads from h to g.
Moves(h, g) ==
    \/ View(g) = View(h)
    \/ \E p, a \in Items : \E i \in 1..Len(Kids(h)[p]) + 1 : Attaches(h, g, p, i, a)
    \/ \E a \in Items : Renames(h, g, a) \/ Discards(h, g, a)
    \/ \E p \in Items : \E i \in 1..Len(Kids(h)[p]) :
         \/ Detaches(h, g, p, i)
         \/ DetachesAndDiscards(h, g, p, i)
         \/ \E a \in Items : Exchanges(h, g, p, i, a)

LEMMA SameMoves ==
    ASSUME NEW h, NEW g, NEW h1, NEW g1, View(h1) = View(h), View(g1) = View(g), Moves(h, g)
    PROVE  Moves(h1, g1)
  <1>1. /\ Kids(h1) = Kids(h) /\ Kids(g1) = Kids(g)
        /\ h1.string = h.string /\ g1.string = g.string
    BY DEF View
  <1>2. \A a : Below(h1, a) = Below(h, a) /\ Apart(h1, a) = Apart(h, a)
    BY <1>1 DEF Below, BelowCloses, Apart
  <1>3. \A p, s : KidsBut(h1, g1, p, s) = KidsBut(h, g, p, s)
    BY <1>1 DEF KidsBut
  <1>4. \A S : KeysBut(h1, g1, S) = KeysBut(h, g, S)
    BY <1>1 DEF KeysBut
  <1>5. \A a, p, s : Loses(h1, g1, a, p, s) = Loses(h, g, a, p, s)
    BY <1>1, <1>2 DEF Loses
  <1>6. CASE View(g) = View(h)
    BY <1>6 DEF Moves
  <1>7. ASSUME NEW p \in Items, NEW a \in Items, NEW i \in 1..Len(Kids(h)[p]) + 1,
               Attaches(h, g, p, i, a)
        PROVE  Moves(h1, g1)
    <2>1. Attaches(h1, g1, p, i, a)
      BY <1>1, <1>2, <1>3, <1>4, <1>7 DEF Attaches
    <2> QED
      BY <1>1, <2>1 DEF Moves
  <1>8. ASSUME NEW a \in Items, Renames(h, g, a) \/ Discards(h, g, a) PROVE Moves(h1, g1)
    <2>1. Renames(h1, g1, a) \/ Discards(h1, g1, a)
      BY <1>1, <1>2, <1>4, <1>5, <1>8 DEF Renames, Discards
    <2> QED
      BY <1>1, <2>1 DEF Moves
  <1>9. ASSUME NEW p \in Items, NEW i \in 1..Len(Kids(h)[p]), Detaches(h, g, p, i)
        PROVE  Moves(h1, g1)
    BY <1>1, <1>3, <1>9 DEF Moves, Detaches
  <1>10. ASSUME NEW p \in Items, NEW i \in 1..Len(Kids(h)[p]), DetachesAndDiscards(h, g, p, i)
         PROVE  Moves(h1, g1)
    BY <1>1, <1>2, <1>4, <1>5, <1>10 DEF Moves, DetachesAndDiscards
  <1>11. ASSUME NEW p \in Items, NEW i \in 1..Len(Kids(h)[p]), NEW a \in Items,
                Exchanges(h, g, p, i, a)
         PROVE  Moves(h1, g1)
    <2>1. Exchanges(h1, g1, p, i, a)
      BY <1>1, <1>2, <1>4, <1>5, <1>11 DEF Exchanges
    <2> QED
      BY <1>1, <2>1 DEF Moves
  <1> QED
    BY <1>6, <1>7, <1>8, <1>9, <1>10, <1>11 DEF Moves

\* What is not live, and a reference, has no members.
LEMMA ParentsAreLive ==
    ASSUME NEW h, NEW roots, WellFormed(h, roots), NEW q \in Items
    PROVE  q \in h.live \ h.ref \/ Kids(h)[q] = <<>>
  <1>1. h \in Heap /\ HeapOK(h)
    BY DEF WellFormed, HeapOK
  <1>2. CASE q \in h.ref
    BY <1>2 DEF Kids
  <1>3. CASE q \notin h.ref /\ q \notin h.live
    <2>1. h.child[q] = NULL
      BY <1>1, <1>3 DEF HeapOK
    <2>2. IsList(h, h.child[q], <<>>)
      BY <2>1 DEF IsList
    <2>3. ListOf(h, q) = <<>>
      BY <1>1, <2>2, ListOfIsList
    <2> QED
      BY <1>3, <2>3 DEF Kids
  <1> QED
    BY <1>2, <1>3

LEMMA RootsAreApart ==
    ASSUME NEW h, NEW roots, WellFormed(h, roots), NEW a \in roots
    PROVE  /\ a \in h.live /\ a \in Items /\ h.next[a] = NULL
           /\ Apart(h, a) /\ Freed(h, a) = Below(h, a)
  <1>1. a \in h.live /\ a \in Items /\ h.next[a] = NULL
    BY PointersOf
  <1>2. ASSUME NEW q \in Items, Holds(Kids(h)[q], a) PROVE FALSE
    <2>1. q \in h.live \ h.ref
      BY <1>2, ParentsAreLive DEF Holds
    <2>2. a \in Members(h, q)
      BY <1>2, <2>1, KidsOfParent
    <2> QED
      BY <2>1, <2>2, RootsAreNotMembers
  <1> QED
    BY <1>1, <1>2, FreedIsBelow DEF Apart

\* A call that changes neither the pointers nor the keys.
LEMMA SameViews ==
    ASSUME NEW h, NEW g, SameTree(h, g), g.string = h.string
    PROVE  View(g) = View(h)
  BY KidsSame DEF View

LEMMA CallViews ==
    ASSUME NEW h \in Heap, NEW m, NEW r
    PROVE  /\ View([h EXCEPT !.mem = m]) = View(h)
           /\ View([h EXCEPT !.ret = r]) = View(h)
           /\ View([h EXCEPT !.mem = m, !.ret = r]) = View(h)
  <1>1. ASSUME NEW g, \/ g = [h EXCEPT !.mem = m] \/ g = [h EXCEPT !.ret = r]
                      \/ g = [h EXCEPT !.mem = m, !.ret = r]
        PROVE  View(g) = View(h)
    <2>1. SameTree(h, g) /\ g.string = h.string
      BY <1>1 DEF Heap, SameTree
    <2> QED
      BY <2>1, SameViews
  <1> QED
    BY <1>1

-----------------------------------------------------------------------------
(* Every call is a step of the forest *)

LEMMA AppendMoves ==
    ASSUME NEW h, NEW roots, Sound(h, roots), NEW p \in h.live \ h.ref,
           NEW item \in roots \cup {NULL}, item # NULL => p \notin Freed(h, item)
    PROVE  Moves(h, add_item_to_array(h, p, item))
  <1>0. PICK n, s : n = add_item_to_array(h, p, item) /\ s = Kids(h)[p]
    OBVIOUS
  <1>1. WellFormed(h, roots) /\ h \in Heap /\ p \in Items
    BY PointersOf DEF Sound
  <1>2. CASE item = NULL
    <2>1. n = [h EXCEPT !.ret = NULL]
      BY <1>0, <1>2 DEF add_item_to_array
    <2>2. View(n) = View(h)
      BY <1>1, <2>1, CallViews
    <2> QED
      BY <1>0, <2>2 DEF Moves
  <1>3. CASE item # NULL
    <2>1. /\ item \in roots /\ item \in Items /\ Apart(h, item)
          /\ p \notin Below(h, item)
      BY <1>1, <1>3, RootsAreApart
    <2>2. KidsBut(h, n, p, Forest!InsertAt(s, Len(s) + 1, item)) /\ n.string = h.string
      BY <1>0, <1>1, <2>1, KidsAppended
    <2>3. Attaches(h, n, p, Len(s) + 1, item)
      BY <1>0, <2>1, <2>2 DEF Attaches, KeysBut
    <2>4. Len(s) + 1 \in 1..Len(Kids(h)[p]) + 1
      BY <1>0, <1>1, KidsOfParent
    <2> QED
      BY <1>0, <1>1, <2>1, <2>3, <2>4 DEF Moves
  <1> QED
    BY <1>2, <1>3

LEMMA InsertMoves ==
    ASSUME NEW h, NEW roots, Sound(h, roots), NEW p \in h.live \ h.ref,
           NEW after \in Members(h, p) \cup {NULL}, NEW item \in roots, p \notin Freed(h, item)
    PROVE  Moves(h, cJSON_InsertItemInArray(h, p, after, item))
  <1>0. PICK n : n = cJSON_InsertItemInArray(h, p, after, item)
    OBVIOUS
  <1>1. WellFormed(h, roots) /\ h \in Heap /\ p \in Items
    BY PointersOf DEF Sound
  <1>2. /\ item \in Items /\ Apart(h, item) /\ p \notin Below(h, item)
    BY <1>1, RootsAreApart
  <1>3. /\ \E i \in 1..Len(Kids(h)[p]) + 1 :
             KidsBut(h, n, p, Forest!InsertAt(Kids(h)[p], i, item))
        /\ n.string = h.string
    BY <1>0, <1>1, KidsInserted
  <1>4. \E i \in 1..Len(Kids(h)[p]) + 1 : Attaches(h, n, p, i, item)
    BY <1>2, <1>3 DEF Attaches, KeysBut
  <1> QED
    BY <1>0, <1>1, <1>2, <1>4 DEF Moves

\* The key is set before the item is linked.
LEMMA AddToObjectMoves ==
    ASSUME NEW h, NEW roots, Sound(h, roots), NEW p \in h.live \ h.ref,
           NEW item \in roots \cup {NULL}, item # NULL => p \notin Freed(h, item),
           NEW name \in Strings, NEW constant_key \in BOOLEAN
    PROVE  LET n == add_item_to_object(h, p, name, item, constant_key)
           IN  Moves(h, n) /\ (n.ret = NULL => View(n) = View(h))
  <1>0. PICK n : n = add_item_to_object(h, p, name, item, constant_key)
    OBVIOUS
  <1>1. /\ WellFormed(h, roots) /\ h \in Heap /\ roots \subseteq h.live
        /\ p \in Items /\ h.live \subseteq Items
    BY PointersOf DEF Sound
  <1>2. CASE item = NULL \/ ~(constant_key \/ CanCopy(h, name))
    <2>1. n = [h EXCEPT !.ret = NULL]
      BY <1>0, <1>2 DEF add_item_to_object
    <2>2. View(n) = View(h)
      BY <1>1, <2>1, CallViews
    <2> QED
      BY <1>0, <2>2 DEF Moves
  <1>3. CASE ~(item = NULL \/ ~(constant_key \/ CanCopy(h, name)))
    <2>0. PICK c, g :
           /\ c = IF constant_key THEN h ELSE Copied(h)
           /\ g = SetString(c, item, name, constant_key)
      OBVIOUS
    <2>1. n = add_item_to_array(g, p, item)
      BY <1>0, <1>3, <2>0 DEF add_item_to_object
    <2>2. \/ c = h /\ (constant_key \/ name = NULL)
          \/ h.mem > 0 /\ c = Copied(h) /\ ~constant_key /\ name # NULL
      BY <1>3, <2>0, HeapAssumption DEF CanCopy
    <2>3. item \in h.live /\ name \in Strings \cup {NULL} /\ item \in roots /\ item \in Items
      BY <1>1, <1>3
    <2>4. Sound(g, roots) /\ SameTree(h, g)
      BY <2>0, <2>2, <2>3, SoundRenamed
    <2>5. WellFormed(g, roots) /\ p \in g.live \ g.ref
      BY <2>4 DEF SameTree, Sound
    <2>6. Kids(g) = Kids(h)
      BY <2>4, KidsSame
    <2>7. g.string = [h.string EXCEPT ![item] = name]
      BY <1>1, <2>0 DEF Heap, Copied, SetString
    <2>8. PICK s : s = Kids(h)[p]
      OBVIOUS
    <2>9. KidsBut(g, n, p, Forest!InsertAt(s, Len(s) + 1, item)) /\ n.string = g.string
      BY <2>1, <2>3, <2>5, <2>6, <2>8, KidsAppended
    <2>10. Apart(h, item) /\ p \notin Below(h, item)
      BY <1>1, <1>3, <2>3, RootsAreApart
    <2>11. h.string \in [Items -> Strings \cup {NULL}]
      BY <1>1, HeapFields
    <2>12. KeysBut(h, n, {item})
      BY <2>7, <2>9, <2>11 DEF KeysBut
    <2>13. Attaches(h, n, p, Len(s) + 1, item)
      BY <2>6, <2>8, <2>9, <2>10, <2>12 DEF Attaches, KidsBut
    <2>14. Len(s) + 1 \in 1..Len(Kids(h)[p]) + 1
      BY <1>1, <2>8, KidsOfParent
    <2>15. n.ret # NULL
      <3>1. item \in roots \cup {NULL}
        OBVIOUS
      <3>2. n.ret = item
        BY <2>1, <2>5, <3>1, Appended
      <3> QED
        BY <1>3, <3>2
    <2> QED
      BY <1>0, <1>1, <2>3, <2>13, <2>14, <2>15 DEF Moves
  <1> QED
    BY <1>2, <1>3

LEMMA DetachMoves ==
    ASSUME NEW h, NEW roots, Sound(h, roots), NEW p \in h.live \ h.ref,
           NEW item \in Members(h, p) \cup {NULL}
    PROVE  Moves(h, cJSON_DetachItemViaPointer(h, p, item))
  <1>0. PICK n : n = cJSON_DetachItemViaPointer(h, p, item)
    OBVIOUS
  <1>1. WellFormed(h, roots) /\ h \in Heap /\ p \in Items
    BY PointersOf DEF Sound
  <1>2. CASE item = NULL
    <2>1. n = [h EXCEPT !.ret = NULL]
      BY <1>0, <1>2 DEF cJSON_DetachItemViaPointer
    <2>2. View(n) = View(h)
      BY <1>1, <2>1, CallViews
    <2> QED
      BY <1>0, <2>2 DEF Moves
  <1>3. CASE item # NULL
    <2>1. PICK i \in 1..Len(Kids(h)[p]) : Kids(h)[p][i] = item
      BY <1>1, <1>3, KidsOfParent DEF Holds
    <2>2. Detaches(h, n, p, i)
      BY <1>0, <1>1, <2>1, KidsDetached DEF Detaches
    <2> QED
      BY <1>0, <1>1, <2>2 DEF Moves
  <1> QED
    BY <1>2, <1>3

LEMMA DeleteMoves ==
    ASSUME NEW h, NEW roots, Sound(h, roots), NEW a \in roots
    PROVE  Moves(h, cJSON_Delete(h, a))
  <1>0. PICK n, F : n = cJSON_Delete(h, a) /\ F = Freed(h, a)
    OBVIOUS
  <1>1. WellFormed(h, roots)
    BY DEF Sound
  <1>2. a \in Items /\ Apart(h, a) /\ F = Below(h, a)
    BY <1>0, <1>1, RootsAreApart
  <1>3. \A q \in Items : /\ Kids(n)[q] = IF q \in F THEN <<>> ELSE Kids(h)[q]
                         /\ n.string[q] = IF q \in F THEN NULL ELSE h.string[q]
    BY <1>0, <1>1, KidsDeleted
  <1>4. F \subseteq Items /\ a \in F
    BY <1>2, BelowIsClosed
  <1>5. Discards(h, n, a)
    BY <1>2, <1>3, <1>4 DEF Discards, Loses, KeysBut
  <1> QED
    BY <1>0, <1>2, <1>5 DEF Moves

LEMMA NothingFreed ==
    ASSUME NEW h, h \in Heap
    PROVE  View(cJSON_Delete(h, NULL)) = View(h)
  <1>0. PICK n, F : n = cJSON_Delete(h, NULL) /\ F = Freed(h, NULL)
    OBVIOUS
  <1>1. NULL \in Items \cup {NULL} /\ h \in Heap
    OBVIOUS
  <1>2. F = {}
    <2>1. NULL \in {} \cup {NULL} /\ DeleteCloses(h, {})
      BY DEF DeleteCloses
    <2> QED
      BY <1>0, <1>1, <2>1, FreedSmallest
  <1>3. /\ n.live = h.live \ F /\ n.ref = h.ref \ F
        /\ n.next = Erase(h.next, F, NULL) /\ n.child = Erase(h.child, F, NULL)
    BY <1>0, <1>1, DeletedFields
  <1>4. n.string = Erase(h.string, F, NULL)
    BY <1>0, <1>1, DeletedStrings
  <1>5. /\ h.next \in [Items -> Items \cup {NULL}] /\ h.child \in [Items -> Items \cup {NULL}]
        /\ h.string \in [Items -> Strings \cup {NULL}]
    BY HeapFields
  <1>6. n.next = h.next /\ n.child = h.child /\ n.string = h.string
    BY <1>2, <1>3, <1>4, <1>5 DEF Erase
  <1>7. SameTree(h, n)
    BY <1>2, <1>3, <1>6 DEF SameTree
  <1> QED
    BY <1>0, <1>6, <1>7, SameViews

\* From h to k the i-th member of p is taken out: it has all below it that it
\* had in the list, and p is not among them.
TakesOut(h, k, roots, p, i, item) ==
    /\ KidsBut(h, k, p, Forest!RemoveAt(Kids(h)[p], i)) /\ k.string = h.string
    /\ item \in Items /\ item # NULL /\ item \in Members(h, p)
    /\ Sound(k, roots \cup {item})
    /\ Freed(k, item) = Below(h, item) /\ Below(k, item) = Below(h, item)
    /\ p \notin Below(h, item)

LEMMA TakenOut ==
    ASSUME NEW h, NEW roots, Sound(h, roots), NEW p \in h.live \ h.ref,
           NEW i \in 1..Len(Kids(h)[p])
    PROVE  LET item == Kids(h)[p][i]
           IN  TakesOut(h, cJSON_DetachItemViaPointer(h, p, item), roots, p, i, item)
  <1>0. PICK item, k : item = Kids(h)[p][i] /\ k = cJSON_DetachItemViaPointer(h, p, item)
    OBVIOUS
  <1>1. WellFormed(h, roots) /\ h \in Heap /\ p \in Items
    BY PointersOf DEF Sound
  <1>2. item \in Members(h, p) /\ item \in Items /\ item # NULL
    <2>1. Placed(h, p, Kids(h)[p], i)
      BY <1>0, <1>1, Neighbours
    <2> QED
      BY <1>0, <2>1 DEF Placed
  <1>3. KidsBut(h, k, p, Forest!RemoveAt(Kids(h)[p], i)) /\ k.string = h.string
    BY <1>0, <1>1, KidsDetached
  <1>4. item \in Members(h, p) \cup {NULL}
    BY <1>2
  <1>5. k.ret = item
    BY <1>0, <1>1, <1>4, Detached
  <1>6. Sound(k, roots \cup {item})
    <2>1. Sound(k, roots \cup Returned(k))
      BY <1>0, <1>4, SoundDetached
    <2>2. Returned(k) = {item}
      BY <1>2, <1>5 DEF Returned
    <2> QED
      BY <2>1, <2>2
  <1>7. Freed(k, item) = Below(k, item)
    <2>1. WellFormed(k, roots \cup {item}) /\ item \in roots \cup {item}
      BY <1>6 DEF Sound
    <2> QED
      BY <2>1, RootsAreApart
  <1>8. p \notin Below(k, item)
    BY <1>0, <1>2, <1>7, ParentNotBelow
  <1>9. \A q \in Items \ {p} : Kids(k)[q] = Kids(h)[q]
    BY <1>3 DEF KidsBut
  <1>10. Below(h, item) = Below(k, item)
    BY <1>1, <1>2, <1>8, <1>9, BelowUnchanged
  <1> QED
    BY <1>0, <1>2, <1>3, <1>6, <1>7, <1>8, <1>10 DEF TakesOut

LEMMA DetachDeleteMoves ==
    ASSUME NEW h, NEW roots, Sound(h, roots), NEW p \in h.live \ h.ref,
           NEW item \in Members(h, p) \cup {NULL}
    PROVE  Moves(h, cJSON_Delete(cJSON_DetachItemViaPointer(h, p, item), item))
  <1>0. PICK k, n : k = cJSON_DetachItemViaPointer(h, p, item) /\ n = cJSON_Delete(k, item)
    OBVIOUS
  <1>1. WellFormed(h, roots) /\ h \in Heap /\ p \in Items
    BY PointersOf DEF Sound
  <1>2. CASE item = NULL
    <2>1. k = [h EXCEPT !.ret = NULL]
      BY <1>0, <1>2 DEF cJSON_DetachItemViaPointer
    <2>2. View(k) = View(h)
      BY <1>1, <2>1, CallViews
    <2>3. k \in Heap
      BY <1>1, <2>1 DEF Heap
    <2>4. View(n) = View(h)
      BY <1>0, <1>2, <2>2, <2>3, NothingFreed
    <2> QED
      BY <1>0, <2>4 DEF Moves
  <1>3. CASE item # NULL
    <2>1. PICK i \in 1..Len(Kids(h)[p]) : Kids(h)[p][i] = item
      BY <1>1, <1>3, KidsOfParent DEF Holds
    <2>2. PICK B, s : B = Below(h, item) /\ s = Forest!RemoveAt(Kids(h)[p], i)
      OBVIOUS
    <2>3. /\ KidsBut(h, k, p, s) /\ k.string = h.string
          /\ item \in Items
          /\ Sound(k, roots \cup {item})
          /\ Freed(k, item) = B /\ p \notin B
      <3>1. TakesOut(h, k, roots, p, i, item)
        BY <1>0, <2>1, TakenOut
      <3> QED
        BY <2>2, <3>1 DEF TakesOut
    <2>4. B \subseteq Items /\ item \in B
      BY <2>2, <2>3, BelowIsClosed
    <2>5. WellFormed(k, roots \cup {item}) /\ item \in roots \cup {item}
      BY <2>3 DEF Sound
    <2>6. \A q \in Items : /\ Kids(n)[q] = IF q \in B THEN <<>> ELSE Kids(k)[q]
                           /\ n.string[q] = IF q \in B THEN NULL ELSE k.string[q]
      BY <1>0, <2>3, <2>5, KidsDeleted
    <2>7. Loses(h, n, item, p, s)
      BY <2>2, <2>3, <2>4, <2>6 DEF Loses, KidsBut
    <2>8. KeysBut(h, n, B)
      BY <2>3, <2>6 DEF KeysBut
    <2>9. DetachesAndDiscards(h, n, p, i)
      BY <2>1, <2>2, <2>7, <2>8 DEF DetachesAndDiscards
    <2> QED
      BY <1>0, <1>1, <2>9 DEF Moves
  <1> QED
    BY <1>2, <1>3

\* The call that adds what it creates.
LEMMA AddCreatedMoves ==
    ASSUME NEW h, NEW roots, Sound(h, roots), NEW p \in h.live \ h.ref,
           NEW n, Creates(h, roots, n), Fresh(h, n), NEW name \in Strings
    PROVE  Moves(h, AddCreatedToObject(n, p, name))
  <1>0. PICK added, g :
         /\ added = add_item_to_object(n, p, name, n.ret, FALSE)
         /\ g = AddCreatedToObject(n, p, name)
    OBVIOUS
  <1>1. /\ WellFormed(h, roots) /\ roots \subseteq h.live /\ n \in Heap
        /\ p \in n.live \ n.ref /\ n.ret \in (Items \ h.live) \cup {NULL}
        /\ WellFormed(n, roots \cup Returned(n))
    BY PointersOf DEF Sound, Creates
  <1>2. Sound(n, roots \cup Returned(n))
    BY SoundFresh
  <1>3. n.ret \in (roots \cup Returned(n)) \cup {NULL}
    BY DEF Returned
  <1>4. n.ret # NULL => p \notin Freed(n, n.ret)
    <2>1. n.ret # NULL => n.ret # p
      BY <1>1
    <2> QED
      BY <1>1, <2>1, FreshFreed
  <1>5. /\ Sound(added, (roots \cup Returned(n)) \ Returned(added))
        /\ added.ret \in {n.ret, NULL}
    BY <1>0, <1>1, <1>2, <1>3, <1>4, SoundAddedToObject, AddedToObject, FALSE \in BOOLEAN
  <1>6. Moves(n, added) /\ (added.ret = NULL => View(added) = View(n))
    BY <1>0, <1>1, <1>2, <1>3, <1>4, AddToObjectMoves, FALSE \in BOOLEAN
  <1>7. View(h) = View(n)
    BY <1>1, KidsFresh DEF View
  <1>8. g = IF added.ret # NULL THEN added
            ELSE [cJSON_Delete(added, n.ret) EXCEPT !.ret = NULL]
    BY <1>0 DEF AddCreatedToObject
  <1>9. CASE added.ret # NULL
    BY <1>0, <1>6, <1>7, <1>8, <1>9, SameMoves
  <1>10. CASE added.ret = NULL
    <2>0. PICK d : d = cJSON_Delete(added, n.ret)
      OBVIOUS
    <2>1. added \in Heap
      BY <1>5, PointersOf DEF Sound
    <2>2. d \in Heap
      <3>1. n.ret \in Items \cup {NULL}
        BY <1>1
      <3> QED
        BY <2>0, <2>1, <3>1, DeletedFields
    <2>3. View(g) = View(d)
      BY <1>8, <1>10, <2>0, <2>2, CallViews
    <2>4. View(h) = View(added)
      BY <1>6, <1>7, <1>10
    <2>5. Moves(added, d)
      <3>1. CASE n.ret = NULL
        <4>1. View(d) = View(added)
          BY <2>0, <2>1, <3>1, NothingFreed
        <4> QED
          BY <4>1 DEF Moves
      <3>2. CASE n.ret # NULL
        <4>1. n.ret \in (roots \cup Returned(n)) \ Returned(added)
          BY <1>10, <3>2 DEF Returned
        <4> QED
          BY <1>5, <2>0, <4>1, DeleteMoves
      <3> QED
        BY <3>1, <3>2
    <2>6. Moves(h, g)
      BY <2>3, <2>4, <2>5, SameMoves
    <2> QED
      BY <1>0, <2>6
  <1> QED
    BY <1>9, <1>10

\* The replacement takes the place of the item, which is deleted: the tree below
\* the item is what it would be were it taken out instead.
LEMMA Replacement ==
    ASSUME NEW h, NEW roots, Sound(h, roots), NEW p \in h.live \ h.ref,
           NEW i \in 1..Len(Kids(h)[p]), NEW item, item = Kids(h)[p][i],
           NEW r \in roots, NEW n, n = cJSON_ReplaceItemViaPointer(h, p, item, r)
    PROVE  /\ Loses(h, n, item, p, Forest!ReplaceAt(Kids(h)[p], i, r))
           /\ KeysBut(h, n, Below(h, item))
  <1> DEFINE next == [Put(h.next, h.prev[item], r) EXCEPT ![r] = h.next[item], ![item] = NULL]
             prev == [Put(h.prev, h.next[item], r) EXCEPT ![r] = h.prev[item], ![item] = NULL]
             child == [h.child EXCEPT ![p] = IF h.child[p] = item THEN r ELSE h.child[p]]
  <1>1. WellFormed(h, roots) /\ h \in Heap /\ p \in Items /\ h.const \subseteq h.live
    BY PointersOf DEF Sound, WellFormed, HeapOK
  <1>2. PICK k : k = cJSON_DetachItemViaPointer(h, p, item)
    OBVIOUS
  <1>3. /\ KidsBut(h, k, p, Forest!RemoveAt(Kids(h)[p], i))
        /\ item \in Items /\ item # NULL /\ item \in Members(h, p)
        /\ Below(k, item) = Below(h, item) /\ p \notin Below(h, item)
    <2>1. TakesOut(h, k, roots, p, i, item)
      BY <1>2, TakenOut
    <2> QED
      BY <2>1 DEF TakesOut
  <1>4. PICK g : g = [h EXCEPT !.next = next, !.prev = prev, !.child = child]
    OBVIOUS
  <1>5. r # item /\ r \in Items
    BY <1>1, <1>3, RootsAreNotMembers, PointersOf
  <1>6. n = cJSON_Delete(g, item)
    BY <1>1, <1>3, <1>4, <1>5 DEF cJSON_ReplaceItemViaPointer, Heap
  <1>7. /\ next \in [Items -> Items \cup {NULL}] /\ prev \in [Items -> Items \cup {NULL}]
        /\ child \in [Items -> Items \cup {NULL}]
    <2>1. /\ h.next \in [Items -> Items \cup {NULL}] /\ h.prev \in [Items -> Items \cup {NULL}]
          /\ h.child \in [Items -> Items \cup {NULL}]
      BY <1>1, HeapFields
    <2> QED
      BY <1>3, <1>5, <2>1 DEF Put
  <1> HIDE DEF next, prev, child
  <1>8. /\ g \in Heap /\ g.live = h.live /\ g.ref = h.ref /\ g.const = h.const
        /\ g.next = next /\ g.prev = prev /\ g.child = child /\ g.string = h.string
    BY <1>1, <1>4, <1>7 DEF Heap
  <1>9. WellFormed(g, (roots \ {r}) \cup {item})
    BY <1>1, <1>3, <1>5, <1>8, Exchange DEF next, prev, child
  <1>10. PICK s, B : s = Forest!ReplaceAt(Kids(h)[p], i, r) /\ B = Below(h, item)
    OBVIOUS
  <1>11. KidsBut(h, g, p, s)
    <2>1. /\ WellFormed(h, roots) /\ p \in h.live \ h.ref /\ i \in 1..Len(Kids(h)[p])
          /\ item = Kids(h)[p][i] /\ r \in roots /\ g \in Heap /\ g.ref = h.ref
      BY <1>1, <1>8
    <2>2. /\ g.next = [Put(h.next, h.prev[item], r) EXCEPT ![r] = h.next[item], ![item] = NULL]
          /\ g.child = [h.child EXCEPT ![p] = IF h.child[p] = item THEN r ELSE h.child[p]]
      BY <1>8 DEF next, child
    <2>3. KidsBut(h, g, p, Forest!ReplaceAt(Kids(h)[p], i, r))
      BY <2>1, <2>2, KidsExchanged
    <2> QED
      BY <1>10, <2>3
  <1>12. Freed(g, item) = Below(g, item)
    BY <1>9, RootsAreApart, item \in (roots \ {r}) \cup {item}
  <1>13. Below(g, item) = B
    <2>1. \A q \in Items \ {p} : Kids(k)[q] = Kids(g)[q]
      BY <1>3, <1>11 DEF KidsBut
    <2>2. p \notin Below(k, item)
      BY <1>3
    <2>3. Below(g, item) = Below(k, item)
      BY <1>1, <1>3, <2>1, <2>2, BelowUnchanged
    <2> QED
      BY <1>3, <1>10, <2>3
  <1>14. \A q \in Items : /\ Kids(n)[q] = IF q \in B THEN <<>> ELSE Kids(g)[q]
                          /\ n.string[q] = IF q \in B THEN NULL ELSE g.string[q]
    BY <1>6, <1>9, <1>12, <1>13, KidsDeleted, item \in (roots \ {r}) \cup {item}
  <1>15. B \subseteq Items
    BY <1>3, <1>10, BelowIsClosed
  <1>16. Loses(h, n, item, p, s)
    BY <1>3, <1>10, <1>11, <1>14, <1>15 DEF Loses, KidsBut
  <1>17. KeysBut(h, n, B)
    BY <1>8, <1>14 DEF KeysBut
  <1> QED
    BY <1>10, <1>16, <1>17

LEMMA ReplaceMoves ==
    ASSUME NEW h, NEW roots, Sound(h, roots), NEW p \in h.live \ h.ref,
           NEW item \in Members(h, p) \cup {NULL}, NEW r \in roots, p \notin Freed(h, r)
    PROVE  Moves(h, cJSON_ReplaceItemViaPointer(h, p, item, r))
  <1>0. PICK n : n = cJSON_ReplaceItemViaPointer(h, p, item, r)
    OBVIOUS
  <1>1. WellFormed(h, roots) /\ p \in Items
    BY PointersOf DEF Sound
  <1>2. CASE item = NULL
    <2>1. n = h
      BY <1>0, <1>2 DEF cJSON_ReplaceItemViaPointer
    <2> QED
      BY <1>0, <2>1 DEF Moves
  <1>3. CASE item # NULL
    <2>1. PICK i \in 1..Len(Kids(h)[p]) : item = Kids(h)[p][i]
      BY <1>1, <1>3, KidsOfParent DEF Holds
    <2>2. /\ Loses(h, n, item, p, Forest!ReplaceAt(Kids(h)[p], i, r))
          /\ KeysBut(h, n, Below(h, item))
      BY <1>0, <2>1, Replacement
    <2>3. r \in Items /\ Apart(h, r) /\ p \notin Below(h, r)
      BY <1>1, RootsAreApart
    <2>4. Exchanges(h, n, p, i, r)
      BY <2>1, <2>2, <2>3 DEF Exchanges, KeysBut
    <2> QED
      BY <1>0, <1>1, <2>3, <2>4 DEF Moves
  <1> QED
    BY <1>2, <1>3

\* The replacement is renamed before the item is looked for.
LEMMA ReplaceInObjectMoves ==
    ASSUME NEW h, NEW roots, Sound(h, roots), NEW p \in h.live \ h.ref,
           NEW r \in roots, p \notin Freed(h, r), NEW name \in Strings, NEW cs
    PROVE  Moves(h, replace_item_in_object(h, p, name, r, cs))
  <1>0. PICK c, key : /\ c = IF CanCopy(h, name) THEN Copied(h) ELSE h
                      /\ key = IF CanCopy(h, name) THEN name ELSE NULL
    OBVIOUS
  <1>1. PICK owned \in BOOLEAN : owned = FALSE
    OBVIOUS
  <1>2. PICK g : g = SetString(c, r, key, owned)
    OBVIOUS
  <1>3. PICK item : item = get_object_item(g, p, name, cs)
    OBVIOUS
  <1>4. PICK n : n = cJSON_ReplaceItemViaPointer(g, p, item, r)
    OBVIOUS
  <1>5. replace_item_in_object(h, p, name, r, cs) = n
    BY <1>0, <1>1, <1>2, <1>3, <1>4, Zenon DEF replace_item_in_object
  <1>6. WellFormed(h, roots) /\ h \in Heap /\ r \in h.live /\ p \in Items
    BY PointersOf DEF Sound
  <1>7. /\ \/ c = h /\ (owned \/ key = NULL)
           \/ h.mem > 0 /\ c = Copied(h) /\ ~owned /\ key # NULL
        /\ key \in Strings \cup {NULL}
    <2>1. CASE CanCopy(h, name)
      BY <1>0, <1>1, <2>1 DEF CanCopy
    <2>2. CASE ~CanCopy(h, name)
      BY <1>0, <1>1, <2>2
    <2> QED
      BY <2>1, <2>2
  <1>8. Sound(g, roots) /\ SameTree(h, g)
    BY <1>2, <1>6, <1>7, SoundRenamed
  <1>9. Kids(g) = Kids(h) /\ p \in g.live \ g.ref /\ WellFormed(g, roots) /\ g \in Heap
    BY <1>8, KidsSame, PointersOf DEF SameTree, Sound
  <1>10. \A b \in Items \ {r} : g.string[b] = h.string[b]
    <2>1. g.string = [h.string EXCEPT ![r] = key]
      BY <1>2, <1>6, <1>7 DEF Heap, Copied, SetString
    <2>2. h.string \in [Items -> Strings \cup {NULL}]
      BY <1>6, HeapFields
    <2> QED
      BY <2>1, <2>2
  <1>11. r \in Items /\ Apart(h, r) /\ p \notin Below(h, r)
    BY <1>6, RootsAreApart
  <1>12. item \in Members(g, p) \cup {NULL}
    BY <1>3, <1>6, <1>9, GetObjectItem
  <1>13. CASE item = NULL
    <2>1. n = g
      BY <1>4, <1>13 DEF cJSON_ReplaceItemViaPointer
    <2>2. Renames(h, n, r)
      BY <1>9, <1>10, <1>11, <2>1 DEF Renames, KeysBut
    <2> QED
      BY <1>5, <1>11, <2>2 DEF Moves
  <1>14. CASE item # NULL
    <2>1. PICK i \in 1..Len(Kids(g)[p]) : item = Kids(g)[p][i]
      BY <1>9, <1>12, <1>14, KidsOfParent DEF Holds
    <2>2. /\ Loses(g, n, item, p, Forest!ReplaceAt(Kids(g)[p], i, r))
          /\ KeysBut(g, n, Below(g, item))
      BY <1>4, <1>8, <1>9, <2>1, Replacement
    <2>3. Below(g, item) = Below(h, item)
      BY <1>9 DEF Below, BelowCloses
    <2>4. Loses(h, n, item, p, Forest!ReplaceAt(Kids(h)[p], i, r))
      BY <1>9, <2>2, <2>3 DEF Loses
    <2>5. KeysBut(h, n, Below(h, item) \cup {r})
      BY <1>10, <2>2, <2>3 DEF KeysBut
    <2>6. Exchanges(h, n, p, i, r)
      BY <1>9, <1>11, <2>1, <2>4, <2>5 DEF Exchanges
    <2>7. i \in 1..Len(Kids(h)[p])
      BY <1>9
    <2> QED
      BY <1>5, <1>6, <1>11, <2>6, <2>7 DEF Moves
  <1> QED
    BY <1>12, <1>13, <1>14

-----------------------------------------------------------------------------
(* The forest *)

LEMMA KidsAreItems ==
    ASSUME NEW h, NEW roots, WellFormed(h, roots), NEW c \in Items
    PROVE  Kids(h)[c] \in Seq(Items)
  <1>1. CASE c \in h.live \ h.ref
    BY <1>1, KidsOfParent
  <1>2. CASE c \notin h.live \ h.ref
    <2>1. Kids(h)[c] = <<>>
      BY <1>2, ParentsAreLive
    <2> QED
      BY <2>1
  <1> QED
    BY <1>1, <1>2

\* The forest's words for what the heaps' predicates say.
LEMMA ForestWords ==
    ASSUME NEW roots, WellFormed(heap, roots)
    PROVE  /\ KidsOf = Kids(heap) /\ KidsOf' = Kids(heap')
           /\ \A a \in Items : Forest!Below(a) = Below(heap, a)
           /\ \A a \in Items : Apart(heap, a) => Forest!Root(a)
  <1>1. KidsOf = Kids(heap) /\ KidsOf' = Kids(heap')
    BY DEF KidsOf, Kids
  <1>2. \A c \in Items : Kids(heap)[c] \in Seq(Items)
    BY KidsAreItems
  <1>3. \A c \in Items : \A b : b \in Forest!Range(KidsOf[c]) <=> Holds(Kids(heap)[c], b)
    BY <1>1, <1>2 DEF Forest!Range, Holds
  <1>4. \A c \in Items : \A b : Holds(Kids(heap)[c], b) => b \in Items
    BY <1>2 DEF Holds
  <1>5. ASSUME NEW S \in SUBSET Items
        PROVE  (\A c \in S : Forest!Range(KidsOf[c]) \subseteq S) <=> BelowCloses(heap, S)
    BY <1>3, <1>4 DEF BelowCloses
  <1>6. ASSUME NEW a \in Items PROVE Forest!Below(a) = Below(heap, a)
    BY <1>5 DEF Forest!Below, Below
  <1>7. ASSUME NEW a \in Items, Apart(heap, a) PROVE Forest!Root(a)
    BY <1>3, <1>7 DEF Apart, Forest!Root
  <1> QED
    BY <1>1, <1>6, <1>7

LEMMA MovesAreSteps ==
    ASSUME NEW roots, WellFormed(heap, roots), Moves(heap, heap')
    PROVE  [Forest!Next]_<<KidsOf, heap.string>>
  <1>1. /\ KidsOf = Kids(heap) /\ KidsOf' = Kids(heap')
        /\ \A a \in Items : Forest!Below(a) = Below(heap, a)
        /\ \A a \in Items : Apart(heap, a) => Forest!Root(a)
    BY ForestWords
  <1>2. CASE View(heap') = View(heap)
    BY <1>1, <1>2 DEF View
  <1> SUFFICES ASSUME KidsOf' # KidsOf \/ heap.string' # heap.string
               PROVE  Forest!Next
    OBVIOUS
  <1>3. ASSUME NEW p \in Items, NEW a \in Items, NEW i \in 1..Len(Kids(heap)[p]) + 1,
               Attaches(heap, heap', p, i, a)
        PROVE  Forest!Next
    <2>1. Forest!Attach(p, i, a)
      BY <1>1, <1>3 DEF Attaches, KidsBut, KeysBut,
         Forest!Attach, Forest!OnlyMembers, Forest!OnlyKeys
    <2> QED
      BY <1>1, <2>1 DEF Forest!Next
  <1>4. ASSUME NEW a \in Items, Renames(heap, heap', a)
        PROVE  Forest!Next
    <2>1. Forest!Rename(a)
      BY <1>1, <1>4 DEF Renames, KeysBut, Forest!Rename, Forest!OnlyKeys
    <2> QED
      BY <1>1, <2>1 DEF Forest!Next
  <1>5. ASSUME NEW a \in Items, NEW p \in Items, NEW s, Loses(heap, heap', a, p, s)
        PROVE  Forest!Gone(a, p, s)
    BY <1>1, <1>5 DEF Loses, Forest!Gone
  <1>6. ASSUME NEW S \in SUBSET Items, KeysBut(heap, heap', S)
        PROVE  Forest!OnlyKeys(S)
    BY <1>6 DEF KeysBut, Forest!OnlyKeys
  <1>7. \A a \in Items : Below(heap, a) \in SUBSET Items
    BY BelowIsClosed
  <1>8. ASSUME NEW a \in Items, Discards(heap, heap', a)
        PROVE  Forest!Next
    <2>1. Forest!Discard(a)
      BY <1>1, <1>5, <1>6, <1>7, <1>8 DEF Discards, Forest!Discard
    <2> QED
      BY <1>1, <2>1 DEF Forest!Next
  <1>9. ASSUME NEW p \in Items, NEW i \in 1..Len(Kids(heap)[p]), Detaches(heap, heap', p, i)
        PROVE  Forest!Next
    <2>1. Forest!Detach(p, i)
      BY <1>1, <1>9 DEF Detaches, KidsBut, Forest!Detach, Forest!OnlyMembers
    <2> QED
      BY <1>1, <2>1 DEF Forest!Next
  <1>10. ASSUME NEW p \in Items, NEW i \in 1..Len(Kids(heap)[p])
         PROVE  Kids(heap)[p][i] \in Items
    BY KidsAreItems
  <1>11. ASSUME NEW p \in Items, NEW i \in 1..Len(Kids(heap)[p]),
                DetachesAndDiscards(heap, heap', p, i)
         PROVE  Forest!Next
    <2>1. Forest!DetachAndDiscard(p, i)
      BY <1>1, <1>5, <1>6, <1>7, <1>10, <1>11 DEF DetachesAndDiscards, Forest!DetachAndDiscard
    <2> QED
      BY <1>1, <2>1 DEF Forest!Next
  <1>12. ASSUME NEW p \in Items, NEW i \in 1..Len(Kids(heap)[p]), NEW a \in Items,
                Exchanges(heap, heap', p, i, a)
         PROVE  Forest!Next
    <2>1. Forest!Exchange(p, i, a)
      BY <1>1, <1>5, <1>6, <1>7, <1>10, <1>12, ZenonT(60) DEF Exchanges, Forest!Exchange
    <2> QED
      BY <1>1, <2>1 DEF Forest!Next
  <1> QED
    BY <1>2, <1>3, <1>4, <1>8, <1>9, <1>11, <1>12 DEF Moves

\* What a call returns with is the heap it left.
LEMMA ReturnMoves ==
    ASSUME NEW n \in Heap, NEW roots, Return(n, roots), Moves(heap, n)
    PROVE  Moves(heap, heap')
  <1>1. View(heap') = View(n)
    <2>1. PICK m, r : m = 0 /\ r = NULL
      OBVIOUS
    <2>2. View([n EXCEPT !.mem = m, !.ret = r]) = View(n)
      BY CallViews, ZenonT(60)
    <2> QED
      BY <2>1, <2>2 DEF Return
  <1> QED
    BY <1>1, SameMoves

\* The heap a call starts from.
LEMMA CalledViews ==
    ASSUME Kept, NEW n \in Nat, NEW h \in Calls(n)
    PROVE  View(h) = View(heap)
  <1>1. PICK m \in 0..n : h = [heap EXCEPT !.mem = m]
    BY DEF Calls
  <1>2. heap \in Heap
    BY PointersOf DEF Kept, Sound
  <1> QED
    BY <1>1, <1>2, CallViews

LEMMA FreshMoves ==
    ASSUME NEW h, NEW roots, Sound(h, roots), NEW n, Creates(h, roots, n), Fresh(h, n)
    PROVE  Moves(h, n) /\ Sound(n, roots \cup Returned(n))
  <1>1. Sound(n, roots \cup Returned(n))
    BY SoundFresh
  <1>2. n \in Heap
    BY <1>1, PointersOf DEF Sound
  <1>3. View(n) = View(h)
    BY <1>2, KidsFresh DEF View
  <1> QED
    BY <1>1, <1>3 DEF Moves

LEMMA NextMoves == ASSUME Kept, Next PROVE Moves(heap, heap')
  <1> USE TreeAssumption
  <1>1. /\ Sound(heap, held) /\ WellFormed(heap, held)
        /\ heap \in Heap /\ heap.live \subseteq Items
        /\ held \subseteq heap.live /\ Parents \subseteq heap.live \ heap.ref
        /\ \A p \in Parents : \A item \in Loose(p) : item \in held /\ p \notin Freed(heap, item)
    BY PointersOf DEF Kept, Sound, Parents, Loose
  <1>2. 0 \in Int /\ {"String", "Object"} \subseteq Types
    BY DEF Types
  <1>3. ASSUME NEW h, View(h) = View(heap), NEW n, NEW some, Sound(n, some), Moves(h, n),
               NEW roots, Return(n, roots)
        PROVE  Moves(heap, heap')
    <2>1. n \in Heap
      BY <1>3, PointersOf DEF Sound
    <2>2. Moves(heap, n)
      BY <1>3, SameMoves
    <2> QED
      BY <1>3, <2>1, <2>2, ReturnMoves
  <1>4. ASSUME NEW m \in Nat, NEW h \in Calls(m)
        PROVE  /\ Sound(h, held) /\ WellFormed(h, held) /\ View(h) = View(heap)
               /\ h.live = heap.live /\ h.ref = heap.ref
               /\ \A a : Freed(h, a) = Freed(heap, a)
    <2>1. Sound(h, held) /\ SameTree(heap, h)
      BY KeptCalled
    <2>2. View(h) = View(heap)
      BY CalledViews
    <2> QED
      BY <2>1, <2>2, SameFreed DEF SameTree, Sound
  <1>5. CASE Create
    <2>1. ASSUME NEW h \in Calls(1), NEW k \in Kinds,
                 Return(CreateItem(h, k, 0), held \cup Returned(CreateItem(h, k, 0)))
          PROVE  Moves(heap, heap')
      <3>1. Sound(h, held) /\ WellFormed(h, held) /\ View(h) = View(heap)
        BY <1>4
      <3>2. Creates(h, held, CreateItem(h, k, 0)) /\ Fresh(h, CreateItem(h, k, 0))
        BY <1>2, <3>1, ItemCreated, FreshItem
      <3> QED
        BY <1>3, <2>1, <3>1, <3>2, FreshMoves
    <2>2. ASSUME NEW h \in Calls(2), NEW s \in Texts,
                 Return(CreateText(h, "String", s),
                        held \cup Returned(CreateText(h, "String", s)))
          PROVE  Moves(heap, heap')
      <3>1. Sound(h, held) /\ WellFormed(h, held) /\ View(h) = View(heap)
        BY <1>4
      <3>2. Creates(h, held, CreateText(h, "String", s)) /\ Fresh(h, CreateText(h, "String", s))
        BY <1>2, <3>1, TextCreated, FreshText
      <3> QED
        BY <1>3, <2>2, <3>1, <3>2, FreshMoves
    <2> QED
      BY <1>5, <2>1, <2>2 DEF Create
  <1>6. CASE CreateShared
    <2>1. ASSUME NEW h \in Calls(1), NEW s \in Strings \cup {NULL}, NEW c \in Items \cup {NULL},
                 NEW type \in {"String", "Object"},
                 Return(CreateReference(h, type, s, c),
                        held \cup Returned(CreateReference(h, type, s, c)))
          PROVE  Moves(heap, heap')
      <3>1. Sound(h, held) /\ WellFormed(h, held) /\ View(h) = View(heap)
        BY <1>4
      <3>2. /\ Creates(h, held, CreateReference(h, type, s, c))
            /\ Fresh(h, CreateReference(h, type, s, c))
        BY <1>2, <3>1, ReferenceCreated, FreshReference
      <3> QED
        BY <1>3, <2>1, <3>1, <3>2, FreshMoves
    <2> QED
      BY <1>1, <1>6, <2>1 DEF CreateShared
  <1>7. CASE AddItemToArray
    <2>0. PICK p \in Parents : \E item \in Loose(p) :
            Return(add_item_to_array(heap, p, item),
                   held \ Returned(add_item_to_array(heap, p, item)))
      BY <1>7 DEF AddItemToArray
    <2>1. PICK item \in Loose(p) :
            Return(add_item_to_array(heap, p, item),
                   held \ Returned(add_item_to_array(heap, p, item)))
      BY <2>0
    <2>2. PICK n : n = add_item_to_array(heap, p, item)
      OBVIOUS
    <2>3. p \in heap.live \ heap.ref /\ item \in held \cup {NULL} /\ p \notin Freed(heap, item)
      BY <1>1
    <2>4. Sound(n, held \ Returned(n)) /\ Moves(heap, n)
      BY <1>1, <2>2, <2>3, SoundAppended, AppendMoves
    <2> QED
      BY <1>3, <2>1, <2>2, <2>4
  <1>8. CASE AddItemToObject
    <2>0. PICK p \in Parents : \E item \in Loose(p), h \in Calls(1), name \in Keys, ck \in BOOLEAN :
            Return(add_item_to_object(h, p, name, item, ck),
                   held \ Returned(add_item_to_object(h, p, name, item, ck)))
      BY <1>8 DEF AddItemToObject
    <2>1. PICK item \in Loose(p), h \in Calls(1), name \in Keys, ck \in BOOLEAN :
            Return(add_item_to_object(h, p, name, item, ck),
                   held \ Returned(add_item_to_object(h, p, name, item, ck)))
      BY <2>0
    <2>2. PICK n : n = add_item_to_object(h, p, name, item, ck)
      OBVIOUS
    <2>3. Sound(h, held) /\ View(h) = View(heap)
      BY <1>4
    <2>4. /\ p \in h.live \ h.ref /\ item \in held \cup {NULL} /\ p \notin Freed(h, item)
          /\ name \in Strings
      BY <1>1, <1>4
    <2>5. Sound(n, held \ Returned(n))
      BY <2>2, <2>3, <2>4, SoundAddedToObject
    <2>6. Moves(h, n)
      BY <2>2, <2>3, <2>4, AddToObjectMoves
    <2> QED
      BY <1>3, <2>1, <2>2, <2>3, <2>5, <2>6
  <1>9. CASE AddItemReference
    <2>1. PICK h \in Calls(2), p \in Parents, item \in heap.live :
            LET n == create_reference(h, item)
            IN  \/ Return(add_item_to_array(n, p, n.ret), held)
                \/ \E name \in Keys : Return(add_item_to_object(n, p, name, n.ret, FALSE), held)
      BY <1>9 DEF AddItemReference
    <2>2. PICK n : n = create_reference(h, item)
      OBVIOUS
    <2>3. Sound(h, held) /\ WellFormed(h, held) /\ View(h) = View(heap)
      BY <1>4
    <2>4. p \in h.live \ h.ref /\ item \in h.live
      BY <1>1, <1>4
    <2>5. Creates(h, held, n) /\ Fresh(h, n)
      BY <2>2, <2>3, <2>4, ReferenceMade, FreshCopyOfItem
    <2>6. Sound(n, held \cup Returned(n))
      BY <2>3, <2>5, FreshMoves
    <2>7. /\ p \in n.live \ n.ref /\ n.ret \in (held \cup Returned(n)) \cup {NULL}
          /\ n \in Heap
      <3>1. n \in Heap
        BY <2>6, PointersOf DEF Sound
      <3> QED
        BY <2>4, <2>5, <3>1 DEF Creates, Returned
    <2>8. n.ret # NULL => p \notin Freed(n, n.ret)
      <3>1. n.ret # NULL => n.ret # p
        BY <2>4, <2>5 DEF Creates
      <3> QED
        BY <2>3, <2>5, <2>7, <3>1, FreshFreed
    <2>9. View(n) = View(heap)
      BY <2>3, <2>5, <2>7, KidsFresh DEF View
    <2>10. CASE Return(add_item_to_array(n, p, n.ret), held)
      <3>1. PICK g : g = add_item_to_array(n, p, n.ret)
        OBVIOUS
      <3>2. Sound(g, (held \cup Returned(n)) \ Returned(g)) /\ Moves(n, g)
        BY <2>6, <2>7, <2>8, <3>1, SoundAppended, AppendMoves
      <3> QED
        BY <1>3, <2>9, <2>10, <3>1, <3>2
    <2>11. ASSUME NEW name \in Keys, Return(add_item_to_object(n, p, name, n.ret, FALSE), held)
           PROVE  Moves(heap, heap')
      <3>1. PICK g : g = add_item_to_object(n, p, name, n.ret, FALSE)
        OBVIOUS
      <3>2. Sound(g, (held \cup Returned(n)) \ Returned(g))
        BY <2>6, <2>7, <2>8, <3>1, SoundAddedToObject, name \in Strings, FALSE \in BOOLEAN
      <3>3. Moves(n, g)
        BY <2>6, <2>7, <2>8, <3>1, AddToObjectMoves, name \in Strings, FALSE \in BOOLEAN
      <3> QED
        BY <1>3, <2>9, <2>11, <3>1, <3>2, <3>3
    <2> QED
      BY <2>1, <2>2, <2>10, <2>11
  <1>10. CASE AddToObject
    <2>1. PICK h \in Calls(3), p \in Parents, name \in Keys :
            \/ \E k \in Kinds : Return(AddCreatedToObject(CreateItem(h, k, 0), p, name), held)
            \/ \E s \in Texts :
                 Return(AddCreatedToObject(CreateText(h, "String", s), p, name), held)
      BY <1>10 DEF AddToObject
    <2>2. Sound(h, held) /\ WellFormed(h, held) /\ View(h) = View(heap)
      BY <1>4
    <2>3. p \in h.live \ h.ref /\ name \in Strings
      BY <1>1, <1>4
    <2>4. ASSUME NEW n, Creates(h, held, n), Fresh(h, n),
                 Return(AddCreatedToObject(n, p, name), held)
          PROVE  Moves(heap, heap')
      BY <1>3, <2>2, <2>3, <2>4, SoundAddedCreated, AddCreatedMoves
    <2>5. \A k \in Kinds : Creates(h, held, CreateItem(h, k, 0)) /\ Fresh(h, CreateItem(h, k, 0))
      BY <1>2, <2>2, ItemCreated, FreshItem
    <2>6. \A s \in Texts : Creates(h, held, CreateText(h, "String", s))
                           /\ Fresh(h, CreateText(h, "String", s))
      BY <1>2, <2>2, TextCreated, FreshText
    <2> QED
      BY <2>1, <2>4, <2>5, <2>6
  <1>11. CASE InsertItemInArray
    <2>0. PICK p \in Parents : \E item \in Loose(p), at \in ArrayItems(heap, p) :
            Return(cJSON_InsertItemInArray(heap, p, at, item), held \ {item})
      BY <1>11 DEF InsertItemInArray
    <2>1. PICK item \in Loose(p), at \in ArrayItems(heap, p) :
            Return(cJSON_InsertItemInArray(heap, p, at, item), held \ {item})
      BY <2>0
    <2>2. /\ p \in heap.live \ heap.ref /\ item \in held /\ p \notin Freed(heap, item)
          /\ at \in Members(heap, p) \cup {NULL}
      BY <1>1 DEF ArrayItems
    <2>3. /\ Sound(cJSON_InsertItemInArray(heap, p, at, item), held \ {item})
          /\ Moves(heap, cJSON_InsertItemInArray(heap, p, at, item))
      BY <1>1, <2>2, SoundInserted, InsertMoves
    <2> QED
      BY <1>3, <2>1, <2>3
  <1>12. ASSUME NEW p \in Parents
         PROVE  Chosen(p) \subseteq Members(heap, p) \cup {NULL}
    BY <1>1, GetObjectItem DEF Chosen, ArrayItems
  <1>13. CASE DetachItem
    <2>0. PICK p \in Parents : \E item \in Chosen(p) :
            Return(cJSON_DetachItemViaPointer(heap, p, item),
                   held \cup Returned(cJSON_DetachItemViaPointer(heap, p, item)))
      BY <1>13 DEF DetachItem
    <2>1. PICK item \in Chosen(p) :
            Return(cJSON_DetachItemViaPointer(heap, p, item),
                   held \cup Returned(cJSON_DetachItemViaPointer(heap, p, item)))
      BY <2>0
    <2>2. item \in Members(heap, p) \cup {NULL} /\ p \in heap.live \ heap.ref
      BY <1>1, <1>12
    <2>3. PICK n : n = cJSON_DetachItemViaPointer(heap, p, item)
      OBVIOUS
    <2>4. Sound(n, held \cup Returned(n)) /\ Moves(heap, n)
      BY <1>1, <2>2, <2>3, SoundDetached, DetachMoves
    <2> QED
      BY <1>3, <2>1, <2>3, <2>4
  <1>14. CASE DeleteItem
    <2>0. PICK p \in Parents : \E item \in Chosen(p) :
            Return(cJSON_Delete(cJSON_DetachItemViaPointer(heap, p, item), item), held)
      BY <1>14 DEF DeleteItem
    <2>1. PICK item \in Chosen(p) :
            Return(cJSON_Delete(cJSON_DetachItemViaPointer(heap, p, item), item), held)
      BY <2>0
    <2>2. item \in Members(heap, p) \cup {NULL} /\ p \in heap.live \ heap.ref
      BY <1>1, <1>12
    <2>3. PICK k, n : k = cJSON_DetachItemViaPointer(heap, p, item) /\ n = cJSON_Delete(k, item)
      OBVIOUS
    <2>4. Moves(heap, n)
      BY <1>1, <2>2, <2>3, DetachDeleteMoves
    <2>5. Sound(k, held \cup Returned(k))
      BY <1>1, <2>2, <2>3, SoundDetached
    <2>6. item \in Items \cup {NULL} /\ k \in Heap
      BY <1>1, <2>2, <2>5, PointersOf, MemberPred DEF Sound
    <2>7. n \in Heap
      BY <2>3, <2>6, DeletedFields
    <2>8. Return(n, held)
      BY <2>1, <2>3
    <2> QED
      BY <2>4, <2>7, <2>8, ReturnMoves
  <1>15. CASE Delete
    <2>1. PICK item \in held : Return(cJSON_Delete(heap, item), held \ {item})
      BY <1>15 DEF Delete
    <2>2. Sound(cJSON_Delete(heap, item), held \ {item}) /\ Moves(heap, cJSON_Delete(heap, item))
      BY <1>1, SoundDelete, DeleteMoves
    <2> QED
      BY <1>3, <2>1, <2>2
  <1>16. CASE ReplaceItem
    <2>0. PICK p \in Parents : \E item \in ArrayItems(heap, p), r \in Loose(p) :
            Return(cJSON_ReplaceItemViaPointer(heap, p, item, r),
                   IF item = NULL THEN held ELSE held \ {r})
      BY <1>16 DEF ReplaceItem
    <2>1. PICK item \in ArrayItems(heap, p), r \in Loose(p) :
            Return(cJSON_ReplaceItemViaPointer(heap, p, item, r),
                   IF item = NULL THEN held ELSE held \ {r})
      BY <2>0
    <2>2. /\ p \in heap.live \ heap.ref /\ r \in held /\ p \notin Freed(heap, r)
          /\ item \in Members(heap, p) \cup {NULL}
      BY <1>1 DEF ArrayItems
    <2>3. PICK n : n = cJSON_ReplaceItemViaPointer(heap, p, item, r)
      OBVIOUS
    <2>4. Sound(n, IF item = NULL THEN held ELSE held \ {r})
      BY <1>1, <2>2, <2>3, SoundReplaced
    <2>5. Moves(heap, n)
      BY <1>1, <2>2, <2>3, ReplaceMoves
    <2> QED
      BY <1>3, <2>1, <2>3, <2>4, <2>5
  <1>17. CASE ReplaceItemInObject
    <2>0. PICK p \in Parents : \E r \in Loose(p), h \in Calls(1), name \in Keys, cs \in BOOLEAN :
            LET n == replace_item_in_object(h, p, name, r, cs)
            IN  Return(n, IF n.live = heap.live THEN held ELSE held \ {r})
      BY <1>17, ZenonT(60) DEF ReplaceItemInObject
    <2>1. PICK r \in Loose(p), h \in Calls(1), name \in Keys, cs \in BOOLEAN :
            LET n == replace_item_in_object(h, p, name, r, cs)
            IN  Return(n, IF n.live = heap.live THEN held ELSE held \ {r})
      BY <2>0
    <2>2. PICK n : n = replace_item_in_object(h, p, name, r, cs)
      OBVIOUS
    <2>3. Sound(h, held) /\ View(h) = View(heap)
      BY <1>4
    <2>4. /\ p \in h.live \ h.ref /\ r \in held /\ p \notin Freed(h, r)
          /\ name \in Strings /\ h.live = heap.live
      BY <1>1, <1>4
    <2>5. Sound(n, IF n.live = heap.live THEN held ELSE held \ {r})
      BY <2>2, <2>3, <2>4, SoundReplacedInObject
    <2>6. Moves(h, n)
      BY <2>2, <2>3, <2>4, ReplaceInObjectMoves
    <2> QED
      BY <1>3, <2>1, <2>2, <2>3, <2>5, <2>6
  <1> QED
    BY <1>5, <1>6, <1>7, <1>8, <1>9, <1>10, <1>11, <1>13, <1>14, <1>15, <1>16, <1>17
    DEF Next

(***************************************************************************)
(* Read off the pointers, the members of every item form a sequence, and   *)
(* whatever the program calls and whichever allocation fails, one call of  *)
(* cJSON.c (:1830-2257) links, unlinks, exchanges or discards at most one  *)
(* member of one sequence, with all below it, and leaves every other       *)
(* member, every other list and every other key as it was.                 *)
(***************************************************************************)
THEOREM CallsMakeForest == Spec => ImplementsForest
  <1>1. Init => Forest!Init
    <2> SUFFICES ASSUME Init PROVE Forest!Init
      OBVIOUS
    <2>1. heap = EmptyHeap
      BY DEF Init
    <2>2. /\ heap.ref = {} /\ heap.string = [a \in Items |-> NULL]
          /\ \A a \in Items : heap.child[a] = NULL
      BY <2>1 DEF EmptyHeap
    <2>3. heap \in Heap
      BY KeptInit, PointersOf DEF Kept, Sound
    <2>4. ASSUME NEW q \in Items PROVE ListOf(heap, q) = <<>>
      <3>1. IsList(heap, heap.child[q], <<>>)
        BY <2>2 DEF IsList
      <3> QED
        BY <2>3, <3>1, ListOfIsList
    <2>5. KidsOf = [p \in Items |-> <<>>]
      BY <2>2, <2>4 DEF KidsOf
    <2> QED
      BY <2>2, <2>5 DEF Forest!Init
  <1>2. Kept /\ [Next]_vars => [Forest!Next]_<<KidsOf, heap.string>>
    <2>1. ASSUME Kept, Next PROVE [Forest!Next]_<<KidsOf, heap.string>>
      BY <2>1, NextMoves, MovesAreSteps DEF Kept, Sound
    <2>2. CASE UNCHANGED vars
      <3>1. heap' = heap
        BY <2>2 DEF vars
      <3>2. KidsOf' = KidsOf /\ (heap.string)' = heap.string
        BY <3>1 DEF KidsOf
      <3> QED
        BY <3>2
    <2> QED
      BY <2>1, <2>2
  <1> QED
    BY <1>1, <1>2, KeptAlways, PTL DEF Spec, ImplementsForest, Forest!Spec, Forest!fvars
=============================================================================
