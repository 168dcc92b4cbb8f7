----------------------------- MODULE CJsonHeap -----------------------------
(***************************************************************************)
(* The memory cJSON.c works on: items linked into lists, and the functions *)
(* that link, unlink and free them. Every operator takes a heap and        *)
(* returns the heap after the call, with the pointer the call returns in   *)
(* "ret". A heap is a record:                                              *)
(*                                                                         *)
(*   live                 the items malloc handed out and free has not     *)
(*                        taken back                                       *)
(*   next, prev, child    the pointers of an item                          *)
(*   string, valuestring  its key and its text, by content                 *)
(*   type, valueint       its type without the two flags, and its number   *)
(*   ref, const           the items that have the flag cJSON_IsReference,  *)
(*                        cJSON_StringIsConst                              *)
(*   blocks               how many strings made by cJSON_strdup are alive  *)
(*   mem                  how many allocations of this call still succeed  *)
(*   ret                  the last pointer returned                        *)
(*                                                                         *)
(* The fields of an item that is not live are kept blank, as the memset of *)
(* cJSON_New_Item leaves them for the next owner.                          *)
(***************************************************************************)
EXTENDS Integers, Sequences, FiniteSets

CONSTANTS Items,      \* the addresses malloc has for items
          NULL,
          Strings,    \* contents of strings
          MaxStrings, \* the strings malloc has room for
          Lower       \* tolower of a whole string

ASSUME HeapAssumption ==
    /\ IsFiniteSet(Items)
    /\ NULL \notin Items
    /\ NULL \notin Strings
    /\ MaxStrings \in Nat
    /\ Lower \in [Strings -> Strings]

Types == {"Invalid", "False", "True", "NULL", "Number", "String", "Array", "Object", "Raw"}

Heap ==
    [live : SUBSET Items, ref : SUBSET Items, const : SUBSET Items,
     next : [Items -> Items \cup {NULL}],
     prev : [Items -> Items \cup {NULL}],
     child : [Items -> Items \cup {NULL}],
     string : [Items -> Strings \cup {NULL}],
     valuestring : [Items -> Strings \cup {NULL}],
     type : [Items -> Types],
     valueint : [Items -> Int],
     blocks : Int, mem : Nat, ret : Items \cup {NULL}]

EmptyHeap ==
    [live |-> {}, ref |-> {}, const |-> {},
     next |-> [a \in Items |-> NULL],
     prev |-> [a \in Items |-> NULL],
     child |-> [a \in Items |-> NULL],
     string |-> [a \in Items |-> NULL],
     valuestring |-> [a \in Items |-> NULL],
     type |-> [a \in Items |-> "Invalid"],
     valueint |-> [a \in Items |-> 0],
     blocks |-> 0, mem |-> 0, ret |-> NULL]

\* An assignment through a pointer that may be NULL, in which case the code skips it.
Put(f, a, v) == IF a = NULL THEN f ELSE [f EXCEPT ![a] = v]

-----------------------------------------------------------------------------
(* Allocation *)

cJSON_New_Item(h) ==
    IF h.mem = 0 \/ h.live = Items
    THEN [h EXCEPT !.ret = NULL]
    ELSE LET node == CHOOSE a \in Items \ h.live : TRUE
         IN  [h EXCEPT !.live = @ \cup {node}, !.mem = @ - 1, !.ret = node]

\* cJSON_strdup: whether the copy is made, and the heap with one more string.
CanCopy(h, s) == s # NULL /\ h.mem > 0 /\ h.blocks < MaxStrings
Copied(h) == [h EXCEPT !.mem = @ - 1, !.blocks = @ + 1]

\* The strings that belong to an item and go with it.
OwnsString(h, a) == a \notin h.const /\ h.string[a] # NULL
OwnsValue(h, a) == a \notin h.ref /\ h.valuestring[a] # NULL

(***************************************************************************)
(* cJSON_Delete walks the next pointers of the item it is given and, for   *)
(* every item that is not a reference, goes into its child. What it visits *)
(* is the smallest set that holds the item and is closed under both.       *)
(***************************************************************************)
DeleteCloses(h, S) ==
    \A b \in S : /\ h.next[b] \in S \cup {NULL}
                 /\ b \in h.ref \/ h.child[b] \in S \cup {NULL}

Freed(h, item) ==
    LET closed == {S \in SUBSET Items : item \in S \cup {NULL} /\ DeleteCloses(h, S)}
    IN  {b \in Items : \A S \in closed : b \in S}

Erase(f, F, blank) == [b \in Items |-> IF b \in F THEN blank ELSE f[b]]

cJSON_Delete(h, item) ==
    LET F == Freed(h, item)
    IN  [h EXCEPT !.live = @ \ F, !.ref = @ \ F, !.const = @ \ F,
                  !.next = Erase(@, F, NULL), !.prev = Erase(@, F, NULL),
                  !.child = Erase(@, F, NULL),
                  !.string = Erase(@, F, NULL), !.valuestring = Erase(@, F, NULL),
                  !.type = Erase(@, F, "Invalid"), !.valueint = Erase(@, F, 0),
                  !.blocks = @ - Cardinality({b \in F : OwnsString(h, b)})
                               - Cardinality({b \in F : OwnsValue(h, b)})]

-----------------------------------------------------------------------------
(* Lookup *)

\* What a walk along next from an item visits when it ends at the first item of stops.
Walked(h, first, stops) ==
    LET closed == {S \in SUBSET Items :
                     /\ first \in S \cup {NULL}
                     /\ \A c \in S \ stops : h.next[c] \in S \cup {NULL}}
    IN  {b \in Items : \A S \in closed : b \in S}

Members(h, array) == Walked(h, h.child[array], {})

\* The members in order, as the loops over child and next find them.
ListOf(h, array) ==
    LET from[n \in 0..Cardinality(Items)] ==
            [b \in Items \cup {NULL} |->
                IF n = 0 \/ b = NULL THEN <<>> ELSE <<b>> \o from[n - 1][h.next[b]]]
    IN  from[Cardinality(Items)][h.child[array]]

\* get_array_item returns a member, or NULL for an index past the end.
ArrayItems(h, array) == Members(h, array) \cup {NULL}

\* The case-sensitive search also ends, without a result, at an item without a key.
get_object_item(h, object, name, case_sensitive) ==
    LET stops == {b \in Items :
                    IF case_sensitive
                    THEN h.string[b] \in {NULL, name}
                    ELSE h.string[b] # NULL /\ Lower[h.string[b]] = Lower[name]}
        found == Walked(h, h.child[object], stops) \cap stops
    IN  IF \E b \in found : h.string[b] # NULL
        THEN CHOOSE b \in found : h.string[b] # NULL
        ELSE NULL

-----------------------------------------------------------------------------
(* Lists *)

create_reference(h, item) ==
    LET n == cJSON_New_Item(h)
        r == n.ret
    IN  IF item = NULL
        THEN [h EXCEPT !.ret = NULL]
        ELSE IF r = NULL
        THEN n
        ELSE [n EXCEPT !.ref = @ \cup {r},
                       !.const = IF item \in h.const THEN @ \cup {r} ELSE @,
                       !.type[r] = h.type[item], !.valueint[r] = h.valueint[item],
                       !.child[r] = h.child[item],
                       !.valuestring[r] = h.valuestring[item]]

suffix_object(h, prev, item) == [h EXCEPT !.next[prev] = item, !.prev[item] = prev]

\* The walk to the end of the list stops at the member without a successor.
add_item_to_array(h, array, item) ==
    IF item = NULL
    THEN [h EXCEPT !.ret = NULL]
    ELSE LET added == IF h.child[array] = NULL
                      THEN [h EXCEPT !.child[array] = item]
                      ELSE suffix_object(h, CHOOSE c \in Members(h, array) : h.next[c] = NULL, item)
         IN  [added EXCEPT !.ret = item]

\* Mutant: the old key is not freed.
SetStringLeaking(h, item, name, constant_key) ==
    [h EXCEPT !.string[item] = name,
              !.const = IF constant_key THEN @ \cup {item} ELSE @ \ {item}]

\* The key of an item is freed if it is owned, and replaced.
SetString(h, item, name, constant_key) ==
    [h EXCEPT !.string[item] = name,
              !.const = IF constant_key THEN @ \cup {item} ELSE @ \ {item},
              !.blocks = IF OwnsString(h, item) THEN @ - 1 ELSE @]

add_item_to_object(h, object, name, item, constant_key) ==
    IF item = NULL \/ ~(constant_key \/ CanCopy(h, name))
    THEN [h EXCEPT !.ret = NULL]
    ELSE LET copied == IF constant_key THEN h ELSE Copied(h)
         IN  add_item_to_array(SetString(copied, item, name, constant_key), object, item)

\* Mutant: the item behind still points back at the one taken out.
DetachOneWay(h, parent, item) ==
    IF item = NULL
    THEN [h EXCEPT !.ret = NULL]
    ELSE [h EXCEPT !.next = [Put(@, h.prev[item], h.next[item]) EXCEPT ![item] = NULL],
                   !.prev[item] = NULL,
                   !.child[parent] = IF @ = item THEN h.next[item] ELSE @,
                   !.ret = item]

cJSON_DetachItemViaPointer(h, parent, item) ==
    IF item = NULL
    THEN [h EXCEPT !.ret = NULL]
    ELSE [h EXCEPT !.next = [Put(@, h.prev[item], h.next[item]) EXCEPT ![item] = NULL],
                   !.prev = [Put(@, h.next[item], h.prev[item]) EXCEPT ![item] = NULL],
                   !.child[parent] = IF @ = item THEN h.next[item] ELSE @,
                   !.ret = item]

\* after_inserted is the item at the index asked for, NULL past the end.
cJSON_InsertItemInArray(h, array, after_inserted, newitem) ==
    IF after_inserted = NULL
    THEN add_item_to_array(h, array, newitem)
    ELSE LET before == h.prev[after_inserted]
             first == after_inserted = h.child[array]
         IN  [h EXCEPT !.next = [IF first THEN @ ELSE Put(@, before, newitem)
                                 EXCEPT ![newitem] = after_inserted],
                       !.prev = [@ EXCEPT ![newitem] = before, ![after_inserted] = newitem],
                       !.child[array] = IF first THEN newitem ELSE @]

\* Mutant: the member behind is lost.
ReplaceAndCut(h, parent, item, replacement) ==
    IF item = NULL \/ replacement = item
    THEN h
    ELSE cJSON_Delete([h EXCEPT !.next = [Put(@, h.prev[item], replacement) EXCEPT ![item] = NULL],
                                !.prev = [Put(@, h.next[item], NULL)
                                          EXCEPT ![replacement] = h.prev[item], ![item] = NULL],
                                !.child[parent] = IF @ = item THEN replacement ELSE @], item)

cJSON_ReplaceItemViaPointer(h, parent, item, replacement) ==
    IF item = NULL \/ replacement = item
    THEN h
    ELSE LET relinked ==
               [h EXCEPT !.next = [Put(@, h.prev[item], replacement)
                                   EXCEPT ![replacement] = h.next[item], ![item] = NULL],
                         !.prev = [Put(@, h.next[item], replacement)
                                   EXCEPT ![replacement] = h.prev[item], ![item] = NULL],
                         !.child[parent] = IF @ = item THEN replacement ELSE @]
         IN  cJSON_Delete(relinked, item)

\* The replacement is renamed first, whether or not there is something to
\* replace; without memory for the new key it is left without one.
replace_item_in_object(h, object, name, replacement, case_sensitive) ==
    LET copied == IF CanCopy(h, name) THEN Copied(h) ELSE h
        renamed == SetString(copied, replacement, IF CanCopy(h, name) THEN name ELSE NULL, FALSE)
    IN  cJSON_ReplaceItemViaPointer(renamed, object,
            get_object_item(renamed, object, name, case_sensitive), replacement)

-----------------------------------------------------------------------------
(* Items of each kind *)

\* What the caller gets from a call that creates.
Returned(h) == IF h.ret = NULL THEN {} ELSE {h.ret}

\* cJSON_CreateNull, True, False, Bool, Number, Array, Object.
CreateItem(h, type, int) ==
    LET n == cJSON_New_Item(h)
    IN  IF n.ret = NULL
        THEN n
        ELSE [n EXCEPT !.type[n.ret] = type, !.valueint[n.ret] = int]

\* cJSON_CreateString, cJSON_CreateRaw: without memory for the text the item is deleted.
CreateText(h, type, text) ==
    LET n == CreateItem(h, type, 0)
    IN  IF n.ret = NULL
        THEN n
        ELSE IF CanCopy(n, text)
        THEN [Copied(n) EXCEPT !.valuestring[n.ret] = text]
        ELSE [cJSON_Delete(n, n.ret) EXCEPT !.ret = NULL]

\* cJSON_CreateStringReference, cJSON_CreateObjectReference, cJSON_CreateArrayReference.
CreateReference(h, type, text, child) ==
    LET n == CreateItem(h, type, 0)
    IN  IF n.ret = NULL
        THEN n
        ELSE [n EXCEPT !.ref = @ \cup {n.ret}, !.valuestring[n.ret] = text,
                       !.child[n.ret] = child]

\* Mutant: an item that could not be added is not deleted.
AddCreatedOrLose(created, object, name) ==
    add_item_to_object(created, object, name, created.ret, FALSE)

\* cJSON_AddNullToObject and its siblings: the created item is added, or deleted again.
AddCreatedToObject(created, object, name) ==
    LET item == created.ret
        added == add_item_to_object(created, object, name, item, FALSE)
    IN  IF added.ret # NULL
        THEN added
        ELSE [cJSON_Delete(added, item) EXCEPT !.ret = NULL]
-----------------------------------------------------------------------------
(* What a heap has to be between two calls of a program that holds roots.  *)

\* The fields of items that are not live are blank.
HeapOK(h) ==
    /\ h \in Heap
    /\ h.ref \subseteq h.live /\ h.const \subseteq h.live
    /\ \A a \in Items \ h.live :
         h.next[a] = NULL /\ h.prev[a] = NULL /\ h.child[a] = NULL

\* The parents an item has: items that are not references and whose child it is.
Owners(h, a) == {p \in h.live \ h.ref : h.child[p] = a}

\* next and prev are each other's inverse.
Chained(h) ==
    \A a \in h.live :
        /\ h.next[a] # NULL => h.next[a] \in h.live /\ h.prev[h.next[a]] = a
        /\ h.prev[a] # NULL => h.prev[a] \in h.live /\ h.next[h.prev[a]] = a

\* A list begins at the child of one parent only.
Owned(h) ==
    \A p \in h.live \ h.ref : h.child[p] # NULL =>
        /\ h.child[p] \in h.live
        /\ h.prev[h.child[p]] = NULL
        /\ Owners(h, h.child[p]) = {p}

\* What the program holds is linked to nothing.
HeldApart(h, roots) ==
    \A a \in roots : /\ a \in h.live
                     /\ h.next[a] = NULL /\ h.prev[a] = NULL
                     /\ Owners(h, a) = {}

\* Every list has an end: cJSON_AddItemToArray and cJSON_GetArraySize return.
ListsEnd(h) ==
    \A p \in h.live \ h.ref : h.child[p] # NULL =>
        \E c \in Members(h, p) : h.next[c] = NULL

WellFormed(h, roots) ==
    HeapOK(h) /\ Chained(h) /\ Owned(h) /\ HeldApart(h, roots) /\ ListsEnd(h)

\* Roots: live items that no list and no parent leads to.
Roots(h) == {a \in h.live : h.prev[a] = NULL /\ Owners(h, a) = {}}

\* Every live item is in the tree of one root, and every root is one the
\* program holds or a reference.
InOneTree(h, roots) ==
    /\ Roots(h) \subseteq roots \cup h.ref
    /\ \A b \in h.live : \E a \in Roots(h) :
         /\ b \in Freed(h, a)
         /\ \A c \in Roots(h) \ {a} : b \notin Freed(h, c)

\* As many strings are alive as items will free.
StringsMatch(h) ==
    h.blocks = Cardinality({a \in h.live : OwnsString(h, a)})
             + Cardinality({a \in h.live : OwnsValue(h, a)})
=============================================================================
