------------------------ MODULE CJsonDocumentProofs ------------------------
(***************************************************************************)
(* Parsing, building arrays, duplicating and deleting keep every tree of a *)
(* program whole, for every text, every nesting and every allocation that  *)
(* fails: the lists stay linked, every item is in the tree of one pointer  *)
(* the program has, and every string is the key or the text of an item.    *)
(*                                                                         *)
(* While a list is parsed its items hang on the local variable head of     *)
(* parse_array or parse_object, not on the item that is their parent. The  *)
(* proof looks at the heap as if those lists were attached already         *)
(* (Shown): that heap is whole at every step of the parser, and when the   *)
(* outermost call returns it is the heap itself.                           *)
(***************************************************************************)
EXTENDS CJsonDocuments, CJsonOwnerProofs

-----------------------------------------------------------------------------
(* What it means for the trees of a program to be whole. *)

\* The list of an item is freed and the item is left without one.
LEMMA ListDeleted ==
    ASSUME NEW h, NEW roots, WellFormed(h, roots), Anchored(h, roots),
           NEW p \in h.live \ h.ref, h.child[p] # NULL,
           NEW F, F = Freed(h, h.child[p]), p \notin F,
           NEW g \in Heap,
           g.live = h.live \ F, g.ref = h.ref \ F, g.const \subseteq g.live,
           g.next = Erase(h.next, F, NULL), g.prev = Erase(h.prev, F, NULL),
           g.child = Erase([h.child EXCEPT ![p] = NULL], F, NULL)
    PROVE  WellFormed(g, roots) /\ Anchored(g, roots)
  <1> USE HeapAssumption
  <1> DEFINE a == h.child[p]
  <1>1. /\ h \in Heap /\ h.live \in SUBSET Items /\ a \in Items /\ p \in Items
        /\ h.next \in [Items -> Items \cup {NULL}] /\ h.prev \in [Items -> Items \cup {NULL}]
        /\ h.child \in [Items -> Items \cup {NULL}]
    BY PointersOf
  <1>2. /\ \A y \in Items : h.next[y] # NULL =>
             y \in h.live /\ h.next[y] \in h.live /\ h.prev[h.next[y]] = y
        /\ \A y \in Items : h.prev[y] # NULL =>
             y \in h.live /\ h.prev[y] \in h.live /\ h.next[h.prev[y]] = y
    BY PointersOf
  <1>3. \A q \in h.live \ h.ref : h.child[q] # NULL =>
             /\ h.child[q] \in h.live
             /\ h.prev[h.child[q]] = NULL
             /\ \A r \in h.live \ h.ref : h.child[r] = h.child[q] => r = q
    BY PointersOf
  <1>4. \A r \in roots : /\ r \in h.live
                         /\ h.next[r] = NULL /\ h.prev[r] = NULL
                         /\ \A q \in h.live \ h.ref : h.child[q] # r
    BY PointersOf
  <1>5. \A y \in Items : /\ g.next[y] = IF y \in F THEN NULL ELSE h.next[y]
                         /\ g.prev[y] = IF y \in F THEN NULL ELSE h.prev[y]
                         /\ g.child[y] = IF y \in F \cup {p} THEN NULL ELSE h.child[y]
    BY <1>1 DEF Erase
  <1>6. F \subseteq Items /\ a \in F
    BY <1>1, FreedCloses
  <1> HIDE DEF a
  <1>7. ASSUME NEW z \in F, z # a
        PROVE  \E c \in F : h.next[c] = z \/ (c \in h.live \ h.ref /\ h.child[c] = z)
    <2>1. PICK c \in F : h.next[c] = z \/ (c \notin h.ref /\ h.child[c] = z)
      BY <1>1, <1>7, FreedHasPredecessor DEF a
    <2>2. h.child[c] = z => c \in h.live
      BY <1>6, <1>7 DEF WellFormed, HeapOK
    <2> QED
      BY <2>1, <2>2
  <1>8. \A y \in Items \ F : h.next[y] \notin F
    <2> SUFFICES ASSUME NEW y \in Items \ F, h.next[y] \in F
                 PROVE  FALSE
      OBVIOUS
    <2>1. h.next[y] # a /\ h.next[y] # NULL
      BY <1>1, <1>2, <1>3, <1>6 DEF a
    <2>2. PICK c \in F : \/ h.next[c] = h.next[y]
                         \/ (c \in h.live \ h.ref /\ h.child[c] = h.next[y])
      BY <2>1, <1>7
    <2> QED
      BY <2>1, <2>2, <1>1, <1>2, <1>3, <1>6
  <1>9. \A y \in Items \ F : h.prev[y] \notin F
    <2> SUFFICES ASSUME NEW y \in Items \ F, h.prev[y] \in F
                 PROVE  FALSE
      OBVIOUS
    <2>1. h.next[h.prev[y]] = y
      BY <1>2, <1>6
    <2> QED
      BY <2>1, <1>1, FreedCloses DEF a
  <1>10. \A q \in (h.live \ h.ref) \ F : q # p => h.child[q] \notin F
    <2> SUFFICES ASSUME NEW q \in (h.live \ h.ref) \ F, q # p, h.child[q] \in F
                 PROVE  FALSE
      OBVIOUS
    <2>1. h.child[q] # a /\ h.child[q] # NULL
      BY <1>1, <1>3, <1>6 DEF a
    <2>2. PICK c \in F : \/ h.next[c] = h.child[q]
                         \/ (c \in h.live \ h.ref /\ h.child[c] = h.child[q])
      BY <2>1, <1>7
    <2>3. h.next[c] # h.child[q]
      BY <2>1, <1>2, <1>3, <1>6
    <2> QED
      BY <2>1, <2>2, <2>3, <1>3
  <1>11. HeapOK(g)
    BY <1>1, <1>5 DEF WellFormed, HeapOK
  <1>12. Chained(g)
    <2> SUFFICES ASSUME NEW y \in g.live
                 PROVE  /\ g.next[y] # NULL => g.next[y] \in g.live /\ g.prev[g.next[y]] = y
                        /\ g.prev[y] # NULL => g.prev[y] \in g.live /\ g.next[g.prev[y]] = y
      BY DEF Chained
    <2>1. y \in Items \ F /\ g.next[y] = h.next[y] /\ g.prev[y] = h.prev[y]
      BY <1>1, <1>5
    <2> QED
      BY <2>1, <1>1, <1>2, <1>5, <1>8, <1>9
  <1>13. \A q \in g.live \ g.ref : /\ q \in (h.live \ h.ref) \ F
                                   /\ g.child[q] = IF q = p THEN NULL ELSE h.child[q]
    BY <1>1, <1>5
  <1>14. Owned(g)
    <2>1. \A q \in g.live \ g.ref : g.child[q] # NULL =>
             /\ g.child[q] \in g.live
             /\ g.prev[g.child[q]] = NULL
             /\ \A r \in g.live \ g.ref : g.child[r] = g.child[q] => r = q
      BY <1>1, <1>3, <1>5, <1>10, <1>13
    <2> QED
      BY <2>1, OwnersSpelledOut
  <1>15. \A r \in roots : r \notin F
    BY <1>1, <1>2, <1>4, <1>6, <1>7 DEF a
  <1>16. HeldApart(g, roots)
    <2>2. \A r \in roots : /\ r \in g.live
                           /\ g.next[r] = NULL /\ g.prev[r] = NULL
                           /\ \A q \in g.live \ g.ref : g.child[q] # r
      BY <1>15, <1>1, <1>4, <1>5, <1>13
    <2> QED
      BY <2>2, OwnersSpelledOut
  <1>17. ListsEnd(g)
    <2> SUFFICES ASSUME NEW q \in g.live \ g.ref, g.child[q] # NULL
                 PROVE  EndsFrom(g, g.child[q])
      BY DEF ListsEnd, Members, EndsFrom
    <2> DEFINE f == h.child[q]
    <2>1. q # p /\ f \in Items \ F /\ g.child[q] = f /\ EndsFrom(h, f)
      BY <1>1, <1>10, <1>13, PointersOf
    <2>2. PICK c \in Items : /\ h.next[c] = NULL
                             /\ \A S \in SUBSET Items :
                                  f \in S /\ WalkCloses(h, {}, S) => c \in S
      BY <1>1, <2>1, EndInEveryClosure
    <2>3. ASSUME NEW S \in SUBSET Items, f \in S, WalkCloses(g, {}, S)
          PROVE  c \in S
      <3>1. WalkCloses(h, {}, S \ F)
        BY <2>3, <1>1, <1>5, <1>8 DEF WalkCloses
      <3> QED
        BY <2>1, <2>2, <2>3, <3>1
    <2>4. g.next[c] = NULL
      BY <2>2, <1>5
    <2> QED
      BY <2>1, <2>2, <2>3, <2>4, EndsFromAll
  <1>18. WellFormed(g, roots)
    BY <1>11, <1>12, <1>14, <1>16, <1>17 DEF WellFormed
  <1>19. \A c, b \in g.live : Pred(g, c, b) => Pred(h, c, b)
    BY <1>1, <1>5 DEF Pred
  <1>20. Grounded(g)
    BY <1>19, GroundedWithout DEF Anchored
  <1>21. ASSUME NEW b \in g.live, \A c \in g.live : ~Pred(g, c, b)
         PROVE  b \in roots \cup g.ref
    <2>1. b \in h.live /\ b \notin F /\ b # a
      BY <1>1, <1>6
    <2>2. ASSUME NEW c \in h.live, Pred(h, c, b) PROVE FALSE
      <3>1. c \notin F
        BY <2>1, <2>2, <1>1, FreedCloses DEF Pred, a
      <3>2. c \in g.live /\ g.next[c] = h.next[c]
        BY <3>1, <1>1, <1>5
      <3>3. c # p => Pred(g, c, b)
        BY <2>2, <3>1, <3>2, <1>1, <1>5 DEF Pred
      <3>4. c = p => h.next[c] = b
        BY <2>1, <2>2 DEF Pred, a
      <3>5. Pred(g, c, b)
        BY <3>2, <3>3, <3>4 DEF Pred
      <3> QED
        BY <3>2, <3>5, <1>21
    <2> QED
      BY <2>1, <2>2 DEF Anchored, Claimed
  <1> QED
    BY <1>18, <1>20, <1>21 DEF Anchored, Claimed

\* The numbers are among those a text can hold, and no item is a reference: the
\* program creates none.
Numbered(h) == \A a \in Items : h.type[a] = "Number" => h.valueint[a] \in Numbers
Whole(h, roots) == Sound(h, roots) /\ h.ref = {} /\ Numbered(h)

\* What there is to say of a whole heap.
LEMMA WholeHeap ==
    ASSUME NEW h, NEW roots, Whole(h, roots)
    PROVE  /\ h \in Heap /\ h.live \subseteq Items /\ roots \subseteq h.live
           /\ Sound(h, roots) /\ WellFormed(h, roots) /\ h.ref = {} /\ Numbered(h)
           /\ h.const \subseteq h.live
           /\ \A a \in Items \ h.live : /\ h.next[a] = NULL /\ h.prev[a] = NULL /\ h.child[a] = NULL
                                        /\ h.string[a] = NULL /\ h.valuestring[a] = NULL
           /\ \A a \in roots : h.next[a] = NULL /\ h.prev[a] = NULL
           /\ \A a \in h.live : /\ h.next[a] \in h.live \cup {NULL}
                                /\ h.child[a] \in h.live \cup {NULL}
  <1>1. Sound(h, roots) /\ WellFormed(h, roots) /\ h.ref = {} /\ Numbered(h)
    BY DEF Whole, Sound
  <1>2. h \in Heap /\ h.live \subseteq Items /\ h.const \subseteq h.live
    BY <1>1, PointersOf DEF WellFormed, HeapOK
  <1>3. /\ \A a \in Items \ h.live : h.next[a] = NULL /\ h.prev[a] = NULL /\ h.child[a] = NULL
        /\ \A a \in Items \ h.live : h.string[a] = NULL /\ h.valuestring[a] = NULL
    BY <1>1 DEF WellFormed, HeapOK, Sound, Counted
  <1>4. \A a \in roots : a \in h.live /\ h.next[a] = NULL /\ h.prev[a] = NULL
    BY <1>1, PointersOf
  <1>5. \A a \in h.live : /\ h.next[a] \in h.live \cup {NULL}
                          /\ h.child[a] \in h.live \cup {NULL}
    BY <1>1, <1>2, PointersOf
  <1> QED
    BY <1>1, <1>2, <1>3, <1>4, <1>5

\* Types, numbers, the memory left and the pointer returned are not part of the lists.
LEMMA WholeSame ==
    ASSUME NEW h, NEW roots, Whole(h, roots), NEW g \in Heap,
           SameTree(h, g), g.prev = h.prev, SameStrings(h, g), Numbered(g)
    PROVE  Whole(g, roots)
  <1>1. Sound(h, roots) /\ WellFormed(h, roots) /\ h.const \subseteq h.live
    BY WholeHeap
  <1>2. WellFormed(g, roots)
    BY <1>1, SameLinks DEF SameTree, SameStrings
  <1>3. Anchored(g, roots) /\ Counted(g)
    BY <1>1, SameAnchored, SameCounted DEF SameTree, Sound
  <1> QED
    BY <1>2, <1>3 DEF Whole, Sound, SameTree

\* An item without a text gets a copy of one.
LEMMA WholeText ==
    ASSUME NEW h, NEW roots, Whole(h, roots), NEW g \in Heap,
           SameTree(h, g), g.prev = h.prev, Numbered(g),
           NEW item \in h.live, h.valuestring[item] = NULL, NEW x \in Strings,
           g.const = h.const, g.string = h.string,
           g.valuestring = [h.valuestring EXCEPT ![item] = x], g.blocks = h.blocks + 1
    PROVE  Whole(g, roots)
  <1>1. /\ Sound(h, roots) /\ WellFormed(h, roots) /\ h.const \subseteq h.live /\ h.ref = {}
        /\ h \in Heap /\ h.live \subseteq Items
    BY WholeHeap
  <1>2. WellFormed(g, roots)
    BY <1>1, SameLinks DEF SameTree
  <1>3. Anchored(g, roots)
    BY <1>1, SameAnchored DEF Sound
  <1>4. g.live = h.live /\ g.ref = {} /\ x # NULL /\ Counted(h)
        /\ h.valuestring \in [Items -> Strings \cup {NULL}] /\ h.blocks \in Int
    BY <1>1, HeapFields, HeapAssumption DEF SameTree, Sound
  <1>5. StringOwners(g) = StringOwners(h)
    BY <1>4 DEF StringOwners, OwnsString
  <1>6. ValueOwners(g) = ValueOwners(h) \cup {item} /\ item \notin ValueOwners(h)
    <2>1. \A b \in Items : g.valuestring[b] = IF b = item THEN x ELSE h.valuestring[b]
      BY <1>4
    <2> QED
      BY <1>1, <1>4, <2>1 DEF ValueOwners, OwnsValue
  <1>7. /\ Cardinality(ValueOwners(g)) = Cardinality(ValueOwners(h)) + 1
        /\ Cardinality(StringOwners(h)) \in Nat /\ Cardinality(ValueOwners(h)) \in Nat
    BY <1>1, <1>6, OwnersFinite, FS_AddElement
  <1>8. g.blocks = Cardinality(StringOwners(g)) + Cardinality(ValueOwners(g))
    BY <1>4, <1>5, <1>7 DEF Counted
  <1>9. \A a \in Items \ g.live : g.string[a] = NULL /\ g.valuestring[a] = NULL
    BY <1>1, <1>4 DEF Counted
  <1>10. Counted(g)
    BY <1>8, <1>9 DEF Counted
  <1> QED
    BY <1>2, <1>3, <1>4, <1>10 DEF Whole, Sound

\* The text of an item without a key becomes its key.
LEMMA WholeKey ==
    ASSUME NEW h, NEW roots, Whole(h, roots), NEW g \in Heap,
           SameTree(h, g), g.prev = h.prev, Numbered(g),
           NEW item \in h.live \ h.const, h.string[item] = NULL,
           g.const = h.const, g.string = [h.string EXCEPT ![item] = h.valuestring[item]],
           g.valuestring = [h.valuestring EXCEPT ![item] = NULL], g.blocks = h.blocks
    PROVE  Whole(g, roots)
  <1>1. /\ Sound(h, roots) /\ WellFormed(h, roots) /\ h.const \subseteq h.live /\ h.ref = {}
        /\ h \in Heap /\ h.live \subseteq Items
    BY WholeHeap
  <1>2. WellFormed(g, roots)
    BY <1>1, SameLinks DEF SameTree
  <1>3. Anchored(g, roots)
    BY <1>1, SameAnchored DEF Sound
  <1>4. g.live = h.live /\ g.ref = {} /\ Counted(h)
        /\ h.valuestring \in [Items -> Strings \cup {NULL}]
        /\ h.string \in [Items -> Strings \cup {NULL}]
    BY <1>1, HeapFields DEF SameTree, Sound
  <1>5. /\ \A b \in Items : g.valuestring[b] = IF b = item THEN NULL ELSE h.valuestring[b]
        /\ \A b \in Items : g.string[b] = IF b = item THEN h.valuestring[item] ELSE h.string[b]
    BY <1>4
  <1>6. g.blocks = Cardinality(StringOwners(g)) + Cardinality(ValueOwners(g))
    <2>1. h.blocks = Cardinality(StringOwners(h)) + Cardinality(ValueOwners(h))
      BY <1>4 DEF Counted
    <2>2. CASE h.valuestring[item] = NULL
      <3>1. StringOwners(g) = StringOwners(h) /\ ValueOwners(g) = ValueOwners(h)
        BY <1>1, <1>4, <1>5, <2>2 DEF StringOwners, OwnsString, ValueOwners, OwnsValue
      <3> QED
        BY <2>1, <3>1
    <2>3. CASE h.valuestring[item] # NULL
      <3>1. StringOwners(g) = StringOwners(h) \cup {item} /\ item \notin StringOwners(h)
        BY <1>1, <1>4, <1>5, <2>3 DEF StringOwners, OwnsString
      <3>2. ValueOwners(h) = ValueOwners(g) \cup {item} /\ item \notin ValueOwners(g)
        BY <1>1, <1>4, <1>5, <2>3 DEF ValueOwners, OwnsValue
      <3>3. /\ Cardinality(StringOwners(g)) = Cardinality(StringOwners(h)) + 1
            /\ Cardinality(ValueOwners(h)) = Cardinality(ValueOwners(g)) + 1
            /\ Cardinality(StringOwners(h)) \in Nat /\ Cardinality(ValueOwners(g)) \in Nat
        <4>1. /\ IsFiniteSet(StringOwners(h)) /\ IsFiniteSet(ValueOwners(g))
              /\ Cardinality(StringOwners(h)) \in Nat /\ Cardinality(ValueOwners(g)) \in Nat
          BY <1>1, OwnersFinite
        <4>2. Cardinality(StringOwners(g)) = Cardinality(StringOwners(h)) + 1
          BY <3>1, <4>1, FS_AddElement
        <4>3. Cardinality(ValueOwners(h)) = Cardinality(ValueOwners(g)) + 1
          BY <3>2, <4>1, FS_AddElement
        <4> QED
          BY <4>1, <4>2, <4>3
      <3> QED
        BY <2>1, <3>3
    <2> QED
      BY <2>2, <2>3
  <1>7. \A a \in Items \ g.live : g.string[a] = NULL /\ g.valuestring[a] = NULL
    BY <1>1, <1>4 DEF Counted
  <1>8. Counted(g)
    BY <1>6, <1>7 DEF Counted
  <1> QED
    BY <1>2, <1>3, <1>4, <1>8 DEF Whole, Sound

-----------------------------------------------------------------------------
(* What a call may do to the items that were there before it. *)

\* What was alive keeps its pointers, except that a list may have been begun or
\* continued with new items; new items lead to new items only.
Grows(v, w) ==
    LET New == w.live \ v.live
    IN  /\ v.live \subseteq w.live
        /\ \A a \in v.live :
             /\ w.next[a] = v.next[a] \/ (v.next[a] = NULL /\ w.next[a] \in New)
             /\ w.child[a] = v.child[a] \/ (v.child[a] = NULL /\ w.child[a] \in New)
        /\ \A a \in New : w.next[a] \in New \cup {NULL} /\ w.child[a] \in New \cup {NULL}

\* A heap with the same pointers has not grown.
LEMMA GrowsSame ==
    ASSUME NEW v, NEW w, SameTree(v, w)
    PROVE  Grows(v, w)
  BY DEF SameTree, Grows

\* Growing twice is growing.
LEMMA GrowsOn ==
    ASSUME NEW v, NEW w, NEW u, Grows(v, w), Grows(w, u), NULL \notin w.live
    PROVE  Grows(v, u)
  <1>1. v.live \subseteq w.live /\ w.live \subseteq u.live
    BY DEF Grows
  <1>2. ASSUME NEW a \in v.live
        PROVE  /\ u.next[a] = v.next[a] \/ (v.next[a] = NULL /\ u.next[a] \in u.live \ v.live)
               /\ u.child[a] = v.child[a] \/ (v.child[a] = NULL /\ u.child[a] \in u.live \ v.live)
    BY <1>1 DEF Grows
  <1>3. ASSUME NEW a \in u.live \ v.live
        PROVE  /\ u.next[a] \in (u.live \ v.live) \cup {NULL}
               /\ u.child[a] \in (u.live \ v.live) \cup {NULL}
    <2>1. CASE a \in w.live
      BY <1>1, <2>1 DEF Grows
    <2>2. CASE a \notin w.live
      BY <1>1, <2>2 DEF Grows
    <2> QED
      BY <2>1, <2>2
  <1> QED
    BY <1>1, <1>2, <1>3 DEF Grows

\* Deleting what a call made frees nothing that was there before.
LEMMA FreedIsNew ==
    ASSUME NEW v, NEW w \in Heap, Grows(v, w), NEW a \in (w.live \ v.live) \cup {NULL}
    PROVE  Freed(w, a) \subseteq w.live \ v.live
  <1>1. w.live \ v.live \in SUBSET Items
    BY HeapFields
  <1>2. DeleteCloses(w, w.live \ v.live)
    BY DEF DeleteCloses, Grows
  <1> QED
    BY <1>1, <1>2, FreedSmallest

\* A new item is linked behind an item that had none.
LEMMA GrowsLinked ==
    ASSUME NEW v, NEW w, NEW u, Grows(v, w), w \in Heap, u.live = w.live,
           NEW x \in w.live, NEW a \in w.live \ v.live,
           \/ w.next[x] = NULL /\ u.next = [w.next EXCEPT ![x] = a] /\ u.child = w.child
           \/ w.child[x] = NULL /\ u.child = [w.child EXCEPT ![x] = a] /\ u.next = w.next
    PROVE  Grows(v, u)
  <1>1. /\ NULL \notin w.live /\ w.live \subseteq Items
        /\ DOMAIN w.next = Items /\ DOMAIN w.child = Items
    BY HeapFields, HeapAssumption
  <1>2. CASE w.next[x] = NULL /\ u.next = [w.next EXCEPT ![x] = a] /\ u.child = w.child
    <2>1. \A b \in w.live : u.next[b] = IF b = x THEN a ELSE w.next[b]
      BY <1>1, <1>2
    <2> QED
      BY <1>1, <1>2, <2>1 DEF Grows
  <1>3. CASE w.child[x] = NULL /\ u.child = [w.child EXCEPT ![x] = a] /\ u.next = w.next
    <2>1. \A b \in w.live : u.child[b] = IF b = x THEN a ELSE w.child[b]
      BY <1>1, <1>3
    <2> QED
      BY <1>1, <1>3, <2>1 DEF Grows
  <1> QED
    BY <1>2, <1>3

\* New items are freed, and perhaps one item loses the list they made.
LEMMA GrowsErased ==
    ASSUME NEW v, NEW w, NEW u, Grows(v, w), NEW roots, Whole(u, roots), w \in Heap,
           NEW F, F \subseteq w.live \ v.live, u.live = w.live \ F,
           u.next = Erase(w.next, F, NULL),
           \/ u.child = Erase(w.child, F, NULL)
           \/ \E p \in Items : /\ u.child = Erase([w.child EXCEPT ![p] = NULL], F, NULL)
                               /\ p \in v.live => v.child[p] = NULL
    PROVE  Grows(v, u)
  <1>1. /\ w.live \subseteq Items /\ DOMAIN w.child = Items
        /\ v.live \subseteq w.live /\ v.live \subseteq u.live
    BY HeapFields DEF Grows
  <1>2. \A a \in u.live : /\ u.next[a] \in u.live \cup {NULL}
                          /\ u.child[a] \in u.live \cup {NULL}
    BY WholeHeap
  <1>3. \A a \in u.live : u.next[a] = w.next[a]
    BY <1>1 DEF Erase
  <1>4. \A a \in u.live : u.child[a] = w.child[a]
                          \/ (u.child[a] = NULL /\ (a \in v.live => v.child[a] = NULL))
    <2>1. CASE u.child = Erase(w.child, F, NULL)
      BY <1>1, <2>1 DEF Erase
    <2>2. CASE \E p \in Items : /\ u.child = Erase([w.child EXCEPT ![p] = NULL], F, NULL)
                                /\ p \in v.live => v.child[p] = NULL
      BY <1>1, <2>2 DEF Erase
    <2> QED
      BY <2>1, <2>2
  <1> QED
    BY <1>1, <1>2, <1>3, <1>4 DEF Grows

\* A deletion leaves the numbers of the items it spares.
LEMMA DeletedTypes ==
    ASSUME NEW h \in Heap, NEW a \in Items \cup {NULL}, Numbered(h)
    PROVE  Numbered(cJSON_Delete(h, a)) /\ cJSON_Delete(h, a).mem = h.mem
  <1>1. /\ cJSON_Delete(h, a).type = Erase(h.type, Freed(h, a), "Invalid")
        /\ cJSON_Delete(h, a).valueint = Erase(h.valueint, Freed(h, a), 0)
        /\ cJSON_Delete(h, a).mem = h.mem
    BY DEF cJSON_Delete, Heap
  <1> QED
    BY <1>1 DEF Numbered, Erase

\* A tree the program has is deleted; the others stay whole.
LEMMA WholeDelete ==
    ASSUME NEW h, NEW roots, Whole(h, roots), NEW a \in roots \cup {NULL}
    PROVE  Whole(cJSON_Delete(h, a), roots \ {a})
  <1>1. h \in Heap /\ a \in Items \cup {NULL} /\ Sound(h, roots) /\ h.ref = {} /\ Numbered(h)
        /\ NULL \notin roots
    BY WholeHeap, HeapAssumption
  <1>2. Sound(cJSON_Delete(h, a), roots \ {a})
    <2>1. CASE a \in roots
      BY <1>1, <2>1, SoundDelete
    <2>2. CASE a = NULL
      <3>1. roots \ {a} = roots
        BY <1>1, <2>2
      <3> QED
        BY <1>1, <2>2, <3>1, SoundDeleteNothing
    <2> QED
      BY <2>1, <2>2
  <1>3. cJSON_Delete(h, a).ref = {} /\ Numbered(cJSON_Delete(h, a))
    BY <1>1, DeletedFields, DeletedTypes
  <1> QED
    BY <1>2, <1>3 DEF Whole

\* What a caller had before a call that made a and failed, it has again.
LEMMA GrowsDeleted ==
    ASSUME NEW v, NEW w, Grows(v, w), NEW roots, Whole(w, roots), NEW a \in roots \cup {NULL},
           a \notin v.live
    PROVE  LET u == cJSON_Delete(w, a)
           IN  /\ Grows(v, u) /\ Whole(u, roots \ {a})
               /\ \A b \in v.live : u.next[b] = w.next[b] /\ u.child[b] = w.child[b]
  <1> DEFINE u == cJSON_Delete(w, a)
             F == Freed(w, a)
  <1>1. w \in Heap /\ a \in (w.live \ v.live) \cup {NULL} /\ w.live \subseteq Items
    BY WholeHeap
  <1>2. F \subseteq w.live \ v.live
    BY <1>1, FreedIsNew
  <1>3. /\ u.live = w.live \ F /\ u.next = Erase(w.next, F, NULL)
        /\ u.child = Erase(w.child, F, NULL)
    BY <1>1, DeletedFields
  <1>4. Whole(u, roots \ {a})
    BY WholeDelete
  <1> HIDE DEF u, F
  <1>5. Grows(v, u)
    BY <1>1, <1>2, <1>3, <1>4, GrowsErased
  <1>6. \A b \in v.live : u.next[b] = w.next[b] /\ u.child[b] = w.child[b]
    BY <1>1, <1>2, <1>3 DEF Erase, Grows
  <1> QED
    BY <1>4, <1>5, <1>6 DEF u

-----------------------------------------------------------------------------
(* The heap with the open lists attached. *)

\* The heap as it is when the lists of the open items are attached to them.
Shown(h, open, lists) ==
    [h EXCEPT !.child = [a \in Items |-> IF a \in open THEN lists[a] ELSE h.child[a]]]

\* Only the children of open items are shown differently.
LEMMA ShownFields ==
    ASSUME NEW h \in Heap, NEW open, NEW lists \in [Items -> Pointers]
    PROVE  LET v == Shown(h, open, lists)
           IN  /\ v \in Heap
               /\ v.live = h.live /\ v.ref = h.ref /\ v.const = h.const
               /\ v.next = h.next /\ v.prev = h.prev
               /\ \A a \in Items : v.child[a] = IF a \in open THEN lists[a] ELSE h.child[a]
               /\ v.child \in [Items -> Pointers]
               /\ v.string = h.string /\ v.valuestring = h.valuestring
               /\ v.type = h.type /\ v.valueint = h.valueint
               /\ v.blocks = h.blocks /\ v.mem = h.mem /\ v.ret = h.ret
  BY DEF Shown, Heap, Pointers

\* The numbers are the same.
LEMMA ShownNumbered ==
    ASSUME NEW h \in Heap, NEW open, NEW lists \in [Items -> Pointers], Numbered(h)
    PROVE  Numbered(Shown(h, open, lists))
  <1>1. Shown(h, open, lists).type = h.type /\ Shown(h, open, lists).valueint = h.valueint
    BY ShownFields
  <1> QED
    BY <1>1 DEF Numbered

\* An allocation does not depend on what is shown.
LEMMA ShownNewItem ==
    ASSUME NEW h \in Heap, NEW open, NEW lists \in [Items -> Pointers]
    PROVE  /\ cJSON_New_Item(Shown(h, open, lists)) = Shown(cJSON_New_Item(h), open, lists)
           /\ cJSON_New_Item(h).ret = cJSON_New_Item(Shown(h, open, lists)).ret
  <1> DEFINE v == Shown(h, open, lists)
  <1>1. v.mem = h.mem /\ v.live = h.live /\ h.ret \in Items \cup {NULL}
    BY ShownFields DEF Heap
  <1>2. CASE h.mem = 0 \/ h.live = Items
    <2>1. cJSON_New_Item(h) = [h EXCEPT !.ret = NULL]
      BY <1>2 DEF cJSON_New_Item
    <2>2. cJSON_New_Item(v) = [v EXCEPT !.ret = NULL]
      BY <1>1, <1>2 DEF cJSON_New_Item
    <2> DEFINE child == [a \in Items |-> IF a \in open THEN lists[a] ELSE h.child[a]]
    <2>3. v = [h EXCEPT !.child = child]
      BY DEF Shown
    <2>4. Shown(cJSON_New_Item(h), open, lists) = [cJSON_New_Item(h) EXCEPT !.child = child]
      BY <2>1 DEF Shown, Heap
    <2> HIDE DEF child, v
    <2>5. cJSON_New_Item(v) = [cJSON_New_Item(h) EXCEPT !.child = child]
      BY <2>1, <2>2, <2>3 DEF Heap
    <2>6. cJSON_New_Item(h).ret = NULL
      BY <2>1 DEF Heap
    <2>7. cJSON_New_Item(v).ret = NULL
      BY <2>2, <2>3 DEF Heap
    <2> QED
      BY <2>4, <2>5, <2>6, <2>7 DEF v
  <1>3. CASE ~(h.mem = 0 \/ h.live = Items)
    <2> DEFINE node == CHOOSE a \in Items \ h.live : TRUE
    <2>1. cJSON_New_Item(h) = [h EXCEPT !.live = @ \cup {node}, !.mem = @ - 1, !.ret = node]
      BY <1>3 DEF cJSON_New_Item
    <2>2. cJSON_New_Item(v) = [v EXCEPT !.live = @ \cup {node}, !.mem = @ - 1, !.ret = node]
      BY <1>1, <1>3 DEF cJSON_New_Item
    <2> HIDE DEF node
    <2> DEFINE child == [a \in Items |-> IF a \in open THEN lists[a] ELSE h.child[a]]
    <2>3. v = [h EXCEPT !.child = child]
      BY DEF Shown
    <2>4. Shown(cJSON_New_Item(h), open, lists) = [cJSON_New_Item(h) EXCEPT !.child = child]
      BY <2>1 DEF Shown, Heap
    <2> HIDE DEF child, v
    <2>5. cJSON_New_Item(v) = [[h EXCEPT !.child = child] EXCEPT
                                 !.live = h.live \cup {node}, !.mem = h.mem - 1, !.ret = node]
      BY <1>1, <2>2, <2>3
    <2>6. cJSON_New_Item(v) = [cJSON_New_Item(h) EXCEPT !.child = child]
      BY <2>1, <2>5 DEF Heap
    <2> QED
      BY <2>1, <2>4, <2>5, <2>6 DEF v, Heap
  <1> QED
    BY <1>2, <1>3

\* A new item is blank and is linked to nothing.
LEMMA NewItemFields ==
    ASSUME NEW h \in Heap
    PROVE  LET n == cJSON_New_Item(h)
           IN  /\ n \in Heap
               /\ n.ret \in (Items \ h.live) \cup {NULL}
               /\ n.live = h.live \cup Returned(n) /\ n.ref = h.ref /\ n.const = h.const
               /\ n.next = h.next /\ n.prev = h.prev /\ n.child = h.child
               /\ n.string = h.string /\ n.valuestring = h.valuestring
               /\ n.type = h.type /\ n.valueint = h.valueint /\ n.blocks = h.blocks
  <1>1. CASE h.mem = 0 \/ h.live = Items
    BY <1>1 DEF cJSON_New_Item, Returned, Heap
  <1>2. CASE ~(h.mem = 0 \/ h.live = Items)
    <2> DEFINE node == CHOOSE a \in Items \ h.live : TRUE
    <2>1. node \in Items \ h.live
      BY <1>2 DEF Heap
    <2>2. cJSON_New_Item(h) = [h EXCEPT !.live = @ \cup {node}, !.mem = @ - 1, !.ret = node]
      BY <1>2 DEF cJSON_New_Item
    <2>3. h.mem - 1 \in Nat
      BY <1>2 DEF Heap
    <2> HIDE DEF node
    <2> DEFINE n == cJSON_New_Item(h)
    <2> HIDE DEF n
    <2>5. n = [h EXCEPT !.live = @ \cup {node}, !.mem = @ - 1, !.ret = node]
      BY <2>2 DEF n
    <2>4. /\ n \in Heap /\ n.ret = node /\ n.live = h.live \cup {node}
          /\ n.ref = h.ref /\ n.const = h.const
          /\ n.next = h.next /\ n.prev = h.prev /\ n.child = h.child
          /\ n.string = h.string /\ n.valuestring = h.valuestring
          /\ n.type = h.type /\ n.valueint = h.valueint /\ n.blocks = h.blocks
      BY <2>1, <2>5, <2>3 DEF Heap
    <2> QED
      BY <2>1, <2>4, HeapAssumption DEF Returned, n
  <1> QED
    BY <1>1, <1>2

\* A new item is a tree of its own.
LEMMA WholeNewItem ==
    ASSUME NEW h, NEW roots, Whole(h, roots)
    PROVE  LET n == cJSON_New_Item(h)
           IN  Whole(n, roots \cup Returned(n)) /\ Grows(h, n)
  <1> DEFINE n == cJSON_New_Item(h)
  <1>1. Sound(h, roots) /\ WellFormed(h, roots) /\ h \in Heap /\ h.ref = {} /\ Numbered(h)
    BY WholeHeap
  <1>2. Creates(h, roots, n)
    BY <1>1, NewItem
  <1>3. Fresh(h, n)
    BY <1>1, FreshNewItem
  <1>4. /\ n.ret \in (Items \ h.live) \cup {NULL} /\ n.live = h.live \cup Returned(n)
        /\ n.next = h.next /\ n.child = h.child
        /\ n.ref = h.ref /\ n.type = h.type /\ n.valueint = h.valueint
    BY <1>1, NewItemFields
  <1> HIDE DEF n
  <1>5. Sound(n, roots \cup Returned(n))
    BY <1>1, <1>2, <1>3, SoundFresh
  <1>6. Grows(h, n)
    <2>1. \A a \in n.live \ h.live : n.next[a] = NULL /\ n.child[a] = NULL
      BY <1>4, WholeHeap DEF Returned
    <2> QED
      BY <1>4, <2>1 DEF Grows
  <1>7. Numbered(n)
    BY <1>1, <1>4 DEF Numbered
  <1> QED
    BY <1>1, <1>4, <1>5, <1>6, <1>7 DEF Whole, n

\* A new item that leads nowhere is linked behind the last item of a list, or
\* as the first one of an item without a list.
LEMMA WholeLinked ==
    ASSUME NEW v, NEW h, Grows(v, h), NEW roots, Whole(h, roots),
           NEW a \in roots \ v.live,
           NEW g \in Heap, g.live = h.live, g.ref = h.ref, SameStrings(h, g),
           g.type = h.type, g.valueint = h.valueint,
           NEW x \in h.live, x \notin Freed(h, a),
           \/ /\ h.child[x] = NULL /\ g.child = [h.child EXCEPT ![x] = a]
              /\ g.next = h.next /\ g.prev = h.prev
           \/ /\ h.next[x] = NULL /\ x \notin roots /\ g.next = [h.next EXCEPT ![x] = a]
              /\ g.prev = [h.prev EXCEPT ![a] = x] /\ g.child = h.child
    PROVE  Whole(g, roots \ {a}) /\ Grows(v, g)
  <1>1. /\ Sound(h, roots) /\ WellFormed(h, roots) /\ h \in Heap /\ h.ref = {} /\ Numbered(h)
        /\ h.const \subseteq h.live /\ h.live \subseteq Items /\ a \in h.live
    BY WholeHeap
  <1>2. x # a
    BY <1>1, FreedCloses, HeapAssumption
  <1>3. g.const \subseteq h.live
    BY <1>1 DEF SameStrings
  <1>4. WellFormed(g, roots \ {a}) /\ Splice(h, g, x, a, NULL)
    <2>1. CASE /\ h.child[x] = NULL /\ g.child = [h.child EXCEPT ![x] = a]
               /\ g.next = h.next /\ g.prev = h.prev
      BY <1>1, <1>2, <1>3, <2>1, LinkFirst, FirstSplices
    <2>2. CASE /\ h.next[x] = NULL /\ x \notin roots /\ g.next = [h.next EXCEPT ![x] = a]
               /\ g.prev = [h.prev EXCEPT ![a] = x] /\ g.child = h.child
      <3>1. WellFormed(g, (roots \ {a}) \ {x})
        BY <1>1, <1>2, <1>3, <2>2, LinkAfter
      <3>2. (roots \ {a}) \ {x} = roots \ {a}
        BY <2>2
      <3>3. Splice(h, g, x, a, NULL)
        BY <1>1, <1>2, <2>2, AfterSplices
      <3> QED
        BY <3>1, <3>2, <3>3
    <2> QED
      BY <2>1, <2>2
  <1>5. Sound(g, roots \ {a})
    BY <1>1, <1>4, SoundLinked
  <1>6. Grows(v, g)
    BY <1>1, GrowsLinked
  <1> QED
    BY <1>1, <1>5, <1>6 DEF Whole, Numbered

\* One heap is another without some items, apart from the child pointers.
Without(w, F, g) ==
    /\ g.live = w.live \ F /\ g.ref = w.ref \ F /\ g.const = w.const \ F
    /\ g.next = Erase(w.next, F, NULL) /\ g.prev = Erase(w.prev, F, NULL)
    /\ g.string = Erase(w.string, F, NULL) /\ g.valuestring = Erase(w.valuestring, F, NULL)
    /\ g.blocks = w.blocks - Cardinality({b \in F : OwnsString(w, b)})
                           - Cardinality({b \in F : OwnsValue(w, b)})

\* A list of new items is freed and its parent is left without one.
LEMMA WholeListDeleted ==
    ASSUME NEW v, NEW w, Grows(v, w), NEW roots, Whole(w, roots), roots \subseteq v.live,
           NEW p \in v.live, v.child[p] = NULL, w.child[p] # NULL,
           NEW F, F = Freed(w, w.child[p]),
           NEW g \in Heap,
           Without(w, F, g), g.child = Erase([w.child EXCEPT ![p] = NULL], F, NULL),
           Numbered(g)
    PROVE  Whole(g, roots) /\ Grows(v, g)
  <1>0. /\ g.live = w.live \ F /\ g.ref = w.ref \ F /\ g.const = w.const \ F
        /\ g.next = Erase(w.next, F, NULL) /\ g.prev = Erase(w.prev, F, NULL)
    BY DEF Without
  <1>1. /\ Sound(w, roots) /\ WellFormed(w, roots) /\ w \in Heap /\ w.ref = {}
        /\ w.const \subseteq w.live /\ w.live \subseteq Items
    BY WholeHeap
  <1>2. w.child[p] \in w.live \ v.live /\ p \in w.live /\ p \in Items
    BY <1>1 DEF Grows
  <1>3. F \subseteq w.live \ v.live /\ F \subseteq Items
    BY <1>1, <1>2, FreedIsNew
  <1>4. g.const \subseteq g.live /\ p \notin F /\ p \in w.live \ w.ref
    BY <1>0, <1>1, <1>2, <1>3
  <1>5. WellFormed(g, roots) /\ Anchored(g, roots)
    BY <1>0, <1>1, <1>4, ListDeleted DEF Sound
  <1>6. Counted(g)
    BY <1>1, <1>3, DeletedCounted DEF Sound, Without
  <1>7. Whole(g, roots)
    BY <1>0, <1>1, <1>5, <1>6 DEF Whole, Sound
  <1>8. Grows(v, g)
    BY <1>0, <1>1, <1>2, <1>3, <1>7, GrowsErased, SMTT(30)
  <1> QED
    BY <1>7, <1>8

-----------------------------------------------------------------------------
(* The text: the offset never passes the terminator. *)

Text(s) ==
    /\ s \in ParseBuffers
    /\ s.offset < Len(s.content) /\ s.content[Len(s.content)] = "nul"
    /\ \A i \in 1..Len(s.content) - 1 : s.content[i] # "nul"

\* The types of the fields of a parse buffer.
LEMMA BufferFields ==
    ASSUME NEW s \in ParseBuffers
    PROVE  /\ s.content \in Seq(Lexemes \cup {"nul"}) /\ s.offset \in Nat /\ s.depth \in Int
           /\ s.h \in Heap /\ s.head \in Pointers /\ s.ok \in BOOLEAN /\ Len(s.content) \in Nat
  BY DEF ParseBuffers

\* Every lexeme the parser asks for is not the terminator.
LEMMA NotTheEnd ==
    /\ \A x \in Lexemes : x # "nul"
    /\ Strings \subseteq Lexemes /\ NumberLexemes \subseteq Lexemes
    /\ DOMAIN Literals \subseteq Lexemes
    /\ {"[", "]", "{", "}", ",", ":", "bom"} \subseteq Lexemes
  BY TextAssumption DEF Lexemes

\* The parser moves past a lexeme that is not the terminator.
LEMMA MoveText ==
    ASSUME NEW s, Text(s), At(s) # "nul"
    PROVE  LET t == Move(s, 1)
           IN  Text(t) /\ t = [s EXCEPT !.offset = @ + 1] /\ t.offset = s.offset + 1
  <1>1. s \in ParseBuffers /\ s.offset \in Nat /\ Len(s.content) \in Nat
    BY BufferFields DEF Text
  <1>2. s.offset + 1 < Len(s.content)
    BY <1>1 DEF Text, At
  <1>3. Move(s, 1) = [s EXCEPT !.offset = @ + 1]
    BY DEF Move
  <1>4. Move(s, 1) \in ParseBuffers
    BY <1>1, <1>3 DEF ParseBuffers
  <1> QED
    BY <1>1, <1>2, <1>3, <1>4 DEF Text, ParseBuffers

\* Skipping blanks stops at the terminator.
LEMMA SkipText ==
    ASSUME NEW s, Text(s)
    PROVE  LET t == buffer_skip_whitespace(s)
           IN  /\ Text(t) /\ s.offset <= t.offset
               /\ t = [s EXCEPT !.offset = t.offset]
  <1> DEFINE blanks == Reached(s)
             to == CHOOSE n \in blanks : \A m \in blanks : m <= n
             t == [s EXCEPT !.offset = IF to = Len(s.content) THEN to - 1 ELSE to]
             behind == {k \in Nat : Len(s.content) - k \in blanks}
  <1>1. s \in ParseBuffers /\ s.offset \in Nat /\ Len(s.content) \in Nat
        /\ s.offset < Len(s.content)
    BY BufferFields DEF Text
  <1>2. s.offset \in blanks /\ blanks \subseteq s.offset..Len(s.content)
    BY <1>1, SMTT(30) DEF Reached
  <1>9. t = buffer_skip_whitespace(s)
    BY DEF buffer_skip_whitespace
  <1> HIDE DEF blanks
  <1>3. behind \in SUBSET Nat /\ Len(s.content) - s.offset \in behind
    BY <1>1, <1>2
  <1>4. PICK k \in behind : \A j \in behind : k <= j
    <2> HIDE DEF behind
    <2> QED
      BY <1>3, Least
  <1>k. k \in Nat
    BY <1>3, <1>4
  <1>5. ASSUME NEW m \in blanks PROVE m <= Len(s.content) - k
    <2>1. m \in s.offset..Len(s.content)
      BY <1>2
    <2>2. Len(s.content) - m \in Nat /\ Len(s.content) - (Len(s.content) - m) = m
      BY <1>1, <2>1
    <2>3. Len(s.content) - m \in behind
      BY <2>2
    <2> HIDE DEF behind
    <2> QED
      BY <1>1, <1>4, <1>k, <2>1, <2>3
  <1>6. Len(s.content) - k \in blanks
    BY <1>4
  <1>7. to \in blanks
    BY <1>5, <1>6
  <1>8. to \in s.offset..Len(s.content)
    BY <1>2, <1>7
  <1> HIDE DEF to
  <1>10. t \in ParseBuffers /\ t.offset \in s.offset..Len(s.content) - 1
         /\ t.content = s.content /\ t = [s EXCEPT !.offset = t.offset]
    BY <1>1, <1>8 DEF ParseBuffers
  <1> HIDE DEF t
  <1>11. Text(t)
    BY <1>1, <1>10 DEF Text
  <1> QED
    BY <1>1, <1>9, <1>10, <1>11

-----------------------------------------------------------------------------
(* Steps of the parser that leave the lists alone. *)

\* A point of the parser: with the lists that are still open attached to their
\* items, the heap is whole.
Stage(s, roots, open, lists) ==
    /\ Text(s) /\ open \subseteq s.h.live /\ lists \in [Items -> Pointers]
    /\ Whole(Shown(s.h, open, lists), roots)

\* Later in the same text.
Later(s, t) == Text(t) /\ t.content = s.content /\ s.offset <= t.offset

Steady(s, t, roots, open, lists) ==
    /\ Later(s, t) /\ SameTree(s.h, t.h)
    /\ Stage(t, roots, open, lists)

\* Heaps with the same pointers are shown with the same pointers.
LEMMA ShownSame ==
    ASSUME NEW h \in Heap, NEW g \in Heap, SameTree(h, g), NEW open, NEW lists \in [Items -> Pointers]
    PROVE  SameTree(Shown(h, open, lists), Shown(g, open, lists))
  <1>1. Shown(h, open, lists).child = Shown(g, open, lists).child
    BY DEF Shown, SameTree, Heap
  <1> QED
    BY <1>1, ShownFields DEF SameTree

\* Two steps that leave the lists alone do so together.
LEMMA SteadyOn ==
    ASSUME NEW s, NEW t, NEW u, NEW roots, NEW open, NEW lists, Text(s),
           Steady(s, t, roots, open, lists), Steady(t, u, roots, open, lists)
    PROVE  Steady(s, u, roots, open, lists)
  <1>1. s.offset \in Nat /\ t.offset \in Nat /\ u.offset \in Nat
    BY BufferFields DEF Steady, Later, Text
  <1> QED
    BY <1>1 DEF Steady, Later, SameTree

\* Nothing but types, numbers, the memory left and the pointer returned has changed.
LEMMA SteadySame ==
    ASSUME NEW s, NEW t, NEW roots, NEW open, NEW lists, Stage(s, roots, open, lists),
           Later(s, t), SameTree(s.h, t.h), t.h.prev = s.h.prev, SameStrings(s.h, t.h),
           Numbered(t.h)
    PROVE  Steady(s, t, roots, open, lists)
  <1>1. s.h \in Heap /\ t.h \in Heap /\ lists \in [Items -> Pointers]
    BY BufferFields DEF Stage, Later, Text
  <1>2. /\ Shown(t.h, open, lists) \in Heap
        /\ SameTree(Shown(s.h, open, lists), Shown(t.h, open, lists))
        /\ Shown(t.h, open, lists).prev = Shown(s.h, open, lists).prev
        /\ SameStrings(Shown(s.h, open, lists), Shown(t.h, open, lists))
        /\ Numbered(Shown(t.h, open, lists))
    BY <1>1, ShownFields, ShownSame DEF SameStrings, Numbered
  <1>3. Whole(Shown(t.h, open, lists), roots)
    BY <1>2, WholeSame DEF Stage
  <1> QED
    BY <1>3 DEF Steady, Stage, Later, SameTree

\* What a stage says of the heap itself.
LEMMA StageNumbers ==
    ASSUME NEW s, NEW roots, NEW open, NEW lists, Stage(s, roots, open, lists)
    PROVE  /\ s.h \in Heap /\ Numbered(s.h) /\ lists \in [Items -> Pointers]
           /\ open \subseteq s.h.live /\ s.h.live \subseteq Items /\ roots \subseteq s.h.live
           /\ s.h.ref = {} /\ s.h.const \subseteq s.h.live
           /\ \A a \in Items \ s.h.live :
                /\ s.h.next[a] = NULL /\ s.h.prev[a] = NULL /\ s.h.child[a] = NULL
                /\ s.h.string[a] = NULL /\ s.h.valuestring[a] = NULL
  <1>1. s.h \in Heap /\ lists \in [Items -> Pointers] /\ open \subseteq s.h.live
    BY BufferFields DEF Stage, Text
  <1>2. Whole(Shown(s.h, open, lists), roots)
    BY DEF Stage
  <1> DEFINE v == Shown(s.h, open, lists)
  <1>3. /\ v.live = s.h.live /\ v.ref = s.h.ref /\ v.const = s.h.const
        /\ v.next = s.h.next /\ v.prev = s.h.prev
        /\ \A a \in Items : v.child[a] = IF a \in open THEN lists[a] ELSE s.h.child[a]
        /\ v.string = s.h.string /\ v.valuestring = s.h.valuestring
        /\ v.type = s.h.type /\ v.valueint = s.h.valueint
    BY <1>1, ShownFields
  <1>4. /\ v.live \subseteq Items /\ roots \subseteq v.live /\ v.ref = {} /\ Numbered(v)
        /\ v.const \subseteq v.live
        /\ \A a \in Items \ v.live : /\ v.next[a] = NULL /\ v.prev[a] = NULL /\ v.child[a] = NULL
                                     /\ v.string[a] = NULL /\ v.valuestring[a] = NULL
    BY <1>2, WholeHeap
  <1> HIDE DEF v
  <1>5. Numbered(s.h)
    BY <1>3, <1>4 DEF Numbered
  <1>6. \A a \in Items \ s.h.live : v.child[a] = s.h.child[a]
    BY <1>1, <1>3
  <1> QED
    BY <1>1, <1>3, <1>4, <1>5, <1>6

\* Blanks are skipped.
LEMMA SteadySkip ==
    ASSUME NEW s, NEW roots, NEW open, NEW lists, Stage(s, roots, open, lists)
    PROVE  Steady(s, buffer_skip_whitespace(s), roots, open, lists)
           /\ buffer_skip_whitespace(s).h = s.h /\ buffer_skip_whitespace(s).ok = s.ok
  <1> DEFINE t == buffer_skip_whitespace(s)
  <1>1. Text(s) /\ s \in ParseBuffers /\ Numbered(s.h)
    BY StageNumbers DEF Stage, Text
  <1>2. Text(t) /\ s.offset <= t.offset /\ t = [s EXCEPT !.offset = t.offset]
    BY <1>1, SkipText
  <1> HIDE DEF t
  <1>3. t.h = s.h /\ t.content = s.content /\ t.ok = s.ok
    BY <1>1, <1>2 DEF ParseBuffers
  <1>4. Steady(s, t, roots, open, lists)
    BY <1>1, <1>2, <1>3, SteadySame DEF Later, SameTree, SameStrings
  <1> QED
    BY <1>3, <1>4 DEF t

\* The parser moves on.
LEMMA SteadyMove ==
    ASSUME NEW s, NEW roots, NEW open, NEW lists, Stage(s, roots, open, lists), At(s) # "nul"
    PROVE  /\ Steady(s, Move(s, 1), roots, open, lists)
           /\ Move(s, 1).offset = s.offset + 1 /\ Move(s, 1).h = s.h /\ Move(s, 1).ok = s.ok
  <1> DEFINE t == Move(s, 1)
  <1>1. Text(s) /\ s \in ParseBuffers /\ Numbered(s.h) /\ s.offset \in Nat
    BY StageNumbers, BufferFields DEF Stage, Text
  <1>2. Text(t) /\ t = [s EXCEPT !.offset = @ + 1] /\ t.offset = s.offset + 1
    BY <1>1, MoveText DEF Stage
  <1> HIDE DEF t
  <1>3. t.h = s.h /\ t.content = s.content /\ t.ok = s.ok
    BY <1>1, <1>2 DEF ParseBuffers
  <1>4. s.offset <= t.offset
    BY <1>1, <1>2
  <1>5. Steady(s, t, roots, open, lists)
    BY <1>1, <1>2, <1>3, <1>4, SteadySame DEF Later, SameTree, SameStrings
  <1> QED
    BY <1>2, <1>3, <1>5 DEF t

\* The fields of the buffer that are not the text or the heap.
LEMMA SteadyMarked ==
    ASSUME NEW s, NEW roots, NEW open, NEW lists, Stage(s, roots, open, lists),
           NEW t \in ParseBuffers, t.content = s.content, t.offset = s.offset, t.h = s.h
    PROVE  Steady(s, t, roots, open, lists)
  <1>1. Text(s) /\ Numbered(s.h) /\ s.offset \in Nat
    BY StageNumbers, BufferFields DEF Stage, Text
  <1>2. Text(t)
    BY <1>1 DEF Text
  <1> QED
    BY <1>1, <1>2, SteadySame DEF Later, SameTree, SameStrings

\* The parser gives up.
LEMMA SteadyFail ==
    ASSUME NEW s, NEW roots, NEW open, NEW lists, Stage(s, roots, open, lists)
    PROVE  Steady(s, Fail(s), roots, open, lists)
  <1>1. s \in ParseBuffers
    BY DEF Stage, Text
  <1>2. /\ Fail(s) \in ParseBuffers /\ Fail(s).content = s.content
        /\ Fail(s).offset = s.offset /\ Fail(s).h = s.h
    BY <1>1 DEF Fail, ParseBuffers
  <1> QED
    BY <1>2, SteadyMarked

\* Before the terminator there is a lexeme.
LEMMA AtTyped ==
    ASSUME NEW s, Text(s)
    PROVE  At(s) \in Lexemes \cup {"nul"}
  <1>1. s.content \in Seq(Lexemes \cup {"nul"}) /\ s.offset \in Nat /\ Len(s.content) \in Nat
        /\ s.offset < Len(s.content)
    BY BufferFields DEF Text
  <1>2. s.offset + 1 \in 1..Len(s.content)
    BY <1>1
  <1> QED
    BY <1>1, <1>2 DEF At

\* The string at the offset is copied into an item that has no text.
LEMMA StringParsed ==
    ASSUME NEW s, NEW roots, NEW open, NEW lists, Stage(s, roots, open, lists),
           NEW item \in s.h.live, s.h.valuestring[item] = NULL
    PROVE  LET t == parse_string(s, item)
           IN  /\ Steady(s, t, roots, open, lists)
               /\ t.h.string = s.h.string /\ t.h.const = s.h.const
  <1>1. /\ s.h \in Heap /\ Numbered(s.h) /\ lists \in [Items -> Pointers] /\ item \in Items
        /\ Text(s) /\ s \in ParseBuffers
    BY StageNumbers DEF Stage, Text
  <1>2. CASE ~(At(s) \in Strings /\ CanCopy(s.h, At(s)))
    <2>1. parse_string(s, item) = Fail(s)
      BY <1>2 DEF parse_string
    <2>2. Fail(s).h = s.h
      BY <1>1 DEF Fail, ParseBuffers
    <2> QED
      BY <2>1, <2>2, SteadyFail
  <1>3. CASE At(s) \in Strings /\ CanCopy(s.h, At(s))
    <2> DEFINE x == At(s)
               g == [Copied(s.h) EXCEPT !.type[item] = "String", !.valuestring[item] = x]
               m == [s EXCEPT !.h = g]
               t == Move(m, 1)
    <2>1. parse_string(s, item) = t
      BY <1>3 DEF parse_string
    <2>2. x \in Strings /\ s.h.mem > 0 /\ x # "nul" /\ x = s.content[s.offset + 1]
      BY <1>3, NotTheEnd DEF CanCopy, At
    <2> HIDE DEF x
    <2>13. s.h.mem - 1 \in Nat /\ s.h.blocks + 1 \in Int /\ "String" \in Types
      BY <1>1, <2>2, HeapFields DEF Types
    <2>3. /\ g \in Heap /\ SameTree(s.h, g) /\ g.prev = s.h.prev
          /\ g.const = s.h.const /\ g.string = s.h.string
          /\ g.valuestring = [s.h.valuestring EXCEPT ![item] = x]
          /\ g.blocks = s.h.blocks + 1
          /\ g.type = [s.h.type EXCEPT ![item] = "String"] /\ g.valueint = s.h.valueint
      BY <1>1, <2>2, <2>13 DEF Copied, Heap, SameTree
    <2> HIDE DEF g
    <2>4. Numbered(g)
      BY <1>1, <2>3, HeapFields DEF Numbered
    <2>5. Text(m) /\ At(m) = x /\ m.content = s.content /\ m.offset = s.offset /\ m.h = g
          /\ m.head = s.head
      BY <1>1, <2>2, <2>3 DEF Text, ParseBuffers, At
    <2> HIDE DEF m
    <2>12. Text(t) /\ t = [m EXCEPT !.offset = @ + 1] /\ t.offset = m.offset + 1
      BY <2>2, <2>5, MoveText
    <2>6. Text(t) /\ t.offset = s.offset + 1 /\ t = [m EXCEPT !.offset = @ + 1]
      BY <2>5, <2>12
    <2> HIDE DEF t
    <2>7. t.h = g /\ t.content = s.content /\ s.offset \in Nat
      BY <1>1, <2>5, <2>6, BufferFields DEF Text, ParseBuffers
    <2>8. /\ Shown(g, open, lists) \in Heap
          /\ SameTree(Shown(s.h, open, lists), Shown(g, open, lists))
          /\ Shown(g, open, lists).prev = Shown(s.h, open, lists).prev
          /\ Shown(g, open, lists).const = Shown(s.h, open, lists).const
          /\ Shown(g, open, lists).string = Shown(s.h, open, lists).string
          /\ Shown(g, open, lists).valuestring
               = [Shown(s.h, open, lists).valuestring EXCEPT ![item] = x]
          /\ Shown(g, open, lists).blocks = Shown(s.h, open, lists).blocks + 1
          /\ Numbered(Shown(g, open, lists))
          /\ item \in Shown(s.h, open, lists).live
          /\ Shown(s.h, open, lists).valuestring[item] = NULL
      BY <1>1, <2>3, <2>4, ShownFields, ShownSame, ShownNumbered
    <2>9. Whole(Shown(g, open, lists), roots)
      BY <2>2, <2>8, WholeText DEF Stage
    <2>10. Steady(s, t, roots, open, lists)
      BY <2>3, <2>6, <2>7, <2>9 DEF Steady, Later, Stage, SameTree
    <2>11. t.h.string = s.h.string /\ t.h.const = s.h.const
      BY <2>3, <2>7
    <2> QED
      BY <2>1, <2>10, <2>11
  <1> QED
    BY <1>2, <1>3

-----------------------------------------------------------------------------
(* The recursive functions exist, so each is what its definition says. *)

ParsedUpTo(g, n) == g[0] = NoMembers /\ \A i \in 0..n-1 : g[i + 1] = ParsedMembers(g[i])

\* There is a sequence of n loops, each made of the one before.
LEMMA ParsersExist ==
    ASSUME NEW n \in Nat
    PROVE  \E g : ParsedUpTo(g, n)
  <1> DEFINE Good == {m \in Nat : \E g : ParsedUpTo(g, m)}
  <1>1. 0 \in Good
    <2>1. ParsedUpTo([i \in 0..0 |-> NoMembers], 0)
      BY DEF ParsedUpTo
    <2> QED
      BY <2>1
  <1>2. ASSUME NEW m \in Nat, m \in Good PROVE m + 1 \in Good
    <2>1. PICK g : ParsedUpTo(g, m)
      BY <1>2
    <2> DEFINE k == [i \in 0..m+1 |-> IF i = m + 1 THEN ParsedMembers(g[m]) ELSE g[i]]
    <2>2. k[0] = NoMembers
      BY <2>1 DEF ParsedUpTo
    <2>3. ASSUME NEW i \in 0..m PROVE k[i + 1] = ParsedMembers(k[i])
      <3>1. i \in 0..m+1 /\ i + 1 \in 0..m+1 /\ i # m + 1 /\ (i + 1 = m + 1 <=> i = m)
        OBVIOUS
      <3>2. k[i] = g[i] /\ k[i + 1] = IF i = m THEN ParsedMembers(g[m]) ELSE g[i + 1]
        BY <3>1
      <3>3. i # m => i \in 0..m-1
        OBVIOUS
      <3>4. i # m => g[i + 1] = ParsedMembers(g[i])
        BY <2>1, <3>3 DEF ParsedUpTo
      <3> HIDE DEF k
      <3> QED
        BY <3>2, <3>4
    <2>4. (m + 1) - 1 = m
      OBVIOUS
    <2> HIDE DEF k
    <2>5. ParsedUpTo(k, m + 1)
      BY <2>2, <2>3, <2>4 DEF ParsedUpTo
    <2> QED
      BY <2>5
  <1> HIDE DEF Good
  <1>3. 0..n \subseteq Good
    BY <1>1, <1>2, UpTo
  <1> QED
    BY <1>3 DEF Good

\* Two such sequences agree.
LEMMA ParsersAgree ==
    ASSUME NEW n \in Nat, NEW m \in Nat, n <= m, NEW g, NEW k, ParsedUpTo(g, n), ParsedUpTo(k, m)
    PROVE  g[n] = k[n]
  <1> DEFINE Same == {i \in 0..n : g[i] = k[i]}
  <1>1. 0 \in Same
    BY DEF ParsedUpTo
  <1>2. ASSUME NEW i \in 0..n-1, i \in Same PROVE i + 1 \in Same
    <2>1. i \in 0..m-1 /\ i + 1 \in 0..n /\ g[i] = k[i]
      BY <1>2
    <2>2. g[i + 1] = ParsedMembers(g[i]) /\ k[i + 1] = ParsedMembers(k[i])
      BY <2>1 DEF ParsedUpTo
    <2> QED
      BY <2>1, <2>2
  <1> HIDE DEF Same
  <1>3. 0..n \subseteq Same
    BY <1>1, <1>2, UpTo
  <1> QED
    BY <1>3 DEF Same

\* The loop with no round left, and with one more.
LEMMA ParserRounds ==
    /\ parse_members[0] = NoMembers
    /\ \A n \in Nat : parse_members[n + 1] = ParsedMembers(parse_members[n])
  <1> DEFINE G(n) == CHOOSE g : ParsedUpTo(g, n)
             f == [n \in Nat |-> G(n)[n]]
  <1>1. ASSUME NEW n \in Nat PROVE ParsedUpTo(G(n), n)
    BY ParsersExist
  <1> HIDE DEF G
  <1>2. f[0] = NoMembers
    BY <1>1 DEF ParsedUpTo
  <1>3. ASSUME NEW n \in Nat PROVE f[n + 1] = ParsedMembers(f[n])
    <2>1. n + 1 \in Nat /\ n <= n + 1 /\ n \in 0..(n+1)-1
      OBVIOUS
    <2>2. G(n + 1)[n + 1] = ParsedMembers(G(n + 1)[n])
      BY <1>1, <2>1 DEF ParsedUpTo
    <2>3. ParsedUpTo(G(n), n) /\ ParsedUpTo(G(n + 1), n + 1)
      BY <1>1, <2>1
    <2>4. G(n)[n] = G(n + 1)[n]
      BY <2>1, <2>3, ParsersAgree
    <2> QED
      BY <2>1, <2>2, <2>4
  <1>4. f = [n \in Nat |-> IF n = 0 THEN NoMembers ELSE ParsedMembers(f[n - 1])]
    <2>1. ASSUME NEW n \in Nat PROVE f[n] = IF n = 0 THEN NoMembers ELSE ParsedMembers(f[n - 1])
      <3>1. n # 0 => n - 1 \in Nat /\ (n - 1) + 1 = n
        OBVIOUS
      <3> HIDE DEF f
      <3> QED
        BY <1>2, <1>3, <3>1
    <2>2. f = [n \in Nat |-> f[n]]
      OBVIOUS
    <2> HIDE DEF f
    <2> QED
      BY <2>1, <2>2
  <1> HIDE DEF f
  <1>5. parse_members = [n \in Nat |-> IF n = 0 THEN NoMembers ELSE ParsedMembers(parse_members[n - 1])]
    BY <1>4 DEF parse_members
  <1>6. \A n \in Nat : n + 1 \in Nat /\ n + 1 # 0 /\ (n + 1) - 1 = n
    OBVIOUS
  <1> QED
    BY <1>5, <1>6

\* The text of a new item becomes its key.
LEMMA SteadyNamed ==
    ASSUME NEW s, NEW roots, NEW open, NEW lists, Stage(s, roots, open, lists),
           NEW item \in s.h.live \ s.h.const, s.h.string[item] = NULL
    PROVE  LET t == Named(s, item)
           IN  Steady(s, t, roots, open, lists) /\ t.h.valuestring[item] = NULL
  <1>1. /\ s.h \in Heap /\ Numbered(s.h) /\ lists \in [Items -> Pointers] /\ item \in Items
        /\ Text(s) /\ s \in ParseBuffers /\ s.offset \in Nat
    BY StageNumbers, BufferFields DEF Stage, Text
  <1> DEFINE x == s.h.valuestring[item]
             g == [s.h EXCEPT !.string[item] = x, !.valuestring[item] = NULL]
             t == [s EXCEPT !.h = g]
             v == Shown(s.h, open, lists)
             w == Shown(g, open, lists)
  <1>2. Named(s, item) = t
    BY <1>1 DEF Named, ParseBuffers
  <1>3. x \in Strings \cup {NULL}
    BY <1>1, HeapFields
  <1> HIDE DEF x
  <1>4. /\ g \in Heap /\ SameTree(s.h, g) /\ g.prev = s.h.prev
        /\ g.const = s.h.const /\ g.string = [s.h.string EXCEPT ![item] = x]
        /\ g.valuestring = [s.h.valuestring EXCEPT ![item] = NULL]
        /\ g.valuestring[item] = NULL
        /\ g.blocks = s.h.blocks
        /\ g.type = s.h.type /\ g.valueint = s.h.valueint
    BY <1>1, <1>3 DEF Heap, SameTree
  <1> HIDE DEF g
  <1>5. Text(t) /\ t.h = g /\ t.content = s.content /\ t.offset = s.offset
    BY <1>1, <1>4 DEF Text, ParseBuffers
  <1> HIDE DEF t
  <1>6. /\ w \in Heap /\ SameTree(v, w) /\ Numbered(g)
    BY <1>1, <1>4, ShownFields, ShownSame DEF Numbered
  <1>7. /\ w.prev = v.prev /\ w.const = v.const /\ w.string = [v.string EXCEPT ![item] = x]
        /\ w.valuestring = [v.valuestring EXCEPT ![item] = NULL] /\ w.blocks = v.blocks
        /\ Numbered(w) /\ item \in v.live \ v.const /\ v.string[item] = NULL
        /\ x = v.valuestring[item]
    BY <1>1, <1>4, <1>6, ShownFields, ShownNumbered DEF x
  <1>8. Whole(w, roots)
    <2>1. Whole(v, roots)
      BY DEF Stage
    <2> HIDE DEF v, w
    <2> QED
      BY <1>6, <1>7, <2>1, WholeKey
  <1>9. Steady(s, t, roots, open, lists)
    BY <1>1, <1>4, <1>5, <1>8 DEF Steady, Later, Stage, SameTree
  <1> QED
    BY <1>2, <1>4, <1>5, <1>9

\* An item gets the type and the number that a lexeme gives it.
LEMMA SteadyTyped ==
    ASSUME NEW s, NEW roots, NEW open, NEW lists, Stage(s, roots, open, lists),
           NEW item \in s.h.live, At(s) # "nul",
           NEW type \in Types, NEW int \in Int, type = "Number" => int \in Numbers
    PROVE  Steady(s, Move([s EXCEPT !.h.type[item] = type, !.h.valueint[item] = int], 1),
                  roots, open, lists)
  <1> DEFINE g == [s.h EXCEPT !.type[item] = type, !.valueint[item] = int]
             m == [s EXCEPT !.h = g]
             t == Move(m, 1)
  <1>1. /\ s.h \in Heap /\ Numbered(s.h) /\ item \in Items
        /\ Text(s) /\ s \in ParseBuffers /\ s.offset \in Nat
    BY StageNumbers, BufferFields DEF Stage, Text
  <1>2. [s EXCEPT !.h.type[item] = type, !.h.valueint[item] = int] = m
    BY <1>1 DEF ParseBuffers
  <1>3. /\ g \in Heap /\ SameTree(s.h, g) /\ g.prev = s.h.prev /\ SameStrings(s.h, g)
        /\ g.type = [s.h.type EXCEPT ![item] = type]
        /\ g.valueint = [s.h.valueint EXCEPT ![item] = int]
    BY <1>1 DEF Heap, SameTree, SameStrings
  <1> HIDE DEF g
  <1>4. Numbered(g)
    BY <1>1, <1>3, HeapFields DEF Numbered
  <1>5. m \in ParseBuffers /\ Text(m) /\ At(m) # "nul" /\ m.content = s.content
        /\ m.offset = s.offset /\ m.h = g
    BY <1>1, <1>3 DEF Text, ParseBuffers, At
  <1> HIDE DEF m
  <1>6. Steady(s, m, roots, open, lists)
    BY <1>1, <1>3, <1>4, <1>5, SteadySame DEF Later
  <1>7. Stage(m, roots, open, lists)
    BY <1>6 DEF Steady
  <1>8. Steady(m, t, roots, open, lists)
    BY <1>5, <1>7, SteadyMove
  <1>9. Steady(s, t, roots, open, lists)
    BY <1>1, <1>6, <1>8, SteadyOn
  <1> QED
    BY <1>2, <1>9

-----------------------------------------------------------------------------
(* Steps of the parser that add items. *)

\* From s the parser comes to t, having continued the lists of the open items.
Leads(s, t, roots, open, before, after) ==
    /\ Later(s, t) /\ Stage(t, roots, open, after)
    /\ Grows(Shown(s.h, open, before), Shown(t.h, open, after))
    /\ \A a \in open : t.h.child[a] = s.h.child[a]

\* Nothing was linked behind an item that was there, other than current.
OnlyBehind(current, s, t) == \A a \in s.h.live : a # current => t.h.next[a] = s.h.next[a]

\* A step that leaves the lists alone leads from a stage to the next.
LEMMA SteadyLeads ==
    ASSUME NEW s, NEW t, NEW roots, NEW open, NEW lists, Stage(s, roots, open, lists),
           Steady(s, t, roots, open, lists)
    PROVE  Leads(s, t, roots, open, lists, lists) /\ OnlyBehind(NULL, s, t)
  <1>1. s.h \in Heap /\ t.h \in Heap /\ lists \in [Items -> Pointers] /\ SameTree(s.h, t.h)
    BY StageNumbers DEF Steady
  <1>2. Grows(Shown(s.h, open, lists), Shown(t.h, open, lists))
    BY <1>1, ShownSame, GrowsSame
  <1> QED
    BY <1>1, <1>2 DEF Leads, Steady, SameTree, OnlyBehind

\* Two steps lead where they lead one after the other.
LEMMA LeadsOn ==
    ASSUME NEW s, NEW t, NEW u, NEW roots, NEW open, NEW one, NEW two, NEW three,
           Text(s), Leads(s, t, roots, open, one, two), Leads(t, u, roots, open, two, three)
    PROVE  Leads(s, u, roots, open, one, three)
  <1>1. s.offset \in Nat /\ t.offset \in Nat /\ u.offset \in Nat
    BY BufferFields DEF Leads, Later, Text
  <1>2. Shown(t.h, open, two) \in Heap
    BY WholeHeap DEF Leads, Stage
  <1>3. NULL \notin Shown(t.h, open, two).live
    BY <1>2, HeapFields, HeapAssumption
  <1>4. Grows(Shown(s.h, open, one), Shown(u.h, open, three))
    BY <1>3, GrowsOn DEF Leads
  <1> QED
    BY <1>1, <1>4 DEF Leads, Later

\* A list that has just been parsed, from s on, for an item that has none yet.
Listed(s, t, roots, open, lists, item) ==
    /\ Later(s, t) /\ Stage(t, roots, open \cup {item}, [lists EXCEPT ![item] = t.head])
    /\ Grows(Shown(s.h, open, lists),
             Shown(t.h, open \cup {item}, [lists EXCEPT ![item] = t.head]))
    /\ \A a \in open \cup {item} : t.h.child[a] = s.h.child[a]
    /\ OnlyBehind(NULL, s, t)

\* An item without a list may be counted among the open ones.
LEMMA ShownOneMore ==
    ASSUME NEW h \in Heap, NEW open, NEW lists \in [Items -> Pointers], NEW item \in Items,
           item \notin open, h.child[item] = NULL,
           NEW more, \A a \in Items : a \in more <=> a \in open \/ a = item,
           NEW none, none[item] = NULL, \A a \in Items \ {item} : none[a] = lists[a]
    PROVE  Shown(h, more, none) = Shown(h, open, lists)
  <1>1. \A a \in Items :
          (IF a \in more THEN none[a] ELSE h.child[a])
          = IF a \in open THEN lists[a] ELSE h.child[a]
    OBVIOUS
  <1> QED
    BY <1>1 DEF Shown

\* Two heaps that agree on what is visited free the same items.
LEMMA FreedAgree ==
    ASSUME NEW h \in Heap, NEW g \in Heap, NEW a \in Items \cup {NULL}, NEW S \in SUBSET Items,
           a \in S \cup {NULL}, DeleteCloses(h, S),
           \A b \in S : /\ g.next[b] = h.next[b] /\ g.child[b] = h.child[b]
                        /\ b \in g.ref <=> b \in h.ref
    PROVE  Freed(g, a) = Freed(h, a)
  <1>1. Freed(h, a) \subseteq S
    BY FreedSmallest
  <1>2. DeleteCloses(g, S)
    BY DEF DeleteCloses
  <1>3. Freed(g, a) \subseteq S
    BY <1>2, FreedSmallest
  <1>4. DeleteCloses(g, Freed(h, a)) /\ a \in Freed(h, a) \cup {NULL} /\ Freed(h, a) \in SUBSET Items
    BY <1>1, FreedCloses DEF DeleteCloses
  <1>5. DeleteCloses(h, Freed(g, a)) /\ a \in Freed(g, a) \cup {NULL} /\ Freed(g, a) \in SUBSET Items
    BY <1>3, FreedCloses DEF DeleteCloses
  <1>6. Freed(g, a) \subseteq Freed(h, a)
    BY <1>4, FreedSmallest
  <1>7. Freed(h, a) \subseteq Freed(g, a)
    BY <1>5, FreedSmallest
  <1> QED
    BY <1>6, <1>7

\* The list becomes the child of its item.
LEMMA ListClosed ==
    ASSUME NEW s, NEW t, NEW roots, NEW open, NEW lists, Stage(s, roots, open, lists),
           NEW item \in s.h.live \ open, s.h.child[item] = NULL,
           NEW type \in {"Array", "Object"}, At(t) # "nul",
           Listed(s, t, roots, open, lists, item)
    PROVE  LET u == Move([t EXCEPT !.depth = @ - 1,
                          !.h = [@ EXCEPT !.type[item] = type, !.child[item] = t.head]], 1)
           IN  Leads(s, u, roots, open, lists, lists) /\ OnlyBehind(NULL, s, u)
  <1> DEFINE head == t.head
             after == [lists EXCEPT ![item] = head]
             g == [t.h EXCEPT !.type[item] = type, !.child[item] = head]
             m == [t EXCEPT !.depth = @ - 1, !.h = g]
             u == Move(m, 1)
             v == Shown(s.h, open, lists)
             w == Shown(t.h, open \cup {item}, after)
             x == Shown(g, open, lists)
  <1>1. /\ s.h \in Heap /\ lists \in [Items -> Pointers] /\ item \in Items
        /\ Text(s) /\ s \in ParseBuffers /\ s.offset \in Nat
        /\ Text(t) /\ t \in ParseBuffers /\ t.offset \in Nat /\ t.h \in Heap /\ t.depth \in Int
        /\ head \in Pointers /\ open \subseteq s.h.live
    BY StageNumbers, BufferFields DEF Stage, Listed, Text
  <1>2. /\ Stage(t, roots, open \cup {item}, after) /\ Grows(v, w)
        /\ \A a \in open : t.h.child[a] = s.h.child[a]
        /\ s.offset <= t.offset /\ t.content = s.content /\ OnlyBehind(NULL, s, t)
    BY DEF Listed, Later
  <1> HIDE DEF head
  <1>3. /\ Numbered(t.h) /\ open \cup {item} \subseteq t.h.live /\ Whole(w, roots)
        /\ after \in [Items -> Pointers]
    BY <1>2, StageNumbers DEF Stage
  <1>4. [t EXCEPT !.depth = @ - 1,
                  !.h = [@ EXCEPT !.type[item] = type, !.child[item] = head]] = m
    BY <1>1 DEF ParseBuffers
  <1>5. /\ g \in Heap /\ g.live = t.h.live /\ g.ref = t.h.ref /\ g.next = t.h.next
        /\ g.prev = t.h.prev /\ SameStrings(t.h, g)
        /\ g.type = [t.h.type EXCEPT ![item] = type] /\ g.valueint = t.h.valueint
        /\ g.child = [t.h.child EXCEPT ![item] = head]
    <2>1. type \in Types
      BY DEF Types
    <2> QED
      BY <1>1, <2>1, ZenonT(30) DEF Heap, Pointers, SameStrings
  <1> HIDE DEF g
  <1>6. Numbered(g)
    BY <1>1, <1>3, <1>5, HeapFields DEF Numbered
  <1>7. \A a \in Items : (IF a \in open THEN lists[a] ELSE g.child[a])
                         = IF a \in open \cup {item} THEN after[a] ELSE t.h.child[a]
    BY <1>1, <1>5, HeapFields
  <1>8. /\ x \in Heap /\ x.live = w.live /\ x.ref = w.ref /\ x.next = w.next /\ x.prev = w.prev
        /\ SameStrings(w, x) /\ Numbered(x)
    <2>1. /\ w.live = t.h.live /\ w.ref = t.h.ref /\ w.next = t.h.next /\ w.prev = t.h.prev
          /\ w.const = t.h.const /\ w.string = t.h.string /\ w.valuestring = t.h.valuestring
          /\ w.blocks = t.h.blocks
      <3> HIDE DEF after
      <3>1. after \in [Items -> Pointers] /\ t.h \in Heap
        BY <1>1, <1>3
      <3> QED
        BY <3>1, ShownFields
    <2>2. /\ x \in Heap /\ x.live = g.live /\ x.ref = g.ref /\ x.next = g.next /\ x.prev = g.prev
          /\ x.const = g.const /\ x.string = g.string /\ x.valuestring = g.valuestring
          /\ x.blocks = g.blocks
      BY <1>1, <1>5, ShownFields
    <2>3. Numbered(x)
      BY <1>1, <1>5, <1>6, ShownNumbered
    <2> HIDE DEF w, x
    <2> QED
      BY <1>5, <2>1, <2>2, <2>3 DEF SameStrings
  <1>9. x.child = w.child
    BY <1>1, <1>5, <1>7 DEF Shown, Heap
  <1> HIDE DEF after, v, w, x
  <1>10. SameTree(w, x)
    BY <1>8, <1>9 DEF SameTree
  <1>11. Whole(x, roots) /\ Grows(v, x)
    <2>1. Whole(x, roots)
      BY <1>3, <1>8, <1>10, WholeSame
    <2>2. Grows(v, x)
      BY <1>2, <1>8, <1>9 DEF Grows
    <2> QED
      BY <2>1, <2>2
  <1>12. m \in ParseBuffers /\ Text(m) /\ At(m) # "nul" /\ m.content = t.content
         /\ m.offset = t.offset /\ m.h = g
    <2>1. t.depth - 1 \in Int
      BY <1>1
    <2>2. m \in ParseBuffers /\ m.content = t.content /\ m.offset = t.offset /\ m.h = g
      BY <1>1, <1>5, <2>1 DEF ParseBuffers
    <2> HIDE DEF m
    <2> QED
      BY <1>1, <2>2 DEF Text, At
  <1> HIDE DEF m
  <1>13. Stage(m, roots, open, lists)
    BY <1>1, <1>3, <1>5, <1>11, <1>12 DEF Stage, x
  <1>14. Steady(m, u, roots, open, lists)
    BY <1>12, <1>13, SteadyMove
  <1>15. Leads(m, u, roots, open, lists, lists) /\ OnlyBehind(NULL, m, u)
    BY <1>13, <1>14, SteadyLeads
  <1>16. Leads(s, m, roots, open, lists, lists)
    <2>1. \A a \in open : m.h.child[a] = s.h.child[a]
      BY <1>1, <1>2, <1>5, <1>12, HeapFields
    <2> QED
      BY <1>2, <1>11, <1>12, <1>13, <2>1 DEF Leads, Later, v, x
  <1>17. OnlyBehind(NULL, s, m) /\ s.h.live \subseteq m.h.live
    <2>1. v.live = s.h.live /\ x.live = g.live
      BY <1>1, <1>5, ShownFields DEF v, x
    <2> QED
      BY <1>2, <1>5, <1>11, <1>12, <2>1 DEF OnlyBehind, Grows
  <1>18. OnlyBehind(NULL, s, u)
    BY <1>15, <1>17 DEF OnlyBehind
  <1>19. Leads(s, u, roots, open, lists, lists)
    BY <1>1, <1>15, <1>16, LeadsOn
  <1> QED
    BY <1>4, <1>18, <1>19 DEF head

\* What is deleted is not shown any more.
LEMMA ShownDeleted ==
    ASSUME NEW h \in Heap, NEW a \in Items \cup {NULL}, NEW open, NEW lists \in [Items -> Pointers]
    PROVE  LET F == Freed(h, a)
               g == Shown(cJSON_Delete(h, a), open, lists)
           IN  /\ g \in Heap /\ Without(h, F, g) /\ g.child \in [Items -> Pointers]
               /\ \A b \in Items : g.child[b] = IF b \in open THEN lists[b]
                                                ELSE IF b \in F THEN NULL ELSE h.child[b]
  <1> DEFINE F == Freed(h, a)
             d == cJSON_Delete(h, a)
             g == Shown(d, open, lists)
  <1>1. /\ d \in Heap /\ d.live = h.live \ F /\ d.ref = h.ref \ F
        /\ d.const = h.const \ F
        /\ d.next = Erase(h.next, F, NULL) /\ d.prev = Erase(h.prev, F, NULL)
        /\ d.child = Erase(h.child, F, NULL)
    BY DeletedFields
  <1>2. /\ d.string = Erase(h.string, F, NULL)
        /\ d.valuestring = Erase(h.valuestring, F, NULL)
        /\ d.blocks = h.blocks - Cardinality({b \in F : OwnsString(h, b)})
                               - Cardinality({b \in F : OwnsValue(h, b)})
    BY DeletedStrings
  <1> HIDE DEF d
  <1>3. /\ g \in Heap /\ g.live = d.live /\ g.ref = d.ref /\ g.const = d.const
        /\ g.next = d.next /\ g.prev = d.prev
        /\ \A b \in Items : g.child[b] = IF b \in open THEN lists[b] ELSE d.child[b]
        /\ g.child \in [Items -> Pointers]
        /\ g.string = d.string /\ g.valuestring = d.valuestring /\ g.blocks = d.blocks
    BY <1>1, ShownFields
  <1> HIDE DEF g
  <1>4. \A b \in Items : d.child[b] = IF b \in F THEN NULL ELSE h.child[b]
    BY <1>1 DEF Erase
  <1>5. Without(h, F, g)
    BY <1>1, <1>2, <1>3 DEF Without
  <1> QED
    BY <1>3, <1>4, <1>5 DEF d, g

\* The list is deleted: its item has none, as before.
LEMMA ListAbandoned ==
    ASSUME NEW s, NEW t, NEW roots, NEW open, NEW lists, Stage(s, roots, open, lists),
           NEW item \in s.h.live \ open, s.h.child[item] = NULL,
           Listed(s, t, roots, open, lists, item)
    PROVE  LET u == Fail([t EXCEPT !.h = cJSON_Delete(@, t.head)])
           IN  Leads(s, u, roots, open, lists, lists) /\ OnlyBehind(NULL, s, u)
  <1> DEFINE head == t.head
             after == [lists EXCEPT ![item] = head]
             g == cJSON_Delete(t.h, head)
             u == Fail([t EXCEPT !.h = g])
             v == Shown(s.h, open, lists)
             w == Shown(t.h, open \cup {item}, after)
             x == Shown(g, open, lists)
             F == Freed(t.h, head)
  <1>1. /\ s.h \in Heap /\ lists \in [Items -> Pointers] /\ item \in Items
        /\ Text(s) /\ s \in ParseBuffers /\ s.offset \in Nat
        /\ Text(t) /\ t \in ParseBuffers /\ t.offset \in Nat /\ t.h \in Heap
        /\ head \in Items \cup {NULL} /\ open \subseteq s.h.live /\ roots \subseteq s.h.live
        /\ s.h.live \subseteq Items
    BY StageNumbers, BufferFields DEF Stage, Listed, Text, Pointers
  <1>2. /\ Stage(t, roots, open \cup {item}, after) /\ Grows(v, w)
        /\ \A a \in open \cup {item} : t.h.child[a] = s.h.child[a]
        /\ s.offset <= t.offset /\ t.content = s.content /\ OnlyBehind(NULL, s, t)
    BY DEF Listed, Later
  <1>3. u.h = g /\ u.content = t.content /\ u.offset = t.offset /\ Text(u)
    <2>1. g \in Heap
      BY <1>1, DeletedFields
    <2> HIDE DEF g
    <2> QED
      BY <1>1, <2>1 DEF Fail, Text, ParseBuffers
  <1> HIDE DEF head, u
  <1>4. Numbered(t.h) /\ Whole(w, roots) /\ after \in [Items -> Pointers] /\ t.h.ref = {}
    BY <1>2, StageNumbers DEF Stage
  <1>5. after[item] = head /\ \A a \in Items \ {item} : after[a] = lists[a]
    BY <1>1
  <1> HIDE DEF after
  <1>6. /\ v.live = s.h.live
        /\ \A a \in Items : v.child[a] = IF a \in open THEN lists[a] ELSE s.h.child[a]
    BY <1>1, ShownFields
  <1>7. /\ w \in Heap /\ w.live = t.h.live /\ w.ref = t.h.ref /\ w.const = t.h.const
        /\ w.next = t.h.next /\ w.prev = t.h.prev
        /\ \A a \in Items : w.child[a] = IF a \in open \cup {item} THEN after[a] ELSE t.h.child[a]
        /\ w.child \in [Items -> Pointers]
        /\ w.string = t.h.string /\ w.valuestring = t.h.valuestring /\ w.blocks = t.h.blocks
    <2>1. t.h \in Heap /\ after \in [Items -> Pointers]
      BY <1>1, <1>4
    <2> QED
      <3> DEFINE more == open \cup {item}
      <3>1. w = Shown(t.h, more, after)
        OBVIOUS
      <3> HIDE DEF w, more
      <3>2. \A a \in Items : w.child[a] = IF a \in more THEN after[a] ELSE t.h.child[a]
        BY <2>1, <3>1, ShownFields
      <3>3. /\ w \in Heap /\ w.live = t.h.live /\ w.ref = t.h.ref /\ w.const = t.h.const
            /\ w.next = t.h.next /\ w.prev = t.h.prev /\ w.child \in [Items -> Pointers]
            /\ w.string = t.h.string /\ w.valuestring = t.h.valuestring /\ w.blocks = t.h.blocks
        BY <2>1, <3>1, ShownFields
      <3> QED
        BY <3>2, <3>3 DEF more
  <1> HIDE DEF v, w
  <1>8. w.child[item] = head /\ item \in v.live /\ v.child[item] = NULL
        /\ \A b \in Items : b \notin open \cup {item} => w.child[b] = t.h.child[b]
    BY <1>1, <1>5, <1>6, <1>7
  <1>9. head \in (w.live \ v.live) \cup {NULL} /\ w.live \subseteq Items
    BY <1>2, <1>7, <1>8, HeapFields DEF Grows
  <1>10. DeleteCloses(w, w.live \ v.live)
    BY <1>2 DEF Grows, DeleteCloses
  <1>11. F = Freed(w, head) /\ F \subseteq w.live \ v.live
    <2>1. \A b \in w.live \ v.live :
            /\ t.h.next[b] = w.next[b] /\ t.h.child[b] = w.child[b]
            /\ b \in t.h.ref <=> b \in w.ref
      BY <1>1, <1>6, <1>7, <1>8, <1>9
    <2>2. Freed(t.h, head) = Freed(w, head)
      BY <1>1, <1>7, <1>9, <1>10, <2>1, FreedAgree
    <2>3. Freed(w, head) \subseteq w.live \ v.live
      BY <1>2, <1>7, <1>9, FreedIsNew
    <2> QED
      BY <2>2, <2>3
  <1>12. /\ x \in Heap /\ Without(t.h, F, x) /\ x.child \in [Items -> Pointers]
         /\ \A b \in Items : x.child[b] = IF b \in open THEN lists[b]
                                          ELSE IF b \in F THEN NULL ELSE t.h.child[b]
    <2>1. t.h \in Heap /\ head \in Items \cup {NULL} /\ lists \in [Items -> Pointers]
      BY <1>1
    <2> QED
      BY <2>1, ShownDeleted
  <1>13. Numbered(x)
    <2>1. Numbered(g) /\ g \in Heap
      BY <1>1, <1>4, DeletedTypes, DeletedFields
    <2> HIDE DEF g
    <2> QED
      BY <1>1, <2>1, ShownNumbered
  <1> HIDE DEF F, x, g
  <1>14. \A b \in Items : x.child[b] = IF b \in F THEN NULL
                                       ELSE IF b = item THEN NULL ELSE w.child[b]
    BY <1>1, <1>2, <1>5, <1>6, <1>7, <1>8, <1>11, <1>12
  <1>15. x.child = Erase([w.child EXCEPT ![item] = NULL], F, NULL)
    BY <1>1, <1>7, <1>12, <1>14 DEF Erase
  <1>16. Without(w, F, x)
    <2>1. \A b : (OwnsString(w, b) <=> OwnsString(t.h, b)) /\ (OwnsValue(w, b) <=> OwnsValue(t.h, b))
      BY <1>7 DEF OwnsString, OwnsValue
    <2>2. /\ {b \in F : OwnsString(w, b)} = {b \in F : OwnsString(t.h, b)}
          /\ {b \in F : OwnsValue(w, b)} = {b \in F : OwnsValue(t.h, b)}
      BY <2>1
    <2> QED
      BY <1>7, <1>12, <2>2 DEF Without
  <1>17. Whole(x, roots) /\ Grows(v, x)
    <2>1. CASE head # NULL
      <3>1. roots \subseteq v.live /\ w.child[item] # NULL /\ F = Freed(w, w.child[item])
        BY <1>1, <1>6, <1>8, <1>11, <2>1
      <3> QED
        BY <1>2, <1>4, <1>8, <1>12, <1>13, <1>15, <1>16, <3>1, WholeListDeleted
    <2>2. CASE head = NULL
      <3>1. F = {}
        <4>1. DeleteCloses(w, {}) /\ {} \in SUBSET Items
          BY DEF DeleteCloses
        <4> QED
          BY <1>7, <1>11, <2>2, <4>1, FreedSmallest
      <3>2. \A f, blank : f \in [Items -> Pointers] \cup [Items -> Strings \cup {NULL}] =>
              Erase(f, {}, blank) = f
        BY DEF Erase
      <3>3. [w.child EXCEPT ![item] = NULL] = w.child
        BY <1>1, <1>7, <1>8, <2>2
      <3>4. SameTree(w, x) /\ x.prev = w.prev
        BY <1>7, <1>15, <1>16, <3>1, <3>2, <3>3, HeapFields DEF SameTree, Pointers, Without
      <3>5. SameStrings(w, x)
        <4>1. x.blocks = w.blocks
          <5>1. {b \in {} : OwnsString(w, b)} = {} /\ {b \in {} : OwnsValue(w, b)} = {}
            OBVIOUS
          <5>2. Cardinality({}) = 0 /\ w.blocks \in Int
            BY <1>7, HeapFields, FS_EmptySet
          <5> QED
            BY <1>16, <3>1, <5>1, <5>2 DEF Without
        <4> QED
          BY <1>7, <1>16, <3>1, <3>2, <4>1, HeapFields DEF SameStrings, Without
      <3>6. Whole(x, roots)
        BY <1>4, <1>12, <1>13, <3>4, <3>5, WholeSame
      <3>7. Grows(v, x)
        BY <1>2, <3>4 DEF Grows, SameTree
      <3> QED
        BY <3>6, <3>7
    <2> QED
      BY <2>1, <2>2
  <1>18. /\ g.live = t.h.live \ F
         /\ \A b \in Items : g.next[b] = IF b \in F THEN NULL ELSE t.h.next[b]
         /\ \A b \in Items : g.child[b] = IF b \in F THEN NULL ELSE t.h.child[b]
    <2>1. t.h \in Heap /\ head \in Items \cup {NULL}
      BY <1>1
    <2>2. g.live = t.h.live \ F /\ g.next = Erase(t.h.next, F, NULL)
          /\ g.child = Erase(t.h.child, F, NULL)
      BY <2>1, DeletedFields DEF g, F
    <2> QED
      BY <2>2 DEF Erase
  <1>19. s.h.live \subseteq g.live
    BY <1>2, <1>6, <1>7, <1>11, <1>18 DEF Grows
  <1>20. Stage(u, roots, open, lists)
    BY <1>1, <1>3, <1>17, <1>19 DEF Stage, x
  <1>21. Leads(s, u, roots, open, lists, lists)
    BY <1>1, <1>2, <1>3, <1>6, <1>11, <1>17, <1>18, <1>20 DEF Leads, Later, v, x
  <1>22. OnlyBehind(NULL, s, u)
    BY <1>1, <1>2, <1>3, <1>6, <1>11, <1>18 DEF OnlyBehind
  <1> QED
    BY <1>21, <1>22 DEF u, g, head

\* The loop over the members of an open item: head is its list so far and
\* current the last item of that list.
MembersStart(s, head, current, roots, open, lists, item) ==
    /\ Stage(s, roots, open, lists) /\ At(s) # "nul"
    /\ item \in open /\ lists[item] = head
    /\ head = NULL => current = NULL
    /\ head # NULL => current \in s.h.live \ roots /\ s.h.next[current] = NULL

MembersEnd(s, t, current, roots, open, lists, item) ==
    /\ Leads(s, t, roots, open, lists, [lists EXCEPT ![item] = t.head])
    /\ OnlyBehind(current, s, t)

\* The loop does this for the last n lexemes of a text.
LoopWorks(loop, n) ==
    \A s \in ParseBuffers, type \in {"Array", "Object"}, head \in Pointers, current \in Pointers :
    \A roots \in SUBSET Items, open \in SUBSET Items, lists \in [Items -> Pointers], item \in Items :
        MembersStart(s, head, current, roots, open, lists, item) /\ Len(s.content) - s.offset <= n
        => MembersEnd(s, loop[s, type, head, current], current, roots, open, lists, item)

\* Behind an opening bracket there is something to put the offset back to.
LEMMA MoveBack ==
    ASSUME NEW s, NEW roots, NEW open, NEW lists, Stage(s, roots, open, lists), s.offset > 0
    PROVE  LET t == Move(s, -1)
           IN  /\ Stage(t, roots, open, lists) /\ At(t) # "nul" /\ t.h = s.h
               /\ t.content = s.content /\ t.offset = s.offset - 1
  <1> DEFINE t == Move(s, -1)
  <1>1. /\ Text(s) /\ s \in ParseBuffers /\ s.offset \in Nat /\ Len(s.content) \in Nat
        /\ s.offset < Len(s.content) /\ \A i \in 1..Len(s.content) - 1 : s.content[i] # "nul"
    BY BufferFields DEF Stage, Text
  <1>2. t = [s EXCEPT !.offset = s.offset - 1]
    <2>1. s.offset + (-1) = s.offset - 1
      BY <1>1
    <2> QED
      BY <2>1 DEF Move
  <1> HIDE DEF t
  <1>3. s.offset - 1 \in Nat /\ s.offset \in 1..Len(s.content) - 1
    BY <1>1
  <1>4. t \in ParseBuffers /\ t.offset = s.offset - 1 /\ t.content = s.content /\ t.h = s.h
    BY <1>1, <1>2, <1>3 DEF ParseBuffers
  <1>5. Text(t) /\ At(t) # "nul"
    <2>1. (s.offset - 1) + 1 = s.offset /\ s.offset - 1 < Len(s.content)
      BY <1>1
    <2> QED
      BY <1>1, <1>3, <1>4, <2>1 DEF Text, At
  <1>6. Stage(t, roots, open, lists)
    BY <1>4, <1>5 DEF Stage
  <1> QED
    BY <1>4, <1>5, <1>6 DEF t

\* parse_array, parse_object.
LEMMA ListParsed ==
    ASSUME NEW s, NEW roots, NEW open, NEW lists, Stage(s, roots, open, lists),
           NEW item \in s.h.live \ open, s.h.child[item] = NULL, At(s) # "nul",
           NEW type \in {"Array", "Object"}, NEW close, close # "nul",
           NEW n \in Nat, Len(s.content) - s.offset <= n, NEW loop, LoopWorks(loop, n)
    PROVE  LET t == parse_list(s, item, type, close, loop)
           IN  Leads(s, t, roots, open, lists, lists) /\ OnlyBehind(NULL, s, t)
  <1> DEFINE deeper == [s EXCEPT !.depth = @ + 1]
             opened == buffer_skip_whitespace(Move(deeper, 1))
             back == Move(opened, -1)
             listed == IF At(opened) = close THEN [opened EXCEPT !.head = NULL]
                       ELSE loop[back, type, NULL, NULL]
             more == open \cup {item}
             none == [lists EXCEPT ![item] = NULL]
  <1>1. /\ s \in ParseBuffers /\ Text(s) /\ s.h \in Heap /\ lists \in [Items -> Pointers]
        /\ item \in Items /\ open \subseteq s.h.live /\ s.h.live \subseteq Items
        /\ roots \subseteq s.h.live /\ s.offset \in Nat /\ Len(s.content) \in Nat /\ s.depth \in Int
    BY StageNumbers, BufferFields DEF Stage, Text
  <1>2. CASE ~Allowed(s)
    <2>1. parse_list(s, item, type, close, loop) = Fail(s)
      BY <1>2 DEF parse_list
    <2> QED
      BY <2>1, SteadyFail, SteadyLeads
  <1>3. CASE Allowed(s)
    <2>1. parse_list(s, item, type, close, loop) = Closed(listed, item, type, close)
      BY <1>3 DEF parse_list
    <2>2. deeper \in ParseBuffers /\ deeper.content = s.content /\ deeper.offset = s.offset
          /\ deeper.h = s.h
      BY <1>1 DEF ParseBuffers
    <2> HIDE DEF deeper
    <2>3. Steady(s, deeper, roots, open, lists) /\ At(deeper) # "nul"
      BY <2>2, SteadyMarked DEF At
    <2>4. Steady(deeper, Move(deeper, 1), roots, open, lists)
          /\ Move(deeper, 1).offset = s.offset + 1
      BY <2>2, <2>3, SteadyMove DEF Steady
    <2>5. Steady(Move(deeper, 1), opened, roots, open, lists)
      BY <2>4, SteadySkip DEF Steady
    <2> HIDE DEF opened
    <2>6. Steady(s, opened, roots, open, lists)
      <3>1. Steady(s, Move(deeper, 1), roots, open, lists)
        BY <1>1, <2>3, <2>4, SteadyOn
      <3> QED
        BY <1>1, <2>5, <3>1, SteadyOn
    <2>7. /\ Stage(opened, roots, open, lists) /\ SameTree(s.h, opened.h) /\ opened.h \in Heap
          /\ opened.content = s.content /\ opened.offset >= s.offset + 1 /\ opened.offset \in Nat
          /\ opened \in ParseBuffers /\ opened.h.child[item] = NULL
      <3>1. /\ Stage(opened, roots, open, lists) /\ SameTree(s.h, opened.h)
            /\ opened.content = s.content /\ Move(deeper, 1).offset <= opened.offset
        BY <2>5, <2>6 DEF Steady, Later
      <3>2. opened.h \in Heap /\ opened \in ParseBuffers /\ opened.offset \in Nat
        BY <3>1, StageNumbers, BufferFields DEF Stage, Text
      <3> QED
        BY <1>1, <2>4, <3>1, <3>2 DEF SameTree
    <2>8. none \in [Items -> Pointers] /\ none[item] = NULL /\ \A x : [none EXCEPT ![item] = x] = [lists EXCEPT ![item] = x]
      BY <1>1 DEF Pointers
    <2>9. /\ Shown(opened.h, more, none) = Shown(opened.h, open, lists)
          /\ Shown(s.h, more, none) = Shown(s.h, open, lists)
      <3>1. /\ opened.h \in Heap /\ s.h \in Heap /\ item \in Items /\ item \notin open
            /\ opened.h.child[item] = NULL /\ s.h.child[item] = NULL
            /\ lists \in [Items -> Pointers]
        BY <1>1, <2>7
      <3>2. /\ \A a \in Items : a \in more <=> a \in open \/ a = item
            /\ none[item] = NULL /\ \A a \in Items \ {item} : none[a] = lists[a]
        BY <3>1
      <3> HIDE DEF more, none
      <3>3. Shown(opened.h, more, none) = Shown(opened.h, open, lists)
        BY <3>1, <3>2, ShownOneMore
      <3>4. Shown(s.h, more, none) = Shown(s.h, open, lists)
        BY <3>1, <3>2, ShownOneMore
      <3> QED
        BY <3>3, <3>4
    <2>10. Stage(opened, roots, more, none) /\ Stage(s, roots, more, none)
      <3>1. more \subseteq s.h.live /\ more \subseteq opened.h.live
        BY <1>1, <2>7 DEF SameTree
      <3> HIDE DEF more, none
      <3> QED
        BY <2>7, <2>8, <2>9, <3>1 DEF Stage
    <2> HIDE DEF none
    <2>11. Listed(s, listed, roots, open, lists, item)
      <3>1. CASE At(opened) = close
        <4> DEFINE t == [opened EXCEPT !.head = NULL]
        <4>1. /\ t \in ParseBuffers /\ t.content = opened.content /\ t.offset = opened.offset
              /\ t.h = opened.h /\ t.head = NULL
          BY <2>7 DEF ParseBuffers, Pointers
        <4> HIDE DEF t
        <4>2. Steady(opened, t, roots, more, none)
          BY <2>10, <4>1, SteadyMarked
        <4>3. Later(s, t) /\ SameTree(s.h, t.h) /\ Stage(t, roots, more, none)
          BY <1>1, <2>6, <2>7, <4>1, <4>2 DEF Steady, Later
        <4>4. Grows(Shown(s.h, open, lists), Shown(t.h, more, none))
          BY <1>1, <2>7, <2>9, <4>1, ShownSame, GrowsSame
        <4>5. none = [lists EXCEPT ![item] = t.head]
          BY <4>1 DEF none
        <4>6. OnlyBehind(NULL, s, t) /\ \A a \in more : t.h.child[a] = s.h.child[a]
          BY <4>3 DEF SameTree, OnlyBehind
        <4>7. Listed(s, t, roots, open, lists, item)
          BY <4>3, <4>4, <4>5, <4>6 DEF Listed
        <4> QED
          BY <3>1, <4>7 DEF t
      <3>2. CASE At(opened) # close
        <4> DEFINE t == loop[back, type, NULL, NULL]
        <4>1. /\ Stage(back, roots, more, none) /\ At(back) # "nul" /\ back.h = opened.h
              /\ back.content = opened.content /\ back.offset = opened.offset - 1
          BY <1>1, <2>7, <2>10, MoveBack
        <4> HIDE DEF back
        <4>2. /\ back \in ParseBuffers /\ more \in SUBSET Items /\ roots \in SUBSET Items
              /\ back.offset \in Nat /\ s.offset <= back.offset
              /\ Len(back.content) - back.offset <= n /\ NULL \in Pointers
          BY <1>1, <2>7, <4>1, BufferFields, SMTT(30) DEF Stage, Text, Pointers
        <4>3. MembersStart(back, NULL, NULL, roots, more, none, item)
          BY <2>8, <4>1 DEF MembersStart
        <4>4. MembersEnd(back, t, NULL, roots, more, none, item)
          <5> HIDE DEF more
          <5>1. \A rs \in SUBSET Items, os \in SUBSET Items, ls \in [Items -> Pointers], i \in Items :
                  MembersStart(back, NULL, NULL, rs, os, ls, i)
                  => MembersEnd(back, t, NULL, rs, os, ls, i)
            BY <4>2, Zenon DEF LoopWorks
          <5> HIDE DEF t
          <5> QED
            BY <1>1, <2>8, <4>2, <4>3, <5>1
        <4> HIDE DEF t
        <4>5. /\ Leads(back, t, roots, more, none, [lists EXCEPT ![item] = t.head])
              /\ OnlyBehind(NULL, back, t)
          BY <2>8, <4>4 DEF MembersEnd
        <4>6. Later(s, t)
          <5>1. Text(t) /\ t.content = s.content /\ back.offset <= t.offset
            BY <2>7, <4>1, <4>5 DEF Leads, Later
          <5>2. t.offset \in Nat
            BY <5>1, BufferFields DEF Text
          <5> QED
            BY <1>1, <4>2, <5>1, <5>2 DEF Later
        <4>7. Grows(Shown(s.h, open, lists), Shown(t.h, more, [lists EXCEPT ![item] = t.head]))
          <5>1. SameTree(Shown(s.h, open, lists), Shown(opened.h, open, lists))
            BY <1>1, <2>7, ShownSame
          <5>2. Grows(Shown(opened.h, open, lists), Shown(t.h, more, [lists EXCEPT ![item] = t.head]))
            BY <2>9, <4>1, <4>5 DEF Leads
          <5> QED
            BY <5>1, <5>2, ZenonT(30) DEF SameTree, Grows
        <4>8. /\ Stage(t, roots, more, [lists EXCEPT ![item] = t.head])
              /\ \A a \in more : t.h.child[a] = s.h.child[a]
              /\ OnlyBehind(NULL, s, t)
          BY <2>7, <4>1, <4>5 DEF Leads, SameTree, OnlyBehind
        <4>9. Listed(s, t, roots, open, lists, item)
          BY <4>6, <4>7, <4>8 DEF Listed
        <4> QED
          BY <3>2, <4>9 DEF t
      <3> QED
        BY <3>1, <3>2
    <2> HIDE DEF listed
    <2>12. CASE listed.ok /\ At(listed) = close
      <3> DEFINE t == Move([listed EXCEPT !.depth = @ - 1,
                             !.h = [@ EXCEPT !.type[item] = type, !.child[item] = listed.head]], 1)
      <3>1. parse_list(s, item, type, close, loop) = t
        BY <2>1, <2>12 DEF Closed
      <3>2. At(listed) # "nul"
        BY <2>12, SMTT(30)
      <3>3. Leads(s, t, roots, open, lists, lists) /\ OnlyBehind(NULL, s, t)
        BY <2>11, <3>2, ListClosed
      <3> HIDE DEF t
      <3> QED
        BY <3>1, <3>3
    <2>13. CASE ~(listed.ok /\ At(listed) = close)
      <3> DEFINE t == Fail([listed EXCEPT !.h = cJSON_Delete(@, listed.head)])
      <3>1. parse_list(s, item, type, close, loop) = t
        BY <2>1, <2>13 DEF Closed
      <3>2. Leads(s, t, roots, open, lists, lists) /\ OnlyBehind(NULL, s, t)
        BY <2>11, ListAbandoned
      <3> HIDE DEF t
      <3> QED
        BY <3>1, <3>2
    <2> QED
      BY <2>12, <2>13
  <1> QED
    BY <1>2, <1>3

\* Nothing is freed that was there.
LEMMA LeadsKeeps ==
    ASSUME NEW s, NEW t, NEW roots, NEW open, NEW before, NEW after,
           Stage(s, roots, open, before), Leads(s, t, roots, open, before, after)
    PROVE  s.h.live \subseteq t.h.live
  <1>1. /\ s.h \in Heap /\ before \in [Items -> Pointers]
        /\ t.h \in Heap /\ after \in [Items -> Pointers]
    BY StageNumbers DEF Leads
  <1>2. Shown(s.h, open, before).live = s.h.live /\ Shown(t.h, open, after).live = t.h.live
    BY <1>1, ShownFields
  <1> QED
    BY <1>2 DEF Leads, Grows


\* parse_value.
LEMMA ValueParsed ==
    ASSUME NEW s, NEW roots, NEW open, NEW lists, Stage(s, roots, open, lists),
           NEW item \in s.h.live \ open, s.h.child[item] = NULL, s.h.valuestring[item] = NULL,
           NEW n \in Nat, Len(s.content) - s.offset <= n, NEW loop, LoopWorks(loop, n)
    PROVE  LET t == parse_value(s, item, loop)
           IN  Leads(s, t, roots, open, lists, lists) /\ OnlyBehind(NULL, s, t)
  <1> DEFINE x == At(s)
             t == parse_value(s, item, loop)
             Is(type, int) == Move([s EXCEPT !.h.type[item] = type, !.h.valueint[item] = int], 1)
  <1> SUFFICES Leads(s, t, roots, open, lists, lists) /\ OnlyBehind(NULL, s, t)
    OBVIOUS
  <1> HIDE DEF t
  <1>1. item \in s.h.live /\ item \in Items /\ s.h \in Heap
    BY StageNumbers
  <1>2. ASSUME NEW u, Steady(s, u, roots, open, lists), t = u
        PROVE  Leads(s, t, roots, open, lists, lists) /\ OnlyBehind(NULL, s, t)
    BY <1>2, SteadyLeads
  <1>3. CASE x \in DOMAIN Literals
    <2> DEFINE int == IF x = "true" THEN 1 ELSE s.h.valueint[item]
    <2>1. t = Is(Literals[x], int)
      BY <1>3 DEF parse_value, t
    <2>2. x # "nul" /\ Literals[x] \in Types /\ Literals[x] # "Number"
      BY <1>3, NotTheEnd DEF Literals, Types
    <2>3. int \in Int
      BY <1>1, HeapFields
    <2> HIDE DEF int
    <2>4. Steady(s, Is(Literals[x], int), roots, open, lists)
      BY <1>1, <2>2, <2>3, SteadyTyped
    <2> HIDE DEF Is
    <2> QED
      BY <1>2, <2>1, <2>4
  <1>4. CASE x \notin DOMAIN Literals /\ x \in Strings
    <2>1. t = parse_string(s, item)
      BY <1>4 DEF parse_value, t
    <2>2. Steady(s, parse_string(s, item), roots, open, lists)
      BY <1>1, StringParsed
    <2> QED
      BY <1>2, <2>1, <2>2
  <1>5. CASE x \notin DOMAIN Literals /\ x \notin Strings /\ x \in NumberLexemes
    <2>1. t = Is("Number", NumberOf(x))
      BY <1>5 DEF parse_value, t
    <2>2. x # "nul"
      BY <1>5, NotTheEnd
    <2>3. NumberOf(x) \in Numbers /\ NumberOf(x) \in Int
      BY <1>5, TextAssumption DEF NumberOf, NumberLexemes
    <2>4. "Number" \in Types
      BY DEF Types
    <2>5. Steady(s, Is("Number", NumberOf(x)), roots, open, lists)
      BY <1>1, <2>2, <2>3, <2>4, SteadyTyped
    <2> HIDE DEF Is
    <2> QED
      BY <1>2, <2>1, <2>5
  <1>6. CASE x \notin DOMAIN Literals /\ x \notin Strings /\ x \notin NumberLexemes /\ x = "["
    <2>1. t = parse_list(s, item, "Array", "]", loop)
      BY <1>6 DEF parse_value, t
    <2>2. At(s) # "nul" /\ "]" # "nul"
      BY <1>6, NotTheEnd
    <2> QED
      BY <2>1, <2>2, ListParsed
  <1>7. CASE x \notin DOMAIN Literals /\ x \notin Strings /\ x \notin NumberLexemes /\ x = "{"
    <2>1. t = parse_list(s, item, "Object", "}", loop)
      BY <1>7 DEF parse_value, t
    <2>2. At(s) # "nul" /\ "}" # "nul"
      BY <1>7, NotTheEnd
    <2> QED
      BY <2>1, <2>2, ListParsed
  <1>8. CASE /\ x \notin DOMAIN Literals /\ x \notin Strings /\ x \notin NumberLexemes
             /\ x # "[" /\ x # "{"
    <2>1. t = Fail(s)
      BY <1>8 DEF parse_value, t
    <2> QED
      BY <1>2, <2>1, SteadyFail
  <1> QED
    BY <1>3, <1>4, <1>5, <1>6, <1>7, <1>8

Made(s) == [s EXCEPT !.h = cJSON_New_Item(s.h)]
Begun(lists, item, head, new) == [lists EXCEPT ![item] = IF head = NULL THEN new ELSE head]

\* The new item of a member is linked behind the last one, or is the first one.
LEMMA MemberAttached ==
    ASSUME NEW s, NEW head, NEW current, NEW roots, NEW open, NEW lists, NEW item,
           MembersStart(s, head, current, roots, open, lists, item),
           NEW new, new = cJSON_New_Item(s.h).ret, new # NULL,
           NEW more, more = Begun(lists, item, head, new), NEW u, u = Attached(Made(s), current)
    PROVE  /\ Leads(s, u, roots, open, lists, more) /\ OnlyBehind(current, s, u)
           /\ At(u) # "nul" /\ u.offset = s.offset
           /\ new \in u.h.live /\ new \notin s.h.live /\ new \notin u.h.const
           /\ u.h.next[new] = NULL /\ u.h.child[new] = NULL
           /\ u.h.string[new] = NULL /\ u.h.valuestring[new] = NULL
  <1> DEFINE n == cJSON_New_Item(s.h)
             first == IF head = NULL THEN new ELSE head
             after == [lists EXCEPT ![item] = first]
             g == [n EXCEPT !.next = Put(@, current, new), !.prev[new] = current]
             t == [s EXCEPT !.h = g]
             v == Shown(s.h, open, lists)
             w == Shown(n, open, lists)
             x == Shown(g, open, after)
  <1>1. /\ s.h \in Heap /\ Numbered(s.h) /\ lists \in [Items -> Pointers] /\ open \subseteq s.h.live
        /\ s.h.live \subseteq Items /\ roots \subseteq s.h.live /\ s.h.const \subseteq s.h.live
        /\ \A a \in Items \ s.h.live :
             /\ s.h.next[a] = NULL /\ s.h.prev[a] = NULL /\ s.h.child[a] = NULL
             /\ s.h.string[a] = NULL /\ s.h.valuestring[a] = NULL
    BY StageNumbers DEF MembersStart
  <1>2. /\ Text(s) /\ s \in ParseBuffers /\ Whole(v, roots) /\ At(s) # "nul" /\ item \in open
        /\ lists[item] = head /\ (head = NULL => current = NULL)
        /\ (head # NULL => current \in s.h.live \ roots /\ s.h.next[current] = NULL)
        /\ s.offset \in Nat
    BY BufferFields DEF MembersStart, Stage, Text
  <1>3. /\ n \in Heap /\ new \in Items \ s.h.live /\ new = n.ret
        /\ n.live = s.h.live \cup {new} /\ n.ref = s.h.ref /\ n.const = s.h.const
        /\ n.next = s.h.next /\ n.prev = s.h.prev /\ n.child = s.h.child
        /\ n.string = s.h.string /\ n.valuestring = s.h.valuestring
        /\ n.type = s.h.type /\ n.valueint = s.h.valueint /\ n.blocks = s.h.blocks
    <2>1. Returned(n) = {new}
      BY DEF Returned
    <2> QED
      BY <1>1, <2>1, NewItemFields
  <1>4. u = t
    <2>1. Made(s) = [s EXCEPT !.h = n] /\ Made(s) \in ParseBuffers
      BY <1>2, <1>3 DEF ParseBuffers, Made
    <2>2. Made(s).h = n /\ Made(s).h.ret = new
      BY <1>2, <1>3 DEF ParseBuffers, Made
    <2> HIDE DEF n
    <2> QED
      BY <1>2, <1>3, <2>1, <2>2 DEF Attached, ParseBuffers, Heap
  <1>5. /\ w = cJSON_New_Item(v) /\ cJSON_New_Item(v).ret = new
    BY <1>1, ShownNewItem
  <1> HIDE DEF n
  <1>6. /\ g \in Heap /\ g.live = n.live /\ g.ref = n.ref /\ SameStrings(n, g)
        /\ g.type = n.type /\ g.valueint = n.valueint /\ g.child = n.child
        /\ g.next = Put(n.next, current, new) /\ g.prev = [n.prev EXCEPT ![new] = current]
    <2>1. Put(n.next, current, new) \in [Items -> Items \cup {NULL}]
      BY <1>1, <1>2, <1>3, HeapFields DEF Put
    <2>2. current \in Items \cup {NULL}
      BY <1>1, <1>2
    <2> QED
      BY <1>3, <2>1, <2>2 DEF Heap, SameStrings
  <1> HIDE DEF g
  <1>7. first \in Pointers /\ first # NULL /\ after \in [Items -> Pointers] /\ item \in Items
    BY <1>1, <1>2, <1>3 DEF Pointers
  <1>8. /\ w \in Heap /\ w.live = n.live /\ w.ref = n.ref /\ w.const = n.const
        /\ w.next = n.next /\ w.prev = n.prev /\ w.child \in [Items -> Pointers]
        /\ \A a \in Items : w.child[a] = IF a \in open THEN lists[a] ELSE n.child[a]
        /\ w.string = n.string /\ w.valuestring = n.valuestring
        /\ w.type = n.type /\ w.valueint = n.valueint /\ w.blocks = n.blocks
    BY <1>1, <1>3, ShownFields
  <1> HIDE DEF first
  <1>9. /\ x \in Heap /\ x.live = g.live /\ x.ref = g.ref /\ x.const = g.const
        /\ x.next = g.next /\ x.prev = g.prev /\ x.child \in [Items -> Pointers]
        /\ \A a \in Items : x.child[a] = IF a \in open THEN after[a] ELSE g.child[a]
        /\ x.string = g.string /\ x.valuestring = g.valuestring
        /\ x.type = g.type /\ x.valueint = g.valueint /\ x.blocks = g.blocks
    <2> HIDE DEF after
    <2> QED
      BY <1>6, <1>7, ShownFields
  <1>10. Whole(w, roots \cup {new}) /\ Grows(v, w)
    BY <1>2, <1>3, <1>5, WholeNewItem DEF Returned
  <1>11. v.live = s.h.live /\ v.next = s.h.next
         /\ \A a \in Items : v.child[a] = IF a \in open THEN lists[a] ELSE s.h.child[a]
    BY <1>1, ShownFields
  <1> HIDE DEF v, w, x
  <1>12. Freed(w, new) \subseteq w.live \ v.live
    BY <1>3, <1>8, <1>10, <1>11, FreedIsNew
  <1>13. Whole(x, (roots \cup {new}) \ {new}) /\ Grows(v, x)
    <2>1. SameStrings(w, x) /\ x.live = w.live /\ x.ref = w.ref /\ x.type = w.type
          /\ x.valueint = w.valueint /\ new \in (roots \cup {new}) \ v.live
      BY <1>3, <1>6, <1>8, <1>9, <1>11 DEF SameStrings
    <2>2. CASE head = NULL
      <3>1. x.next = w.next /\ x.prev = w.prev
        <4>1. n.prev[new] = NULL /\ n.prev \in [Items -> Items \cup {NULL}]
          BY <1>1, <1>3, HeapFields
        <4> QED
          BY <1>2, <1>3, <1>6, <1>8, <1>9, <2>2, <4>1 DEF Put
      <3>2. w.child[item] = NULL /\ x.child = [w.child EXCEPT ![item] = new]
        <4>1. \A a \in Items : x.child[a] = IF a = item THEN new ELSE w.child[a]
          BY <1>1, <1>2, <1>6, <1>7, <1>8, <1>9, <2>2 DEF first
        <4> QED
          BY <1>2, <1>7, <1>8, <1>9, <2>2, <4>1
      <3>3. item \in w.live /\ item \notin Freed(w, new)
        BY <1>1, <1>2, <1>3, <1>8, <1>11, <1>12
      <3> QED
        BY <1>9, <1>10, <2>1, <3>1, <3>2, <3>3, WholeLinked
    <2>3. CASE head # NULL
      <3>1. x.next = [w.next EXCEPT ![current] = new] /\ x.prev = [w.prev EXCEPT ![new] = current]
        BY <1>1, <1>2, <1>6, <1>8, <1>9, <2>3, HeapAssumption DEF Put
      <3>2. x.child = w.child
        <4>1. \A a \in Items : x.child[a] = w.child[a]
          BY <1>1, <1>2, <1>6, <1>7, <1>8, <1>9, <2>3 DEF first
        <4> QED
          BY <1>8, <1>9, <4>1
      <3>3. current \in w.live /\ current \notin Freed(w, new) /\ w.next[current] = NULL
            /\ current \notin roots \cup {new}
        BY <1>1, <1>2, <1>3, <1>8, <1>11, <1>12, <2>3
      <3> QED
        BY <1>9, <1>10, <2>1, <3>1, <3>2, <3>3, WholeLinked
    <2> QED
      BY <2>2, <2>3
  <1>14. (roots \cup {new}) \ {new} = roots
    BY <1>1, <1>3
  <1>15. Text(t) /\ t.content = s.content /\ t.offset = s.offset /\ t.h = g /\ At(t) # "nul"
    BY <1>2, <1>6 DEF Text, ParseBuffers, At
  <1>16. Stage(t, roots, open, after)
    BY <1>1, <1>3, <1>6, <1>7, <1>13, <1>14, <1>15, ZenonT(30) DEF Stage, x
  <1>17. Leads(s, t, roots, open, lists, after)
    <2>1. \A a \in open : t.h.child[a] = s.h.child[a]
      BY <1>3, <1>6, <1>15
    <2> QED
      BY <1>2, <1>13, <1>15, <1>16, <2>1 DEF Leads, Later, x, v
  <1>18. OnlyBehind(current, s, t)
    BY <1>1, <1>3, <1>6, <1>15, HeapFields DEF OnlyBehind, Put
  <1>19. /\ new \in t.h.live /\ new \notin s.h.live /\ new \notin t.h.const
         /\ t.h.next[new] = NULL /\ t.h.child[new] = NULL
         /\ t.h.string[new] = NULL /\ t.h.valuestring[new] = NULL
    <2>1. current # new
      BY <1>1, <1>2, <1>3, HeapAssumption
    <2>2. t.h.next[new] = n.next[new]
      BY <1>3, <1>6, <1>15, <2>1, HeapFields DEF Put
    <2> QED
      BY <1>1, <1>3, <1>6, <1>15, <2>2 DEF SameStrings
  <1>20. u = t /\ more = after
    BY <1>4 DEF first, n, Begun
  <1> HIDE DEF t, after
  <1> QED
    BY <1>15, <1>17, <1>18, <1>19, <1>20

\* One member, and the rest of its list.
LEMMA MemberParsed ==
    ASSUME NEW s, NEW head, NEW current, NEW roots, NEW open, NEW lists, NEW item \in Items,
           MembersStart(s, head, current, roots, open, lists, item),
           NEW type \in {"Array", "Object"}, head \in Pointers,
           NEW n \in Nat, Len(s.content) - s.offset <= n + 1, NEW loop, LoopWorks(loop, n)
    PROVE  MembersEnd(s, parse_member(s, type, head, current, loop), current,
                      roots, open, lists, item)
  <1> DEFINE made == [s EXCEPT !.h = cJSON_New_Item(@)]
             new == made.h.ret
             first == IF head = NULL THEN new ELSE head
             after == [lists EXCEPT ![item] = first]
             att == Attached(made, current)
             start == buffer_skip_whitespace(Move(att, 1))
             name == parse_string(start, new)
             named == Named(name, new)
             colon == buffer_skip_whitespace(named)
             value == IF type = "Array" THEN start
                      ELSE IF ~name.ok THEN name
                      ELSE IF At(colon) # ":" THEN Fail(colon)
                      ELSE buffer_skip_whitespace(Move(colon, 1))
             parsed == IF value.ok THEN parse_value(value, new, loop) ELSE value
             next == buffer_skip_whitespace(parsed)
             t == parse_member(s, type, head, current, loop)
  <1> SUFFICES MembersEnd(s, t, current, roots, open, lists, item)
    OBVIOUS
  <1> HIDE DEF t
  <1>1. /\ Stage(s, roots, open, lists) /\ s.h \in Heap /\ lists \in [Items -> Pointers]
        /\ open \subseteq s.h.live /\ s.h.live \subseteq Items /\ roots \subseteq s.h.live
        /\ Text(s) /\ s \in ParseBuffers /\ s.offset \in Nat /\ Len(s.content) \in Nat
        /\ item \in open /\ lists[item] = head /\ Numbered(s.h)
    BY StageNumbers, BufferFields DEF MembersStart, Stage, Text
  <1>2. made.h = cJSON_New_Item(s.h) /\ new = cJSON_New_Item(s.h).ret
        /\ made.content = s.content /\ made.offset = s.offset
    BY <1>1 DEF ParseBuffers
  <1>3. CASE new = NULL
    <2> DEFINE u == Fail([made EXCEPT !.head = head])
    <2>1. t = u
      BY <1>3 DEF parse_member, t
    <2>2. /\ cJSON_New_Item(s.h) \in Heap /\ SameTree(s.h, cJSON_New_Item(s.h))
          /\ cJSON_New_Item(s.h).prev = s.h.prev /\ SameStrings(s.h, cJSON_New_Item(s.h))
          /\ Numbered(cJSON_New_Item(s.h))
      BY <1>1, <1>2, <1>3, NewItemFields DEF Returned, SameTree, SameStrings, Numbered
    <2>3. /\ u \in ParseBuffers /\ u.content = s.content /\ u.offset = s.offset
          /\ u.h = cJSON_New_Item(s.h) /\ u.head = head
      BY <1>1, <1>2, <2>2 DEF ParseBuffers, Fail
    <2> HIDE DEF u
    <2>4. Steady(s, u, roots, open, lists)
      BY <1>1, <2>2, <2>3, SteadySame DEF Later, Text
    <2>5. [lists EXCEPT ![item] = u.head] = lists
      BY <1>1, <2>3
    <2>6. Leads(s, u, roots, open, lists, lists) /\ OnlyBehind(NULL, s, u)
      BY <1>1, <2>4, SteadyLeads
    <2>7. OnlyBehind(current, s, u)
      BY <1>1, <2>6, HeapAssumption DEF OnlyBehind
    <2> QED
      BY <2>1, <2>5, <2>6, <2>7 DEF MembersEnd
  <1>4. CASE new # NULL
    <2>1. /\ Leads(s, att, roots, open, lists, after) /\ OnlyBehind(current, s, att)
          /\ At(att) # "nul" /\ att.offset = s.offset
          /\ new \in att.h.live /\ new \notin s.h.live /\ new \notin att.h.const
          /\ att.h.next[new] = NULL /\ att.h.child[new] = NULL
          /\ att.h.string[new] = NULL /\ att.h.valuestring[new] = NULL
      <3>1. att = Attached(Made(s), current)
        BY DEF Made
      <3> HIDE DEF made, att
      <3>2. /\ new = cJSON_New_Item(s.h).ret /\ new # NULL
            /\ after = Begun(lists, item, head, new)
        BY <1>2, <1>4 DEF Begun
      <3> HIDE DEF new, after
      <3> QED
        BY <3>1, <3>2, MemberAttached
    <2>2. t = IF ~parsed.ok
              THEN [parsed EXCEPT !.head = first]
              ELSE IF At(next) = ","
              THEN loop[next, type, first, new]
              ELSE [next EXCEPT !.head = first]
      BY <1>4 DEF parse_member, t
    <2> HIDE DEF att, new
    <2>3. /\ Stage(att, roots, open, after) /\ att.content = s.content /\ Text(att)
          /\ first \in Pointers /\ first # NULL
      BY <1>4, <2>1, StageNumbers DEF Leads, Later, Stage, Pointers
    <2>4. /\ Steady(att, start, roots, open, after) /\ start.h = att.h
          /\ start.offset >= s.offset + 1
      <3>1. /\ Steady(att, Move(att, 1), roots, open, after)
            /\ Move(att, 1).offset = s.offset + 1 /\ Move(att, 1).h = att.h
        BY <2>1, <2>3, SteadyMove
      <3>2. /\ Steady(Move(att, 1), start, roots, open, after) /\ start.h = Move(att, 1).h
        BY <3>1, SteadySkip DEF Steady
      <3>3. Move(att, 1).offset <= start.offset /\ start.offset \in Nat
        BY <3>2, BufferFields DEF Steady, Later, Text
      <3>4. Steady(att, start, roots, open, after)
        BY <2>3, <3>1, <3>2, SteadyOn
      <3> QED
        BY <1>1, <3>1, <3>2, <3>3, <3>4
    <2> HIDE DEF start, after, first
    <2>5. /\ Steady(att, name, roots, open, after)
          /\ name.h.string[new] = NULL /\ new \in name.h.live \ name.h.const
          /\ Steady(start, name, roots, open, after)
      <3>1. /\ Steady(start, name, roots, open, after)
            /\ name.h.string = start.h.string /\ name.h.const = start.h.const
        BY <2>1, <2>4, StringParsed DEF Steady
      <3>2. Steady(att, name, roots, open, after)
        BY <2>3, <2>4, <3>1, SteadyOn
      <3> QED
        BY <2>1, <2>4, <3>1, <3>2 DEF Steady, SameTree
    <2> HIDE DEF name
    <2>6. Steady(att, named, roots, open, after) /\ named.h.valuestring[new] = NULL
          /\ Steady(name, named, roots, open, after)
      <3>1. Steady(name, named, roots, open, after) /\ named.h.valuestring[new] = NULL
        BY <2>5, SteadyNamed DEF Steady
      <3> QED
        BY <2>3, <2>5, <3>1, SteadyOn
    <2> HIDE DEF named
    <2>7. /\ Steady(att, colon, roots, open, after) /\ colon.h.valuestring[new] = NULL
          /\ Steady(named, colon, roots, open, after)
      <3>1. Steady(named, colon, roots, open, after) /\ colon.h = named.h
        BY <2>6, SteadySkip DEF Steady
      <3> QED
        BY <2>3, <2>6, <3>1, SteadyOn
    <2> HIDE DEF colon
    <2>8. /\ Steady(att, value, roots, open, after)
          /\ value.offset >= s.offset + 1
          /\ value.ok => value.h.valuestring[new] = NULL
      <3>1. /\ start.offset \in Nat /\ name.offset \in Nat /\ named.offset \in Nat
            /\ colon.offset \in Nat
            /\ start.offset <= name.offset /\ name.offset <= named.offset
            /\ named.offset <= colon.offset
        BY <2>4, <2>5, <2>6, <2>7, BufferFields DEF Steady, Later, Text
      <3>2. CASE type = "Array"
        BY <2>1, <2>4, <3>2
      <3>3. CASE type # "Array" /\ ~name.ok
        BY <1>1, <2>4, <2>5, <3>1, <3>3
      <3>4. CASE type # "Array" /\ name.ok /\ At(colon) # ":"
        <4>1. Steady(colon, Fail(colon), roots, open, after)
          BY <2>7, SteadyFail DEF Steady
        <4>2. Steady(att, Fail(colon), roots, open, after)
          BY <2>3, <2>7, <4>1, SteadyOn
        <4>3. ~Fail(colon).ok /\ Fail(colon).offset = colon.offset
          BY <2>7 DEF Fail, Steady, Stage, Text, ParseBuffers
        <4> QED
          BY <1>1, <2>4, <3>1, <3>4, <4>2, <4>3
      <3>5. CASE type # "Array" /\ name.ok /\ At(colon) = ":"
        <4> DEFINE u == buffer_skip_whitespace(Move(colon, 1))
        <4>1. At(colon) # "nul"
          BY <3>5, NotTheEnd
        <4>2. /\ Steady(colon, Move(colon, 1), roots, open, after)
              /\ Move(colon, 1).offset = colon.offset + 1 /\ Move(colon, 1).h = colon.h
          BY <2>7, <4>1, SteadyMove DEF Steady
        <4>3. Steady(Move(colon, 1), u, roots, open, after) /\ u.h = Move(colon, 1).h
          BY <4>2, SteadySkip DEF Steady
        <4>4. Steady(att, Move(colon, 1), roots, open, after)
          BY <2>3, <2>7, <4>2, SteadyOn
        <4>5. Steady(att, u, roots, open, after)
          BY <2>3, <4>3, <4>4, SteadyOn
        <4>6. Move(colon, 1).offset <= u.offset /\ u.offset \in Nat
          BY <4>3, BufferFields DEF Steady, Later, Text
        <4>7. value = u
          BY <3>5
        <4>8. start.offset <= colon.offset /\ s.offset \in Nat
          BY <1>1, <3>1
        <4>9. s.offset + 1 <= colon.offset
          BY <2>4, <3>1, <4>8
        <4> HIDE DEF u
        <4>10. u.offset >= s.offset + 1
          BY <3>1, <4>2, <4>6, <4>8, <4>9
        <4>11. u.h.valuestring[new] = NULL
          BY <2>7, <4>2, <4>3
        <4> HIDE DEF value
        <4> QED
          BY <4>5, <4>7, <4>10, <4>11
      <3> QED
        BY <3>2, <3>3, <3>4, <3>5
    <2> HIDE DEF value
    <2>9. /\ Stage(value, roots, open, after) /\ value.content = s.content /\ value.offset \in Nat
          /\ SameTree(att.h, value.h) /\ Text(value)
      BY <2>3, <2>8, BufferFields DEF Steady, Later, Stage, Text
    <2>10. Leads(value, parsed, roots, open, after, after) /\ OnlyBehind(NULL, value, parsed)
      <3>1. CASE value.ok
        <4>1. /\ new \in value.h.live \ open /\ value.h.child[new] = NULL
              /\ value.h.valuestring[new] = NULL
          BY <1>1, <2>1, <2>8, <2>9, <3>1 DEF SameTree
        <4>2. Len(value.content) - value.offset <= n
          BY <1>1, <2>8, <2>9
        <4> QED
          BY <2>9, <3>1, <4>1, <4>2, ValueParsed
      <3>2. CASE ~value.ok
        <4>1. parsed = value
          BY <3>2
        <4>2. Steady(value, value, roots, open, after)
          BY <2>9 DEF Steady, Later, SameTree
        <4> QED
          BY <2>9, <4>1, <4>2, SteadyLeads
      <3> QED
        BY <3>1, <3>2
    <2> HIDE DEF parsed
    <2>11. Leads(s, parsed, roots, open, lists, after) /\ OnlyBehind(current, s, parsed)
           /\ parsed.h.next[new] = NULL /\ new \in parsed.h.live
      <3>1. Leads(att, value, roots, open, after, after) /\ OnlyBehind(NULL, att, value)
        BY <2>3, <2>8, SteadyLeads
      <3>2. Leads(s, value, roots, open, lists, after)
        BY <1>1, <2>1, <3>1, LeadsOn
      <3>3. Leads(s, parsed, roots, open, lists, after)
        BY <1>1, <2>10, <3>2, LeadsOn
      <3>4. s.h.live \subseteq att.h.live /\ value.h.live = att.h.live /\ att.h.live \subseteq parsed.h.live
        BY <1>1, <2>1, <2>9, <2>10, LeadsKeeps DEF SameTree
      <3>5. NULL \notin att.h.live
        BY <2>3, StageNumbers, HeapAssumption
      <3> QED
        BY <2>1, <2>9, <2>10, <3>1, <3>3, <3>4, <3>5 DEF OnlyBehind, SameTree
    <2>12. Stage(parsed, roots, open, after)
      BY <2>11 DEF Leads
    <2>13. /\ Steady(parsed, next, roots, open, after) /\ next.h = parsed.h
      BY <2>12, SteadySkip
    <2> HIDE DEF next
    <2>14. /\ Leads(s, next, roots, open, lists, after) /\ OnlyBehind(current, s, next)
           /\ Stage(next, roots, open, after) /\ next.h.next[new] = NULL
           /\ value.offset <= next.offset /\ next.offset \in Nat /\ next.content = s.content
      <3>1. Leads(parsed, next, roots, open, after, after)
        BY <2>12, <2>13, SteadyLeads
      <3>2. Leads(s, next, roots, open, lists, after)
        BY <1>1, <2>11, <3>1, LeadsOn
      <3>3. value.offset <= parsed.offset /\ parsed.offset <= next.offset
            /\ parsed.offset \in Nat /\ next.offset \in Nat
        BY <2>10, <2>12, <2>13, BufferFields DEF Leads, Later, Steady, Text
      <3> QED
        BY <2>9, <2>11, <2>13, <3>2, <3>3 DEF OnlyBehind, Steady, Leads, Later
    <2>15. after = [lists EXCEPT ![item] = first]
      BY DEF after
    <2>16. ASSUME NEW u, Leads(s, u, roots, open, lists, after), OnlyBehind(current, s, u)
           PROVE  MembersEnd(s, [u EXCEPT !.head = first], current, roots, open, lists, item)
      <3> DEFINE z == [u EXCEPT !.head = first]
      <3>1. Stage(u, roots, open, after) /\ u \in ParseBuffers
        BY <2>16 DEF Leads, Stage, Text
      <3>2. /\ z \in ParseBuffers /\ z.content = u.content /\ z.offset = u.offset /\ z.h = u.h
            /\ z.head = first
        BY <2>3, <3>1 DEF ParseBuffers
      <3> HIDE DEF z
      <3>3. Steady(u, z, roots, open, after)
        BY <3>1, <3>2, SteadyMarked
      <3>4. Leads(u, z, roots, open, after, after)
        BY <3>1, <3>3, SteadyLeads
      <3>5. Leads(s, z, roots, open, lists, after)
        BY <1>1, <2>16, <3>4, LeadsOn
      <3>6. MembersEnd(s, z, current, roots, open, lists, item)
        BY <2>15, <2>16, <3>2, <3>5 DEF MembersEnd, OnlyBehind
      <3> QED
        BY <3>6 DEF z
    <2>17. CASE ~parsed.ok
      <3>1. t = [parsed EXCEPT !.head = first]
        BY <2>2, <2>17
      <3> QED
        BY <2>11, <2>16, <3>1
    <2>18. CASE parsed.ok /\ At(next) # ","
      <3>1. t = [next EXCEPT !.head = first]
        BY <2>2, <2>18
      <3> QED
        BY <2>14, <2>16, <3>1
    <2>19. CASE parsed.ok /\ At(next) = ","
      <3>1. t = loop[next, type, first, new]
        BY <2>2, <2>19
      <3>2. MembersStart(next, first, new, roots, open, after, item)
        <4>1. At(next) # "nul" /\ after[item] = first
          BY <1>1, <2>15, <2>19, NotTheEnd
        <4>2. new \in next.h.live \ roots
          BY <1>1, <2>1, <2>11, <2>13
        <4> QED
          BY <1>1, <2>3, <2>14, <4>1, <4>2 DEF MembersStart
      <3>3. Len(next.content) - next.offset <= n
        <4>1. value.offset \in Nat
          BY <2>9
        <4> QED
          BY <1>1, <2>8, <2>14, <4>1
      <3>4. /\ next \in ParseBuffers /\ new \in Pointers /\ roots \in SUBSET Items
            /\ open \in SUBSET Items /\ after \in [Items -> Pointers]
        BY <1>1, <2>1, <2>3, <2>11, <2>12, <2>14, StageNumbers DEF Stage, Text, Pointers
      <3>5. MembersEnd(next, t, new, roots, open, after, item)
        <4>1. \A rs \in SUBSET Items, os \in SUBSET Items, ls \in [Items -> Pointers], i \in Items :
                MembersStart(next, first, new, rs, os, ls, i)
                => MembersEnd(next, t, new, rs, os, ls, i)
          BY <2>3, <3>1, <3>3, <3>4, Zenon DEF LoopWorks
        <4> QED
          BY <3>2, <3>4, <4>1
      <3>6. [after EXCEPT ![item] = t.head] = [lists EXCEPT ![item] = t.head]
        BY <1>1, <2>15
      <3>7. Leads(next, t, roots, open, after, [lists EXCEPT ![item] = t.head])
            /\ OnlyBehind(new, next, t)
        BY <3>5, <3>6 DEF MembersEnd
      <3>8. Leads(s, t, roots, open, lists, [lists EXCEPT ![item] = t.head])
        BY <1>1, <2>14, <3>7, LeadsOn
      <3>9. OnlyBehind(current, s, t)
        <4>1. s.h.live \subseteq next.h.live /\ new \notin s.h.live
          BY <1>1, <2>1, <2>14, LeadsKeeps
        <4> QED
          BY <2>14, <3>7, <4>1 DEF OnlyBehind
      <3> QED
        BY <3>8, <3>9 DEF MembersEnd
    <2> QED
      BY <2>17, <2>18, <2>19
  <1> QED
    BY <1>3, <1>4

\* The loop over the members keeps the heap whole, whatever rounds it has left.
LEMMA ParsersWork ==
    ASSUME NEW n \in Nat
    PROVE  LoopWorks(parse_members[n], n)
  <1> DEFINE Good == {m \in Nat : LoopWorks(parse_members[m], m)}
  <1>1. LoopWorks(parse_members[0], 0)
    <2>1. ASSUME NEW s \in ParseBuffers, NEW head, NEW current, NEW roots, NEW open, NEW lists, NEW item,
                 MembersStart(s, head, current, roots, open, lists, item)
          PROVE  ~(Len(s.content) - s.offset <= 0)
      <3>1. Text(s) /\ s.offset \in Nat /\ Len(s.content) \in Nat
        BY <2>1, BufferFields DEF MembersStart, Stage
      <3> QED
        BY <3>1 DEF Text
    <2> QED
      BY <2>1, ZenonT(60) DEF LoopWorks
  <1>2. ASSUME NEW m \in Nat, m \in Good PROVE m + 1 \in Good
    <2>1. parse_members[m + 1] = ParsedMembers(parse_members[m])
      BY ParserRounds
    <2>2. LoopWorks(parse_members[m], m)
      BY <1>2
    <2> DEFINE next == parse_members[m + 1]
    <2> SUFFICES LoopWorks(next, m + 1)
      OBVIOUS
    <2> HIDE DEF next
    <2> SUFFICES
          \A s \in ParseBuffers, type \in {"Array", "Object"}, head \in Pointers, current \in Pointers :
          \A roots \in SUBSET Items, open \in SUBSET Items, lists \in [Items -> Pointers], item \in Items :
              MembersStart(s, head, current, roots, open, lists, item)
              /\ Len(s.content) - s.offset <= m + 1
              => MembersEnd(s, next[s, type, head, current], current, roots, open, lists, item)
      BY DEF LoopWorks
    <2> TAKE s \in ParseBuffers, type \in {"Array", "Object"}, head \in Pointers, current \in Pointers
    <2> TAKE roots \in SUBSET Items, open \in SUBSET Items, lists \in [Items -> Pointers], item \in Items
    <2> HAVE /\ MembersStart(s, head, current, roots, open, lists, item)
             /\ Len(s.content) - s.offset <= m + 1
    <2>3. next[s, type, head, current]
          = parse_member(s, type, head, current, parse_members[m])
      <3>1. <<s, type, head, current>> \in ParseRounds
        BY DEF ParseRounds
      <3> QED
        BY <2>1, <3>1 DEF ParsedMembers, next
    <2>4. MembersEnd(s, parse_member(s, type, head, current, parse_members[m]), current,
                     roots, open, lists, item)
      <3> DEFINE rest == parse_members[m]
      <3>1. LoopWorks(rest, m)
        BY <2>2
      <3> HIDE DEF rest
      <3>2. MembersEnd(s, parse_member(s, type, head, current, rest), current,
                       roots, open, lists, item)
        BY <3>1, MemberParsed
      <3> QED
        BY <3>2 DEF rest
    <2> QED
      BY <2>3, <2>4
  <1> HIDE DEF Good
  <1>3. 0 \in Good
    BY <1>1 DEF Good
  <1>4. 0..n \subseteq Good
    BY <1>2, <1>3, UpTo
  <1> QED
    BY <1>4 DEF Good

-----------------------------------------------------------------------------
(* A call *)

\* The pointer that is returned is not part of a tree.
LEMMA WholeReturns ==
    ASSUME NEW h, NEW roots, Whole(h, roots), NEW a \in Items \cup {NULL}
    PROVE  Whole([h EXCEPT !.ret = a], roots)
  <1> DEFINE g == [h EXCEPT !.ret = a]
  <1>1. h \in Heap /\ Numbered(h)
    BY WholeHeap
  <1>2. /\ g \in Heap /\ SameTree(h, g) /\ g.prev = h.prev /\ SameStrings(h, g)
        /\ g.type = h.type /\ g.valueint = h.valueint
    BY <1>1 DEF Heap, SameTree, SameStrings
  <1> HIDE DEF g
  <1>3. Numbered(g)
    BY <1>1, <1>2 DEF Numbered
  <1>4. Whole(g, roots)
    BY <1>2, <1>3, WholeSame
  <1> QED
    BY <1>4 DEF g

\* Nor is the memory that is left.
LEMMA WholeCalled ==
    ASSUME NEW h, NEW roots, Whole(h, roots), NEW mem \in Nat
    PROVE  Whole([h EXCEPT !.mem = mem], roots)
  <1> DEFINE g == [h EXCEPT !.mem = mem]
  <1>1. h \in Heap /\ Numbered(h)
    BY WholeHeap
  <1>2. /\ g \in Heap /\ SameTree(h, g) /\ g.prev = h.prev /\ SameStrings(h, g)
        /\ g.type = h.type /\ g.valueint = h.valueint
    BY <1>1 DEF Heap, SameTree, SameStrings
  <1> HIDE DEF g
  <1>3. Numbered(g)
    BY <1>1, <1>2 DEF Numbered
  <1>4. Whole(g, roots)
    BY <1>2, <1>3, WholeSame
  <1> QED
    BY <1>4 DEF g

\* Between two calls neither is set.
LEMMA WholeRest ==
    ASSUME NEW h, NEW roots, Whole(h, roots)
    PROVE  Whole(Rest(h), roots) /\ Rest(h).mem = 0 /\ Rest(h).ret = NULL
  <1>1. h \in Heap /\ NULL \in Items \cup {NULL} /\ 0 \in Nat
    BY WholeHeap
  <1>2. Whole([h EXCEPT !.mem = 0], roots)
    BY <1>1, WholeCalled
  <1>3. Whole([[h EXCEPT !.mem = 0] EXCEPT !.ret = NULL], roots)
    BY <1>1, <1>2, WholeReturns
  <1>4. Rest(h) = [[h EXCEPT !.mem = 0] EXCEPT !.ret = NULL]
    BY <1>1 DEF Rest, Heap
  <1>5. Rest(h).mem = 0 /\ Rest(h).ret = NULL
    BY <1>1 DEF Rest, Heap
  <1> QED
    BY <1>3, <1>4, <1>5

\* The program gets the root it asked for, or nothing and nothing is left.
LEMMA RootedWhole ==
    ASSUME NEW s \in ParseBuffers, NEW roots, NEW item \in Items \ roots,
           Whole(s.h, roots \cup {item}), NEW as_required
    PROVE  LET t == Rooted(s, item, as_required)
           IN  Whole(t.h, roots \cup Returned(t.h))
  <1>1. s.h \in Heap /\ item # NULL /\ (roots \cup {item}) \ {item} = roots
    BY BufferFields, HeapAssumption
  <1>2. CASE s.ok /\ as_required
    <2> DEFINE g == [s.h EXCEPT !.ret = item]
    <2>1. Rooted(s, item, as_required).h = g /\ g.ret = item
      BY <1>1, <1>2 DEF Rooted, ParseBuffers, Heap
    <2>2. Whole(g, roots \cup {item})
      BY WholeReturns
    <2> HIDE DEF g
    <2>3. Returned(g) = {item}
      BY <1>1, <2>1 DEF Returned
    <2> QED
      BY <2>1, <2>2, <2>3
  <1>3. CASE ~(s.ok /\ as_required)
    <2> DEFINE d == cJSON_Delete(s.h, item)
               g == [d EXCEPT !.ret = NULL]
    <2>1. Whole(d, (roots \cup {item}) \ {item})
      BY WholeDelete, item \in (roots \cup {item}) \cup {NULL}
    <2>2. d \in Heap
      BY <1>1, DeletedFields
    <2>3. Rooted(s, item, as_required).h = g
      BY <1>3 DEF Rooted, Fail, ParseBuffers
    <2> HIDE DEF d
    <2>4. Whole(g, roots) /\ g.ret = NULL
      <3>1. Whole(d, roots)
        BY <1>1, <2>1
      <3>2. Whole(g, roots)
        BY <3>1, WholeReturns, NULL \in Items \cup {NULL}
      <3>3. g.ret = NULL
        BY <2>2 DEF Heap
      <3> QED
        BY <3>2, <3>3
    <2>5. Returned(g) = {}
      BY <2>4 DEF Returned
    <2> QED
      BY <2>3, <2>4, <2>5
  <1> QED
    BY <1>2, <1>3

\* The buffer the parser begins with.
LEMMA TextBegun ==
    ASSUME NEW xs \in Seq(Lexemes), NEW h \in Heap
    PROVE  Text([content |-> Append(xs, "nul"), offset |-> 0, depth |-> 0,
                 h |-> h, head |-> NULL, ok |-> TRUE])
  <1> DEFINE s == [content |-> Append(xs, "nul"), offset |-> 0, depth |-> 0,
                   h |-> h, head |-> NULL, ok |-> TRUE]
             c == Append(xs, "nul")
  <1>1. c \in Seq(Lexemes \cup {"nul"})
    <2>1. xs \in Seq(Lexemes \cup {"nul"})
      OBVIOUS
    <2> QED
      BY <2>1
  <1>2. Len(c) = Len(xs) + 1 /\ Len(xs) \in Nat /\ c[Len(xs) + 1] = "nul"
        /\ \A i \in 1..Len(xs) : c[i] = xs[i] /\ xs[i] \in Lexemes
    OBVIOUS
  <1> HIDE DEF c
  <1>3. /\ s \in ParseBuffers /\ s.content = c /\ s.offset = 0
    BY <1>1 DEF ParseBuffers, Pointers, c
  <1>4. c[Len(c)] = "nul" /\ Len(c) - 1 = Len(xs) /\ 0 < Len(c)
    BY <1>2
  <1> HIDE DEF s
  <1>5. Text(s)
    BY <1>2, <1>3, <1>4, NotTheEnd DEF Text
  <1> QED
    BY <1>5 DEF s

\* cJSON_Parse, cJSON_ParseWithOpts: the whole tree of a text is made, or nothing.
LEMMA ParseWhole ==
    ASSUME NEW h, NEW roots, Whole(h, roots), NEW xs \in Seq(Lexemes), NEW required
    PROVE  LET s == cJSON_ParseWithOpts(h, xs, required)
           IN  Whole(s.h, roots \cup Returned(s.h)) /\ s.h.ret \in Items \cup {NULL}
  <1> DEFINE n == cJSON_New_Item(h)
             new == n.ret
             buffer == [content |-> Append(xs, "nul"), offset |-> 0, depth |-> 0,
                        h |-> n, head |-> NULL, ok |-> TRUE]
             marked == skip_utf8_bom(buffer)
             begin == buffer_skip_whitespace(marked)
             length == Len(buffer.content)
             loop == parse_members[length]
             parsed == parse_value(begin, new, loop)
             all == roots \cup {new}
             lists == [a \in Items |-> NULL]
             s == cJSON_ParseWithOpts(h, xs, required)
  <1> SUFFICES Whole(s.h, roots \cup Returned(s.h))
    <2>1. Whole(s.h, roots \cup Returned(s.h)) => s.h.ret \in Items \cup {NULL}
      <3> HIDE DEF s
      <3> QED
        BY WholeHeap, HeapFields
    <2> QED
      BY <2>1
  <1> HIDE DEF s
  <1>1. Whole(n, roots \cup Returned(n)) /\ h \in Heap /\ roots \subseteq h.live
        /\ \A a \in Items \ h.live : h.child[a] = NULL /\ h.valuestring[a] = NULL
    BY WholeNewItem, WholeHeap
  <1>2. /\ n \in Heap /\ new \in (Items \ h.live) \cup {NULL}
        /\ n.child = h.child /\ n.valuestring = h.valuestring
    BY <1>1, NewItemFields
  <1>3. CASE new = NULL
    <2>1. s = Fail(buffer)
      BY <1>3 DEF cJSON_ParseWithOpts, s
    <2>2. s.h = n
      BY <2>1 DEF Fail
    <2> QED
      BY <1>1, <2>2
  <1>4. CASE new # NULL
    <2>1. s = Terminated(parsed, new, required)
      BY <1>4 DEF cJSON_ParseWithOpts, s
    <2> HIDE DEF n
    <2>2. Text(buffer) /\ buffer.h = n /\ buffer.offset = 0 /\ length \in Nat
      <3>1. Text(buffer) /\ buffer.h = n /\ buffer.offset = 0
        BY <1>2, TextBegun
      <3> QED
        BY <3>1, BufferFields DEF Text
    <2> HIDE DEF buffer
    <2>3. \A g \in Heap : Shown(g, {}, lists) = g
      <3> SUFFICES ASSUME NEW g \in Heap PROVE Shown(g, {}, lists) = g
        OBVIOUS
      <3>1. g.child = [a \in Items |-> g.child[a]]
        BY HeapFields
      <3>2. Shown(g, {}, lists) = [g EXCEPT !.child = [a \in Items |-> g.child[a]]]
        BY DEF Shown
      <3> QED
        BY <3>1, <3>2 DEF Heap
    <2>4. Whole(n, all) /\ lists \in [Items -> Pointers] /\ new \in Items \ roots
      BY <1>1, <1>2, <1>4 DEF Returned, Pointers
    <2> HIDE DEF lists
    <2>5. Stage(buffer, all, {}, lists)
      BY <1>2, <2>2, <2>3, <2>4 DEF Stage
    <2>6. Stage(marked, all, {}, lists) /\ marked.h = n /\ marked.content = buffer.content
      <3>1. CASE Len(buffer.content) > 2 /\ At(buffer) = "bom"
        <4>1. At(buffer) # "nul" /\ marked = Move(buffer, 1)
          BY <3>1, NotTheEnd DEF skip_utf8_bom
        <4> QED
          BY <2>2, <2>5, <4>1, SteadyMove DEF Steady, Later
      <3>2. CASE ~(Len(buffer.content) > 2 /\ At(buffer) = "bom")
        <4>1. marked = buffer
          BY <3>2 DEF skip_utf8_bom
        <4> QED
          BY <2>2, <2>5, <4>1
      <3> QED
        BY <3>1, <3>2
    <2> HIDE DEF marked
    <2>7. Stage(begin, all, {}, lists) /\ begin.h = n /\ begin.content = buffer.content
      BY <2>6, SteadySkip DEF Steady, Later
    <2> HIDE DEF begin
    <2>8. Len(begin.content) - begin.offset <= length
      BY <2>2, <2>7, BufferFields DEF Stage, Text
    <2> HIDE DEF length
    <2>9. LoopWorks(loop, length)
      BY <2>2, ParsersWork
    <2> HIDE DEF loop
    <2>10. /\ new \in begin.h.live \ {} /\ begin.h.child[new] = NULL
           /\ begin.h.valuestring[new] = NULL
      <3>1. new \in n.live
        BY <2>4, WholeHeap
      <3> QED
        BY <1>1, <1>2, <1>4, <2>7, <3>1
    <2> HIDE DEF new
    <2>11. Stage(parsed, all, {}, lists)
      BY <2>2, <2>7, <2>8, <2>9, <2>10, ValueParsed DEF Leads
    <2> HIDE DEF parsed
    <2>12. ASSUME NEW t, Stage(t, all, {}, lists)
           PROVE  t \in ParseBuffers /\ Whole(t.h, all)
      <3>1. t \in ParseBuffers /\ t.h \in Heap
        BY <2>12, StageNumbers DEF Stage, Text
      <3>2. Whole(Shown(t.h, {}, lists), all)
        BY <2>12 DEF Stage
      <3>3. Shown(t.h, {}, lists) = t.h
        BY <2>3, <3>1
      <3> QED
        BY <3>1, <3>2, <3>3
    <2>13. CASE parsed.ok /\ required
      <3> DEFINE finish == buffer_skip_whitespace(parsed)
      <3>1. s = Rooted(finish, new, At(finish) = "nul")
        BY <2>1, <2>13 DEF Terminated
      <3>2. Stage(finish, all, {}, lists)
        BY <2>11, SteadySkip DEF Steady
      <3> HIDE DEF finish
      <3> QED
        BY <2>4, <2>12, <3>1, <3>2, RootedWhole
    <2>14. CASE ~(parsed.ok /\ required)
      <3>1. s = Rooted(parsed, new, TRUE)
        BY <2>1, <2>14 DEF Terminated
      <3> QED
        BY <2>4, <2>11, <2>12, <3>1, RootedWhole
    <2> QED
      BY <2>13, <2>14
  <1> QED
    BY <1>3, <1>4

-----------------------------------------------------------------------------
(* Duplication *)

\* The strings of an item change, and are accounted for.
LEMMA WholeStrings ==
    ASSUME NEW h, NEW roots, Whole(h, roots), NEW g \in Heap,
           SameTree(h, g), g.prev = h.prev, Numbered(g), g.const \subseteq h.live, Counted(g)
    PROVE  Whole(g, roots)
  <1>1. Sound(h, roots) /\ WellFormed(h, roots) /\ h.ref = {}
    BY WholeHeap
  <1>2. WellFormed(g, roots)
    BY <1>1, SameLinks DEF SameTree
  <1>3. Anchored(g, roots)
    BY <1>1, SameAnchored DEF Sound
  <1> QED
    BY <1>1, <1>2, <1>3 DEF Whole, Sound, SameTree

\* The flag of a constant key on an item without a key is of no consequence.
LEMMA WholeConst ==
    ASSUME NEW h, NEW roots, Whole(h, roots), NEW g \in Heap,
           SameTree(h, g), g.prev = h.prev, Numbered(g),
           NEW new \in h.live, h.string[new] = NULL,
           g.const \in {h.const, h.const \cup {new}}, g.string = h.string,
           g.valuestring = h.valuestring, g.blocks = h.blocks
    PROVE  Whole(g, roots)
  <1>1. Counted(h) /\ h.const \subseteq h.live /\ g.live = h.live /\ g.ref = h.ref
    BY WholeHeap DEF Sound, SameTree
  <1>2. \A a \in h.live : /\ OwnsString(g, a) <=> OwnsString(h, a)
                          /\ OwnsValue(g, a) <=> OwnsValue(h, a)
    BY <1>1 DEF OwnsString, OwnsValue
  <1>3. StringOwners(g) = StringOwners(h) /\ ValueOwners(g) = ValueOwners(h)
    BY <1>1, <1>2 DEF StringOwners, ValueOwners
  <1>4. Counted(g)
    BY <1>1, <1>3 DEF Counted
  <1> QED
    BY <1>1, <1>4, WholeStrings

\* An item gets a key: a copy, or a constant one.
LEMMA WholeNewKey ==
    ASSUME NEW h, NEW roots, Whole(h, roots), NEW g \in Heap,
           SameTree(h, g), g.prev = h.prev, Numbered(g),
           NEW new \in h.live, h.string[new] = NULL, NEW name \in Strings,
           g.const = h.const, g.string = [h.string EXCEPT ![new] = name],
           g.valuestring = h.valuestring,
           g.blocks = IF new \in h.const THEN h.blocks ELSE h.blocks + 1
    PROVE  Whole(g, roots)
  <1>1. /\ Counted(h) /\ h.const \subseteq h.live /\ g.live = h.live /\ g.ref = h.ref
        /\ h \in Heap /\ h.live \subseteq Items
    BY WholeHeap DEF Sound, SameTree
  <1>2. /\ name # NULL /\ h.string \in [Items -> Strings \cup {NULL}] /\ h.blocks \in Int
        /\ \A a \in Items : g.string[a] = IF a = new THEN name ELSE h.string[a]
    BY <1>1, HeapFields, HeapAssumption
  <1>3. ValueOwners(g) = ValueOwners(h)
    BY <1>1 DEF ValueOwners, OwnsValue
  <1>4. \A a \in h.live \ {new} : OwnsString(g, a) <=> OwnsString(h, a)
    BY <1>1, <1>2 DEF OwnsString
  <1>5. ~OwnsString(h, new) /\ (OwnsString(g, new) <=> new \notin h.const)
    BY <1>1, <1>2 DEF OwnsString
  <1>6. g.blocks = Cardinality(StringOwners(g)) + Cardinality(ValueOwners(g))
    <2>1. h.blocks = Cardinality(StringOwners(h)) + Cardinality(ValueOwners(h))
      BY <1>1 DEF Counted
    <2>2. CASE new \in h.const
      <3>1. StringOwners(g) = StringOwners(h)
        BY <1>1, <1>4, <1>5, <2>2 DEF StringOwners
      <3> QED
        BY <1>3, <2>1, <2>2, <3>1
    <2>3. CASE new \notin h.const
      <3>1. StringOwners(g) = StringOwners(h) \cup {new} /\ new \notin StringOwners(h)
        BY <1>1, <1>4, <1>5, <2>3 DEF StringOwners
      <3>2. /\ Cardinality(StringOwners(g)) = Cardinality(StringOwners(h)) + 1
            /\ Cardinality(StringOwners(h)) \in Nat /\ Cardinality(ValueOwners(h)) \in Nat
        BY <1>1, <3>1, OwnersFinite, FS_AddElement
      <3> QED
        BY <1>3, <2>1, <2>3, <3>2
    <2> QED
      BY <2>2, <2>3
  <1>7. \A a \in Items \ g.live : g.string[a] = NULL /\ g.valuestring[a] = NULL
    BY <1>1, <1>2 DEF Counted
  <1>8. Counted(g)
    BY <1>6, <1>7 DEF Counted
  <1> QED
    BY <1>1, <1>8, WholeStrings

\* The pointers of what was alive are as before.
Unmoved(h, d) == \A a \in h.live : d.next[a] = h.next[a] /\ d.child[a] = h.child[a]

\* A copy was made, and is the program's, or none was.
CopyMade(h, d, roots) ==
    /\ Whole(d, roots \cup Returned(d)) /\ d.ret \in (d.live \ h.live) \cup {NULL}
    /\ Grows(h, d) /\ Unmoved(h, d)

\* The copy that is being made.
Copying(h, g, new, roots) ==
    /\ Whole(g, roots \cup {new}) /\ new \in g.live \ h.live
    /\ Grows(h, g) /\ Unmoved(h, g)

\* A copy that cannot be completed is deleted.
LEMMA CopyFailed ==
    ASSUME NEW h, NEW roots, Whole(h, roots), NEW g, NEW new, Copying(h, g, new, roots)
    PROVE  CopyMade(h, [cJSON_Delete(g, new) EXCEPT !.ret = NULL], roots)
  <1> DEFINE u == cJSON_Delete(g, new)
             d == [u EXCEPT !.ret = NULL]
  <1>1. /\ Grows(h, u) /\ Whole(u, (roots \cup {new}) \ {new})
        /\ \A b \in h.live : u.next[b] = g.next[b] /\ u.child[b] = g.child[b]
    BY GrowsDeleted, new \in (roots \cup {new}) \cup {NULL} DEF Copying
  <1>2. (roots \cup {new}) \ {new} = roots
    BY WholeHeap DEF Copying
  <1> HIDE DEF u
  <1>3. u \in Heap /\ Whole(d, roots)
    BY <1>1, <1>2, WholeHeap, WholeReturns, NULL \in Items \cup {NULL}
  <1>4. d.ret = NULL /\ d.live = u.live /\ d.next = u.next /\ d.child = u.child
    BY <1>3 DEF Heap
  <1> HIDE DEF d
  <1>5. Returned(d) = {} /\ roots \cup {} = roots
    BY <1>4 DEF Returned
  <1>6. Grows(h, d) /\ Unmoved(h, d)
    BY <1>1, <1>4 DEF Grows, Unmoved, Copying
  <1>7. CopyMade(h, d, roots)
    BY <1>3, <1>4, <1>5, <1>6 DEF CopyMade
  <1> QED
    BY <1>7 DEF d, u

\* A copy that is complete is returned.
LEMMA CopyDone ==
    ASSUME NEW h, NEW roots, NEW g, NEW new \in Items, Copying(h, g, new, roots), g.ret = new
    PROVE  CopyMade(h, g, roots)
  <1>1. Returned(g) = {new}
    BY HeapAssumption DEF Returned
  <1> QED
    BY <1>1 DEF CopyMade, Copying

\* The copy gets contents, but no members.
LEMMA CopyingOn ==
    ASSUME NEW h, NEW roots, NEW g, NEW new, Copying(h, g, new, roots), NEW k, SameTree(g, k),
           Whole(k, roots \cup {new})
    PROVE  Copying(h, k, new, roots)
  BY DEF Copying, SameTree, Grows, Unmoved

-----------------------------------------------------------------------------
(* The loop over the members that are copied. *)

DuplicateStart(h, newitem, child, last, roots) ==
    /\ Whole(h, roots) /\ newitem \in roots /\ child \in h.live \cup {NULL}
    /\ last = NULL => h.child[newitem] = NULL
    /\ last # NULL => last \in h.live \ roots /\ h.next[last] = NULL

DuplicateEnd(h, d, newitem, last, roots) ==
    /\ Whole(d, roots) /\ Grows(h, d) /\ d.ret \in {newitem, NULL}
    /\ \A a \in h.live : /\ a # last => d.next[a] = h.next[a]
                         /\ a # newitem => d.child[a] = h.child[a]

DuplicatesWork(loop) ==
    \A h \in Heap, newitem \in Items, child \in Pointers, last \in Pointers :
    \A roots \in SUBSET Items :
        DuplicateStart(h, newitem, child, last, roots)
        => DuplicateEnd(h, loop[h, newitem, child, last], newitem, last, roots)

\* cJSON_Duplicate_rec.
LEMMA ItemDuplicated ==
    ASSUME NEW h, NEW roots, Whole(h, roots), NEW item \in h.live, NEW recurse, NEW loop,
           DuplicatesWork(loop)
    PROVE  CopyMade(h, DuplicateItem(h, item, recurse, loop), roots)
  <1> DEFINE n == cJSON_New_Item(h)
             new == n.ret
             fields == [n EXCEPT !.type[new] = h.type[item], !.valueint[new] = h.valueint[item],
                                 !.const = IF item \in h.const THEN @ \cup {new} ELSE @]
             HasText == h.valuestring[item] # NULL
             text1 == IF ~HasText THEN fields
                      ELSE [Copied(fields) EXCEPT !.valuestring[new] = h.valuestring[item]]
             HasKey == h.string[item] # NULL
             key == IF ~HasKey THEN text1
                    ELSE [(IF item \in h.const THEN text1 ELSE Copied(text1))
                          EXCEPT !.string[new] = h.string[item]]
             whole == IF recurse THEN loop[key, new, h.child[item], NULL]
                      ELSE [key EXCEPT !.ret = new]
             Failed(f) == [cJSON_Delete(f, new) EXCEPT !.ret = NULL]
             d == DuplicateItem(h, item, recurse, loop)
             all == roots \cup {new}
  <1> SUFFICES CopyMade(h, d, roots)
    OBVIOUS
  <1>0. d = IF new = NULL
            THEN n
            ELSE IF HasText /\ ~CanCopy(fields, h.valuestring[item])
            THEN Failed(fields)
            ELSE IF HasKey /\ item \notin h.const /\ ~CanCopy(text1, h.string[item])
            THEN Failed(text1)
            ELSE IF whole.ret = NULL
            THEN Failed(whole)
            ELSE whole
    BY DEF DuplicateItem
  <1> HIDE DEF d
  <1>1. /\ h \in Heap /\ h.live \subseteq Items /\ roots \subseteq h.live /\ item \in Items
        /\ Numbered(h) /\ h.const \subseteq h.live /\ h.child[item] \in h.live \cup {NULL}
        /\ \A a \in Items \ h.live : /\ h.next[a] = NULL /\ h.child[a] = NULL
                                     /\ h.string[a] = NULL /\ h.valuestring[a] = NULL
    BY WholeHeap
  <1>2. /\ n \in Heap /\ new \in (Items \ h.live) \cup {NULL} /\ n.live = h.live \cup Returned(n)
        /\ n.const = h.const /\ n.next = h.next /\ n.prev = h.prev /\ n.child = h.child
        /\ n.string = h.string /\ n.valuestring = h.valuestring
        /\ n.type = h.type /\ n.valueint = h.valueint
    BY <1>1, NewItemFields
  <1>3. Whole(n, roots \cup Returned(n)) /\ Grows(h, n) /\ Unmoved(h, n)
    BY <1>2, WholeNewItem DEF Unmoved
  <1>4. CASE new = NULL
    <2>1. d = n
      BY <1>0, <1>4
    <2> QED
      BY <1>3, <1>4, <2>1 DEF CopyMade
  <1>5. CASE new # NULL
    <2>1. new \in Items \ h.live /\ n.live = h.live \cup {new} /\ Whole(n, all)
          /\ Returned(n) = {new} /\ Copying(h, n, new, roots)
      BY <1>2, <1>3, <1>5 DEF Returned, Copying
    <2> HIDE DEF n, new
    <2>2. /\ h.type[item] \in Types /\ h.valueint[item] \in Int
          /\ h.valuestring[item] \in Strings \cup {NULL} /\ h.string[item] \in Strings \cup {NULL}
          /\ h.type[item] = "Number" => h.valueint[item] \in Numbers
      BY <1>1, HeapFields DEF Numbered
    <2>3. /\ fields \in Heap /\ SameTree(n, fields) /\ fields.prev = n.prev
          /\ fields.const = (IF item \in h.const THEN n.const \cup {new} ELSE n.const)
          /\ fields.string = n.string /\ fields.valuestring = n.valuestring
          /\ fields.blocks = n.blocks
          /\ fields.type = [n.type EXCEPT ![new] = h.type[item]]
          /\ fields.valueint = [n.valueint EXCEPT ![new] = h.valueint[item]]
      BY <1>2, <2>1, <2>2 DEF Heap, SameTree
    <2> HIDE DEF fields
    <2>4. Numbered(fields)
      BY <1>1, <1>2, <2>1, <2>2, <2>3, HeapFields DEF Numbered
    <2>5. Whole(fields, all) /\ fields.valuestring[new] = NULL /\ fields.string[new] = NULL
          /\ new \in fields.live /\ (new \in fields.const <=> item \in h.const)
      <3>1. new \in n.live /\ n.string[new] = NULL
        BY <1>1, <1>2, <2>1
      <3>2. fields.const \in {n.const, n.const \cup {new}}
        BY <2>3
      <3>3. Whole(fields, all)
        BY <2>1, <2>3, <2>4, <3>1, <3>2, WholeConst
      <3> QED
        BY <1>1, <1>2, <2>1, <2>3, <3>1, <3>3 DEF SameTree
    <2>6. Copying(h, fields, new, roots)
      BY <2>1, <2>3, <2>5, CopyingOn
    <2>7. CASE HasText /\ ~CanCopy(fields, h.valuestring[item])
      <3>1. d = Failed(fields)
        BY <1>0, <1>5, <2>7
      <3> QED
        BY <2>6, <3>1, CopyFailed
    <2>8. CASE ~(HasText /\ ~CanCopy(fields, h.valuestring[item]))
      <3>1. /\ text1 \in Heap /\ Whole(text1, all) /\ SameTree(fields, text1)
            /\ text1.const = fields.const /\ text1.string = fields.string
            /\ text1.type = fields.type /\ text1.valueint = fields.valueint
            /\ Numbered(text1) /\ text1.prev = fields.prev
        <4>1. CASE ~HasText
          <5>1. text1 = fields
            BY <4>1
          <5> QED
            BY <2>3, <2>4, <2>5, <5>1 DEF SameTree
        <4>2. CASE HasText
          <5> DEFINE x == h.valuestring[item]
          <5>1. x \in Strings /\ fields.mem > 0 /\ fields.mem - 1 \in Nat /\ fields.blocks + 1 \in Int
            BY <2>2, <2>3, <2>8, <4>2, HeapFields DEF CanCopy
          <5>2. text1 = [Copied(fields) EXCEPT !.valuestring[new] = x]
            BY <4>2
          <5> HIDE DEF x, text1
          <5>3. /\ text1 \in Heap /\ SameTree(fields, text1) /\ text1.prev = fields.prev
                /\ text1.const = fields.const /\ text1.string = fields.string
                /\ text1.valuestring = [fields.valuestring EXCEPT ![new] = x]
                /\ text1.blocks = fields.blocks + 1
                /\ text1.type = fields.type /\ text1.valueint = fields.valueint
            BY <2>1, <2>3, <5>1, <5>2 DEF Copied, Heap, SameTree
          <5>4. Numbered(text1)
            BY <2>4, <5>3 DEF Numbered
          <5>5. Whole(text1, all)
            BY <2>5, <5>1, <5>3, <5>4, WholeText
          <5> QED
            BY <5>3, <5>4, <5>5
        <4> QED
          BY <4>1, <4>2
      <3> HIDE DEF text1
      <3>2. Copying(h, text1, new, roots) /\ text1.string[new] = NULL
            /\ new \in text1.live /\ (new \in text1.const <=> item \in h.const)
        BY <2>5, <2>6, <3>1, CopyingOn DEF SameTree
      <3>3. CASE HasKey /\ item \notin h.const /\ ~CanCopy(text1, h.string[item])
        <4>1. d = Failed(text1)
          BY <1>0, <1>5, <2>8, <3>3
        <4> QED
          BY <3>2, <4>1, CopyFailed
      <3>4. CASE ~(HasKey /\ item \notin h.const /\ ~CanCopy(text1, h.string[item]))
        <4>1. key \in Heap /\ Whole(key, all) /\ SameTree(text1, key)
          <5>1. CASE ~HasKey
            BY <3>1, <5>1 DEF SameTree
          <5>2. CASE HasKey
            <6> DEFINE x == h.string[item]
                       base == IF item \in h.const THEN text1 ELSE Copied(text1)
            <6>1. x \in Strings
              BY <2>2, <5>2
            <6>2. key = [base EXCEPT !.string[new] = x]
              BY <5>2
            <6>3. /\ base \in Heap /\ SameTree(text1, base) /\ base.prev = text1.prev
                  /\ base.const = text1.const /\ base.string = text1.string
                  /\ base.valuestring = text1.valuestring
                  /\ base.blocks = (IF new \in text1.const THEN text1.blocks ELSE text1.blocks + 1)
                  /\ base.type = text1.type /\ base.valueint = text1.valueint
              <7>1. CASE item \in h.const
                BY <3>1, <3>2, <7>1 DEF SameTree
              <7>2. CASE item \notin h.const
                <8>1. text1.mem - 1 \in Nat /\ text1.blocks + 1 \in Int
                  BY <3>1, <3>4, <5>2, <7>2, HeapFields DEF CanCopy
                <8> QED
                  BY <3>1, <3>2, <7>2, <8>1 DEF Copied, Heap, SameTree
              <7> QED
                BY <7>1, <7>2
            <6> HIDE DEF x, base, key
            <6>4. /\ key \in Heap /\ SameTree(base, key) /\ key.prev = base.prev
                  /\ key.const = base.const /\ key.string = [base.string EXCEPT ![new] = x]
                  /\ key.valuestring = base.valuestring /\ key.blocks = base.blocks
                  /\ key.type = base.type /\ key.valueint = base.valueint
              BY <2>1, <6>1, <6>2, <6>3 DEF Heap, SameTree
            <6>5. SameTree(text1, key) /\ Numbered(key)
              BY <3>1, <6>3, <6>4 DEF SameTree, Numbered
            <6>6. Whole(key, all)
              BY <3>1, <3>2, <6>1, <6>3, <6>4, <6>5, WholeNewKey
            <6> QED
              BY <6>4, <6>5, <6>6
          <5> QED
            BY <5>1, <5>2
        <4> HIDE DEF key
        <4>2. Copying(h, key, new, roots)
          BY <3>2, <4>1, CopyingOn
        <4>3. Copying(h, whole, new, roots) /\ whole.ret \in {new, NULL}
          <5>1. CASE ~recurse
            <6>1. whole = [key EXCEPT !.ret = new]
              BY <5>1
            <6>2. whole.ret = new /\ SameTree(key, whole)
              BY <4>1, <6>1 DEF Heap, SameTree
            <6>3. Whole([key EXCEPT !.ret = new], all)
              BY <2>1, <4>1, WholeReturns
            <6>4. Whole(whole, all)
              BY <6>1, <6>3
            <6> HIDE DEF whole
            <6> QED
              BY <4>2, <6>2, <6>4, CopyingOn
          <5>2. CASE recurse
            <6> DEFINE first == h.child[item]
            <6>1. whole = loop[key, new, first, NULL]
              BY <5>2
            <6>2. key.live = h.live \cup {new} /\ key.child[new] = NULL
                  /\ key.next[new] = NULL
              BY <1>1, <1>2, <2>1, <2>3, <3>1, <4>1 DEF SameTree
            <6>3. DuplicateStart(key, new, first, NULL, all)
              BY <1>1, <4>1, <6>2 DEF DuplicateStart
            <6>4. first \in Pointers /\ NULL \in Pointers /\ new \in Items /\ all \in SUBSET Items
              BY <1>1, <2>1 DEF Pointers
            <6> HIDE DEF first, whole
            <6>5. DuplicateEnd(key, whole, new, NULL, all)
              BY <4>1, <6>1, <6>3, <6>4, Zenon DEF DuplicatesWork
            <6>6. Whole(whole, all) /\ whole.ret \in {new, NULL}
              BY <6>5 DEF DuplicateEnd
            <6>7. Grows(h, whole)
              <7>1. NULL \notin key.live
                BY <1>1, <2>1, <6>2, HeapAssumption
              <7> QED
                BY <4>2, <6>5, <7>1, GrowsOn DEF Copying, DuplicateEnd
            <6>8. new \in whole.live \ h.live
              BY <2>1, <6>2, <6>5 DEF DuplicateEnd, Grows
            <6>9. Unmoved(h, whole)
              <7>1. \A a \in h.live : a # NULL /\ a # new /\ a \in key.live
                BY <1>1, <2>1, <6>2, HeapAssumption
              <7> QED
                BY <4>2, <6>5, <7>1 DEF Unmoved, Copying, DuplicateEnd
            <6> QED
              BY <6>6, <6>7, <6>8, <6>9 DEF Copying
          <5> QED
            BY <5>1, <5>2
        <4> HIDE DEF whole
        <4>4. d = IF whole.ret = NULL THEN Failed(whole) ELSE whole
          BY <1>0, <1>5, <2>8, <3>4
        <4> QED
          BY <2>1, <4>3, <4>4, CopyFailed, CopyDone
      <3> QED
        BY <3>3, <3>4
    <2> QED
      BY <2>7, <2>8
  <1> QED
    BY <1>4, <1>5

\* A copy is linked behind the last member of newitem.
LEMMA LastLinked ==
    ASSUME NEW h, NEW roots, Whole(h, roots), NEW newitem \in roots, NEW last \in Pointers,
           last = NULL => h.child[newitem] = NULL,
           last # NULL => last \in h.live \ roots /\ h.next[last] = NULL,
           NEW d, CopyMade(h, d, roots), d.ret # NULL
    PROVE  LET linked == LinkedLast(d, newitem, last)
           IN  /\ Whole(linked, roots) /\ Grows(h, linked) /\ linked.ret = d.ret
               /\ d.ret \in linked.live \ roots /\ linked.next[d.ret] = NULL
               /\ \A a \in h.live : /\ a # last => linked.next[a] = h.next[a]
                                    /\ a # newitem => linked.child[a] = h.child[a]
  <1> DEFINE new == d.ret
             linked == LinkedLast(d, newitem, last)
             all == roots \cup {new}
             x == IF last = NULL THEN newitem ELSE last
             Linked == /\ Whole(linked, roots) /\ Grows(h, linked) /\ linked.ret = d.ret
                       /\ d.ret \in linked.live \ roots /\ linked.next[d.ret] = NULL
                       /\ \A a \in h.live : /\ a # last => linked.next[a] = h.next[a]
                                            /\ a # newitem => linked.child[a] = h.child[a]
  <1> SUFFICES Linked
    OBVIOUS
  <1> HIDE DEF Linked
  <1>1. h.live \subseteq Items /\ roots \subseteq h.live /\ NULL \notin h.live
    BY WholeHeap, HeapAssumption
  <1>2. /\ Whole(d, roots \cup Returned(d)) /\ new \in d.live \ h.live
        /\ Grows(h, d) /\ Unmoved(h, d)
    BY DEF CopyMade
  <1>3. d \in Heap
    BY <1>2, WholeHeap
  <1>4. /\ new \in Items \ roots /\ Returned(d) = {new}
        /\ h.live \subseteq d.live /\ d.live \subseteq Items
    BY <1>1, <1>2, <1>3, HeapFields DEF Returned, Grows
  <1>5. Whole(d, all) /\ d.next[new] = NULL
    <2>1. Whole(d, all)
      BY <1>2, <1>4
    <2> QED
      BY <2>1, WholeHeap
  <1> HIDE DEF new
  <1>6. Freed(d, new) \subseteq d.live \ h.live
    BY <1>2, <1>3, FreedIsNew
  <1>7. x \in h.live /\ x \in d.live /\ x \notin Freed(d, new) /\ x # new
    BY <1>1, <1>2, <1>4, <1>6
  <1>8. /\ last = NULL => d.child[newitem] = NULL
        /\ last # NULL => d.next[last] = NULL /\ last \notin all
    BY <1>1, <1>2 DEF Unmoved
  <1>9. /\ linked \in Heap /\ linked.live = d.live /\ linked.ref = d.ref /\ linked.ret = d.ret
        /\ SameStrings(d, linked) /\ linked.type = d.type /\ linked.valueint = d.valueint
        /\ IF last = NULL
           THEN /\ linked.child = [d.child EXCEPT ![newitem] = new]
                /\ linked.next = d.next /\ linked.prev = d.prev
           ELSE /\ linked.next = [d.next EXCEPT ![last] = new]
                /\ linked.prev = [d.prev EXCEPT ![new] = last] /\ linked.child = d.child
    <2>1. CASE last = NULL
      <3>1. linked = [d EXCEPT !.child[newitem] = new]
        BY <2>1 DEF LinkedLast, new
      <3> HIDE DEF linked
      <3> QED
        BY <1>3, <1>4, <2>1, <3>1 DEF Heap, SameStrings
    <2>2. CASE last # NULL
      <3>1. linked = [d EXCEPT !.next[last] = new, !.prev[new] = last]
        BY <2>2 DEF LinkedLast, suffix_object, new
      <3>2. last \in Items
        BY <2>2 DEF Pointers
      <3> HIDE DEF linked
      <3> QED
        BY <1>3, <1>4, <2>2, <3>1, <3>2 DEF Heap, SameStrings
    <2> QED
      BY <2>1, <2>2
  <1> HIDE DEF linked
  <1>10. Whole(linked, all \ {new}) /\ Grows(h, linked)
    <2>1. new \in all \ h.live
      BY <1>2
    <2>2. \/ /\ d.child[x] = NULL /\ linked.child = [d.child EXCEPT ![x] = new]
             /\ linked.next = d.next /\ linked.prev = d.prev
          \/ /\ d.next[x] = NULL /\ x \notin all /\ linked.next = [d.next EXCEPT ![x] = new]
             /\ linked.prev = [d.prev EXCEPT ![new] = x] /\ linked.child = d.child
      BY <1>8, <1>9
    <2> HIDE DEF all, x
    <2> QED
      BY <1>2, <1>5, <1>7, <1>9, <2>1, <2>2, WholeLinked
  <1>11. all \ {new} = roots
    BY <1>4
  <1>12. linked.next[new] = NULL /\ new \in linked.live \ roots
    <2>1. d.next \in [Items -> Items \cup {NULL}]
      BY <1>3, HeapFields
    <2> QED
      BY <1>2, <1>4, <1>5, <1>7, <1>9, <2>1
  <1>13. ASSUME NEW a \in h.live
         PROVE  /\ a # last => linked.next[a] = h.next[a]
                /\ a # newitem => linked.child[a] = h.child[a]
    <2>1. a \in Items
      BY <1>1
    <2>2. a # last => linked.next[a] = d.next[a]
      <3>1. d.next \in [Items -> Items \cup {NULL}]
        BY <1>3, HeapFields
      <3> QED
        BY <1>9, <2>1, <3>1
    <2>3. a # newitem => linked.child[a] = d.child[a]
      <3>1. d.child \in [Items -> Items \cup {NULL}]
        BY <1>3, HeapFields
      <3> QED
        BY <1>9, <2>1, <3>1
    <2> QED
      BY <1>2, <2>2, <2>3 DEF Unmoved
  <1> QED
    BY <1>9, <1>10, <1>11, <1>12, <1>13 DEF Linked, new

\* A member is copied and linked behind the last one, and then the rest is.
LEMMA MemberDuplicated ==
    ASSUME NEW h \in Heap, NEW newitem \in Items, NEW child \in Items, NEW last \in Pointers,
           NEW roots \in SUBSET Items, DuplicateStart(h, newitem, child, last, roots),
           NEW loop, DuplicatesWork(loop)
    PROVE  DuplicateEnd(h, DuplicateMember(h, newitem, child, last, loop), newitem, last, roots)
  <1> DEFINE d == DuplicateItem(h, child, TRUE, loop)
             linked == LinkedLast(d, newitem, last)
             rest == h.next[child]
             new == d.ret
             e == loop[linked, newitem, rest, new]
  <1>1. /\ Whole(h, roots) /\ newitem \in roots /\ child \in h.live
        /\ last = NULL => h.child[newitem] = NULL
        /\ last # NULL => last \in h.live \ roots /\ h.next[last] = NULL
    BY HeapAssumption DEF DuplicateStart
  <1>2. h.live \subseteq Items /\ NULL \notin h.live /\ rest \in h.live \cup {NULL}
    BY <1>1, WholeHeap, HeapAssumption
  <1>3. CopyMade(h, d, roots)
    BY <1>1, ItemDuplicated
  <1>4. DuplicateMember(h, newitem, child, last, loop) = IF new = NULL THEN d ELSE e
    BY DEF DuplicateMember
  <1> HIDE DEF d, rest
  <1>5. CASE new = NULL
    <2>1. roots \cup Returned(d) = roots
      BY <1>5 DEF Returned
    <2>2. Whole(d, roots) /\ Grows(h, d) /\ Unmoved(h, d)
      BY <1>3, <2>1 DEF CopyMade
    <2> QED
      BY <1>4, <1>5, <2>2 DEF DuplicateEnd, Unmoved
  <1>6. CASE new # NULL
    <2>1. /\ Whole(linked, roots) /\ Grows(h, linked)
          /\ new \in linked.live \ roots /\ linked.next[new] = NULL
          /\ \A a \in h.live : /\ a # last => linked.next[a] = h.next[a]
                               /\ a # newitem => linked.child[a] = h.child[a]
      BY <1>1, <1>3, <1>6, LastLinked
    <2> HIDE DEF linked
    <2>2. linked \in Heap /\ linked.live \subseteq Items /\ h.live \subseteq linked.live
          /\ NULL \notin linked.live
      BY <2>1, WholeHeap, HeapAssumption DEF Grows
    <2>3. DuplicateStart(linked, newitem, rest, new, roots)
      BY <1>1, <1>2, <1>6, <2>1, <2>2 DEF DuplicateStart
    <2>4. rest \in Pointers /\ new \in Pointers
      BY <1>2, <2>1, <2>2 DEF Pointers
    <2> HIDE DEF e, new
    <2>5. DuplicateEnd(linked, e, newitem, new, roots)
      BY <2>2, <2>3, <2>4, Zenon DEF DuplicatesWork, e
    <2>6. Whole(e, roots) /\ e.ret \in {newitem, NULL}
      BY <2>5 DEF DuplicateEnd
    <2>7. Grows(h, e)
      BY <2>1, <2>2, <2>5, GrowsOn DEF DuplicateEnd
    <2>8. new \notin h.live
      BY <1>3, <1>6 DEF CopyMade, new
    <2>9. ASSUME NEW a \in h.live
          PROVE  /\ a # last => e.next[a] = h.next[a]
                 /\ a # newitem => e.child[a] = h.child[a]
      <3>1. e.next[a] = linked.next[a] /\ (a # newitem => e.child[a] = linked.child[a])
        BY <2>2, <2>5, <2>8 DEF DuplicateEnd
      <3> QED
        BY <2>1, <3>1
    <2>10. DuplicateEnd(h, e, newitem, last, roots)
      BY <2>6, <2>7, <2>9 DEF DuplicateEnd
    <2> QED
      BY <1>4, <1>6, <2>10
  <1> QED
    BY <1>5, <1>6

\* The loop that has no member left, or no round.
LEMMA NoneDuplicated ==
    ASSUME NEW h \in Heap, NEW newitem \in Items, NEW child, NEW last,
           NEW roots, DuplicateStart(h, newitem, child, last, roots), NEW r \in {newitem, NULL}
    PROVE  DuplicateEnd(h, [h EXCEPT !.ret = r], newitem, last, roots)
  <1> DEFINE g == [h EXCEPT !.ret = r]
  <1>1. Whole(g, roots)
    BY WholeReturns DEF DuplicateStart
  <1>2. SameTree(h, g) /\ g.ret = r
    BY DEF SameTree, Heap
  <1> HIDE DEF g
  <1>3. DuplicateEnd(h, g, newitem, last, roots)
    BY <1>1, <1>2, GrowsSame DEF DuplicateEnd, SameTree
  <1> QED
    BY <1>3 DEF g

\* With one round more the loop copies one member more.
LEMMA RoundsDuplicate ==
    ASSUME NEW loop, loop = NoDuplicates \/ \E m : loop = Duplicates(m) /\ DuplicatesWork(m)
    PROVE  DuplicatesWork(loop)
  <1> SUFFICES
        \A h \in Heap, newitem \in Items, child \in Pointers, last \in Pointers :
        \A roots \in SUBSET Items :
            DuplicateStart(h, newitem, child, last, roots)
            => DuplicateEnd(h, loop[h, newitem, child, last], newitem, last, roots)
    BY DEF DuplicatesWork
  <1> TAKE h \in Heap, newitem \in Items, child \in Pointers, last \in Pointers
  <1> TAKE roots \in SUBSET Items
  <1> HAVE DuplicateStart(h, newitem, child, last, roots)
  <1> DEFINE d == loop[h, newitem, child, last]
  <1>1. <<h, newitem, child, last>> \in DuplicateRounds
    BY DEF DuplicateRounds
  <1>2. CASE loop = NoDuplicates
    <2>1. d = [h EXCEPT !.ret = IF child = NULL THEN newitem ELSE NULL]
      BY <1>1, <1>2 DEF NoDuplicates
    <2> HIDE DEF d
    <2>2. DuplicateEnd(h, [h EXCEPT !.ret = IF child = NULL THEN newitem ELSE NULL],
                       newitem, last, roots)
      <3> DEFINE r == IF child = NULL THEN newitem ELSE NULL
      <3>1. r \in {newitem, NULL}
        OBVIOUS
      <3> HIDE DEF r
      <3>2. DuplicateEnd(h, [h EXCEPT !.ret = r], newitem, last, roots)
        BY <3>1, NoneDuplicated
      <3> QED
        BY <3>2 DEF r
    <2>3. DuplicateEnd(h, d, newitem, last, roots)
      BY <2>1, <2>2
    <2> QED
      BY <2>3 DEF d
  <1>3. CASE \E m : loop = Duplicates(m) /\ DuplicatesWork(m)
    <2>1. PICK m : loop = Duplicates(m) /\ DuplicatesWork(m)
      BY <1>3
    <2>2. d = IF child = NULL THEN [h EXCEPT !.ret = newitem]
              ELSE DuplicateMember(h, newitem, child, last, m)
      BY <1>1, <2>1 DEF Duplicates
    <2> HIDE DEF d
    <2>3. DuplicateEnd(h, d, newitem, last, roots)
      <3>1. CASE child = NULL
        <4>1. DuplicateEnd(h, [h EXCEPT !.ret = newitem], newitem, last, roots)
          BY NoneDuplicated, newitem \in {newitem, NULL}
        <4> QED
          BY <2>2, <3>1, <4>1
      <3>2. CASE child # NULL
        <4>1. child \in Items
          BY <3>2 DEF Pointers
        <4>2. DuplicateEnd(h, DuplicateMember(h, newitem, child, last, m), newitem, last, roots)
          BY <2>1, <4>1, MemberDuplicated
        <4> QED
          BY <2>2, <3>2, <4>2
      <3> QED
        BY <3>1, <3>2
    <2> QED
      BY <2>3 DEF d
  <1> QED
    BY <1>2, <1>3

DuplicatedUpTo(g, n) == g[0] = NoDuplicates /\ \A i \in 0..n-1 : g[i + 1] = Duplicates(g[i])

\* There is a sequence of n loops, each made of the one before.
LEMMA DuplicatorsExist ==
    ASSUME NEW n \in Nat
    PROVE  \E g : DuplicatedUpTo(g, n)
  <1> DEFINE Good == {m \in Nat : \E g : DuplicatedUpTo(g, m)}
  <1>1. 0 \in Good
    <2>1. DuplicatedUpTo([i \in 0..0 |-> NoDuplicates], 0)
      BY DEF DuplicatedUpTo
    <2> QED
      BY <2>1
  <1>2. ASSUME NEW m \in Nat, m \in Good PROVE m + 1 \in Good
    <2>1. PICK g : DuplicatedUpTo(g, m)
      BY <1>2
    <2> DEFINE k == [i \in 0..m+1 |-> IF i = m + 1 THEN Duplicates(g[m]) ELSE g[i]]
    <2>2. k[0] = NoDuplicates
      BY <2>1 DEF DuplicatedUpTo
    <2>3. ASSUME NEW i \in 0..m PROVE k[i + 1] = Duplicates(k[i])
      <3>1. i \in 0..m+1 /\ i + 1 \in 0..m+1 /\ i # m + 1 /\ (i + 1 = m + 1 <=> i = m)
        OBVIOUS
      <3>2. k[i] = g[i] /\ k[i + 1] = IF i = m THEN Duplicates(g[m]) ELSE g[i + 1]
        BY <3>1
      <3>3. i # m => i \in 0..m-1
        OBVIOUS
      <3>4. i # m => g[i + 1] = Duplicates(g[i])
        BY <2>1, <3>3 DEF DuplicatedUpTo
      <3> HIDE DEF k
      <3> QED
        BY <3>2, <3>4
    <2>4. (m + 1) - 1 = m
      OBVIOUS
    <2> HIDE DEF k
    <2>5. DuplicatedUpTo(k, m + 1)
      BY <2>2, <2>3, <2>4 DEF DuplicatedUpTo
    <2> QED
      BY <2>5
  <1> HIDE DEF Good
  <1>3. 0..n \subseteq Good
    BY <1>1, <1>2, UpTo
  <1> QED
    BY <1>3 DEF Good

\* Two such sequences agree.
LEMMA DuplicatorsAgree ==
    ASSUME NEW n \in Nat, NEW m \in Nat, n <= m, NEW g, NEW k, DuplicatedUpTo(g, n), DuplicatedUpTo(k, m)
    PROVE  g[n] = k[n]
  <1> DEFINE Same == {i \in 0..n : g[i] = k[i]}
  <1>1. 0 \in Same
    BY DEF DuplicatedUpTo
  <1>2. ASSUME NEW i \in 0..n-1, i \in Same PROVE i + 1 \in Same
    <2>1. i \in 0..m-1 /\ i + 1 \in 0..n /\ g[i] = k[i]
      BY <1>2
    <2>2. g[i + 1] = Duplicates(g[i]) /\ k[i + 1] = Duplicates(k[i])
      BY <2>1 DEF DuplicatedUpTo
    <2> QED
      BY <2>1, <2>2
  <1> HIDE DEF Same
  <1>3. 0..n \subseteq Same
    BY <1>1, <1>2, UpTo
  <1> QED
    BY <1>3 DEF Same

\* The loop with no round left, and with one more.
LEMMA DuplicatorRounds ==
    /\ DuplicateMembers[0] = NoDuplicates
    /\ \A n \in Nat : DuplicateMembers[n + 1] = Duplicates(DuplicateMembers[n])
  <1> DEFINE G(n) == CHOOSE g : DuplicatedUpTo(g, n)
             f == [n \in Nat |-> G(n)[n]]
  <1>1. ASSUME NEW n \in Nat PROVE DuplicatedUpTo(G(n), n)
    BY DuplicatorsExist
  <1> HIDE DEF G
  <1>2. f[0] = NoDuplicates
    BY <1>1 DEF DuplicatedUpTo
  <1>3. ASSUME NEW n \in Nat PROVE f[n + 1] = Duplicates(f[n])
    <2>1. n + 1 \in Nat /\ n <= n + 1 /\ n \in 0..(n+1)-1
      OBVIOUS
    <2>2. G(n + 1)[n + 1] = Duplicates(G(n + 1)[n])
      BY <1>1, <2>1 DEF DuplicatedUpTo
    <2>3. DuplicatedUpTo(G(n), n) /\ DuplicatedUpTo(G(n + 1), n + 1)
      BY <1>1, <2>1
    <2>4. G(n)[n] = G(n + 1)[n]
      BY <2>1, <2>3, DuplicatorsAgree
    <2> QED
      BY <2>1, <2>2, <2>4
  <1>4. f = [n \in Nat |-> IF n = 0 THEN NoDuplicates ELSE Duplicates(f[n - 1])]
    <2>1. ASSUME NEW n \in Nat PROVE f[n] = IF n = 0 THEN NoDuplicates ELSE Duplicates(f[n - 1])
      <3>1. n # 0 => n - 1 \in Nat /\ (n - 1) + 1 = n
        OBVIOUS
      <3> HIDE DEF f
      <3> QED
        BY <1>2, <1>3, <3>1
    <2>2. f = [n \in Nat |-> f[n]]
      OBVIOUS
    <2> HIDE DEF f
    <2> QED
      BY <2>1, <2>2
  <1> HIDE DEF f
  <1>5. DuplicateMembers = [n \in Nat |-> IF n = 0 THEN NoDuplicates ELSE Duplicates(DuplicateMembers[n - 1])]
    BY <1>4 DEF DuplicateMembers
  <1>6. \A n \in Nat : n + 1 \in Nat /\ n + 1 # 0 /\ (n + 1) - 1 = n
    OBVIOUS
  <1> QED
    BY <1>5, <1>6

\* The loop over the members copies them, whatever rounds it has left.
LEMMA DuplicatorsWork ==
    ASSUME NEW n \in Nat
    PROVE  DuplicatesWork(DuplicateMembers[n])
  <1> DEFINE Good == {m \in Nat : DuplicatesWork(DuplicateMembers[m])}
  <1>1. DuplicatesWork(DuplicateMembers[0])
    <2>1. DuplicateMembers[0] = NoDuplicates
      BY DuplicatorRounds
    <2> QED
      BY <2>1, RoundsDuplicate
  <1>2. ASSUME NEW m \in Nat, m \in Good PROVE m + 1 \in Good
    <2>1. DuplicateMembers[m + 1] = Duplicates(DuplicateMembers[m])
      BY DuplicatorRounds
    <2>2. DuplicatesWork(DuplicateMembers[m])
      BY <1>2
    <2>3. DuplicatesWork(DuplicateMembers[m + 1])
      <3> DEFINE less == DuplicateMembers[m]
                 more == DuplicateMembers[m + 1]
      <3>1. more = Duplicates(less) /\ DuplicatesWork(less)
        BY <2>1, <2>2
      <3> HIDE DEF less, more
      <3>2. DuplicatesWork(more)
        BY <3>1, RoundsDuplicate
      <3> QED
        BY <3>2 DEF more
    <2> QED
      BY <2>3
  <1> HIDE DEF Good
  <1>3. 0 \in Good
    BY <1>1 DEF Good
  <1>4. 0..n \subseteq Good
    BY <1>2, <1>3, UpTo
  <1> QED
    BY <1>4 DEF Good

\* cJSON_Duplicate: the copy is a tree of its own, or nothing of it is left.
LEMMA DuplicateWhole ==
    ASSUME NEW h, NEW roots, Whole(h, roots), NEW item \in h.live, NEW recurse
    PROVE  CopyMade(h, cJSON_Duplicate(h, item, recurse), roots)
  <1> DEFINE loop == DuplicateMembers[Cardinality(Items)]
  <1>1. Cardinality(Items) \in Nat
    BY HeapAssumption, FS_CardinalityType
  <1>2. DuplicatesWork(loop)
    BY <1>1, DuplicatorsWork
  <1> HIDE DEF loop
  <1>3. CopyMade(h, DuplicateItem(h, item, recurse, loop), roots)
    BY <1>2, ItemDuplicated
  <1> QED
    BY <1>3 DEF cJSON_Duplicate, loop

-----------------------------------------------------------------------------
(* Arrays of numbers and of strings *)

\* A call that makes one item made it, or none.
OneMore(h, n, roots) ==
    /\ CopyMade(h, n, roots) /\ n.live = h.live \cup Returned(n)
    /\ n.next = h.next /\ n.child = h.child /\ n.valuestring = h.valuestring

\* cJSON_CreateNumber, cJSON_CreateArray: one more tree, or none.
LEMMA WholeItem ==
    ASSUME NEW h, NEW roots, Whole(h, roots), NEW type \in Types, NEW int \in Int,
           type = "Number" => int \in Numbers
    PROVE  OneMore(h, CreateItem(h, type, int), roots)
  <1> DEFINE m == cJSON_New_Item(h)
             n == CreateItem(h, type, int)
  <1> SUFFICES OneMore(h, n, roots)
    OBVIOUS
  <1>1. Whole(m, roots \cup Returned(m)) /\ Grows(h, m) /\ h \in Heap /\ h.live \subseteq Items
    BY WholeNewItem, WholeHeap
  <1>2. /\ m \in Heap /\ m.ret \in (Items \ h.live) \cup {NULL}
        /\ m.live = h.live \cup Returned(m)
        /\ m.next = h.next /\ m.child = h.child /\ m.valuestring = h.valuestring
    BY <1>1, NewItemFields
  <1>3. n = IF m.ret = NULL THEN m
            ELSE [m EXCEPT !.type[m.ret] = type, !.valueint[m.ret] = int]
    BY DEF CreateItem
  <1> HIDE DEF n, m
  <1>4. OneMore(h, m, roots)
    BY <1>1, <1>2 DEF OneMore, CopyMade, Unmoved, Returned
  <1>5. CASE m.ret = NULL
    BY <1>3, <1>4, <1>5
  <1>6. CASE m.ret # NULL
    <2>1. n = [m EXCEPT !.type[m.ret] = type, !.valueint[m.ret] = int]
      BY <1>3, <1>6
    <2>2. /\ n \in Heap /\ SameTree(m, n) /\ n.prev = m.prev /\ SameStrings(m, n) /\ n.ret = m.ret
          /\ n.type = [m.type EXCEPT ![m.ret] = type]
          /\ n.valueint = [m.valueint EXCEPT ![m.ret] = int]
      BY <1>2, <1>6, <2>1 DEF Heap, SameTree, SameStrings
    <2>3. Numbered(n)
      <3>1. Numbered(m) /\ m.type \in [Items -> Types] /\ m.valueint \in [Items -> Int]
        BY <1>1, <1>2, WholeHeap, HeapFields
      <3> QED
        BY <1>2, <1>6, <2>2, <3>1 DEF Numbered
    <2>4. Returned(n) = Returned(m)
      BY <2>2 DEF Returned
    <2>5. Whole(n, roots \cup Returned(n))
      BY <1>1, <2>2, <2>3, <2>4, WholeSame
    <2>6. Grows(h, n)
      BY <1>1, <2>2 DEF Grows, SameTree
    <2> QED
      BY <1>4, <2>2, <2>4, <2>5, <2>6 DEF OneMore, CopyMade, Unmoved, SameTree, SameStrings
  <1> QED
    BY <1>5, <1>6

\* cJSON_CreateString: without memory for the text there is no item either.
LEMMA WholeTextItem ==
    ASSUME NEW h, NEW roots, Whole(h, roots), NEW type \in Types, type # "Number",
           NEW x \in Strings
    PROVE  CopyMade(h, CreateText(h, type, x), roots)
  <1> DEFINE n == CreateItem(h, type, 0)
             new == n.ret
             g == [Copied(n) EXCEPT !.valuestring[new] = x]
             t == CreateText(h, type, x)
  <1> SUFFICES CopyMade(h, t, roots)
    OBVIOUS
  <1>1. OneMore(h, n, roots)
    BY WholeItem
  <1>2. t = IF new = NULL THEN n
            ELSE IF CanCopy(n, x) THEN g
            ELSE [cJSON_Delete(n, new) EXCEPT !.ret = NULL]
    BY DEF CreateText
  <1> HIDE DEF n, t
  <1>3. CASE new = NULL
    BY <1>1, <1>2, <1>3 DEF OneMore
  <1>4. CASE new # NULL
    <2>1. Returned(n) = {new}
      BY <1>4 DEF Returned
    <2>2. Copying(h, n, new, roots)
      BY <1>1, <1>4, <2>1 DEF OneMore, CopyMade, Copying
    <2>3. CASE ~CanCopy(n, x)
      BY <1>2, <1>4, <2>2, <2>3, CopyFailed
    <2>4. CASE CanCopy(n, x)
      <3>1. /\ n \in Heap /\ Whole(n, roots \cup {new}) /\ Numbered(n) /\ new \in n.live
            /\ n.live \subseteq Items
        BY <2>2, WholeHeap DEF Copying
      <3>2. n.valuestring[new] = NULL
        BY <1>1, <2>2, WholeHeap, <3>1 DEF OneMore, Copying
      <3>3. n.mem - 1 \in Nat /\ n.blocks + 1 \in Int
        BY <2>4, <3>1, HeapFields DEF CanCopy
      <3> HIDE DEF new
      <3>4. /\ g \in Heap /\ SameTree(n, g) /\ g.prev = n.prev /\ g.ret = n.ret
            /\ g.const = n.const /\ g.string = n.string
            /\ g.valuestring = [n.valuestring EXCEPT ![new] = x] /\ g.blocks = n.blocks + 1
            /\ g.type = n.type /\ g.valueint = n.valueint
        BY <3>1, <3>3 DEF Copied, Heap, SameTree
      <3> HIDE DEF g
      <3>5. Numbered(g)
        BY <3>1, <3>4 DEF Numbered
      <3>6. Whole(g, roots \cup {new})
        BY <3>1, <3>2, <3>4, <3>5, WholeText
      <3>7. Copying(h, g, new, roots)
        BY <2>2, <3>4, <3>6, CopyingOn
      <3>8. new \in Items /\ g.ret = new
        BY <3>1, <3>4 DEF new
      <3>9. CopyMade(h, g, roots)
        BY <3>7, <3>8, CopyDone
      <3>10. t = g
        BY <1>2, <1>4, <2>4 DEF g, new
      <3> QED
        BY <3>9, <3>10
    <2> QED
      BY <2>3, <2>4
  <1> QED
    BY <1>3, <1>4

\* The array a is being filled, or it was deleted again.
Filling(f, a, roots) ==
    /\ f \in [h : Heap, last : Pointers]
    /\ f.h.ret = NULL => Whole(f.h, roots)
    /\ f.h.ret # NULL =>
         /\ Whole(f.h, roots \cup {a})
         /\ f.last = NULL => f.h.child[a] = NULL
         /\ f.last # NULL => f.last \in f.h.live \ (roots \cup {a}) /\ f.h.next[f.last] = NULL

Elementary(type, value) ==
    \/ type = "Number" /\ value \in Numbers
    \/ type = "String" /\ value \in Strings

\* An element is created and linked, or the array is deleted.
LEMMA ElementFilled ==
    ASSUME NEW f, NEW roots, NEW a \in Items \ roots, Filling(f, a, roots),
           NEW type, NEW value, Elementary(type, value)
    PROVE  Filling(Element(f, a, type, value), a, roots)
  <1> DEFINE n == IF type = "Number" THEN CreateItem(f.h, type, value)
                  ELSE CreateText(f.h, type, value)
             all == roots \cup {a}
             u == cJSON_Delete(n, a)
             e == Element(f, a, type, value)
  <1> SUFFICES Filling(e, a, roots)
    OBVIOUS
  <1>1. e = IF f.h.ret = NULL THEN f
            ELSE IF n.ret = NULL THEN [f EXCEPT !.h = [u EXCEPT !.ret = NULL]]
            ELSE [h |-> LinkedLast(n, a, f.last), last |-> n.ret]
    BY DEF Element
  <1> HIDE DEF e
  <1>2. CASE f.h.ret = NULL
    BY <1>1, <1>2
  <1>3. CASE f.h.ret # NULL
    <2>1. /\ Whole(f.h, all) /\ f.last \in Pointers
          /\ f.last = NULL => f.h.child[a] = NULL
          /\ f.last # NULL => f.last \in f.h.live \ all /\ f.h.next[f.last] = NULL
      BY <1>3 DEF Filling
    <2>2. CopyMade(f.h, n, all)
      <3> HIDE DEF all
      <3>1. CASE type = "Number"
        <4>1. value \in Numbers /\ value \in Int /\ type \in Types
          BY <3>1, TextAssumption DEF Elementary, Types
        <4>2. n = CreateItem(f.h, type, value)
          BY <3>1
        <4> HIDE DEF n
        <4> QED
          BY <2>1, <4>1, <4>2, WholeItem DEF OneMore
      <3>2. CASE type # "Number"
        <4>1. value \in Strings /\ type \in Types
          BY <3>2 DEF Elementary, Types
        <4>2. n = CreateText(f.h, type, value)
          BY <3>2
        <4> HIDE DEF n
        <4> QED
          BY <2>1, <3>2, <4>1, <4>2, WholeTextItem
      <3> QED
        BY <3>1, <3>2
    <2> HIDE DEF n
    <2>3. CASE n.ret = NULL
      <3>1. Whole(n, all)
        <4>1. all \cup Returned(n) = all
          BY <2>3 DEF Returned
        <4> QED
          BY <2>2, <4>1 DEF CopyMade
      <3>2. Whole(u, all \ {a})
        BY <3>1, WholeDelete, a \in all \cup {NULL}
      <3>3. all \ {a} = roots
        OBVIOUS
      <3> DEFINE g == [u EXCEPT !.ret = NULL]
      <3>4. Whole(u, roots) /\ u \in Heap
        BY <3>2, <3>3, WholeHeap
      <3> HIDE DEF u
      <3>5. Whole(g, roots) /\ g.ret = NULL
        BY <3>4, WholeReturns, NULL \in Items \cup {NULL} DEF Heap
      <3>6. e = [f EXCEPT !.h = g]
        BY <1>1, <1>3, <2>3
      <3> HIDE DEF g
      <3>7. g \in Heap
        BY <3>5, WholeHeap
      <3>8. e \in [h : Heap, last : Pointers] /\ e.h = g
        BY <3>6, <3>7 DEF Filling
      <3> QED
        BY <3>5, <3>8 DEF Filling
    <2>4. CASE n.ret # NULL
      <3> DEFINE linked == LinkedLast(n, a, f.last)
      <3>1. /\ Whole(linked, all) /\ linked.ret = n.ret /\ n.ret \in linked.live \ all
            /\ linked.next[n.ret] = NULL
        BY <2>1, <2>2, <2>4, LastLinked, a \in all
      <3>2. n.ret \in Pointers
        BY <3>1, WholeHeap DEF Pointers
      <3>3. e = [h |-> linked, last |-> n.ret]
        BY <1>1, <1>3, <2>4
      <3> HIDE DEF linked
      <3>4. linked \in Heap
        BY <3>1, WholeHeap
      <3>5. e \in [h : Heap, last : Pointers] /\ e.h = linked /\ e.last = n.ret
        BY <3>2, <3>3, <3>4
      <3> QED
        BY <2>4, <3>1, <3>5 DEF Filling
    <2> QED
      BY <2>3, <2>4
  <1> QED
    BY <1>2, <1>3

FilledUpTo(g, base, a, type, values, n) ==
    /\ g[0] = base
    /\ \A i \in 0..n-1 : g[i + 1] = Element(g[i], a, type, values[i + 1])

\* There is a sequence of n arrays, each with one element more.
LEMMA FillingExists ==
    ASSUME NEW base, NEW a, NEW type, NEW values, NEW n \in Nat
    PROVE  \E g : FilledUpTo(g, base, a, type, values, n)
  <1> DEFINE UpToN(g, m) == FilledUpTo(g, base, a, type, values, m)
             Good == {m \in Nat : \E g : UpToN(g, m)}
  <1>1. 0 \in Good
    <2>1. UpToN([i \in 0..0 |-> base], 0)
      BY DEF FilledUpTo
    <2> QED
      BY <2>1
  <1>2. ASSUME NEW m \in Nat, m \in Good PROVE m + 1 \in Good
    <2>1. PICK g : UpToN(g, m)
      BY <1>2
    <2> DEFINE next == Element(g[m], a, type, values[m + 1])
               k == [i \in 0..m+1 |-> IF i = m + 1 THEN next ELSE g[i]]
    <2>2. k[0] = base
      BY <2>1 DEF FilledUpTo
    <2>3. ASSUME NEW i \in 0..m PROVE k[i + 1] = Element(k[i], a, type, values[i + 1])
      <3>1. i \in 0..m+1 /\ i + 1 \in 0..m+1 /\ i # m + 1 /\ (i + 1 = m + 1 <=> i = m)
        OBVIOUS
      <3>2. k[i] = g[i] /\ k[i + 1] = IF i = m THEN next ELSE g[i + 1]
        BY <3>1
      <3>3. i # m => i \in 0..m-1
        OBVIOUS
      <3>4. i # m => g[i + 1] = Element(g[i], a, type, values[i + 1])
        BY <2>1, <3>3 DEF FilledUpTo
      <3> HIDE DEF k
      <3> QED
        BY <3>2, <3>4
    <2>4. (m + 1) - 1 = m
      OBVIOUS
    <2> HIDE DEF k
    <2>5. UpToN(k, m + 1)
      BY <2>2, <2>3, <2>4 DEF FilledUpTo
    <2> HIDE DEF UpToN
    <2> QED
      BY <2>5
  <1> HIDE DEF Good
  <1>3. 0..n \subseteq Good
    BY <1>1, <1>2, UpTo
  <1> QED
    BY <1>3 DEF Good

\* cJSON_CreateIntArray and its siblings: the whole array is made, or nothing.
LEMMA ArrayWhole ==
    ASSUME NEW h, NEW roots, Whole(h, roots), NEW type,
           NEW values \in Seq(Numbers \cup Strings),
           \A i \in 1..Len(values) : Elementary(type, values[i])
    PROVE  LET d == CreateArrayOf(h, type, values)
           IN  Whole(d, roots \cup Returned(d)) /\ d.ret \in Items \cup {NULL}
  <1> DEFINE c == CreateItem(h, "Array", 0)
             a == c.ret
             N == Len(values)
             filled[i \in 0..N] ==
                 IF i = 0 THEN [h |-> c, last |-> NULL]
                 ELSE Element(filled[i - 1], a, type, values[i])
             full == filled[N].h
             d == CreateArrayOf(h, type, values)
  <1>0. d = IF a = NULL THEN c ELSE [full EXCEPT !.ret = IF @ = NULL THEN NULL ELSE a]
    BY DEF CreateArrayOf
  <1> HIDE DEF d
  <1> SUFFICES Whole(d, roots \cup Returned(d))
    <2>1. Whole(d, roots \cup Returned(d)) => d.ret \in Items \cup {NULL}
      BY WholeHeap, HeapFields
    <2> QED
      BY <2>1 DEF d
  <1>1. OneMore(h, c, roots) /\ h.live \subseteq Items /\ roots \subseteq h.live
        /\ \A b \in Items \ h.live : h.child[b] = NULL
    <2>1. OneMore(h, c, roots)
      BY WholeItem DEF Types
    <2> QED
      BY <2>1, WholeHeap
  <1>2. N \in Nat
    OBVIOUS
  <1>3. CASE a = NULL
    BY <1>0, <1>1, <1>3 DEF OneMore, CopyMade
  <1>4. CASE a # NULL
    <2> DEFINE base == [h |-> c, last |-> NULL]
    <2>1. Returned(c) = {a} /\ Whole(c, roots \cup {a})
      BY <1>1, <1>4 DEF Returned, OneMore, CopyMade
    <2>2. a \in Items \ roots /\ c \in Heap /\ c.child[a] = NULL
      <3>1. a \in c.live \ h.live /\ c.child = h.child
        BY <1>1, <1>4 DEF OneMore, CopyMade
      <3>2. c.live \subseteq Items /\ c \in Heap
        BY <2>1, WholeHeap
      <3> QED
        BY <1>1, <3>1, <3>2
    <2>3. Filling(base, a, roots)
      <3>1. base \in [h : Heap, last : Pointers] /\ base.h = c /\ base.last = NULL
        BY <2>2 DEF Pointers
      <3> QED
        BY <1>4, <2>1, <2>2, <3>1 DEF Filling
    <2> HIDE DEF c
    <2>4. /\ filled[0] = base
          /\ \A i \in 0..N-1 : filled[i + 1] = Element(filled[i], a, type, values[i + 1])
      <3>1. PICK g : /\ g[0] = base
                     /\ \A i \in 0..N-1 : g[i + 1] = Element(g[i], a, type, values[i + 1])
        <4>1. \E g : FilledUpTo(g, base, a, type, values, N)
          BY <1>2, FillingExists
        <4> QED
          BY <4>1 DEF FilledUpTo
      <3> HIDE DEF a, base
      <3> DEFINE k == [i \in 0..N |-> g[i]]
      <3>2. ASSUME NEW i \in 0..N
            PROVE  k[i] = IF i = 0 THEN base ELSE Element(k[i - 1], a, type, values[i])
        <4>1. i # 0 => i - 1 \in 0..N-1 /\ i - 1 \in 0..N /\ (i - 1) + 1 = i
          BY <1>2
        <4> QED
          BY <3>1, <4>1
      <3>3. k = [i \in 0..N |-> k[i]]
        OBVIOUS
      <3> HIDE DEF k, N
      <3>4. k = [i \in 0..N |-> IF i = 0 THEN base ELSE Element(k[i - 1], a, type, values[i])]
        BY <3>2, <3>3
      <3>5. filled = [i \in 0..N |-> IF i = 0 THEN base
                                     ELSE Element(filled[i - 1], a, type, values[i])]
        BY <3>4 DEF base
      <3> HIDE DEF filled
      <3>6. \A i \in 0..N-1 : i + 1 \in 0..N /\ i + 1 # 0 /\ (i + 1) - 1 = i
        BY <1>2
      <3> QED
        BY <1>2, <3>5, <3>6
    <2> HIDE DEF filled, base
    <2>5. Filling(filled[N], a, roots)
      <3> DEFINE Good == {i \in 0..N : Filling(filled[i], a, roots)}
      <3>1. 0 \in Good
        BY <1>2, <2>3, <2>4
      <3>2. ASSUME NEW i \in 0..N-1, i \in Good PROVE i + 1 \in Good
        <4>1. i + 1 \in 1..N /\ i + 1 \in 0..N
          BY <1>2
        <4>2. Filling(filled[i], a, roots) /\ Elementary(type, values[i + 1])
          BY <3>2, <4>1
        <4>3. Filling(Element(filled[i], a, type, values[i + 1]), a, roots)
          BY <2>2, <4>2, ElementFilled
        <4> QED
          BY <2>4, <4>1, <4>3
      <3> HIDE DEF Good
      <3>3. 0..N \subseteq Good
        BY <1>2, <3>1, <3>2, UpTo
      <3> QED
        BY <1>2, <3>3 DEF Good
    <2>6. CASE full.ret = NULL
      <3>1. d = [full EXCEPT !.ret = NULL] /\ Whole(full, roots)
        BY <1>0, <1>4, <2>5, <2>6 DEF Filling
      <3> HIDE DEF full
      <3>2. Whole(d, roots) /\ full \in Heap
        BY <3>1, WholeReturns, WholeHeap, NULL \in Items \cup {NULL}
      <3>3. d.ret = NULL
        BY <3>1, <3>2 DEF Heap
      <3>4. roots \cup Returned(d) = roots
        BY <3>3 DEF Returned
      <3> QED
        BY <3>2, <3>4
    <2>7. CASE full.ret # NULL
      <3>1. d = [full EXCEPT !.ret = a] /\ Whole(full, roots \cup {a})
        BY <1>0, <1>4, <2>5, <2>7 DEF Filling
      <3> HIDE DEF full
      <3>2. Whole(d, roots \cup {a}) /\ full \in Heap
        BY <2>2, <3>1, WholeReturns, WholeHeap
      <3>3. d.ret = a
        BY <2>2, <3>1, <3>2 DEF Heap
      <3>4. Returned(d) = {a}
        BY <1>4, <3>3 DEF Returned
      <3> QED
        BY <3>2, <3>4
    <2> QED
      BY <2>6, <2>7
  <1> QED
    BY <1>3, <1>4

-----------------------------------------------------------------------------
(* The program *)

\* In the beginning there is nothing.
LEMMA WholeEmpty == Whole(EmptyHeap, {})
  <1>1. EmptyHeap \in Heap
    BY DEF EmptyHeap, Heap, Types
  <1>2. /\ EmptyHeap.live = {} /\ EmptyHeap.ref = {} /\ EmptyHeap.const = {}
        /\ EmptyHeap.blocks = 0
        /\ \A a \in Items : /\ EmptyHeap.next[a] = NULL /\ EmptyHeap.prev[a] = NULL
                            /\ EmptyHeap.child[a] = NULL /\ EmptyHeap.type[a] = "Invalid"
                            /\ EmptyHeap.string[a] = NULL /\ EmptyHeap.valuestring[a] = NULL
    BY DEF EmptyHeap
  <1> HIDE DEF EmptyHeap
  <1>3. WellFormed(EmptyHeap, {})
    BY <1>1, <1>2 DEF WellFormed, HeapOK, Chained, Owned, HeldApart, ListsEnd
  <1>4. Anchored(EmptyHeap, {})
    BY <1>2 DEF Anchored, Grounded, Claimed
  <1>5. Counted(EmptyHeap)
    <2>1. StringOwners(EmptyHeap) = {} /\ ValueOwners(EmptyHeap) = {}
      BY <1>2 DEF StringOwners, ValueOwners
    <2> QED
      BY <1>2, <2>1, FS_EmptySet DEF Counted
  <1>6. Numbered(EmptyHeap)
    BY <1>2 DEF Numbered
  <1> QED
    BY <1>2, <1>3, <1>4, <1>5, <1>6 DEF Whole, Sound

\* A member is taken out and deleted.
LEMMA MemberDeleted ==
    ASSUME NEW h, NEW roots, Whole(h, roots), NEW p \in h.live, NEW a \in Members(h, p)
    PROVE  Whole(cJSON_Delete(cJSON_DetachItemViaPointer(h, p, a), a), roots)
  <1> DEFINE n == cJSON_DetachItemViaPointer(h, p, a)
  <1>1. /\ Sound(h, roots) /\ WellFormed(h, roots) /\ h.ref = {} /\ Numbered(h) /\ h \in Heap
        /\ p \in h.live \ h.ref /\ p \in Items
    BY WholeHeap
  <1>2. Sound(n, roots \cup Returned(n)) /\ n.ret = a
    BY <1>1, SoundDetached, Detached
  <1>3. a \in Items /\ a # NULL /\ a \notin roots
    <2>1. a \in Items
      BY <1>1, HeapFields, WalkedCloses DEF Members
    <2> QED
      BY <1>1, <2>1, RootsAreNotMembers, HeapAssumption
  <1>4. n.ref = h.ref /\ n.type = h.type /\ n.valueint = h.valueint
    BY <1>1, <1>3 DEF cJSON_DetachItemViaPointer, Heap
  <1> HIDE DEF n
  <1>5. Returned(n) = {a} /\ (roots \cup {a}) \ {a} = roots
    BY <1>2, <1>3 DEF Returned
  <1>6. Whole(n, roots \cup {a})
    BY <1>1, <1>2, <1>4, <1>5 DEF Whole, Numbered
  <1>7. Whole(cJSON_Delete(n, a), (roots \cup {a}) \ {a})
    BY <1>6, WholeDelete, a \in (roots \cup {a}) \cup {NULL}
  <1> QED
    BY <1>5, <1>7 DEF n

\* One number of a tree is set.
LEMMA NumberSet ==
    ASSUME NEW h, NEW roots, Whole(h, roots), NEW a \in Items, NEW n \in Numbers
    PROVE  /\ Whole(SetNumber(h, a, n), roots)
           /\ SetNumber(h, a, n).mem = h.mem /\ SetNumber(h, a, n).ret = h.ret
  <1> DEFINE g == SetNumber(h, a, n)
  <1>1. h \in Heap /\ Numbered(h) /\ n \in Int
    BY WholeHeap, TextAssumption
  <1>2. g = [h EXCEPT !.valueint[a] = n]
    BY DEF SetNumber
  <1> HIDE DEF g
  <1>3. /\ g \in Heap /\ SameTree(h, g) /\ g.prev = h.prev /\ SameStrings(h, g)
        /\ g.type = h.type /\ g.valueint = [h.valueint EXCEPT ![a] = n]
        /\ g.mem = h.mem /\ g.ret = h.ret
    BY <1>1, <1>2 DEF Heap, SameTree, SameStrings
  <1>4. Numbered(g)
    BY <1>1, <1>3, HeapFields DEF Numbered
  <1>5. Whole(g, roots)
    BY <1>3, <1>4, WholeSame
  <1> QED
    BY <1>3, <1>5 DEF g

\* The inductive invariant.
Kept ==
    /\ Whole(heap, Held) /\ heap.mem = 0 /\ heap.ret = NULL
    /\ text \in Seq(Lexemes)
    /\ copy # NULL => copy # root
    /\ call.name = "none" => root = NULL
    /\ call.name \in {"none", "whole", "create"} => copy = NULL

\* A call returned the heap h, and nothing else has changed.
LEMMA KeptReturns ==
    ASSUME NEW h, Whole(h, Held'), heap' = Rest(h), text' \in Seq(Lexemes),
           copy' # NULL => copy' # root', call'.name # "none",
           call'.name \in {"whole", "create"} => copy' = NULL
    PROVE  Kept'
  <1>1. Whole(Rest(h), Held') /\ Rest(h).mem = 0 /\ Rest(h).ret = NULL
    BY WholeRest
  <1> QED
    BY <1>1 DEF Kept

\* The invariant holds in the initial states.
LEMMA KeptInit == ASSUME Init PROVE Kept
  <1>1. heap = EmptyHeap /\ Held = {} /\ root = NULL /\ copy = NULL /\ text = <<>>
    BY DEF Init, Held
  <1>2. EmptyHeap.mem = 0 /\ EmptyHeap.ret = NULL
    BY DEF EmptyHeap
  <1> QED
    BY <1>1, <1>2, WholeEmpty DEF Kept

\* Every action of the program keeps it.
LEMMA KeptNext == ASSUME Kept, [Next]_vars PROVE Kept'
  <1>1. /\ Whole(heap, Held) /\ heap.mem = 0 /\ heap.ret = NULL /\ text \in Seq(Lexemes)
        /\ heap.live \subseteq Items /\ Held \subseteq heap.live /\ NULL \notin heap.live
    BY WholeHeap, HeapAssumption DEF Kept
  <1>2. \A name, h : Called(name, h).name = name
    BY DEF Called
  <1>3. \A mem \in Memories : mem \in Nat /\ Whole(Calls(mem), Held)
                              /\ Calls(mem).live = heap.live
    <2> SUFFICES ASSUME NEW mem \in Memories
                 PROVE  mem \in Nat /\ Whole(Calls(mem), Held) /\ Calls(mem).live = heap.live
      OBVIOUS
    <2>1. mem \in Nat /\ heap \in Heap
      BY <1>1, WholeHeap, DocumentAssumption
    <2> QED
      BY <1>1, <2>1, WholeCalled DEF Calls, Heap
  <1>4. CASE Receive
    <2>1. text' \in Seq(Lexemes) /\ UNCHANGED <<heap, root, copy, call>>
      BY <1>4, DocumentAssumption DEF Receive
    <2> QED
      BY <2>1 DEF Kept, Held
  <1>5. CASE ReceiveUnit
    BY <1>5 DEF ReceiveUnit, Kept, Held
  <1>6. CASE ParseText
    <2>1. PICK mem \in Memories, required \in BOOLEAN :
            \E s \in {cJSON_ParseWithOpts(Calls(mem), text, required)} :
                /\ heap' = Rest(s.h) /\ root' = s.h.ret /\ end' = s.offset
                /\ call' = Called(IF required THEN "whole" ELSE "parse", s.h)
      BY <1>6 DEF ParseText
    <2> DEFINE s == cJSON_ParseWithOpts(Calls(mem), text, required)
    <2>2. /\ heap' = Rest(s.h) /\ root' = s.h.ret
          /\ call' = Called(IF required THEN "whole" ELSE "parse", s.h)
          /\ text' = text /\ copy' = copy
      BY <1>6, <2>1 DEF ParseText
    <2>3. root = NULL /\ copy = NULL /\ Held = {}
      BY <1>6 DEF ParseText, Kept, Held
    <2>4. Whole(s.h, {} \cup Returned(s.h))
      BY <1>1, <1>3, <2>3, ParseWhole
    <2> HIDE DEF s
    <2>5. Held' = {} \cup Returned(s.h)
      BY <2>2, <2>3 DEF Held, Returned
    <2>6. call'.name \in {"whole", "parse"}
      BY <1>2, <2>2
    <2> QED
      BY <1>1, <2>2, <2>3, <2>4, <2>5, <2>6, KeptReturns
  <1>7. CASE CreateArray
    <2>1. PICK mem \in Memories, l \in Lists :
            LET h == CreateArrayOf(Calls(mem), l.type, l.values)
            IN  heap' = Rest(h) /\ root' = h.ret /\ call' = Called("create", h)
      BY <1>7 DEF CreateArray
    <2> DEFINE h == CreateArrayOf(Calls(mem), l.type, l.values)
    <2>2. /\ heap' = Rest(h) /\ root' = h.ret /\ call' = Called("create", h)
          /\ text' = text /\ copy' = copy
      BY <1>7, <2>1 DEF CreateArray
    <2>3. root = NULL /\ copy = NULL /\ Held = {}
      BY <1>7 DEF CreateArray, Idle, Kept, Held
    <2>4. /\ l.values \in Seq(Numbers \cup Strings)
          /\ \A i \in 1..Len(l.values) : Elementary(l.type, l.values[i])
      <3>1. \/ l.type = "Number" /\ l.values \in Seq(Numbers)
            \/ l.type = "String" /\ l.values \in Seq(Strings)
        BY DocumentAssumption
      <3> QED
        BY <3>1 DEF Elementary
    <2>5. Whole(h, {} \cup Returned(h))
      BY <1>3, <2>3, <2>4, ArrayWhole
    <2> HIDE DEF h
    <2>6. Held' = {} \cup Returned(h)
      BY <2>2, <2>3 DEF Held, Returned
    <2>7. call'.name = "create"
      BY <1>2, <2>2
    <2> QED
      BY <1>1, <2>2, <2>3, <2>5, <2>6, <2>7, KeptReturns
  <1>8. CASE Duplicate
    <2>1. PICK mem \in Memories, recurse \in BOOLEAN :
            LET h == cJSON_Duplicate(Calls(mem), root, recurse)
            IN  /\ heap' = Rest(h) /\ copy' = h.ret
                /\ call' = Called(IF recurse THEN "duplicate" ELSE "shallow", h)
      BY <1>8 DEF Duplicate
    <2> DEFINE h == cJSON_Duplicate(Calls(mem), root, recurse)
    <2>2. /\ heap' = Rest(h) /\ copy' = h.ret
          /\ call' = Called(IF recurse THEN "duplicate" ELSE "shallow", h)
          /\ text' = text /\ root' = root
      BY <1>8, <2>1 DEF Duplicate
    <2>3. root # NULL /\ copy = NULL /\ Held = {root}
      BY <1>8 DEF Duplicate, Kept, Held
    <2>4. CopyMade(Calls(mem), h, Held)
      BY <1>1, <1>3, <2>3, DuplicateWhole
    <2> HIDE DEF h
    <2>5. Whole(h, Held \cup Returned(h)) /\ (h.ret # NULL => h.ret \notin heap.live)
      BY <1>3, <2>4 DEF CopyMade
    <2>6. Held' = Held \cup Returned(h)
      BY <2>2, <2>3 DEF Held, Returned
    <2>7. call'.name \in {"duplicate", "shallow"}
      BY <1>2, <2>2
    <2>8. copy' # NULL => copy' # root'
      BY <1>1, <2>2, <2>3, <2>5
    <2> QED
      BY <1>1, <2>2, <2>5, <2>6, <2>7, <2>8, KeptReturns
  <1>9. CASE Alter
    <2>1. /\ copy # NULL /\ call' = Called("alter", heap)
          /\ text' = text /\ root' = root /\ copy' = copy
      BY <1>9 DEF Alter
    <2>2. Held' = Held /\ copy \in heap.live
      BY <1>1, <2>1 DEF Held
    <2>3. call'.name = "alter"
      BY <1>2, <2>1
    <2>4. copy' # NULL => copy' # root'
      BY <2>1 DEF Kept
    <2>5. CASE \E a \in Freed(heap, copy), n \in Numbers :
                   heap.type[a] = "Number" /\ heap' = SetNumber(heap, a, n)
      <3>1. PICK a \in Freed(heap, copy), n \in Numbers : heap' = SetNumber(heap, a, n)
        BY <2>5
      <3>2. a \in Items
        BY DEF Freed
      <3>3. Whole(heap', Held) /\ heap'.mem = 0 /\ heap'.ret = NULL
        BY <1>1, <3>1, <3>2, NumberSet
      <3> QED
        BY <1>1, <2>1, <2>2, <2>3, <2>4, <3>3 DEF Kept
    <2>6. CASE \E a \in Members(heap, copy) :
                   heap' = Rest(cJSON_Delete(cJSON_DetachItemViaPointer(heap, copy, a), a))
      <3>1. PICK a \in Members(heap, copy) :
              heap' = Rest(cJSON_Delete(cJSON_DetachItemViaPointer(heap, copy, a), a))
        BY <2>6
      <3> DEFINE d == cJSON_Delete(cJSON_DetachItemViaPointer(heap, copy, a), a)
      <3>2. Whole(d, Held)
        BY <1>1, <2>2, MemberDeleted
      <3>3. heap' = Rest(d)
        BY <3>1
      <3> HIDE DEF d
      <3> QED
        BY <1>1, <2>1, <2>2, <2>3, <2>4, <3>2, <3>3, KeptReturns
    <2> QED
      BY <1>9, <2>5, <2>6 DEF Alter
  <1>10. CASE PrintTree
    <2>1. call'.name = "print"
      BY <1>2, <1>10 DEF PrintTree
    <2> QED
      BY <1>10, <2>1 DEF PrintTree, Kept, Held
  <1>11. CASE Finish
    <2> DEFINE d == cJSON_Delete(heap, root)
               e == cJSON_Delete(d, copy)
    <2>1. /\ heap' = Rest(e) /\ text' = <<>> /\ root' = NULL /\ copy' = NULL
      BY <1>11 DEF Finish
    <2>2. root \in Held \cup {NULL} /\ copy \in (Held \ {root}) \cup {NULL}
      BY DEF Kept, Held
    <2>3. Whole(d, Held \ {root})
      BY <1>1, <2>2, WholeDelete
    <2> HIDE DEF d
    <2>4. Whole(e, (Held \ {root}) \ {copy})
      BY <2>2, <2>3, WholeDelete
    <2> HIDE DEF e
    <2>5. (Held \ {root}) \ {copy} = {} /\ Held' = {}
      BY <2>1 DEF Held
    <2>6. Whole(Rest(e), Held') /\ Rest(e).mem = 0 /\ Rest(e).ret = NULL
      BY <2>4, <2>5, WholeRest
    <2> QED
      BY <2>1, <2>6 DEF Kept
  <1>12. CASE UNCHANGED vars
    BY <1>12 DEF vars, Kept, Held
  <1> QED
    BY <1>4, <1>5, <1>6, <1>7, <1>8, <1>9, <1>10, <1>11, <1>12 DEF Next

\* Between two calls every tree of the program is whole and the allocator has
\* been told nothing that outlives the call.
THEOREM DocumentsKept == Spec => []Kept
  <1>1. Init => Kept
    BY KeptInit
  <1>2. Kept /\ [Next]_vars => Kept'
    BY KeptNext
  <1> QED
    BY <1>1, <1>2, PTL DEF Spec

\* Whatever a call made before it ran out of memory or met an error in the text,
\* what is left of it is well-formed and in a tree the program has a pointer to.
THEOREM TreesWellFormedAlways == Spec => []TreesWellFormed
  <1>1. Kept => TreesWellFormed
    <2> SUFFICES ASSUME Kept PROVE TreesWellFormed
      OBVIOUS
    <2>1. Sound(heap, Held) /\ WellFormed(heap, Held)
      BY WholeHeap DEF Kept
    <2> QED
      BY <2>1, SoundAccounts DEF Kept, TreesWellFormed
  <1> QED
    BY <1>1, DocumentsKept, PTL

\* Every string that was allocated is the key or the text of an item, and of one
\* item only, so deleting the trees frees it once.
THEOREM NoStringLostAlways == Spec => []NoStringLost
  <1>1. Kept => NoStringLost
    <2> SUFFICES ASSUME Kept PROVE NoStringLost
      OBVIOUS
    <2>1. Sound(heap, Held)
      BY WholeHeap DEF Kept
    <2> QED
      BY <2>1, SoundAccounts DEF NoStringLost
  <1> QED
    BY <1>1, DocumentsKept, PTL
=============================================================================
