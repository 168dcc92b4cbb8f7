-------------------------- MODULE CJsonListProofs --------------------------
(***************************************************************************)
(* What the functions of cJSON.c do to the lists of a well-formed heap:    *)
(* each leaves them well-formed. The lemmas are about any heap, and serve  *)
(* the proofs about every program that uses these functions.               *)
(***************************************************************************)
EXTENDS CJsonHeap, FiniteSetTheorems, WellFoundedInduction, TLAPS

-----------------------------------------------------------------------------
(* Induction over a set of numbers *)

LEMMA Least ==
    ASSUME NEW T \in SUBSET Nat, T # {}
    PROVE  \E n \in T : \A m \in T : n <= m
  <1> DEFINE R == OpToRel(<, Nat)
  <1>1. IsWellFoundedOn(R, Nat)
    BY NatLessThanWellFounded
  <1>2. \A m, n \in Nat : m < n => <<m, n>> \in R
    BY DEF OpToRel
  <1> HIDE DEF R
  <1>3. PICK n \in T : \A m \in T : <<m, n>> \notin R
    BY <1>1, WFMin
  <1>4. ASSUME NEW m \in T PROVE n <= m
    <2>1. ~(m < n)
      BY <1>2, <1>3, <1>4, Zenon
    <2> QED
      BY <2>1
  <1> QED
    BY <1>4

\* A set that holds 0 and with each number below n the next holds all up to n.
LEMMA UpTo ==
    ASSUME NEW n \in Nat, NEW S, 0 \in S, \A i \in 0..n-1 : i \in S => i + 1 \in S
    PROVE  0..n \subseteq S
  <1> DEFINE T == {i \in 0..n : i \notin S}
  <1> SUFFICES ASSUME T # {} PROVE FALSE
    OBVIOUS
  <1>1. PICK i \in T : \A j \in T : i <= j
    <2>1. T \in SUBSET Nat
      OBVIOUS
    <2> HIDE DEF T
    <2> QED
      BY <2>1, Least
  <1>2. i - 1 \in 0..n-1
    OBVIOUS
  <1> QED
    BY <1>1, <1>2

-----------------------------------------------------------------------------
(* Closures *)

\* What cJSON_Delete visits is closed under what it follows.
LEMMA FreedCloses ==
    ASSUME NEW h \in Heap, NEW a \in Items \cup {NULL}
    PROVE  /\ Freed(h, a) \subseteq Items
           /\ a \in Freed(h, a) \cup {NULL}
           /\ \A b \in Freed(h, a) : h.next[b] \in Freed(h, a) \cup {NULL}
           /\ \A b \in Freed(h, a) \ h.ref : h.child[b] \in Freed(h, a) \cup {NULL}
  <1> DEFINE closed == {S \in SUBSET Items : a \in S \cup {NULL} /\ DeleteCloses(h, S)}
             F == {b \in Items : \A S \in closed : b \in S}
  <1>1. Freed(h, a) = F
    BY DEF Freed
  <1>2. F \subseteq Items /\ a \in F \cup {NULL}
    OBVIOUS
  <1>3. ASSUME NEW b \in F
        PROVE  /\ h.next[b] \in F \cup {NULL}
               /\ b \in h.ref \/ h.child[b] \in F \cup {NULL}
    <2>1. h.next[b] \in Items \cup {NULL} /\ h.child[b] \in Items \cup {NULL}
      BY DEF Heap
    <2>2. ASSUME NEW S \in closed
          PROVE  /\ h.next[b] \in S \cup {NULL}
                 /\ b \in h.ref \/ h.child[b] \in S \cup {NULL}
      BY DEF DeleteCloses
    <2> QED
      BY <2>1, <2>2
  <1> QED
    BY <1>1, <1>2, <1>3

\* It is the smallest such set.
LEMMA FreedSmallest ==
    ASSUME NEW h \in Heap, NEW a \in Items \cup {NULL}, NEW S \in SUBSET Items,
           a \in S \cup {NULL}, DeleteCloses(h, S)
    PROVE  Freed(h, a) \subseteq S
  BY DEF Freed

\* Whatever it visits after the item it is given, it came to from a visited item.
LEMMA FreedHasPredecessor ==
    ASSUME NEW h \in Heap, NEW a \in Items, NEW b \in Freed(h, a), b # a
    PROVE  \E c \in Freed(h, a) : h.next[c] = b \/ (c \notin h.ref /\ h.child[c] = b)
  <1> SUFFICES ASSUME \A c \in Freed(h, a) :
                        h.next[c] # b /\ (c \notin h.ref => h.child[c] # b)
               PROVE  FALSE
    OBVIOUS
  <1> DEFINE S == Freed(h, a) \ {b}
  <1>1. S \in SUBSET Items /\ a \in S \cup {NULL}
    BY FreedCloses
  <1>2. DeleteCloses(h, S)
    BY FreedCloses DEF DeleteCloses
  <1> HIDE DEF S
  <1>3. Freed(h, a) \subseteq S
    BY <1>1, <1>2, FreedSmallest
  <1> QED
    BY <1>3 DEF S

\* The closure a walk along next stays in.
WalkCloses(h, stops, S) == \A c \in S \ stops : h.next[c] \in S \cup {NULL}

LEMMA WalkedCloses ==
    ASSUME NEW h \in Heap, NEW f \in Items \cup {NULL}, NEW stops
    PROVE  /\ Walked(h, f, stops) \subseteq Items
           /\ f \in Walked(h, f, stops) \cup {NULL}
           /\ WalkCloses(h, stops, Walked(h, f, stops))
  <1> DEFINE closed == {S \in SUBSET Items :
                          /\ f \in S \cup {NULL}
                          /\ \A c \in S \ stops : h.next[c] \in S \cup {NULL}}
             W == {b \in Items : \A S \in closed : b \in S}
  <1>1. Walked(h, f, stops) = W
    BY DEF Walked
  <1>2. W \subseteq Items /\ f \in W \cup {NULL}
    OBVIOUS
  <1>3. ASSUME NEW b \in W \ stops
        PROVE  h.next[b] \in W \cup {NULL}
    <2>1. h.next[b] \in Items \cup {NULL}
      BY DEF Heap
    <2> QED
      BY <2>1
  <1> QED
    BY <1>1, <1>2, <1>3 DEF WalkCloses

LEMMA WalkedSmallest ==
    ASSUME NEW h \in Heap, NEW f \in Items \cup {NULL}, NEW stops, NEW S \in SUBSET Items,
           f \in S \cup {NULL}, WalkCloses(h, stops, S)
    PROVE  Walked(h, f, stops) \subseteq S
  BY DEF Walked, WalkCloses

LEMMA WalkedHasPredecessor ==
    ASSUME NEW h \in Heap, NEW f \in Items \cup {NULL}, NEW stops,
           NEW b \in Walked(h, f, stops), b # f
    PROVE  \E c \in Walked(h, f, stops) : c # b /\ h.next[c] = b
  <1> SUFFICES ASSUME \A c \in Walked(h, f, stops) \ {b} : h.next[c] # b
               PROVE  FALSE
    OBVIOUS
  <1> DEFINE S == Walked(h, f, stops) \ {b}
  <1>1. S \in SUBSET Items /\ f \in S \cup {NULL}
    BY WalkedCloses
  <1>2. WalkCloses(h, stops, S)
    BY WalkedCloses DEF WalkCloses
  <1> HIDE DEF S
  <1>3. Walked(h, f, stops) \subseteq S
    BY <1>1, <1>2, WalkedSmallest
  <1> QED
    BY <1>3 DEF S

\* A walk that stops early visits members only.
LEMMA WalkedAreMembers ==
    ASSUME NEW h \in Heap, NEW p \in Items, NEW stops
    PROVE  Walked(h, h.child[p], stops) \subseteq Members(h, p)
  <1>1. h.child[p] \in Items \cup {NULL}
    BY DEF Heap
  <1>2. WalkCloses(h, stops, Walked(h, h.child[p], {}))
    BY <1>1, WalkedCloses DEF WalkCloses
  <1>3. /\ Walked(h, h.child[p], {}) \in SUBSET Items
        /\ h.child[p] \in Walked(h, h.child[p], {}) \cup {NULL}
    BY <1>1, WalkedCloses
  <1> QED
    BY <1>1, <1>2, <1>3, WalkedSmallest DEF Members

LEMMA GetObjectItem ==
    ASSUME NEW h \in Heap, NEW p \in Items, NEW name, NEW cs
    PROVE  get_object_item(h, p, name, cs) \in Members(h, p) \cup {NULL}
  <1> DEFINE stops == {b \in Items :
                         IF cs THEN h.string[b] \in {NULL, name}
                         ELSE h.string[b] # NULL /\ Lower[h.string[b]] = Lower[name]}
             found == Walked(h, h.child[p], stops) \cap stops
  <1>1. found \subseteq Members(h, p)
    BY WalkedAreMembers
  <1>2. get_object_item(h, p, name, cs) \in found \cup {NULL}
    BY DEF get_object_item
  <1> QED
    BY <1>1, <1>2

\* A member is the child of its parent or has a member before it.
LEMMA MemberLinks ==
    ASSUME NEW h \in Heap, HeapOK(h), Chained(h), Owned(h),
           NEW p \in h.live \ h.ref, NEW b \in Members(h, p)
    PROVE  /\ b \in h.live
           /\ b = h.child[p] \/ h.prev[b] \in Members(h, p) \ {b}
  <1>1. h.child[p] \in Items \cup {NULL} /\ p \in Items
    BY DEF Heap, HeapOK
  <1>2. CASE b = h.child[p]
    <2>1. b \in Items
      BY <1>1, WalkedCloses DEF Members
    <2> QED
      BY <1>2, <2>1, HeapAssumption DEF Owned
  <1>3. CASE b # h.child[p]
    <2>1. PICK c \in Members(h, p) : c # b /\ h.next[c] = b
      BY <1>1, <1>3, WalkedHasPredecessor DEF Members
    <2>2. c \in Items /\ b \in Items
      BY <1>1, WalkedCloses DEF Members
    <2>3. c \in h.live
      BY <2>1, <2>2, HeapAssumption DEF HeapOK
    <2> QED
      BY <2>1, <2>2, <2>3, HeapAssumption DEF Chained
  <1> QED
    BY <1>2, <1>3

-----------------------------------------------------------------------------
(* Ends of lists *)

EndsFrom(h, f) == \E c \in Walked(h, f, {}) : h.next[c] = NULL

\* The last item a walk visits is visited by every closed set it starts in.
LEMMA EndInEveryClosure ==
    ASSUME NEW h \in Heap, NEW f \in Items, EndsFrom(h, f)
    PROVE  \E c \in Items : /\ h.next[c] = NULL
                            /\ \A S \in SUBSET Items : f \in S /\ WalkCloses(h, {}, S) => c \in S
  <1>1. PICK c \in Walked(h, f, {}) : h.next[c] = NULL
    BY DEF EndsFrom
  <1>2. c \in Items
    BY WalkedCloses
  <1> QED
    BY <1>1, <1>2, WalkedSmallest

LEMMA EndsFromAll ==
    ASSUME NEW h \in Heap, NEW f \in Items, NEW c \in Items, h.next[c] = NULL,
           \A S \in SUBSET Items : f \in S /\ WalkCloses(h, {}, S) => c \in S
    PROVE  EndsFrom(h, f)
  <1>1. c \in Walked(h, f, {})
    BY WalkedCloses, HeapAssumption
  <1> QED
    BY <1>1 DEF EndsFrom

\* What follows the first item of a list that ends is a list that ends.
LEMMA RestEnds ==
    ASSUME NEW h \in Heap, NEW f \in Items, EndsFrom(h, f),
           h.next[f] # NULL
    PROVE  EndsFrom(h, h.next[f])
  <1>1. PICK c \in Items : /\ h.next[c] = NULL
                           /\ \A S \in SUBSET Items :
                                f \in S /\ WalkCloses(h, {}, S) => c \in S
    BY EndInEveryClosure
  <1>2. h.next[f] \in Items
    BY DEF Heap
  <1>3. ASSUME NEW S \in SUBSET Items, h.next[f] \in S, WalkCloses(h, {}, S)
        PROVE  c \in S
    <2>1. WalkCloses(h, {}, S \cup {f})
      BY <1>3 DEF WalkCloses
    <2>2. c \in S \cup {f}
      BY <1>1, <2>1
    <2> QED
      BY <1>1, <2>2
  <1> QED
    BY <1>1, <1>2, <1>3, EndsFromAll

-----------------------------------------------------------------------------
(* Operators that leave the lists alone *)

LEMMA SameLinks ==
    ASSUME NEW h, NEW roots, WellFormed(h, roots), NEW g \in Heap,
           g.live = h.live, g.ref = h.ref, g.const \subseteq h.live,
           g.next = h.next, g.prev = h.prev, g.child = h.child
    PROVE  WellFormed(g, roots)
  <1>1. HeapOK(g)
    BY DEF WellFormed, HeapOK
  <1>2. Chained(g) /\ Owned(g) /\ HeldApart(g, roots)
    BY DEF WellFormed, Chained, Owned, HeldApart, Owners
  <1>3. ListsEnd(g)
    BY DEF WellFormed, ListsEnd, Members, Walked
  <1> QED
    BY <1>1, <1>2, <1>3 DEF WellFormed

LEMMA FewerRoots ==
    ASSUME NEW h, NEW roots, WellFormed(h, roots), NEW some \in SUBSET roots
    PROVE  WellFormed(h, some)
  BY DEF WellFormed, HeldApart

\* A new item is linked to nothing, whether or not it is a reference.
LEMMA AnotherItem ==
    ASSUME NEW h, NEW roots, WellFormed(h, roots),
           NEW a \in Items \ h.live, NEW g \in Heap, NEW shared \in BOOLEAN,
           g.live = h.live \cup {a},
           g.ref = IF shared THEN h.ref \cup {a} ELSE h.ref,
           g.const \subseteq g.live,
           g.next = h.next, g.prev = h.prev,
           g.child = h.child \/ (shared /\ \E c : g.child = [h.child EXCEPT ![a] = c])
    PROVE  WellFormed(g, roots \cup {a})
  <1> USE HeapAssumption
  <1>1. HeapOK(h) /\ h \in Heap
    BY DEF WellFormed, HeapOK
  <1>2. \A p \in Items \ {a} : g.child[p] = h.child[p]
    BY <1>1 DEF Heap
  <1>3. g.live \ g.ref = IF shared THEN h.live \ h.ref ELSE (h.live \ h.ref) \cup {a}
    BY <1>1 DEF HeapOK
  <1>4. ~shared => g.child[a] = NULL
    BY <1>1 DEF HeapOK
  <1>5. HeapOK(g)
    BY <1>1, <1>2 DEF HeapOK
  <1>6. Chained(g)
    BY <1>1 DEF WellFormed, Chained, HeapOK
  <1>7. h.live \in SUBSET Items
    BY <1>1 DEF Heap
  <1>8. \A b \in Items : Owners(g, b) = Owners(h, b)
    BY <1>2, <1>3, <1>4, <1>7 DEF Owners
  <1>9. Owned(g)
    <2> SUFFICES ASSUME NEW p \in g.live \ g.ref, g.child[p] # NULL
                 PROVE  /\ g.child[p] \in g.live
                        /\ g.prev[g.child[p]] = NULL
                        /\ Owners(g, g.child[p]) = {p}
      BY DEF Owned
    <2>1. p \in h.live \ h.ref /\ p # a /\ g.child[p] = h.child[p]
      BY <1>2, <1>3, <1>4, <1>7
    <2> QED
      BY <2>1, <1>7, <1>8 DEF WellFormed, Owned
  <1>10. HeldApart(g, roots \cup {a})
    <2>1. Owners(h, a) = {}
      BY DEF Owners, WellFormed, Owned
    <2> QED
      BY <1>1, <1>7, <1>8, <2>1 DEF WellFormed, HeldApart, HeapOK
  <1>11. ListsEnd(g)
    <2> SUFFICES ASSUME NEW p \in g.live \ g.ref, g.child[p] # NULL
                 PROVE  \E c \in Members(g, p) : g.next[c] = NULL
      BY DEF ListsEnd
    <2>1. p \in h.live \ h.ref /\ p # a /\ g.child[p] = h.child[p]
      BY <1>2, <1>3, <1>4, <1>7
    <2>2. Members(g, p) = Members(h, p)
      BY <2>1 DEF Members, Walked
    <2> QED
      BY <2>1, <2>2 DEF WellFormed, ListsEnd
  <1> QED
    BY <1>5, <1>6, <1>9, <1>10, <1>11 DEF WellFormed

-----------------------------------------------------------------------------
(* Linking a root *)

LEMMA LinkFirst ==
    ASSUME NEW h, NEW roots, WellFormed(h, roots),
           NEW p \in h.live \ h.ref, h.child[p] = NULL, NEW item \in roots,
           NEW g \in Heap, g.live = h.live, g.ref = h.ref, g.const \subseteq h.live,
           g.next = h.next, g.prev = h.prev, g.child = [h.child EXCEPT ![p] = item]
    PROVE  WellFormed(g, roots \ {item})
  <1> USE HeapAssumption
  <1>1. /\ h \in Heap /\ h.live \in SUBSET Items /\ h.child \in [Items -> Items \cup {NULL}]
        /\ item \in h.live /\ h.next[item] = NULL /\ h.prev[item] = NULL
        /\ Owners(h, item) = {}
    BY DEF WellFormed, HeapOK, Heap, HeldApart
  <1>2. HeapOK(g)
    BY <1>1 DEF WellFormed, HeapOK
  <1>3. Chained(g)
    BY DEF WellFormed, Chained
  <1>4. \A b \in Items : b # item => Owners(g, b) = Owners(h, b)
    BY <1>1 DEF Owners
  <1>5. Owners(g, item) = {p}
    BY <1>1 DEF Owners
  <1>6. Owned(g)
    <2> SUFFICES ASSUME NEW q \in g.live \ g.ref, g.child[q] # NULL
                 PROVE  /\ g.child[q] \in g.live
                        /\ g.prev[g.child[q]] = NULL
                        /\ Owners(g, g.child[q]) = {q}
      BY DEF Owned
    <2>1. CASE q = p
      BY <2>1, <1>1, <1>5
    <2>2. CASE q # p
      <3>1. g.child[q] = h.child[q] /\ q \in h.live \ h.ref
        BY <2>2, <1>1
      <3>2. h.child[q] # item
        BY <1>1, <3>1 DEF Owners
      <3> QED
        BY <3>1, <3>2, <1>1, <1>4 DEF WellFormed, Owned
    <2> QED
      BY <2>1, <2>2
  <1>7. HeldApart(g, roots \ {item})
    BY <1>1, <1>4 DEF WellFormed, HeldApart
  <1>8. ListsEnd(g)
    <2> SUFFICES ASSUME NEW q \in g.live \ g.ref, g.child[q] # NULL
                 PROVE  \E c \in Members(g, q) : g.next[c] = NULL
      BY DEF ListsEnd
    <2>1. CASE q = p
      <3>1. item \in Members(g, q)
        BY <2>1, <1>1, WalkedCloses DEF Members
      <3> QED
        BY <3>1, <1>1
    <2>2. CASE q # p
      <3>1. g.child[q] = h.child[q] /\ q \in h.live \ h.ref
        BY <2>2, <1>1
      <3>2. Members(g, q) = Members(h, q)
        BY <3>1 DEF Members, Walked
      <3> QED
        BY <3>1, <3>2 DEF WellFormed, ListsEnd
    <2> QED
      BY <2>1, <2>2
  <1> QED
    BY <1>2, <1>3, <1>6, <1>7, <1>8 DEF WellFormed

LEMMA LinkAfter ==
    ASSUME NEW h, NEW roots, WellFormed(h, roots),
           NEW last \in h.live, h.next[last] = NULL, NEW item \in roots, last # item,
           NEW g \in Heap, g.live = h.live, g.ref = h.ref, g.const \subseteq h.live,
           g.next = [h.next EXCEPT ![last] = item],
           g.prev = [h.prev EXCEPT ![item] = last], g.child = h.child
    PROVE  WellFormed(g, (roots \ {item}) \ {last})
  <1> USE HeapAssumption
  <1>1. /\ h \in Heap /\ h.live \in SUBSET Items
        /\ h.next \in [Items -> Items \cup {NULL}] /\ h.prev \in [Items -> Items \cup {NULL}]
        /\ h.child \in [Items -> Items \cup {NULL}]
        /\ item \in h.live /\ h.next[item] = NULL /\ h.prev[item] = NULL
        /\ Owners(h, item) = {}
    BY DEF WellFormed, HeapOK, Heap, HeldApart
  <1>2. HeapOK(g)
    BY <1>1 DEF WellFormed, HeapOK
  <1>3. Chained(g)
    BY <1>1 DEF WellFormed, Chained
  <1>4. \A b \in Items : Owners(g, b) = Owners(h, b)
    BY DEF Owners
  <1>5. \A q \in h.live \ h.ref : h.child[q] # item
    BY <1>1 DEF Owners
  <1>6. Owned(g)
    BY <1>1, <1>4, <1>5, SMTT(30) DEF WellFormed, Owned
  <1>7. HeldApart(g, (roots \ {item}) \ {last})
    BY <1>1, <1>4 DEF WellFormed, HeldApart
  <1>8. ASSUME NEW f \in Items, EndsFrom(h, f)
        PROVE  EndsFrom(g, f)
    <2>1. PICK c \in Items : /\ h.next[c] = NULL
                             /\ \A S \in SUBSET Items :
                                  f \in S /\ WalkCloses(h, {}, S) => c \in S
      BY <1>1, <1>8, EndInEveryClosure
    <2>2. ASSUME NEW S \in SUBSET Items, f \in S, WalkCloses(g, {}, S)
          PROVE  c \in S /\ (c = last => item \in S)
      <3>1. WalkCloses(h, {}, S)
        BY <1>1, <2>2 DEF WalkCloses
      <3>2. c \in S
        BY <2>1, <2>2, <3>1
      <3> QED
        BY <1>1, <2>2, <3>2 DEF WalkCloses
    <2>3. CASE c = last
      <3>1. g.next[item] = NULL
        BY <1>1
      <3> QED
        BY <1>1, <2>2, <2>3, <3>1, EndsFromAll
    <2>4. CASE c # last
      <3>1. g.next[c] = NULL
        BY <1>1, <2>1, <2>4
      <3> QED
        BY <1>1, <2>2, <3>1, EndsFromAll
    <2> QED
      BY <2>3, <2>4
  <1>9. ListsEnd(g)
    BY <1>1, <1>8 DEF WellFormed, ListsEnd, EndsFrom, Members, Owned
  <1> QED
    BY <1>2, <1>3, <1>6, <1>7, <1>9 DEF WellFormed

\* A root goes in front of a member of p.
LEMMA LinkBefore ==
    ASSUME NEW h, NEW roots, WellFormed(h, roots),
           NEW p \in h.live \ h.ref, NEW after \in Members(h, p), NEW item \in roots,
           item # after,
           NEW g \in Heap, g.live = h.live, g.ref = h.ref, g.const \subseteq h.live,
           g.next = [(IF after = h.child[p] THEN h.next ELSE Put(h.next, h.prev[after], item))
                     EXCEPT ![item] = after],
           g.prev = [h.prev EXCEPT ![item] = h.prev[after], ![after] = item],
           g.child = [h.child EXCEPT ![p] = IF after = h.child[p] THEN item ELSE h.child[p]]
    PROVE  WellFormed(g, roots \ {item})
  <1> USE HeapAssumption
  <1>1. /\ h \in Heap /\ h.live \in SUBSET Items
        /\ h.next \in [Items -> Items \cup {NULL}] /\ h.prev \in [Items -> Items \cup {NULL}]
        /\ h.child \in [Items -> Items \cup {NULL}]
        /\ item \in h.live /\ h.next[item] = NULL /\ h.prev[item] = NULL
        /\ Owners(h, item) = {}
    BY DEF WellFormed, HeapOK, Heap, HeldApart
  <1>2. /\ after \in h.live
        /\ after # h.child[p] => h.prev[after] \in h.live /\ h.next[h.prev[after]] = after
        /\ after = h.child[p] => h.prev[after] = NULL /\ Owners(h, after) = {p}
    <2>1. after \in h.live /\ (after = h.child[p] \/ h.prev[after] \in Members(h, p))
      BY <1>1, MemberLinks DEF WellFormed
    <2>2. Members(h, p) \subseteq Items
      BY <1>1, WalkedCloses DEF Members
    <2>3. after # h.child[p] => h.prev[after] \in Items
      BY <2>1, <2>2
    <2>4. after # h.child[p] => h.prev[after] \in h.live /\ h.next[h.prev[after]] = after
      BY <2>1, <2>3 DEF WellFormed, Chained
    <2>5. after = h.child[p] => h.prev[after] = NULL /\ Owners(h, after) = {p}
      <3>1. h.child[p] # NULL =>
              h.prev[h.child[p]] = NULL /\ Owners(h, h.child[p]) = {p}
        BY DEF WellFormed, Owned
      <3>2. after # NULL
        BY <1>1, <2>1
      <3> QED
        BY <3>1, <3>2
    <2> QED
      BY <2>1, <2>4, <2>5
  <1> DEFINE before == h.prev[after]
  <1>3. \A y \in Items : g.next[y] = IF y = item THEN after
                                     ELSE IF after # h.child[p] /\ y = before THEN item
                                     ELSE h.next[y]
    BY <1>1, <1>2 DEF Put
  <1>4. \A y \in Items : g.prev[y] = IF y = after THEN item
                                     ELSE IF y = item THEN before ELSE h.prev[y]
    BY <1>1, <1>2
  <1>5. \A y \in Items : g.child[y] = IF y = p /\ after = h.child[p] THEN item ELSE h.child[y]
    BY <1>1
  <1>6. HeapOK(g)
    BY <1>1, <1>2, <1>3, <1>4, <1>5 DEF WellFormed, HeapOK
  <1>7. \A y \in h.live : h.next[y] = after <=> (after # h.child[p] /\ y = before)
    BY <1>1, <1>2 DEF WellFormed, Chained
  <1>8. Chained(g)
    <2> SUFFICES ASSUME NEW y \in g.live
                 PROVE  /\ g.next[y] # NULL => g.next[y] \in g.live /\ g.prev[g.next[y]] = y
                        /\ g.prev[y] # NULL => g.prev[y] \in g.live /\ g.next[g.prev[y]] = y
      BY DEF Chained
    <2>1. g.next[y] # NULL => g.next[y] \in g.live /\ g.prev[g.next[y]] = y
      <3>1. CASE y = item
        BY <3>1, <1>1, <1>2, <1>3, <1>4
      <3>2. CASE y # item /\ after # h.child[p] /\ y = before
        BY <3>2, <1>1, <1>2, <1>3, <1>4
      <3>3. CASE y # item /\ ~(after # h.child[p] /\ y = before)
        <4>1. g.next[y] = h.next[y] /\ h.next[y] # after
          BY <3>3, <1>1, <1>3, <1>7
        <4>2. h.next[y] # NULL => h.next[y] \in h.live /\ h.prev[h.next[y]] = y
          BY DEF WellFormed, Chained
        <4>3. h.next[y] # item
          BY <4>2, <1>1
        <4> QED
          BY <4>1, <4>2, <4>3, <1>1, <1>4
      <3> QED
        BY <3>1, <3>2, <3>3
    <2>2. g.prev[y] # NULL => g.prev[y] \in g.live /\ g.next[g.prev[y]] = y
      <3>1. CASE y = after
        BY <3>1, <1>1, <1>2, <1>3, <1>4
      <3>2. CASE y # after /\ y = item
        BY <3>2, <1>1, <1>2, <1>3, <1>4
      <3>3. CASE y # after /\ y # item
        <4>1. g.prev[y] = h.prev[y]
          BY <3>3, <1>1, <1>4
        <4>2. h.prev[y] # NULL => h.prev[y] \in h.live /\ h.next[h.prev[y]] = y
          BY DEF WellFormed, Chained
        <4>3. h.prev[y] # item
          BY <4>2, <1>1, <3>3
        <4> QED
          BY <3>3, <4>1, <4>2, <4>3, <1>1, <1>2, <1>3
      <3> QED
        BY <3>1, <3>2, <3>3
    <2> QED
      BY <2>1, <2>2
  <1>9. \A b \in Items : b # item /\ b # after => Owners(g, b) = Owners(h, b)
    BY <1>1, <1>5 DEF Owners
  <1>10. after = h.child[p] => Owners(g, item) = {p}
    BY <1>1, <1>5 DEF Owners
  <1>11. after # h.child[p] => Owners(g, after) = Owners(h, after) /\ Owners(g, item) = {}
    BY <1>1, <1>5 DEF Owners
  <1>12. Owned(g)
    <2> SUFFICES ASSUME NEW q \in g.live \ g.ref, g.child[q] # NULL
                 PROVE  /\ g.child[q] \in g.live
                        /\ g.prev[g.child[q]] = NULL
                        /\ Owners(g, g.child[q]) = {q}
      BY DEF Owned
    <2>1. CASE q = p /\ after = h.child[p]
      BY <2>1, <1>1, <1>2, <1>4, <1>5, <1>10
    <2>2. CASE ~(q = p /\ after = h.child[p])
      <3>1. g.child[q] = h.child[q] /\ q \in h.live \ h.ref
        BY <2>2, <1>1, <1>5
      <3>2. h.child[q] # item
        BY <1>1, <3>1 DEF Owners
      <3>3. h.child[q] \in h.live /\ h.prev[h.child[q]] = NULL /\ Owners(h, h.child[q]) = {q}
        BY <3>1 DEF WellFormed, Owned
      <3>4. h.child[q] # after
        BY <2>2, <3>3, <1>1, <1>2
      <3> QED
        BY <3>1, <3>2, <3>3, <3>4, <1>1, <1>4, <1>9
    <2> QED
      BY <2>1, <2>2
  <1>13. HeldApart(g, roots \ {item})
    <2> SUFFICES ASSUME NEW a \in roots, a # item
                 PROVE  /\ a \in g.live /\ g.next[a] = NULL /\ g.prev[a] = NULL
                        /\ Owners(g, a) = {}
      BY DEF HeldApart
    <2>1. /\ a \in h.live /\ h.next[a] = NULL /\ h.prev[a] = NULL
          /\ Owners(h, a) = {}
      BY DEF WellFormed, HeldApart
    <2>2. a # after
      BY <2>1, <1>1, <1>2
    <2>3. after # h.child[p] => a # before
      BY <2>1, <1>1, <1>2
    <2> QED
      BY <2>1, <2>2, <2>3, <1>1, <1>3, <1>4, <1>9
  <1>14. ASSUME NEW f \in Items, f # item, EndsFrom(h, f)
         PROVE  EndsFrom(g, f)
    <2>1. PICK c \in Items : /\ h.next[c] = NULL
                             /\ \A S \in SUBSET Items :
                                  f \in S /\ WalkCloses(h, {}, S) => c \in S
      BY <1>1, <1>14, EndInEveryClosure
    <2>2. ASSUME NEW S \in SUBSET Items, f \in S, WalkCloses(g, {}, S)
          PROVE  c \in S \ {item}
      <3>1. \A y \in S \ {item} : h.next[y] \in (S \ {item}) \cup {NULL}
        <4> SUFFICES ASSUME NEW y \in S \ {item}
                     PROVE  h.next[y] \in (S \ {item}) \cup {NULL}
          OBVIOUS
        <4>1. h.next[y] # item
          BY <1>1 DEF WellFormed, Chained, HeapOK
        <4>2. CASE after # h.child[p] /\ y = before
          <5>1. item \in S
            BY <4>2, <1>1, <1>2, <1>3, <2>2 DEF WalkCloses
          <5>2. after \in S
            BY <5>1, <1>1, <1>2, <1>3, <2>2 DEF WalkCloses
          <5> QED
            BY <4>1, <4>2, <5>2, <1>1, <1>2
        <4>3. CASE ~(after # h.child[p] /\ y = before)
          BY <4>1, <4>3, <1>3, <2>2 DEF WalkCloses
        <4> QED
          BY <4>2, <4>3
      <3> QED
        BY <2>1, <2>2, <1>14, <3>1 DEF WalkCloses
    <2>3. c # item
      <3>1. \A y \in Items : h.next[y] # item
        BY <1>1 DEF WellFormed, Chained, HeapOK
      <3>2. f \in Items \ {item} /\ WalkCloses(h, {}, Items \ {item})
        BY <3>1, <1>1, <1>14 DEF WalkCloses
      <3> QED
        BY <2>1, <3>2
    <2>4. g.next[c] = NULL
      BY <2>1, <2>3, <1>1, <1>2, <1>3
    <2> QED
      BY <2>2, <2>4, EndsFromAll
  <1>15. ListsEnd(g)
    <2> SUFFICES ASSUME NEW q \in g.live \ g.ref, g.child[q] # NULL
                 PROVE  EndsFrom(g, g.child[q])
      BY DEF ListsEnd, Members, EndsFrom
    <2>1. q \in h.live \ h.ref /\ q \in Items
      BY <1>1
    <2>2. h.child[q] # NULL => EndsFrom(h, h.child[q]) /\ h.child[q] \in Items
      BY <2>1, <1>1 DEF WellFormed, ListsEnd, Members, EndsFrom
    <2>3. h.child[q] # item
      BY <2>1, <1>1 DEF Owners
    <2>4. CASE q = p /\ after = h.child[p]
      <3>1. EndsFrom(g, after)
        BY <2>2, <2>3, <2>4, <1>1, <1>2, <1>14
      <3>2. PICK c \in Items : /\ g.next[c] = NULL
                               /\ \A S \in SUBSET Items :
                                    after \in S /\ WalkCloses(g, {}, S) => c \in S
        BY <3>1, <1>1, <1>2, EndInEveryClosure
      <3>3. \A S \in SUBSET Items : item \in S /\ WalkCloses(g, {}, S) => c \in S
        BY <3>2, <1>1, <1>2, <1>3 DEF WalkCloses
      <3> QED
        BY <2>4, <3>2, <3>3, <1>1, <1>5, EndsFromAll
    <2>5. CASE ~(q = p /\ after = h.child[p])
      BY <2>1, <2>2, <2>3, <2>5, <1>1, <1>5, <1>14
    <2> QED
      BY <2>4, <2>5
  <1> QED
    BY <1>6, <1>8, <1>12, <1>13, <1>15 DEF WellFormed

-----------------------------------------------------------------------------
(* Unlinking *)

\* Owned and HeldApart without the sets of owners.
LEMMA OwnersSpelledOut ==
    ASSUME NEW h, NEW roots
    PROVE  /\ Owned(h) <=>
                \A p \in h.live \ h.ref : h.child[p] # NULL =>
                   /\ h.child[p] \in h.live
                   /\ h.prev[h.child[p]] = NULL
                   /\ \A q \in h.live \ h.ref : h.child[q] = h.child[p] => q = p
           /\ HeldApart(h, roots) <=>
                \A a \in roots : /\ a \in h.live
                                 /\ h.next[a] = NULL /\ h.prev[a] = NULL
                                 /\ \A q \in h.live \ h.ref : h.child[q] # a
  BY DEF Owned, HeldApart, Owners

\* What WellFormed says of the pointers, item by item.
LEMMA PointersOf ==
    ASSUME NEW h, NEW roots, WellFormed(h, roots)
    PROVE  /\ h \in Heap /\ h.live \in SUBSET Items
           /\ h.next \in [Items -> Items \cup {NULL}] /\ h.prev \in [Items -> Items \cup {NULL}]
           /\ h.child \in [Items -> Items \cup {NULL}]
           /\ \A a \in Items : h.next[a] # NULL =>
                a \in h.live /\ h.next[a] \in h.live /\ h.prev[h.next[a]] = a
           /\ \A a \in Items : h.prev[a] # NULL =>
                a \in h.live /\ h.prev[a] \in h.live /\ h.next[h.prev[a]] = a
           /\ \A p \in h.live \ h.ref : h.child[p] # NULL =>
                /\ h.child[p] \in h.live
                /\ h.prev[h.child[p]] = NULL
                /\ EndsFrom(h, h.child[p])
                /\ \A q \in h.live \ h.ref : h.child[q] = h.child[p] => q = p
           /\ \A a \in roots : /\ a \in h.live
                               /\ h.next[a] = NULL /\ h.prev[a] = NULL
                               /\ \A q \in h.live \ h.ref : h.child[q] # a
  <1>1. HeapOK(h) /\ Chained(h) /\ Owned(h) /\ HeldApart(h, roots) /\ ListsEnd(h)
    BY DEF WellFormed
  <1>2. /\ h \in Heap /\ h.live \in SUBSET Items
        /\ h.next \in [Items -> Items \cup {NULL}] /\ h.prev \in [Items -> Items \cup {NULL}]
        /\ h.child \in [Items -> Items \cup {NULL}]
    BY <1>1 DEF HeapOK, Heap
  <1>3. /\ \A a \in Items : h.next[a] # NULL =>
             a \in h.live /\ h.next[a] \in h.live /\ h.prev[h.next[a]] = a
        /\ \A a \in Items : h.prev[a] # NULL =>
             a \in h.live /\ h.prev[a] \in h.live /\ h.next[h.prev[a]] = a
    BY <1>1, <1>2 DEF HeapOK, Chained
  <1>4. \A p \in h.live \ h.ref : h.child[p] # NULL => EndsFrom(h, h.child[p])
    BY <1>1 DEF ListsEnd, Members, EndsFrom
  <1> QED
    BY <1>1, <1>2, <1>3, <1>4, OwnersSpelledOut

LEMMA Unlink ==
    ASSUME NEW h, NEW roots, WellFormed(h, roots),
           NEW p \in h.live \ h.ref, NEW item \in h.live,
           h.child[p] = item \/ h.prev[item] # NULL,
           NEW g \in Heap, g.live = h.live, g.ref = h.ref, g.const \subseteq h.live,
           g.next = [Put(h.next, h.prev[item], h.next[item]) EXCEPT ![item] = NULL],
           g.prev = [Put(h.prev, h.next[item], h.prev[item]) EXCEPT ![item] = NULL],
           g.child = [h.child EXCEPT ![p] = IF h.child[p] = item THEN h.next[item]
                                            ELSE h.child[p]]
    PROVE  WellFormed(g, roots \cup {item})
  <1> USE HeapAssumption
  <1> DEFINE a == h.prev[item]
             b == h.next[item]
  <1>1. /\ h \in Heap /\ h.live \in SUBSET Items /\ item \in Items /\ p \in Items
        /\ h.next \in [Items -> Items \cup {NULL}] /\ h.prev \in [Items -> Items \cup {NULL}]
        /\ h.child \in [Items -> Items \cup {NULL}]
    BY PointersOf
  <1>2. /\ \A y \in Items : h.next[y] # NULL =>
             y \in h.live /\ h.next[y] \in h.live /\ h.prev[h.next[y]] = y
        /\ \A y \in Items : h.prev[y] # NULL =>
             y \in h.live /\ h.prev[y] \in h.live /\ h.next[h.prev[y]] = y
    BY PointersOf
  <1>3. \A q \in h.live \ h.ref : h.child[q] # NULL =>
             /\ h.child[q] \in h.live
             /\ h.prev[h.child[q]] = NULL
             /\ \A r \in h.live \ h.ref : h.child[r] = h.child[q] => r = q
    BY PointersOf
  <1>4. \A y \in Items : g.next[y] = IF y = item THEN NULL ELSE IF y = a THEN b ELSE h.next[y]
    BY <1>1 DEF Put
  <1>5. \A y \in Items : g.prev[y] = IF y = item THEN NULL ELSE IF y = b THEN a ELSE h.prev[y]
    BY <1>1 DEF Put
  <1>6. \A y \in Items : g.child[y] = IF y = p /\ h.child[p] = item THEN b ELSE h.child[y]
    BY <1>1
  <1>7. \A y \in Items : h.next[y] = item <=> (y = a)
    BY <1>1, <1>2
  <1>8. HeapOK(g)
    BY <1>1, <1>2, <1>4, <1>5, <1>6 DEF WellFormed, HeapOK
  <1>9. Chained(g)
    <2> SUFFICES ASSUME NEW y \in g.live
                 PROVE  /\ g.next[y] # NULL => g.next[y] \in g.live /\ g.prev[g.next[y]] = y
                        /\ g.prev[y] # NULL => g.prev[y] \in g.live /\ g.next[g.prev[y]] = y
      BY DEF Chained
    <2> USE <1>1, <1>2, <1>4, <1>5, <1>7
    <2>1. CASE y = item
      BY <2>1
    <2>2. CASE y # item
      <3>1. g.next[y] # NULL => g.next[y] \in g.live /\ g.prev[g.next[y]] = y
        BY <2>2
      <3>2. g.prev[y] # NULL => g.prev[y] \in g.live /\ g.next[g.prev[y]] = y
        BY <2>2
      <3> QED
        BY <3>1, <3>2
    <2> QED
      BY <2>1, <2>2
  <1>10. \A q \in h.live \ h.ref : g.child[q] # item
    BY <1>1, <1>2, <1>3, <1>6
  <1>11. Owned(g)
    <2>1. \A q \in h.live \ h.ref : g.child[q] # NULL =>
             g.child[q] \in h.live /\ g.prev[g.child[q]] = NULL
      BY <1>1, <1>2, <1>3, <1>5, <1>6
    <2>2. \A q, r \in h.live \ h.ref : g.child[q] # NULL /\ g.child[r] = g.child[q] => r = q
      BY <1>1, <1>2, <1>3, <1>6
    <2> QED
      BY <2>1, <2>2, OwnersSpelledOut
  <1>12. HeldApart(g, roots \cup {item})
    <2>1. ASSUME NEW r \in roots
          PROVE  r \in h.live /\ h.next[r] = NULL /\ h.prev[r] = NULL
                 /\ \A q \in h.live \ h.ref : h.child[q] # r
      BY PointersOf
    <2>2. ASSUME NEW r \in roots
          PROVE  /\ r \in h.live /\ g.next[r] = NULL /\ g.prev[r] = NULL
                 /\ \A q \in h.live \ h.ref : g.child[q] # r
      BY <2>1, <2>2, <1>1, <1>2, <1>4, <1>5, <1>6
    <2>3. /\ item \in h.live /\ g.next[item] = NULL /\ g.prev[item] = NULL
          /\ \A q \in h.live \ h.ref : g.child[q] # item
      BY <1>1, <1>4, <1>5, <1>10
    <2>4. \A r \in roots \cup {item} :
            /\ r \in g.live /\ g.next[r] = NULL /\ g.prev[r] = NULL
            /\ \A q \in g.live \ g.ref : g.child[q] # r
      BY <2>2, <2>3
    <2> QED
      BY <2>4, OwnersSpelledOut
  <1>13. ASSUME NEW f \in Items, f # item, EndsFrom(h, f)
         PROVE  EndsFrom(g, f)
    <2>1. PICK c \in Items : /\ h.next[c] = NULL
                             /\ \A S \in SUBSET Items :
                                  f \in S /\ WalkCloses(h, {}, S) => c \in S
      BY <1>1, <1>13, EndInEveryClosure
    <2>2. ASSUME NEW S \in SUBSET Items, f \in S, WalkCloses(g, {}, S)
          PROVE  /\ a \notin S => c \in S \ {item}
                 /\ a \in S => c \in S \cup {item}
      <3>1. CASE a \notin S
        <4>1. WalkCloses(h, {}, S \ {item})
          BY <3>1, <2>2, <1>1, <1>4, <1>7 DEF WalkCloses
        <4> QED
          BY <3>1, <4>1, <2>1, <2>2, <1>13
      <3>2. CASE a \in S
        <4>1. b \in S \cup {NULL}
          BY <3>2, <2>2, <1>1, <1>2, <1>4 DEF WalkCloses
        <4>2. WalkCloses(h, {}, S \cup {item})
          <5>1. \A y \in S : g.next[y] \in S \cup {NULL}
            BY <2>2 DEF WalkCloses
          <5>2. ASSUME NEW y \in S, y # item
                PROVE  h.next[y] \in S \cup {item, NULL}
            BY <5>1, <5>2, <1>1, <1>4, <1>7
          <5> QED
            BY <4>1, <5>2 DEF WalkCloses
        <4> QED
          BY <3>2, <4>2, <2>1, <2>2, <1>1
      <3> QED
        BY <3>1, <3>2
    <2>3. CASE c = item
      <3>1. b = NULL
        BY <2>1, <2>3
      <3>2. ASSUME NEW S \in SUBSET Items, f \in S, WalkCloses(g, {}, S)
            PROVE  a \in S
        BY <2>2, <2>3, <3>2
      <3>3. a \in Items
        BY <3>2, <1>1 DEF WalkCloses, Heap
      <3>4. g.next[a] = NULL
        BY <3>1, <3>3, <1>4
      <3> QED
        BY <3>2, <3>3, <3>4, EndsFromAll
    <2>4. CASE c # item
      <3>1. g.next[c] = NULL
        BY <2>1, <2>4, <1>1, <1>2, <1>4, <1>7
      <3>2. \A S \in SUBSET Items : f \in S /\ WalkCloses(g, {}, S) => c \in S
        BY <2>2, <2>4
      <3> QED
        BY <3>1, <3>2, EndsFromAll
    <2> QED
      BY <2>3, <2>4
  <1>14. ListsEnd(g)
    <2> SUFFICES ASSUME NEW q \in g.live \ g.ref, g.child[q] # NULL
                 PROVE  EndsFrom(g, g.child[q])
      BY DEF ListsEnd, Members, EndsFrom
    <2>1. q \in h.live \ h.ref /\ q \in Items
      BY <1>1
    <2>2. h.child[q] # NULL => EndsFrom(h, h.child[q]) /\ h.child[q] \in Items
      BY <2>1, <1>1, PointersOf
    <2>3. CASE q = p /\ h.child[p] = item
      <3>1. g.child[q] = b /\ b # NULL
        BY <2>1, <2>3, <1>1, <1>6
      <3>2. EndsFrom(h, b)
        BY <2>2, <2>3, <3>1, <1>1, RestEnds
      <3>3. b \in Items /\ b # item
        BY <3>1, <2>1, <1>1, <1>10
      <3> QED
        BY <3>1, <3>2, <3>3, <1>13
    <2>4. CASE ~(q = p /\ h.child[p] = item)
      <3>1. g.child[q] = h.child[q]
        BY <2>1, <2>4, <1>6
      <3> QED
        BY <3>1, <2>1, <2>2, <1>10, <1>13
    <2> QED
      BY <2>3, <2>4
  <1> QED
    BY <1>8, <1>9, <1>11, <1>12, <1>14 DEF WellFormed

LEMMA Deleted ==
    ASSUME NEW h, NEW roots, WellFormed(h, roots), NEW a \in roots,
           NEW g \in Heap, NEW F, F = Freed(h, a),
           g.live = h.live \ F, g.ref = h.ref \ F, g.const \subseteq g.live,
           g.next = Erase(h.next, F, NULL), g.prev = Erase(h.prev, F, NULL),
           g.child = Erase(h.child, F, NULL)
    PROVE  WellFormed(g, roots \ {a})
  <1> USE HeapAssumption
  <1>1. /\ h \in Heap /\ h.live \in SUBSET Items /\ a \in Items
        /\ h.next \in [Items -> Items \cup {NULL}] /\ h.prev \in [Items -> Items \cup {NULL}]
        /\ h.child \in [Items -> Items \cup {NULL}]
    BY PointersOf
  <1>2. /\ \A y \in Items : h.next[y] # NULL =>
             y \in h.live /\ h.next[y] \in h.live /\ h.prev[h.next[y]] = y
        /\ \A y \in Items : h.prev[y] # NULL =>
             y \in h.live /\ h.prev[y] \in h.live /\ h.next[h.prev[y]] = y
    BY PointersOf
  <1>3. \A q \in h.live \ h.ref : h.child[q] # NULL =>
             /\ h.child[q] \in h.live
             /\ h.prev[h.child[q]] = NULL
             /\ \A r \in h.live \ h.ref : h.child[r] = h.child[q] => r = q
    BY PointersOf
  <1>4. \A r \in roots : /\ r \in h.live
                         /\ h.next[r] = NULL /\ h.prev[r] = NULL
                         /\ \A q \in h.live \ h.ref : h.child[q] # r
    BY PointersOf
  <1>5. \A y \in Items : /\ g.next[y] = IF y \in F THEN NULL ELSE h.next[y]
                         /\ g.prev[y] = IF y \in F THEN NULL ELSE h.prev[y]
                         /\ g.child[y] = IF y \in F THEN NULL ELSE h.child[y]
    BY DEF Erase
  <1>6. F \subseteq Items /\ a \in F
    BY <1>1, FreedCloses
  <1>7. ASSUME NEW z \in F, z # a
        PROVE  \E c \in F : h.next[c] = z \/ (c \in h.live \ h.ref /\ h.child[c] = z)
    <2>1. PICK c \in F : h.next[c] = z \/ (c \notin h.ref /\ h.child[c] = z)
      BY <1>1, <1>7, FreedHasPredecessor
    <2>2. h.child[c] = z => c \in h.live
      BY <1>6, <1>7 DEF WellFormed, HeapOK
    <2> QED
      BY <2>1, <2>2
  <1>8. \A y \in Items \ F : h.next[y] \notin F
    BY <1>1, <1>2, <1>3, <1>4, <1>6, <1>7
  <1>9. \A y \in Items \ F : h.prev[y] \notin F
    <2> SUFFICES ASSUME NEW y \in Items \ F, h.prev[y] \in F
                 PROVE  FALSE
      OBVIOUS
    <2>1. h.next[h.prev[y]] = y
      BY <1>2, <1>6
    <2> QED
      BY <2>1, <1>1, FreedCloses
  <1>10. \A q \in (h.live \ h.ref) \ F : h.child[q] \notin F
    <2> SUFFICES ASSUME NEW q \in (h.live \ h.ref) \ F, h.child[q] \in F
                 PROVE  FALSE
      OBVIOUS
    <2>1. h.child[q] # a /\ h.child[q] # NULL
      BY <1>4, <1>6
    <2>2. PICK c \in F : \/ h.next[c] = h.child[q]
                         \/ (c \in h.live \ h.ref /\ h.child[c] = h.child[q])
      BY <2>1, <1>7
    <2>3. h.next[c] # h.child[q]
      BY <2>1, <1>2, <1>3, <1>6
    <2> QED
      BY <2>1, <2>2, <2>3, <1>3
  <1>11. HeapOK(g)
    BY <1>1, <1>5 DEF WellFormed, HeapOK
  <1>12. Chained(g)
    <2> SUFFICES ASSUME NEW y \in g.live
                 PROVE  /\ g.next[y] # NULL => g.next[y] \in g.live /\ g.prev[g.next[y]] = y
                        /\ g.prev[y] # NULL => g.prev[y] \in g.live /\ g.next[g.prev[y]] = y
      BY DEF Chained
    <2>1. y \in Items \ F /\ g.next[y] = h.next[y] /\ g.prev[y] = h.prev[y]
      BY <1>1, <1>5
    <2> QED
      BY <2>1, <1>1, <1>2, <1>5, <1>8, <1>9
  <1>13. \A q \in g.live \ g.ref : q \in (h.live \ h.ref) \ F /\ g.child[q] = h.child[q]
    BY <1>1, <1>5
  <1>14. Owned(g)
    <2>1. \A q \in g.live \ g.ref : g.child[q] # NULL =>
             /\ g.child[q] \in g.live
             /\ g.prev[g.child[q]] = NULL
             /\ \A r \in g.live \ g.ref : g.child[r] = g.child[q] => r = q
      BY <1>1, <1>3, <1>5, <1>10, <1>13
    <2> QED
      BY <2>1, OwnersSpelledOut
  <1>15. HeldApart(g, roots \ {a})
    <2>1. \A r \in roots \ {a} : r \notin F
      BY <1>1, <1>2, <1>4, <1>6, <1>7
    <2>2. \A r \in roots \ {a} : /\ r \in g.live
                                 /\ g.next[r] = NULL /\ g.prev[r] = NULL
                                 /\ \A q \in g.live \ g.ref : g.child[q] # r
      BY <2>1, <1>1, <1>4, <1>5, <1>13
    <2> QED
      BY <2>2, OwnersSpelledOut
  <1>16. ListsEnd(g)
    <2> SUFFICES ASSUME NEW q \in g.live \ g.ref, g.child[q] # NULL
                 PROVE  EndsFrom(g, g.child[q])
      BY DEF ListsEnd, Members, EndsFrom
    <2> DEFINE f == h.child[q]
    <2>1. f \in Items \ F /\ g.child[q] = f /\ EndsFrom(h, f)
      BY <1>1, <1>10, <1>13, PointersOf
    <2>2. PICK c \in Items : /\ h.next[c] = NULL
                             /\ \A S \in SUBSET Items :
                                  f \in S /\ WalkCloses(h, {}, S) => c \in S
      BY <1>1, <2>1, EndInEveryClosure
    <2>3. ASSUME NEW S \in SUBSET Items, f \in S, WalkCloses(g, {}, S)
          PROVE  c \in S
      <3>1. WalkCloses(h, {}, S \ F)
        BY <2>3, <1>1, <1>5, <1>8 DEF WalkCloses
      <3> QED
        BY <2>1, <2>2, <2>3, <3>1
    <2>4. g.next[c] = NULL
      BY <2>2, <1>5
    <2> QED
      BY <2>1, <2>3, <2>4, EndsFromAll
  <1> QED
    BY <1>11, <1>12, <1>14, <1>15, <1>16 DEF WellFormed

\* Replacing is linking the root in front of the item and unlinking the item.
LEMMA Exchange ==
    ASSUME NEW h, NEW roots, WellFormed(h, roots),
           NEW p \in h.live \ h.ref, NEW item \in Members(h, p), NEW r \in roots, r # item,
           NEW g \in Heap, g.live = h.live, g.ref = h.ref, g.const \subseteq h.live,
           g.next = [Put(h.next, h.prev[item], r)
                     EXCEPT ![r] = h.next[item], ![item] = NULL],
           g.prev = [Put(h.prev, h.next[item], r)
                     EXCEPT ![r] = h.prev[item], ![item] = NULL],
           g.child = [h.child EXCEPT ![p] = IF h.child[p] = item THEN r ELSE h.child[p]]
    PROVE  WellFormed(g, (roots \ {r}) \cup {item})
  <1> USE HeapAssumption
  <1>1. /\ h \in Heap /\ h.live \in SUBSET Items /\ p \in Items
        /\ h.next \in [Items -> Items \cup {NULL}] /\ h.prev \in [Items -> Items \cup {NULL}]
        /\ h.child \in [Items -> Items \cup {NULL}]
        /\ r \in h.live /\ h.next[r] = NULL /\ h.prev[r] = NULL
        /\ \A q \in h.live \ h.ref : h.child[q] # r
    BY PointersOf
  <1>2. /\ item \in h.live /\ item \in Items
        /\ item = h.child[p] \/ h.prev[item] \in Members(h, p) \ {item}
        /\ Members(h, p) \subseteq Items
    BY <1>1, MemberLinks, WalkedCloses DEF WellFormed, Members
  <1>3. /\ \A y \in Items : h.next[y] # NULL =>
             y \in h.live /\ h.next[y] \in h.live /\ h.prev[h.next[y]] = y
        /\ \A y \in Items : h.prev[y] # NULL =>
             y \in h.live /\ h.prev[y] \in h.live /\ h.next[h.prev[y]] = y
        /\ h.child[p] # NULL => h.prev[h.child[p]] = NULL
    BY PointersOf
  <1> DEFINE next == [(IF item = h.child[p] THEN h.next ELSE Put(h.next, h.prev[item], r))
                      EXCEPT ![r] = item]
             prev == [h.prev EXCEPT ![r] = h.prev[item], ![item] = r]
             child == [h.child EXCEPT ![p] = IF item = h.child[p] THEN r ELSE h.child[p]]
             m == [h EXCEPT !.next = next, !.prev = prev, !.child = child]
  <1>4. /\ next \in [Items -> Items \cup {NULL}] /\ prev \in [Items -> Items \cup {NULL}]
        /\ child \in [Items -> Items \cup {NULL}]
    BY <1>1, <1>2 DEF Put
  <1>5. /\ m \in Heap /\ m.live = h.live /\ m.ref = h.ref /\ m.const = h.const
        /\ m.next = next /\ m.prev = prev /\ m.child = child
    <2> HIDE DEF next, prev, child
    <2> QED
      BY <1>1, <1>4 DEF Heap
  <1>6. m.const \subseteq h.live
    BY <1>5 DEF WellFormed, HeapOK
  <1> HIDE DEF m
  <1>7. WellFormed(m, roots \ {r})
    BY <1>5, <1>6, LinkBefore, ZenonT(60)
  <1>8. \A y \in Items : m.next[y] = IF y = r THEN item
                                      ELSE IF item # h.child[p] /\ y = h.prev[item] THEN r
                                      ELSE h.next[y]
    BY <1>1, <1>2, <1>5 DEF Put
  <1>9. \A y \in Items : m.prev[y] = IF y = item THEN r
                                      ELSE IF y = r THEN h.prev[item] ELSE h.prev[y]
    BY <1>1, <1>2, <1>5
  <1>10. m.prev[item] = r /\ m.next[r] = item /\ m.prev[r] = h.prev[item]
    BY <1>1, <1>2, <1>8, <1>9
  <1>11. m.next[item] = h.next[item]
    BY <1>1, <1>2, <1>3, <1>8
  <1>12. g.next = [Put(m.next, m.prev[item], m.next[item]) EXCEPT ![item] = NULL]
    <2> DEFINE n == [Put(m.next, m.prev[item], m.next[item]) EXCEPT ![item] = NULL]
    <2>1. n = [[m.next EXCEPT ![r] = h.next[item]] EXCEPT ![item] = NULL]
      BY <1>1, <1>10, <1>11 DEF Put
    <2>2. n \in [Items -> Items \cup {NULL}]
      <3>1. m.next \in [Items -> Items \cup {NULL}]
        BY <1>4, <1>5
      <3>2. h.next[item] \in Items \cup {NULL}
        BY <1>1, <1>2
      <3> QED
        BY <2>1, <3>1, <3>2
    <2>3. g.next \in [Items -> Items \cup {NULL}]
      BY DEF Heap
    <2>4. ASSUME NEW y \in Items
          PROVE  g.next[y] = n[y]
      <3>1. n[y] = IF y = item THEN NULL ELSE IF y = r THEN h.next[item] ELSE m.next[y]
        BY <2>1, <1>1, <1>2, <1>4, <1>5
      <3>2. g.next[y] = IF y = item THEN NULL ELSE IF y = r THEN h.next[item]
                        ELSE IF y = h.prev[item] THEN r ELSE h.next[y]
        BY <1>1, <1>2 DEF Put
      <3>3. y # r => m.next[y] = IF item # h.child[p] /\ y = h.prev[item] THEN r
                                 ELSE h.next[y]
        BY <1>1, <1>2, <1>5 DEF Put
      <3>4. item = h.child[p] => h.prev[item] # y
        BY <1>2, <1>3
      <3> QED
        BY <3>1, <3>2, <3>3, <3>4
    <2> HIDE DEF n
    <2>5. g.next = n
      BY <2>2, <2>3, <2>4
    <2> QED
      BY <2>5 DEF n
  <1>13. g.prev = [Put(m.prev, m.next[item], m.prev[item]) EXCEPT ![item] = NULL]
    <2> DEFINE n == [Put(m.prev, h.next[item], r) EXCEPT ![item] = NULL]
    <2>1. n \in [Items -> Items \cup {NULL}]
      BY <1>1, <1>4, <1>5 DEF Put
    <2>2. g.prev \in [Items -> Items \cup {NULL}]
      BY DEF Heap
    <2>3. ASSUME NEW y \in Items
          PROVE  g.prev[y] = n[y]
      <3>1. h.next[item] # r
        BY <1>1, <1>2, <1>3
      <3>2. n[y] = IF y = item THEN NULL ELSE IF y = h.next[item] THEN r ELSE m.prev[y]
        BY <1>1, <1>2, <1>4, <1>5 DEF Put
      <3>3. g.prev[y] = IF y = item THEN NULL ELSE IF y = r THEN h.prev[item]
                        ELSE IF y = h.next[item] THEN r ELSE h.prev[y]
        BY <1>1, <1>2 DEF Put
      <3>4. y # item => m.prev[y] = IF y = r THEN h.prev[item] ELSE h.prev[y]
        BY <1>1, <1>2, <1>5
      <3> QED
        BY <3>1, <3>2, <3>3, <3>4
    <2> HIDE DEF n
    <2>4. g.prev = n
      BY <2>1, <2>2, <2>3
    <2> QED
      BY <2>4, <1>10, <1>11 DEF n
  <1>14. m.child[p] # item
    BY <1>1, <1>5
  <1>15. g.child = [m.child EXCEPT ![p] = IF m.child[p] = item THEN m.next[item]
                                          ELSE m.child[p]]
    BY <1>1, <1>5, <1>14
  <1>16. /\ p \in m.live \ m.ref /\ item \in m.live /\ m.prev[item] # NULL
         /\ g.live = m.live /\ g.ref = m.ref /\ g.const \subseteq m.live
    BY <1>1, <1>2, <1>5, <1>10
  <1> QED
    BY <1>7, <1>12, <1>13, <1>15, <1>16, Unlink

-----------------------------------------------------------------------------
(* The functions of cJSON *)

LEMMA HeapFields ==
    ASSUME NEW h \in Heap
    PROVE  /\ h.live \in SUBSET Items /\ h.ref \in SUBSET Items /\ h.const \in SUBSET Items
           /\ h.next \in [Items -> Items \cup {NULL}] /\ h.prev \in [Items -> Items \cup {NULL}]
           /\ h.child \in [Items -> Items \cup {NULL}]
           /\ h.string \in [Items -> Strings \cup {NULL}]
           /\ h.valuestring \in [Items -> Strings \cup {NULL}]
           /\ h.type \in [Items -> Types] /\ h.valueint \in [Items -> Int]
           /\ h.blocks \in Int /\ h.mem \in Nat /\ h.ret \in Items \cup {NULL}
  BY DEF Heap

\* The memory left and the pointer returned are not part of the lists.
LEMMA OtherCall ==
    ASSUME NEW h, NEW roots, WellFormed(h, roots), NEW m \in Nat, NEW r \in Items \cup {NULL}
    PROVE  /\ WellFormed([h EXCEPT !.mem = m], roots)
           /\ WellFormed([h EXCEPT !.ret = r], roots)
           /\ WellFormed([h EXCEPT !.mem = m, !.ret = r], roots)
  <1>1. h \in Heap /\ h.const \subseteq h.live
    BY DEF WellFormed, HeapOK
  <1>2. /\ [h EXCEPT !.mem = m] \in Heap /\ [h EXCEPT !.ret = r] \in Heap
        /\ [h EXCEPT !.mem = m, !.ret = r] \in Heap
    BY <1>1 DEF Heap
  <1>3. WellFormed([h EXCEPT !.mem = m], roots)
    <2> DEFINE g == [h EXCEPT !.mem = m]
    <2>1. /\ g.live = h.live /\ g.ref = h.ref /\ g.const = h.const
          /\ g.next = h.next /\ g.prev = h.prev /\ g.child = h.child
      BY <1>1 DEF Heap
    <2> HIDE DEF g
    <2>2. g \in Heap
      BY <1>2 DEF g
    <2>3. WellFormed(g, roots)
      BY <1>1, <2>1, <2>2, SameLinks
    <2> QED
      BY <2>3 DEF g
  <1>4. WellFormed([h EXCEPT !.ret = r], roots)
    <2> DEFINE g == [h EXCEPT !.ret = r]
    <2>1. /\ g.live = h.live /\ g.ref = h.ref /\ g.const = h.const
          /\ g.next = h.next /\ g.prev = h.prev /\ g.child = h.child
      BY <1>1 DEF Heap
    <2> HIDE DEF g
    <2>2. g \in Heap
      BY <1>2 DEF g
    <2>3. WellFormed(g, roots)
      BY <1>1, <2>1, <2>2, SameLinks
    <2> QED
      BY <2>3 DEF g
  <1>5. WellFormed([h EXCEPT !.mem = m, !.ret = r], roots)
    <2> DEFINE g == [h EXCEPT !.mem = m, !.ret = r]
    <2>1. /\ g.live = h.live /\ g.ref = h.ref /\ g.const = h.const
          /\ g.next = h.next /\ g.prev = h.prev /\ g.child = h.child
      BY <1>1 DEF Heap
    <2> HIDE DEF g
    <2>2. g \in Heap
      BY <1>2 DEF g
    <2>3. WellFormed(g, roots)
      BY <1>1, <2>1, <2>2, SameLinks
    <2> QED
      BY <2>3 DEF g
  <1> QED
    BY <1>3, <1>4, <1>5

LEMMA DeletedFields ==
    ASSUME NEW h \in Heap, NEW a \in Items \cup {NULL}
    PROVE  LET F == Freed(h, a)
               g == cJSON_Delete(h, a)
           IN  /\ g \in Heap /\ g.live = h.live \ F /\ g.ref = h.ref \ F
               /\ g.const = h.const \ F
               /\ g.next = Erase(h.next, F, NULL) /\ g.prev = Erase(h.prev, F, NULL)
               /\ g.child = Erase(h.child, F, NULL)
  <1> DEFINE F == Freed(h, a)
             g == cJSON_Delete(h, a)
             strings == {b \in F : OwnsString(h, b)}
             values == {b \in F : OwnsValue(h, b)}
  <1>1. F \subseteq Items
    BY FreedCloses
  <1>2. Cardinality(strings) \in Int /\ Cardinality(values) \in Int
    <2>1. IsFiniteSet(strings) /\ IsFiniteSet(values)
      BY <1>1, HeapAssumption, FS_Subset
    <2> QED
      BY <2>1, FS_CardinalityType
  <1>3. /\ Erase(h.next, F, NULL) \in [Items -> Items \cup {NULL}]
        /\ Erase(h.prev, F, NULL) \in [Items -> Items \cup {NULL}]
        /\ Erase(h.child, F, NULL) \in [Items -> Items \cup {NULL}]
        /\ Erase(h.string, F, NULL) \in [Items -> Strings \cup {NULL}]
        /\ Erase(h.valuestring, F, NULL) \in [Items -> Strings \cup {NULL}]
        /\ Erase(h.type, F, "Invalid") \in [Items -> Types]
        /\ Erase(h.valueint, F, 0) \in [Items -> Int]
    BY HeapFields DEF Erase, Types
  <1>4. h.blocks - Cardinality(strings) - Cardinality(values) \in Int
    BY <1>2, HeapFields
  <1> HIDE DEF strings, values
  <1>5. g = [h EXCEPT !.live = h.live \ F, !.ref = h.ref \ F, !.const = h.const \ F,
                      !.next = Erase(h.next, F, NULL), !.prev = Erase(h.prev, F, NULL),
                      !.child = Erase(h.child, F, NULL),
                      !.string = Erase(h.string, F, NULL),
                      !.valuestring = Erase(h.valuestring, F, NULL),
                      !.type = Erase(h.type, F, "Invalid"),
                      !.valueint = Erase(h.valueint, F, 0),
                      !.blocks = h.blocks - Cardinality(strings) - Cardinality(values)]
    BY DEF cJSON_Delete, strings, values, Heap
  <1> HIDE DEF F, g
  <1>6. /\ g \in Heap /\ g.live = h.live \ F /\ g.ref = h.ref \ F /\ g.const = h.const \ F
        /\ g.next = Erase(h.next, F, NULL) /\ g.prev = Erase(h.prev, F, NULL)
        /\ g.child = Erase(h.child, F, NULL)
    BY <1>3, <1>4, <1>5 DEF Heap
  <1> QED
    BY <1>6 DEF F, g

LEMMA DeleteFrees ==
    ASSUME NEW h, NEW roots, WellFormed(h, roots), NEW a \in roots
    PROVE  WellFormed(cJSON_Delete(h, a), roots \ {a})
  <1> DEFINE F == Freed(h, a)
             g == cJSON_Delete(h, a)
  <1>1. h \in Heap /\ h.const \subseteq h.live /\ a \in Items
    BY PointersOf DEF WellFormed, HeapOK
  <1>2. /\ g \in Heap /\ g.live = h.live \ F /\ g.ref = h.ref \ F /\ g.const = h.const \ F
        /\ g.next = Erase(h.next, F, NULL) /\ g.prev = Erase(h.prev, F, NULL)
        /\ g.child = Erase(h.child, F, NULL)
    BY <1>1, DeletedFields
  <1> HIDE DEF F, g
  <1>3. F = Freed(h, a) /\ g.const \subseteq g.live
    BY <1>1, <1>2 DEF F
  <1>4. WellFormed(g, roots \ {a})
    BY <1>2, <1>3, Deleted
  <1> QED
    BY <1>4 DEF g

\* cJSON_Delete(NULL).
LEMMA DeleteNothing ==
    ASSUME NEW h, NEW roots, WellFormed(h, roots)
    PROVE  WellFormed(cJSON_Delete(h, NULL), roots)
  <1> DEFINE g == cJSON_Delete(h, NULL)
  <1>1. h \in Heap /\ h.const \subseteq h.live
    BY PointersOf DEF WellFormed, HeapOK
  <1>2. Freed(h, NULL) = {}
    <2>1. DeleteCloses(h, {}) /\ {} \in SUBSET Items /\ NULL \in {} \cup {NULL}
          /\ NULL \in Items \cup {NULL}
      BY DEF DeleteCloses
    <2>2. Freed(h, NULL) \subseteq {}
      BY <1>1, <2>1, FreedSmallest
    <2> QED
      BY <2>2
  <1>3. /\ g \in Heap /\ g.live = h.live /\ g.ref = h.ref /\ g.const = h.const
        /\ g.next = Erase(h.next, {}, NULL) /\ g.prev = Erase(h.prev, {}, NULL)
        /\ g.child = Erase(h.child, {}, NULL)
    BY <1>1, <1>2, DeletedFields, ZenonT(60)
  <1>4. /\ Erase(h.next, {}, NULL) = h.next /\ Erase(h.prev, {}, NULL) = h.prev
        /\ Erase(h.child, {}, NULL) = h.child
    BY <1>1, HeapFields DEF Erase
  <1> HIDE DEF g
  <1>5. WellFormed(g, roots)
    BY <1>1, <1>3, <1>4, SameLinks
  <1> QED
    BY <1>5 DEF g

\* A heap made from h by creating the item of "ret": what the creating functions share.
Creates(h, roots, n) ==
    /\ WellFormed(n, roots \cup Returned(n))
    /\ n.ret \in (Items \ h.live) \cup {NULL}
    /\ h.live \ h.ref \subseteq n.live \ n.ref

LEMMA NewItem ==
    ASSUME NEW h, NEW roots, WellFormed(h, roots)
    PROVE  LET n == cJSON_New_Item(h)
           IN  /\ Creates(h, roots, n)
               /\ n.ret # NULL => n.ref = h.ref /\ n.const = h.const /\ n.live = h.live \cup {n.ret}
               /\ n.next = h.next /\ n.prev = h.prev /\ n.child = h.child
  <1> DEFINE n == cJSON_New_Item(h)
             node == CHOOSE a \in Items \ h.live : TRUE
  <1>1. h \in Heap /\ h.const \subseteq h.live /\ h.live \subseteq Items /\ h.mem \in Nat
    BY PointersOf, HeapFields DEF WellFormed, HeapOK
  <1>2. CASE h.mem = 0 \/ h.live = Items
    <2>1. n = [h EXCEPT !.ret = NULL]
      BY <1>2 DEF cJSON_New_Item
    <2>2. WellFormed(n, roots)
      <3>1. WellFormed([h EXCEPT !.ret = NULL], roots)
        BY 0 \in Nat, NULL \in Items \cup {NULL}, OtherCall
      <3> QED
        BY <2>1, <3>1
    <2>3. /\ n.ret = NULL /\ n.live = h.live /\ n.ref = h.ref
          /\ n.next = h.next /\ n.prev = h.prev /\ n.child = h.child
      BY <1>1, <2>1 DEF Heap
    <2>4. roots \cup Returned(n) = roots
      BY <2>3 DEF Returned
    <2> QED
      BY <2>2, <2>3, <2>4 DEF Creates
  <1>3. CASE ~(h.mem = 0 \/ h.live = Items)
    <2>1. n = [h EXCEPT !.live = h.live \cup {node}, !.mem = h.mem - 1, !.ret = node]
      BY <1>1, <1>3 DEF cJSON_New_Item, Heap
    <2>2. node \in Items \ h.live
      BY <1>1, <1>3
    <2>3. h.mem - 1 \in Nat
      BY <1>1, <1>3
    <2> HIDE DEF n, node
    <2>4. /\ n \in Heap /\ n.ret = node /\ n.live = h.live \cup {node}
          /\ n.ref = h.ref /\ n.const = h.const
          /\ n.next = h.next /\ n.prev = h.prev /\ n.child = h.child
      BY <1>1, <2>1, <2>2, <2>3 DEF Heap
    <2>5. WellFormed(n, roots \cup {node})
      <3>1. n.const \subseteq n.live
        BY <1>1, <2>4
      <3>2. n.ref = IF FALSE THEN h.ref \cup {node} ELSE h.ref
        BY <2>4
      <3>3. n.child = h.child \/ (FALSE /\ \E c : n.child = [h.child EXCEPT ![node] = c])
        BY <2>4
      <3>4. FALSE \in BOOLEAN
        OBVIOUS
      <3> QED
        BY ONLY WellFormed(h, roots), <2>2, <2>4, <3>1, <3>2, <3>3, <3>4, AnotherItem
    <2>6. Returned(n) = {node} /\ node # NULL
      BY <2>2, <2>4, HeapAssumption DEF Returned
    <2> QED
      BY <1>1, <2>2, <2>4, <2>5, <2>6 DEF Creates, n
  <1> QED
    BY <1>2, <1>3

LEMMA ItemCreated ==
    ASSUME NEW h, NEW roots, WellFormed(h, roots), NEW type \in Types, NEW int \in Int
    PROVE  LET n == CreateItem(h, type, int)
           IN  /\ Creates(h, roots, n)
               /\ n.ret # NULL => n.ref = h.ref /\ n.live = h.live \cup {n.ret}
               /\ n.next = h.next /\ n.prev = h.prev /\ n.child = h.child
  <1> DEFINE n == cJSON_New_Item(h)
             g == CreateItem(h, type, int)
  <1>1. Creates(h, roots, n)
    BY NewItem
  <1>2. /\ n.ret # NULL => n.ref = h.ref /\ n.live = h.live \cup {n.ret}
        /\ n.next = h.next /\ n.prev = h.prev /\ n.child = h.child
    BY NewItem
  <1> HIDE DEF n
  <1>3. g = IF n.ret = NULL THEN n
            ELSE [n EXCEPT !.type[n.ret] = type, !.valueint[n.ret] = int]
    BY DEF CreateItem, n
  <1>4. CASE n.ret = NULL
    <2>1. g = n
      BY <1>3, <1>4
    <2> QED
      BY <2>1, <1>1, <1>2
  <1>5. CASE n.ret # NULL
    <2>1. /\ WellFormed(n, roots \cup Returned(n)) /\ n.ret \in Items \ h.live
          /\ h.live \ h.ref \subseteq n.live \ n.ref
      BY <1>1, <1>5 DEF Creates
    <2>2. n \in Heap /\ n.const \subseteq n.live
      BY <2>1 DEF WellFormed, HeapOK
    <2>3. g = [n EXCEPT !.type = [n.type EXCEPT ![n.ret] = type],
                        !.valueint = [n.valueint EXCEPT ![n.ret] = int]]
      BY <1>3, <1>5, <2>2 DEF Heap
    <2>4. /\ [n.type EXCEPT ![n.ret] = type] \in [Items -> Types]
          /\ [n.valueint EXCEPT ![n.ret] = int] \in [Items -> Int]
      BY <2>2, HeapFields
    <2> HIDE DEF g
    <2>5. /\ g \in Heap /\ g.live = n.live /\ g.ref = n.ref /\ g.const = n.const
          /\ g.next = n.next /\ g.prev = n.prev /\ g.child = n.child /\ g.ret = n.ret
      BY <2>2, <2>3, <2>4 DEF Heap
    <2>6. WellFormed(g, roots \cup Returned(n))
      BY <2>1, <2>2, <2>5, SameLinks
    <2>7. Returned(g) = Returned(n)
      BY <2>5 DEF Returned
    <2> QED
      BY <1>2, <2>1, <2>5, <2>6, <2>7 DEF Creates, g
  <1> QED
    BY <1>4, <1>5

LEMMA TextCreated ==
    ASSUME NEW h, NEW roots, WellFormed(h, roots), NEW type \in Types, NEW text \in Strings
    PROVE  Creates(h, roots, CreateText(h, type, text))
  <1> DEFINE n == CreateItem(h, type, 0)
             r == n.ret
             g == CreateText(h, type, text)
  <1>1. /\ Creates(h, roots, n)
        /\ r # NULL => n.ref = h.ref /\ n.live = h.live \cup {r}
        /\ n.next = h.next /\ n.prev = h.prev /\ n.child = h.child
    BY ItemCreated, 0 \in Int
  <1>2. g = IF r = NULL THEN n
            ELSE IF CanCopy(n, text) THEN [Copied(n) EXCEPT !.valuestring[r] = text]
            ELSE [cJSON_Delete(n, r) EXCEPT !.ret = NULL]
    BY DEF CreateText
  <1> HIDE DEF n, g
  <1>3. CASE r = NULL
    BY <1>1, <1>2, <1>3 DEF g
  <1>4. ASSUME r # NULL
        PROVE  /\ WellFormed(n, roots \cup {r}) /\ r \in Items \ h.live
               /\ h.live \ h.ref \subseteq n.live \ n.ref
               /\ n \in Heap /\ n.const \subseteq n.live
    BY <1>1, <1>4 DEF Creates, Returned, WellFormed, HeapOK
  <1>5. CASE r # NULL /\ CanCopy(n, text)
    <2>1. n.mem - 1 \in Nat
      BY <1>4, <1>5, HeapFields DEF CanCopy
    <2>2. g = [n EXCEPT !.mem = n.mem - 1, !.blocks = n.blocks + 1,
                        !.valuestring = [n.valuestring EXCEPT ![r] = text]]
      BY <1>2, <1>4, <1>5 DEF Copied, Heap
    <2>3. [n.valuestring EXCEPT ![r] = text] \in [Items -> Strings \cup {NULL}]
      BY <1>4, <1>5, HeapFields
    <2>4. n.blocks + 1 \in Int
      BY <1>4, <1>5, HeapFields
    <2>5. /\ g \in Heap /\ g.live = n.live /\ g.ref = n.ref /\ g.const = n.const
          /\ g.next = n.next /\ g.prev = n.prev /\ g.child = n.child /\ g.ret = n.ret
      BY <1>4, <1>5, <2>1, <2>2, <2>3, <2>4 DEF Heap
    <2>6. WellFormed(g, roots \cup {r})
      BY <1>4, <1>5, <2>5, SameLinks
    <2>7. Returned(g) = {r}
      BY <1>5, <2>5 DEF Returned
    <2> QED
      BY <1>4, <1>5, <2>5, <2>6, <2>7 DEF Creates, g
  <1>6. CASE r # NULL /\ ~CanCopy(n, text)
    <2> DEFINE d == cJSON_Delete(n, r)
    <2>1. r \notin roots /\ roots \subseteq h.live
      BY <1>4, <1>6, PointersOf
    <2>2. WellFormed(d, (roots \cup {r}) \ {r})
      <3>1. r \in roots \cup {r}
        OBVIOUS
      <3> QED
        BY <1>4, <1>6, <3>1, DeleteFrees
    <2>3. (roots \cup {r}) \ {r} = roots
      BY <2>1
    <2>4. d.live = n.live \ Freed(n, r) /\ d.ref = n.ref \ Freed(n, r)
      BY <1>4, <1>6, DeletedFields
    <2>5. Freed(n, r) \subseteq {r}
      <3>1. n.next[r] = NULL /\ n.child[r] = NULL
        BY <1>1, <1>4, <1>6 DEF WellFormed, HeapOK
      <3>2. DeleteCloses(n, {r})
        BY <3>1 DEF DeleteCloses
      <3>3. {r} \in SUBSET Items /\ r \in {r} \cup {NULL} /\ r \in Items \cup {NULL}
        BY <1>4, <1>6
      <3> QED
        BY <1>4, <1>6, <3>2, <3>3, FreedSmallest
    <2> HIDE DEF d
    <2>6. g = [d EXCEPT !.ret = NULL]
      BY <1>2, <1>6 DEF d
    <2>7. WellFormed(d, roots) /\ d \in Heap
      BY <2>2, <2>3 DEF WellFormed, HeapOK
    <2>8. WellFormed(g, roots)
      <3>1. WellFormed([d EXCEPT !.ret = NULL], roots)
        BY <2>7, 0 \in Nat, NULL \in Items \cup {NULL}, OtherCall
      <3> QED
        BY <2>6, <3>1
    <2>9. g.ret = NULL /\ g.live = d.live /\ g.ref = d.ref
      BY <2>6, <2>7 DEF Heap
    <2>10. roots \cup Returned(g) = roots
      BY <2>9 DEF Returned
    <2>11. h.live \ h.ref \subseteq g.live \ g.ref
      BY <1>4, <1>6, <2>4, <2>5, <2>9
    <2> QED
      BY <2>8, <2>9, <2>10, <2>11 DEF Creates, g
  <1> QED
    BY <1>3, <1>5, <1>6

LEMMA ReferenceCreated ==
    ASSUME NEW h, NEW roots, WellFormed(h, roots), NEW type \in Types,
           NEW text \in Strings \cup {NULL}, NEW child \in Items \cup {NULL}
    PROVE  Creates(h, roots, CreateReference(h, type, text, child))
  <1> DEFINE n == CreateItem(h, type, 0)
             r == n.ret
             g == CreateReference(h, type, text, child)
  <1>1. /\ Creates(h, roots, n)
        /\ r # NULL => n.ref = h.ref /\ n.live = h.live \cup {r}
        /\ n.next = h.next /\ n.prev = h.prev /\ n.child = h.child
    BY ItemCreated, 0 \in Int
  <1>2. g = IF r = NULL THEN n
            ELSE [n EXCEPT !.ref = n.ref \cup {r}, !.valuestring[r] = text, !.child[r] = child]
    BY DEF CreateReference
  <1> HIDE DEF n, g
  <1>3. CASE r = NULL
    BY <1>1, <1>2, <1>3 DEF g
  <1>4. CASE r # NULL
    <2>1. /\ WellFormed(n, roots \cup {r}) /\ r \in Items \ h.live
          /\ n \in Heap /\ n.const \subseteq n.live
      BY <1>1, <1>4 DEF Creates, Returned, WellFormed, HeapOK
    <2>2. g = [n EXCEPT !.ref = n.ref \cup {r},
                        !.valuestring = [n.valuestring EXCEPT ![r] = text],
                        !.child = [n.child EXCEPT ![r] = child]]
      BY <1>2, <1>4, <2>1 DEF Heap
    <2>3. /\ [n.valuestring EXCEPT ![r] = text] \in [Items -> Strings \cup {NULL}]
          /\ [n.child EXCEPT ![r] = child] \in [Items -> Items \cup {NULL}]
          /\ n.ref \cup {r} \in SUBSET Items
      BY <2>1, HeapFields
    <2>4. /\ g \in Heap /\ g.live = n.live /\ g.ref = n.ref \cup {r} /\ g.const = n.const
          /\ g.next = n.next /\ g.prev = n.prev /\ g.child = [n.child EXCEPT ![r] = child]
          /\ g.ret = r
      BY <2>1, <2>2, <2>3 DEF Heap
    <2>5. WellFormed(g, roots \cup {r})
      <3>1. g.ref = IF TRUE THEN h.ref \cup {r} ELSE h.ref
        BY <1>1, <1>4, <2>4
      <3>2. g.child = h.child \/ (TRUE /\ \E c : g.child = [h.child EXCEPT ![r] = c])
        BY <1>1, <2>4
      <3>3. TRUE \in BOOLEAN /\ g.const \subseteq g.live /\ g.live = h.live \cup {r}
        BY <1>1, <1>4, <2>1, <2>4
      <3>4. g.next = h.next /\ g.prev = h.prev
        BY <1>1, <2>4
      <3> QED
        BY ONLY WellFormed(h, roots), <2>1, <2>4, <3>1, <3>2, <3>3, <3>4, AnotherItem
    <2>6. Returned(g) = {r}
      BY <1>4, <2>4 DEF Returned
    <2>7. h.live \ h.ref \subseteq g.live \ g.ref
      BY <1>1, <1>4, <2>1, <2>4
    <2> QED
      BY <2>1, <2>4, <2>5, <2>6, <2>7 DEF Creates, g
  <1> QED
    BY <1>3, <1>4

LEMMA ReferenceMade ==
    ASSUME NEW h, NEW roots, WellFormed(h, roots), NEW item \in h.live
    PROVE  Creates(h, roots, create_reference(h, item))
  <1> DEFINE n == cJSON_New_Item(h)
             r == n.ret
             g == create_reference(h, item)
  <1>1. /\ Creates(h, roots, n)
        /\ r # NULL => n.ref = h.ref /\ n.const = h.const /\ n.live = h.live \cup {r}
        /\ n.next = h.next /\ n.prev = h.prev /\ n.child = h.child
    BY NewItem
  <1>2. h \in Heap /\ item \in Items /\ item # NULL
    BY PointersOf, HeapAssumption
  <1>3. g = IF r = NULL THEN n
            ELSE [n EXCEPT !.ref = @ \cup {r},
                           !.const = IF item \in h.const THEN @ \cup {r} ELSE @,
                           !.type[r] = h.type[item], !.valueint[r] = h.valueint[item],
                           !.child[r] = h.child[item],
                           !.valuestring[r] = h.valuestring[item]]
    BY <1>2 DEF create_reference
  <1> HIDE DEF n, g
  <1>4. CASE r = NULL
    BY <1>1, <1>3, <1>4 DEF g
  <1>5. CASE r # NULL
    <2> DEFINE const == IF item \in h.const THEN n.const \cup {r} ELSE n.const
               type == [n.type EXCEPT ![r] = h.type[item]]
               valueint == [n.valueint EXCEPT ![r] = h.valueint[item]]
               child == [n.child EXCEPT ![r] = h.child[item]]
               valuestring == [n.valuestring EXCEPT ![r] = h.valuestring[item]]
    <2>1. /\ WellFormed(n, roots \cup {r}) /\ r \in Items \ h.live
          /\ n \in Heap /\ n.const \subseteq n.live
      BY <1>1, <1>5 DEF Creates, Returned, WellFormed, HeapOK
    <2>2. g = [n EXCEPT !.ref = n.ref \cup {r}, !.const = const, !.type = type,
                        !.valueint = valueint, !.child = child, !.valuestring = valuestring]
      BY <1>3, <1>5, <2>1 DEF Heap
    <2>3. /\ n.ref \cup {r} \in SUBSET Items /\ const \in SUBSET Items
          /\ type \in [Items -> Types] /\ valueint \in [Items -> Int]
          /\ child \in [Items -> Items \cup {NULL}]
          /\ valuestring \in [Items -> Strings \cup {NULL}]
      <3>1. /\ h.type[item] \in Types /\ h.valueint[item] \in Int
            /\ h.child[item] \in Items \cup {NULL}
            /\ h.valuestring[item] \in Strings \cup {NULL}
        BY <1>2, HeapFields
      <3> QED
        BY <2>1, <3>1, HeapFields
    <2>4. const \subseteq n.live
      BY <1>1, <1>5, <2>1
    <2> HIDE DEF const, type, valueint, valuestring
    <2>5. /\ g \in Heap /\ g.live = n.live /\ g.ref = n.ref \cup {r} /\ g.const = const
          /\ g.next = n.next /\ g.prev = n.prev /\ g.child = child /\ g.ret = r
      BY <2>1, <2>2, <2>3 DEF Heap
    <2>6. WellFormed(g, roots \cup {r})
      <3>1. g.ref = IF TRUE THEN h.ref \cup {r} ELSE h.ref
        BY <1>1, <1>5, <2>5
      <3>2. g.child = h.child \/ (TRUE /\ \E c : g.child = [h.child EXCEPT ![r] = c])
        BY <1>1, <2>5
      <3>3. TRUE \in BOOLEAN /\ g.const \subseteq g.live /\ g.live = h.live \cup {r}
        BY <1>1, <1>5, <2>4, <2>5
      <3>4. g.next = h.next /\ g.prev = h.prev
        BY <1>1, <2>5
      <3> QED
        BY ONLY WellFormed(h, roots), <2>1, <2>5, <3>1, <3>2, <3>3, <3>4, AnotherItem
    <2>7. Returned(g) = {r}
      BY <1>5, <2>5 DEF Returned
    <2>8. h.live \ h.ref \subseteq g.live \ g.ref
      BY <1>1, <1>5, <2>1, <2>5
    <2> QED
      BY <2>1, <2>5, <2>6, <2>7, <2>8 DEF Creates, g
  <1> QED
    BY <1>4, <1>5

\* Linking at the end of a list needs no more than a root: it is never a member.
LEMMA RootsAreNotMembers ==
    ASSUME NEW h, NEW roots, WellFormed(h, roots), NEW p \in h.live \ h.ref,
           NEW item \in roots
    PROVE  item \notin Members(h, p)
  <1>1. /\ h.prev[item] = NULL /\ h.child[p] # item /\ h \in Heap /\ h.live \subseteq Items
    BY PointersOf
  <1>2. Members(h, p) \subseteq Items
    <2>1. p \in Items /\ h.child[p] \in Items \cup {NULL}
      BY <1>1, HeapFields
    <2> QED
      BY <1>1, <2>1, WalkedCloses DEF Members
  <1> QED
    BY <1>1, <1>2, MemberLinks, HeapAssumption DEF WellFormed

LEMMA Appended ==
    ASSUME NEW h, NEW roots, WellFormed(h, roots), NEW p \in h.live \ h.ref,
           NEW item \in roots \cup {NULL}
    PROVE  LET n == add_item_to_array(h, p, item)
           IN  WellFormed(n, roots \ Returned(n)) /\ n.ret = item
  <1> DEFINE n == add_item_to_array(h, p, item)
  <1>1. /\ h \in Heap /\ h.live \subseteq Items /\ h.const \subseteq h.live
        /\ roots \subseteq h.live
    BY PointersOf DEF WellFormed, HeapOK
  <1>2. CASE item = NULL
    <2>1. n = [h EXCEPT !.ret = NULL]
      BY <1>2 DEF add_item_to_array
    <2> HIDE DEF n
    <2>2. n.ret = NULL
      BY <1>1, <2>1 DEF Heap
    <2>3. WellFormed([h EXCEPT !.ret = NULL], roots)
      BY 0 \in Nat, NULL \in Items \cup {NULL}, OtherCall
    <2>4. roots \ Returned(n) = roots
      BY <2>2 DEF Returned
    <2> QED
      BY <1>2, <2>1, <2>2, <2>3, <2>4 DEF n
  <1>3. CASE item # NULL /\ h.child[p] = NULL
    <2> DEFINE child == [h.child EXCEPT ![p] = item]
    <2>1. item \in roots /\ item \in Items
      BY <1>1, <1>3
    <2>2. n = [h EXCEPT !.child = child, !.ret = item]
      BY <1>1, <1>3 DEF add_item_to_array, Heap
    <2>3. child \in [Items -> Items \cup {NULL}]
      BY <1>1, <2>1, HeapFields
    <2> HIDE DEF n, child
    <2>4. /\ n \in Heap /\ n.live = h.live /\ n.ref = h.ref /\ n.const = h.const
          /\ n.next = h.next /\ n.prev = h.prev /\ n.child = child /\ n.ret = item
      BY <1>1, <2>1, <2>2, <2>3 DEF Heap
    <2>5. WellFormed(n, roots \ {item})
      BY <1>1, <1>3, <2>1, <2>4, LinkFirst DEF child
    <2>6. Returned(n) = {item}
      BY <1>3, <2>4 DEF Returned
    <2> QED
      BY <2>4, <2>5, <2>6 DEF n
  <1>4. CASE item # NULL /\ h.child[p] # NULL
    <2> DEFINE last == CHOOSE c \in Members(h, p) : h.next[c] = NULL
               next == [h.next EXCEPT ![last] = item]
               prev == [h.prev EXCEPT ![item] = last]
    <2>1. item \in roots /\ item \in Items
      BY <1>1, <1>4
    <2>2. last \in Members(h, p) /\ h.next[last] = NULL
      BY <1>4 DEF WellFormed, ListsEnd
    <2>3. last \in h.live /\ last \in Items
      BY <1>1, <2>2, MemberLinks DEF WellFormed
    <2>4. last # item /\ last \notin roots
      BY <2>1, <2>2, RootsAreNotMembers
    <2>5. n = [suffix_object(h, last, item) EXCEPT !.ret = item]
      BY <1>4 DEF add_item_to_array
    <2> HIDE DEF last
    <2>6. n = [h EXCEPT !.next = next, !.prev = prev, !.ret = item]
      BY <1>1, <2>5 DEF suffix_object, Heap
    <2>7. next \in [Items -> Items \cup {NULL}] /\ prev \in [Items -> Items \cup {NULL}]
      BY <1>1, <2>1, <2>3, HeapFields
    <2> HIDE DEF n, next, prev
    <2>8. /\ n \in Heap /\ n.live = h.live /\ n.ref = h.ref /\ n.const = h.const
          /\ n.next = next /\ n.prev = prev /\ n.child = h.child /\ n.ret = item
      BY <1>1, <2>1, <2>6, <2>7 DEF Heap
    <2>9. WellFormed(n, (roots \ {item}) \ {last})
      BY <1>1, <2>1, <2>2, <2>3, <2>4, <2>8, LinkAfter DEF next, prev
    <2>10. (roots \ {item}) \ {last} = roots \ {item}
      BY <2>4
    <2>11. Returned(n) = {item}
      BY <1>4, <2>8 DEF Returned
    <2> QED
      BY <2>8, <2>9, <2>10, <2>11 DEF n
  <1> QED
    BY <1>2, <1>3, <1>4

\* Giving an item a key, with or without the allocation of the copy.
LEMMA Renamed ==
    ASSUME NEW h, NEW roots, WellFormed(h, roots), NEW item \in h.live,
           NEW name \in Strings \cup {NULL}, NEW constant_key \in BOOLEAN,
           NEW c, c = h \/ (h.mem > 0 /\ c = Copied(h))
    PROVE  LET g == SetString(c, item, name, constant_key)
           IN  /\ WellFormed(g, roots)
               /\ g.live = h.live /\ g.ref = h.ref
               /\ g.next = h.next /\ g.prev = h.prev /\ g.child = h.child
  <1> DEFINE g == SetString(c, item, name, constant_key)
             string == [c.string EXCEPT ![item] = name]
             const == IF constant_key THEN c.const \cup {item} ELSE c.const \ {item}
             blocks == IF OwnsString(c, item) THEN c.blocks - 1 ELSE c.blocks
  <1>1. /\ h \in Heap /\ h.live \subseteq Items /\ h.const \subseteq h.live
    BY PointersOf DEF WellFormed, HeapOK
  <1>2. /\ c \in Heap /\ c.live = h.live /\ c.ref = h.ref /\ c.const = h.const
        /\ c.next = h.next /\ c.prev = h.prev /\ c.child = h.child
    <2>1. CASE c = h
      BY <1>1, <2>1
    <2>2. CASE h.mem > 0 /\ c = Copied(h)
      <3>1. h.mem - 1 \in Nat /\ h.blocks + 1 \in Int
        BY <1>1, <2>2, HeapFields
      <3> QED
        BY <1>1, <2>2, <3>1 DEF Copied, Heap
    <2> QED
      BY <2>1, <2>2
  <1>3. g = [c EXCEPT !.string = string, !.const = const, !.blocks = blocks]
    BY <1>2 DEF SetString, Heap
  <1>4. /\ string \in [Items -> Strings \cup {NULL}] /\ const \in SUBSET Items
        /\ blocks \in Int /\ const \subseteq h.live
    BY <1>1, <1>2, HeapFields
  <1> HIDE DEF g, string, const, blocks
  <1>5. /\ g \in Heap /\ g.live = h.live /\ g.ref = h.ref /\ g.const = const
        /\ g.next = h.next /\ g.prev = h.prev /\ g.child = h.child
    BY <1>2, <1>3, <1>4 DEF Heap
  <1>6. WellFormed(g, roots)
    BY <1>4, <1>5, SameLinks
  <1> QED
    BY <1>5, <1>6 DEF g

LEMMA AddedToObject ==
    ASSUME NEW h, NEW roots, WellFormed(h, roots), NEW p \in h.live \ h.ref,
           NEW item \in roots \cup {NULL}, NEW name \in Strings, NEW constant_key \in BOOLEAN
    PROVE  LET n == add_item_to_object(h, p, name, item, constant_key)
           IN  WellFormed(n, roots \ Returned(n)) /\ n.ret \in {item, NULL}
  <1> DEFINE n == add_item_to_object(h, p, name, item, constant_key)
             c == IF constant_key THEN h ELSE Copied(h)
             g == SetString(c, item, name, constant_key)
  <1>1. h \in Heap /\ roots \subseteq h.live
    BY PointersOf
  <1>2. CASE item = NULL \/ ~(constant_key \/ CanCopy(h, name))
    <2>1. n = [h EXCEPT !.ret = NULL]
      BY <1>2 DEF add_item_to_object
    <2> HIDE DEF n
    <2>2. n.ret = NULL
      BY <1>1, <2>1 DEF Heap
    <2>3. WellFormed([h EXCEPT !.ret = NULL], roots)
      BY 0 \in Nat, NULL \in Items \cup {NULL}, OtherCall
    <2>4. roots \ Returned(n) = roots
      BY <2>2 DEF Returned
    <2> QED
      BY <2>1, <2>2, <2>3, <2>4 DEF n
  <1>3. CASE ~(item = NULL \/ ~(constant_key \/ CanCopy(h, name)))
    <2>1. n = add_item_to_array(g, p, item)
      BY <1>3 DEF add_item_to_object
    <2>2. c = h \/ (h.mem > 0 /\ c = Copied(h))
      BY <1>3 DEF CanCopy
    <2>3. item \in h.live /\ name \in Strings \cup {NULL} /\ item \in roots \cup {NULL}
      BY <1>1, <1>3
    <2> HIDE DEF n, c
    <2>4. WellFormed(g, roots) /\ g.live = h.live /\ g.ref = h.ref
      BY <2>2, <2>3, Renamed
    <2> HIDE DEF g
    <2>5. p \in g.live \ g.ref
      BY <2>4
    <2>6. WellFormed(n, roots \ Returned(n)) /\ n.ret = item
      BY <2>1, <2>3, <2>4, <2>5, Appended
    <2> QED
      BY <2>6 DEF n
  <1> QED
    BY <1>2, <1>3

LEMMA AddedCreated ==
    ASSUME NEW h, NEW roots, WellFormed(h, roots), NEW p \in h.live \ h.ref,
           NEW n, Creates(h, roots, n), NEW name \in Strings
    PROVE  WellFormed(AddCreatedToObject(n, p, name), roots)
  <1> DEFINE item == n.ret
             added == add_item_to_object(n, p, name, item, FALSE)
             g == AddCreatedToObject(n, p, name)
  <1>1. /\ WellFormed(n, roots \cup Returned(n)) /\ p \in n.live \ n.ref
        /\ item \in (Items \ h.live) \cup {NULL} /\ roots \subseteq h.live
    BY PointersOf DEF Creates
  <1>2. item \in (roots \cup Returned(n)) \cup {NULL}
    BY DEF Returned
  <1>3. /\ WellFormed(added, (roots \cup Returned(n)) \ Returned(added))
        /\ added.ret \in {item, NULL}
    BY <1>1, <1>2, AddedToObject, FALSE \in BOOLEAN
  <1>4. g = IF added.ret # NULL THEN added ELSE [cJSON_Delete(added, item) EXCEPT !.ret = NULL]
    BY DEF AddCreatedToObject
  <1> HIDE DEF added, g
  <1>5. CASE added.ret # NULL
    <2>1. roots \in SUBSET ((roots \cup Returned(n)) \ Returned(added))
      BY <1>1, <1>3, <1>5 DEF Returned
    <2>2. WellFormed(added, roots)
      BY <1>3, <2>1, FewerRoots
    <2> QED
      BY <1>4, <1>5, <2>2 DEF g
  <1>6. CASE added.ret = NULL
    <2> DEFINE d == cJSON_Delete(added, item)
    <2>1. WellFormed(d, roots)
      <3>1. CASE item = NULL
        <4>1. (roots \cup Returned(n)) \ Returned(added) = roots
          BY <1>6, <3>1 DEF Returned
        <4> QED
          BY <1>3, <3>1, <4>1, DeleteNothing
      <3>2. CASE item # NULL
        <4>1. (roots \cup Returned(n)) \ Returned(added) = roots \cup {item}
          BY <1>6, <3>2 DEF Returned
        <4>2. WellFormed(d, (roots \cup {item}) \ {item})
          BY <1>3, <4>1, DeleteFrees, item \in roots \cup {item}
        <4>3. (roots \cup {item}) \ {item} = roots
          BY <1>1, <3>2
        <4> QED
          BY <4>2, <4>3
      <3> QED
        BY <3>1, <3>2
    <2> HIDE DEF d
    <2>2. WellFormed([d EXCEPT !.ret = NULL], roots)
      BY <2>1, 0 \in Nat, NULL \in Items \cup {NULL}, OtherCall
    <2> QED
      BY <1>4, <1>6, <2>2 DEF d, g
  <1> QED
    BY <1>5, <1>6

LEMMA Inserted ==
    ASSUME NEW h, NEW roots, WellFormed(h, roots), NEW p \in h.live \ h.ref,
           NEW after \in Members(h, p) \cup {NULL}, NEW item \in roots
    PROVE  WellFormed(cJSON_InsertItemInArray(h, p, after, item), roots \ {item})
  <1> DEFINE g == cJSON_InsertItemInArray(h, p, after, item)
  <1>1. /\ h \in Heap /\ h.live \subseteq Items /\ h.const \subseteq h.live
        /\ roots \subseteq h.live
    BY PointersOf DEF WellFormed, HeapOK
  <1>2. CASE after = NULL
    <2>1. g = add_item_to_array(h, p, item)
      BY <1>2 DEF cJSON_InsertItemInArray
    <2>2. item # NULL /\ item \in roots \cup {NULL}
      BY <1>1, HeapAssumption
    <2> HIDE DEF g
    <2>3. WellFormed(g, roots \ Returned(g)) /\ g.ret = item
      BY <2>1, <2>2, Appended
    <2>4. Returned(g) = {item}
      BY <2>2, <2>3 DEF Returned
    <2> QED
      BY <2>3, <2>4 DEF g
  <1>3. CASE after # NULL
    <2> DEFINE before == h.prev[after]
               next == [(IF after = h.child[p] THEN h.next ELSE Put(h.next, before, item))
                        EXCEPT ![item] = after]
               prev == [h.prev EXCEPT ![item] = before, ![after] = item]
               child == [h.child EXCEPT ![p] = IF after = h.child[p] THEN item ELSE h.child[p]]
    <2>1. /\ after \in Members(h, p) /\ after \in Items /\ item \in Items
          /\ before \in Items \cup {NULL} /\ item # after
      <3>1. after \in Members(h, p)
        BY <1>3
      <3>2. after \in h.live
        BY <1>1, <3>1, MemberLinks DEF WellFormed
      <3>3. item # after
        BY <3>1, RootsAreNotMembers
      <3> QED
        BY <1>1, <3>1, <3>2, <3>3, HeapFields
    <2>2. g = [h EXCEPT !.next = next, !.prev = prev, !.child = child]
      BY <1>1, <1>3 DEF cJSON_InsertItemInArray, Heap
    <2>3. /\ next \in [Items -> Items \cup {NULL}] /\ prev \in [Items -> Items \cup {NULL}]
          /\ child \in [Items -> Items \cup {NULL}]
      BY <1>1, <2>1, HeapFields DEF Put
    <2> HIDE DEF g, next, prev, child
    <2>4. /\ g \in Heap /\ g.live = h.live /\ g.ref = h.ref /\ g.const = h.const
          /\ g.next = next /\ g.prev = prev /\ g.child = child
      BY <1>1, <2>2, <2>3 DEF Heap
    <2>5. WellFormed(g, roots \ {item})
      BY <1>1, <2>1, <2>4, LinkBefore DEF next, prev, child
    <2> QED
      BY <2>5 DEF g
  <1> QED
    BY <1>2, <1>3

LEMMA Detached ==
    ASSUME NEW h, NEW roots, WellFormed(h, roots), NEW p \in h.live \ h.ref,
           NEW item \in Members(h, p) \cup {NULL}
    PROVE  LET n == cJSON_DetachItemViaPointer(h, p, item)
           IN  WellFormed(n, roots \cup Returned(n)) /\ n.ret = item
  <1> DEFINE n == cJSON_DetachItemViaPointer(h, p, item)
  <1>1. /\ h \in Heap /\ h.live \subseteq Items /\ h.const \subseteq h.live
    BY PointersOf DEF WellFormed, HeapOK
  <1>2. CASE item = NULL
    <2>1. n = [h EXCEPT !.ret = NULL]
      BY <1>2 DEF cJSON_DetachItemViaPointer
    <2> HIDE DEF n
    <2>2. n.ret = NULL
      BY <1>1, <2>1 DEF Heap
    <2>3. WellFormed([h EXCEPT !.ret = NULL], roots)
      BY 0 \in Nat, NULL \in Items \cup {NULL}, OtherCall
    <2>4. roots \cup Returned(n) = roots
      BY <2>2 DEF Returned
    <2> QED
      BY <1>2, <2>1, <2>2, <2>3, <2>4 DEF n
  <1>3. CASE item # NULL
    <2> DEFINE next == [Put(h.next, h.prev[item], h.next[item]) EXCEPT ![item] = NULL]
               prev == [Put(h.prev, h.next[item], h.prev[item]) EXCEPT ![item] = NULL]
               child == [h.child EXCEPT ![p] = IF h.child[p] = item THEN h.next[item]
                                               ELSE h.child[p]]
    <2>1. /\ item \in h.live /\ item \in Items
          /\ h.child[p] = item \/ h.prev[item] # NULL
      <3>1. item \in h.live /\ (item = h.child[p] \/ h.prev[item] \in Members(h, p) \ {item})
        BY <1>1, <1>3, MemberLinks DEF WellFormed
      <3>2. Members(h, p) \subseteq Items
        <4>1. p \in Items /\ h.child[p] \in Items \cup {NULL}
          BY <1>1, HeapFields
        <4> QED
          BY <1>1, <4>1, WalkedCloses DEF Members
      <3> QED
        BY <1>1, <3>1, <3>2, HeapAssumption
    <2>2. n = [h EXCEPT !.next = next, !.prev = prev, !.child = child, !.ret = item]
      BY <1>1, <1>3 DEF cJSON_DetachItemViaPointer, Heap
    <2>3. /\ next \in [Items -> Items \cup {NULL}] /\ prev \in [Items -> Items \cup {NULL}]
          /\ child \in [Items -> Items \cup {NULL}]
      BY <1>1, <2>1, HeapFields DEF Put
    <2> HIDE DEF n, next, prev, child
    <2>4. /\ n \in Heap /\ n.live = h.live /\ n.ref = h.ref /\ n.const = h.const
          /\ n.next = next /\ n.prev = prev /\ n.child = child /\ n.ret = item
      BY <1>1, <2>1, <2>2, <2>3 DEF Heap
    <2>5. WellFormed(n, roots \cup {item})
      BY <1>1, <2>1, <2>4, Unlink DEF next, prev, child
    <2>6. Returned(n) = {item}
      BY <1>3, <2>4 DEF Returned
    <2> QED
      BY <2>4, <2>5, <2>6 DEF n
  <1> QED
    BY <1>2, <1>3

LEMMA Replaced ==
    ASSUME NEW h, NEW roots, WellFormed(h, roots), NEW p \in h.live \ h.ref,
           NEW item \in Members(h, p) \cup {NULL}, NEW r \in roots
    PROVE  LET n == cJSON_ReplaceItemViaPointer(h, p, item, r)
           IN  /\ WellFormed(n, IF item = NULL THEN roots ELSE roots \ {r})
               /\ item = NULL => n = h
               /\ item # NULL => n.live # h.live
  <1> DEFINE n == cJSON_ReplaceItemViaPointer(h, p, item, r)
  <1>1. /\ h \in Heap /\ h.live \subseteq Items /\ h.const \subseteq h.live
        /\ roots \subseteq h.live
    BY PointersOf DEF WellFormed, HeapOK
  <1>2. CASE item = NULL
    BY <1>2 DEF cJSON_ReplaceItemViaPointer
  <1>3. CASE item # NULL
    <2> DEFINE next == [Put(h.next, h.prev[item], r) EXCEPT ![r] = h.next[item], ![item] = NULL]
               prev == [Put(h.prev, h.next[item], r) EXCEPT ![r] = h.prev[item], ![item] = NULL]
               child == [h.child EXCEPT ![p] = IF h.child[p] = item THEN r ELSE h.child[p]]
               g == [h EXCEPT !.next = next, !.prev = prev, !.child = child]
    <2>1. item \in Members(h, p) /\ r # item
      BY <1>3, RootsAreNotMembers
    <2>2. item \in h.live /\ item \in Items /\ r \in Items
      BY <1>1, <2>1, MemberLinks DEF WellFormed
    <2>3. n = cJSON_Delete(g, item)
      BY <1>1, <1>3, <2>1 DEF cJSON_ReplaceItemViaPointer, Heap
    <2>4. /\ next \in [Items -> Items \cup {NULL}] /\ prev \in [Items -> Items \cup {NULL}]
          /\ child \in [Items -> Items \cup {NULL}]
      BY <1>1, <2>2, HeapFields DEF Put
    <2> HIDE DEF n, next, prev, child
    <2>5. /\ g \in Heap /\ g.live = h.live /\ g.ref = h.ref /\ g.const = h.const
          /\ g.next = next /\ g.prev = prev /\ g.child = child
      BY <1>1, <2>4 DEF Heap
    <2> HIDE DEF g
    <2>6. WellFormed(g, (roots \ {r}) \cup {item})
      BY <1>1, <2>1, <2>5, Exchange DEF next, prev, child
    <2>7. WellFormed(n, ((roots \ {r}) \cup {item}) \ {item})
      BY <2>3, <2>6, DeleteFrees, item \in (roots \ {r}) \cup {item}
    <2>8. item \notin roots
      BY <2>1, RootsAreNotMembers
    <2>9. ((roots \ {r}) \cup {item}) \ {item} = roots \ {r}
      BY <2>8
    <2>10. n.live = g.live \ Freed(g, item) /\ item \in Freed(g, item)
      BY <2>2, <2>3, <2>5, DeletedFields, FreedCloses, HeapAssumption
    <2> QED
      BY <1>3, <2>2, <2>5, <2>7, <2>9, <2>10 DEF n
  <1> QED
    BY <1>2, <1>3

LEMMA ReplacedInObject ==
    ASSUME NEW h, NEW roots, WellFormed(h, roots), NEW p \in h.live \ h.ref,
           NEW r \in roots, NEW name \in Strings, NEW cs
    PROVE  LET n == replace_item_in_object(h, p, name, r, cs)
           IN  WellFormed(n, IF n.live = h.live THEN roots ELSE roots \ {r})
  <1> DEFINE c == IF CanCopy(h, name) THEN Copied(h) ELSE h
             key == IF CanCopy(h, name) THEN name ELSE NULL
             owned == FALSE
             g == SetString(c, r, key, owned)
             item == get_object_item(g, p, name, cs)
             n == cJSON_ReplaceItemViaPointer(g, p, item, r)
  <1>1. r \in h.live
    BY PointersOf
  <1>2. c = h \/ (h.mem > 0 /\ c = Copied(h))
    BY DEF CanCopy
  <1>3. key \in Strings \cup {NULL}
    OBVIOUS
  <1>4. replace_item_in_object(h, p, name, r, cs) = n
    BY DEF replace_item_in_object
  <1>5. owned \in BOOLEAN
    OBVIOUS
  <1> HIDE DEF c, key, owned
  <1>6. WellFormed(g, roots) /\ g.live = h.live /\ g.ref = h.ref
    <2>1. ASSUME NEW constant_key \in BOOLEAN
          PROVE  LET s == SetString(c, r, key, constant_key)
                 IN  WellFormed(s, roots) /\ s.live = h.live /\ s.ref = h.ref
      BY <1>1, <1>2, <1>3, Renamed
    <2> QED
      BY <1>5, <2>1, Zenon
  <1> HIDE DEF g
  <1>7. p \in g.live \ g.ref /\ g \in Heap /\ p \in Items
    BY <1>6, PointersOf
  <1>8. item \in Members(g, p) \cup {NULL}
    BY <1>7, GetObjectItem
  <1> HIDE DEF item
  <1>9. /\ WellFormed(n, IF item = NULL THEN roots ELSE roots \ {r})
        /\ item = NULL => n = g
        /\ item # NULL => n.live # g.live
    BY <1>6, <1>7, <1>8, Replaced
  <1> HIDE DEF n
  <1>10. WellFormed(n, IF n.live = h.live THEN roots ELSE roots \ {r})
    BY <1>6, <1>9
  <1> QED
    BY <1>4, <1>10
=============================================================================
