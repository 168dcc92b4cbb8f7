-------------------------- MODULE CJsonOwnerProofs --------------------------
(***************************************************************************)
(* What the functions of cJSON.c do to the ownership of items and strings: *)
(* in a sound heap every live item is in the tree of exactly one root,     *)
(* whoever has that root can delete it, and every string has exactly one   *)
(* item that frees it. Each function leaves a sound heap sound.            *)
(***************************************************************************)
EXTENDS CJsonListProofs

-----------------------------------------------------------------------------
(* Predecessors *)

\* A walk comes to item b from c: c is the item before it or its parent.
Pred(h, c, b) == h.next[c] = b \/ (c \notin h.ref /\ h.child[c] = b)

\* No item is reached from itself: a set that holds a predecessor of each of
\* its items is empty.
Grounded(h) ==
    \A S \in SUBSET h.live : (\A b \in S : \E c \in S : Pred(h, c, b)) => S = {}

\* What has no predecessor is the program's, or a reference.
Claimed(h, roots) ==
    \A a \in h.live : (\A c \in h.live : ~Pred(h, c, a)) => a \in roots \cup h.ref

LEMMA PredIsLive ==
    ASSUME NEW h, NEW roots, WellFormed(h, roots), NEW c \in h.live, NEW b, b # NULL,
           Pred(h, c, b)
    PROVE  b \in h.live
  BY PointersOf DEF Pred

LEMMA PredIsUnique ==
    ASSUME NEW h, NEW roots, WellFormed(h, roots), NEW b \in h.live,
           NEW c \in h.live, Pred(h, c, b), NEW d \in h.live, Pred(h, d, b)
    PROVE  c = d
  <1>1. b # NULL /\ b \in Items /\ c \in Items /\ d \in Items /\ c # NULL /\ d # NULL
    BY PointersOf, HeapAssumption
  <1> QED
    BY <1>1, PointersOf DEF Pred

LEMMA RootsHaveNoPred ==
    ASSUME NEW h, NEW roots, WellFormed(h, roots), NEW a \in roots, NEW c \in h.live
    PROVE  ~Pred(h, c, a)
  <1>1. c \in Items /\ a \in Items /\ a # NULL /\ c # NULL
    BY PointersOf, HeapAssumption
  <1> QED
    BY <1>1, PointersOf DEF Pred

\* The roots of Accounted are the items without a predecessor.
LEMMA RootsSpelledOut ==
    ASSUME NEW h, NEW roots, WellFormed(h, roots), NEW a \in h.live
    PROVE  (h.prev[a] = NULL /\ Owners(h, a) = {}) <=> \A c \in h.live : ~Pred(h, c, a)
  <1>1. /\ a # NULL /\ a \in Items /\ h.live \subseteq Items /\ NULL \notin h.live
        /\ \A y \in Items : h.next[y] # NULL =>
             y \in h.live /\ h.next[y] \in h.live /\ h.prev[h.next[y]] = y
        /\ \A y \in Items : h.prev[y] # NULL =>
             y \in h.live /\ h.prev[y] \in h.live /\ h.next[h.prev[y]] = y
    BY PointersOf, HeapAssumption
  <1>2. Owners(h, a) = {} <=> \A c \in h.live : ~(c \notin h.ref /\ h.child[c] = a)
    BY DEF Owners
  <1>3. h.prev[a] = NULL <=> \A c \in h.live : h.next[c] # a
    BY <1>1
  <1> QED
    BY <1>2, <1>3 DEF Pred

LEMMA FreedIsLive ==
    ASSUME NEW h, NEW roots, WellFormed(h, roots), NEW a \in h.live
    PROVE  /\ Freed(h, a) \subseteq h.live
           /\ a \in Freed(h, a)
           /\ \A c \in Freed(h, a), b \in h.live : Pred(h, c, b) => b \in Freed(h, a)
           /\ \A b \in Freed(h, a) \ {a} : \E c \in Freed(h, a) : Pred(h, c, b)
  <1>1. h \in Heap /\ h.live \in SUBSET Items /\ a \in Items /\ a # NULL
    BY PointersOf, HeapAssumption
  <1>2. DeleteCloses(h, h.live)
    BY PointersOf DEF DeleteCloses
  <1>3. Freed(h, a) \subseteq h.live
    BY <1>1, <1>2, FreedSmallest
  <1>4. /\ a \in Freed(h, a) \cup {NULL}
        /\ \A b \in Freed(h, a) : h.next[b] \in Freed(h, a) \cup {NULL}
        /\ \A b \in Freed(h, a) \ h.ref : h.child[b] \in Freed(h, a) \cup {NULL}
    BY <1>1, FreedCloses
  <1>5. NULL \notin h.live
    BY <1>1, HeapAssumption
  <1>6. \A b \in Freed(h, a) \ {a} : \E c \in Freed(h, a) : Pred(h, c, b)
    BY <1>1, FreedHasPredecessor DEF Pred
  <1> QED
    BY <1>1, <1>3, <1>4, <1>5, <1>6 DEF Pred

\* Trees of different roots have nothing in common.
LEMMA TreesApart ==
    ASSUME NEW h, NEW roots, WellFormed(h, roots), NEW a \in h.live, NEW c \in h.live, a # c,
           \A d \in h.live : ~Pred(h, d, a) /\ ~Pred(h, d, c)
    PROVE  Freed(h, a) \cap Freed(h, c) = {}
  <1> DEFINE S == Freed(h, a) \ Freed(h, c)
  <1>1. /\ Freed(h, a) \subseteq h.live /\ a \in Freed(h, a)
        /\ \A d \in Freed(h, a), b \in h.live : Pred(h, d, b) => b \in Freed(h, a)
    BY FreedIsLive
  <1>2. /\ Freed(h, c) \subseteq h.live /\ c \in Freed(h, c)
        /\ \A b \in Freed(h, c) \ {c} : \E d \in Freed(h, c) : Pred(h, d, b)
    BY FreedIsLive
  <1>3. h \in Heap /\ h.live \subseteq Items /\ NULL \notin h.live
    BY PointersOf, HeapAssumption
  <1>4. a \in S
    BY <1>1, <1>2
  <1>5. ASSUME NEW d \in S, NEW b \in h.live, Pred(h, d, b)
        PROVE  b \in S
    <2>1. b \in Freed(h, a) /\ b # c /\ d \in h.live
      BY <1>1, <1>5
    <2>2. b \notin Freed(h, c)
      <3> SUFFICES ASSUME b \in Freed(h, c) PROVE FALSE
        OBVIOUS
      <3>1. PICK e \in Freed(h, c) : Pred(h, e, b)
        BY <1>2, <2>1
      <3>2. e = d
        BY <1>2, <1>5, <2>1, <3>1, PredIsUnique
      <3> QED
        BY <3>1, <3>2
    <2> QED
      BY <2>1, <2>2
  <1>6. DeleteCloses(h, S)
    <2> SUFFICES ASSUME NEW d \in S
                 PROVE  /\ h.next[d] \in S \cup {NULL}
                        /\ d \in h.ref \/ h.child[d] \in S \cup {NULL}
      BY DEF DeleteCloses
    <2>1. d \in h.live
      BY <1>1
    <2> HIDE DEF S
    <2>2. h.next[d] # NULL => h.next[d] \in h.live /\ Pred(h, d, h.next[d])
      BY <1>3, <2>1, PointersOf DEF Pred
    <2>3. d \notin h.ref /\ h.child[d] # NULL => h.child[d] \in h.live /\ Pred(h, d, h.child[d])
      BY <1>3, <2>1, PointersOf DEF Pred
    <2> QED
      BY <1>5, <2>2, <2>3
  <1>7. Freed(h, a) \subseteq S
    BY <1>1, <1>3, <1>4, <1>6, FreedSmallest
  <1> QED
    BY <1>7

\* Every live item is in the tree of a root.
LEMMA TreesCover ==
    ASSUME NEW h, NEW roots, WellFormed(h, roots), Grounded(h), NEW b \in h.live
    PROVE  \E a \in h.live : b \in Freed(h, a) /\ \A c \in h.live : ~Pred(h, c, a)
  <1> DEFINE S == {x \in h.live : ~\E a \in h.live :
                     x \in Freed(h, a) /\ \A c \in h.live : ~Pred(h, c, a)}
  <1>1. ASSUME NEW x \in S PROVE \E c \in S : Pred(h, c, x)
    <2>1. x \in h.live /\ x \in Freed(h, x)
      BY FreedIsLive
    <2>2. PICK c \in h.live : Pred(h, c, x)
      BY <2>1
    <2>3. c \in S
      BY <2>1, <2>2, FreedIsLive
    <2> QED
      BY <2>2, <2>3
  <1>2. S \in SUBSET h.live
    OBVIOUS
  <1> HIDE DEF S
  <1>3. S = {}
    BY <1>1, <1>2 DEF Grounded
  <1> QED
    BY <1>3 DEF S

-----------------------------------------------------------------------------
(* One item between two others *)

\* g is h with the item, which had no predecessor, put between x and after,
\* or behind x if after is NULL.
Splice(h, g, x, item, after) ==
    /\ g.live = h.live /\ g.ref = h.ref
    /\ x \in h.live /\ item \in h.live /\ after \in h.live \cup {NULL}
    /\ item # after /\ item # x
    /\ \A c \in h.live : ~Pred(h, c, item) /\ (Pred(g, c, item) <=> c = x)
    /\ after # NULL =>
         \A c \in h.live : (Pred(h, c, after) <=> c = x) /\ (Pred(g, c, after) <=> c = item)
    /\ \A c, b \in h.live : b \notin {item, after} => (Pred(g, c, b) <=> Pred(h, c, b))

LEMMA GroundedIn ==
    ASSUME NEW h, NEW roots, WellFormed(h, roots), Grounded(h),
           NEW g, NEW x, NEW item, NEW after, Splice(h, g, x, item, after),
           x \notin Freed(h, item)
    PROVE  Grounded(g)
  <1> SUFFICES ASSUME NEW S \in SUBSET g.live, \A b \in S : \E c \in S : Pred(g, c, b)
               PROVE  S = {}
    BY DEF Grounded
  <1> DEFINE F == Freed(h, item)
  <1>1. /\ S \subseteq h.live /\ NULL \notin h.live
        /\ item \in h.live /\ x \in h.live /\ after \in h.live \cup {NULL}
    BY PointersOf, HeapAssumption DEF Splice
  <1>2. /\ item \in F
        /\ \A c \in F, b \in h.live : Pred(h, c, b) => b \in F
    BY <1>1, FreedIsLive
  <1> HIDE DEF F
  <1>3. x \notin F
    BY DEF F
  <1>4. item \in S => x \in S
    BY <1>1 DEF Splice
  <1>5. ASSUME NEW b \in S \ F PROVE \E c \in S \ F : Pred(h, c, b)
    <2>1. b # item /\ b \in h.live
      BY <1>1, <1>2
    <2>2. PICK c \in S : Pred(g, c, b)
      OBVIOUS
    <2>3. CASE b = after
      <3>1. c = item /\ Pred(h, x, b)
        BY <1>1, <2>1, <2>2, <2>3 DEF Splice
      <3> QED
        BY <1>3, <1>4, <2>2, <3>1
    <2>4. CASE b # after
      <3>1. Pred(h, c, b)
        BY <1>1, <2>1, <2>2, <2>4 DEF Splice
      <3>2. c \notin F
        BY <1>2, <2>1, <3>1
      <3> QED
        BY <2>2, <3>1, <3>2
    <2> QED
      BY <2>3, <2>4
  <1>6. S \ F = {}
    <2>1. S \ F \in SUBSET h.live
      BY <1>1
    <2> QED
      BY <1>5, <2>1 DEF Grounded
  <1>7. item \notin S
    BY <1>3, <1>4, <1>6
  <1>8. ASSUME NEW b \in S PROVE \E c \in S : Pred(h, c, b)
    <2>1. PICK c \in S : Pred(g, c, b)
      OBVIOUS
    <2>2. b # item /\ c # item /\ b \in h.live /\ c \in h.live
      BY <1>1, <1>7
    <2>3. b # after
      BY <1>1, <2>1, <2>2 DEF Splice
    <2> QED
      BY <2>1, <2>2, <2>3 DEF Splice
  <1> QED
    BY <1>1, <1>8 DEF Grounded

LEMMA GroundedOut ==
    ASSUME NEW h, NEW g, NEW x, NEW item, NEW after, Splice(h, g, x, item, after), Grounded(g),
           NULL \notin h.live
    PROVE  Grounded(h)
  <1> SUFFICES ASSUME NEW S \in SUBSET h.live, \A b \in S : \E c \in S : Pred(h, c, b)
               PROVE  S = {}
    BY DEF Grounded
  <1>1. /\ g.live = h.live /\ item \in h.live /\ x \in h.live /\ after \in h.live \cup {NULL}
        /\ item \notin S
    BY DEF Splice
  <1>2. CASE after \in S
    <2>1. x \in S
      BY <1>2 DEF Splice
    <2>2. ASSUME NEW b \in S \cup {item} PROVE \E c \in S \cup {item} : Pred(g, c, b)
      <3>1. CASE b = item
        BY <2>1, <3>1, <1>1 DEF Splice
      <3>2. CASE b = after
        BY <3>2, <1>1, <1>2 DEF Splice
      <3>3. CASE b \notin {item, after}
        <4>1. PICK c \in S : Pred(h, c, b)
          BY <3>3
        <4> QED
          BY <3>3, <4>1 DEF Splice
      <3> QED
        BY <3>1, <3>2, <3>3
    <2>3. S \cup {item} \in SUBSET g.live
      BY <1>1
    <2>4. S \cup {item} = {}
      BY <2>2, <2>3 DEF Grounded
    <2> QED
      BY <2>4
  <1>3. CASE after \notin S
    <2>1. ASSUME NEW b \in S PROVE \E c \in S : Pred(g, c, b)
      <3>1. PICK c \in S : Pred(h, c, b)
        OBVIOUS
      <3>2. b \notin {item, after}
        BY <1>1, <1>3
      <3> QED
        BY <3>1, <3>2 DEF Splice
    <2> QED
      BY <1>1, <2>1 DEF Grounded
  <1> QED
    BY <1>2, <1>3

LEMMA ClaimedIn ==
    ASSUME NEW h, NEW g, NEW roots, NEW x, NEW item, NEW after, Splice(h, g, x, item, after),
           Claimed(h, roots),
           NULL \notin h.live
    PROVE  Claimed(g, roots \ {item})
  <1> SUFFICES ASSUME NEW a \in g.live, \A c \in g.live : ~Pred(g, c, a)
               PROVE  a \in (roots \ {item}) \cup g.ref
    BY DEF Claimed
  <1>1. /\ a \in h.live /\ g.live = h.live /\ g.ref = h.ref
        /\ item \in h.live /\ x \in h.live /\ after \in h.live \cup {NULL}
    BY DEF Splice
  <1>2. a # item
    BY <1>1 DEF Splice
  <1>3. a # after
    BY <1>1 DEF Splice
  <1>4. \A c \in h.live : ~Pred(h, c, a)
    BY <1>1, <1>2, <1>3 DEF Splice
  <1> QED
    BY <1>1, <1>2, <1>4 DEF Claimed

LEMMA ClaimedOut ==
    ASSUME NEW h, NEW g, NEW roots, NEW x, NEW item, NEW after, Splice(h, g, x, item, after),
           Claimed(g, roots),
           NULL \notin h.live
    PROVE  Claimed(h, roots \cup {item})
  <1> SUFFICES ASSUME NEW a \in h.live, \A c \in h.live : ~Pred(h, c, a), a # item
               PROVE  a \in roots \cup h.ref
    BY DEF Claimed
  <1>1. g.live = h.live /\ g.ref = h.ref /\ x \in h.live
    BY DEF Splice
  <1>2. a # after
    BY <1>1 DEF Splice
  <1>3. \A c \in g.live : ~Pred(g, c, a)
    BY <1>1, <1>2 DEF Splice
  <1> QED
    BY <1>1, <1>3 DEF Claimed

\* Items that are gone took all they led to with them.
LEMMA GroundedWithout ==
    ASSUME NEW h, NEW g, g.live \subseteq h.live, Grounded(h),
           \A c, b \in g.live : Pred(g, c, b) => Pred(h, c, b)
    PROVE  Grounded(g)
  <1> SUFFICES ASSUME NEW S \in SUBSET g.live, \A b \in S : \E c \in S : Pred(g, c, b)
               PROVE  S = {}
    BY DEF Grounded
  <1>1. \A b \in S : \E c \in S : Pred(h, c, b)
    OBVIOUS
  <1> QED
    BY <1>1 DEF Grounded

LEMMA DeletedAnchored ==
    ASSUME NEW h, NEW roots, WellFormed(h, roots), Grounded(h), Claimed(h, roots),
           NEW a \in roots, NEW g, NEW F, F = Freed(h, a),
           g.live = h.live \ F, g.ref = h.ref \ F,
           g.next = Erase(h.next, F, NULL), g.child = Erase(h.child, F, NULL)
    PROVE  Grounded(g) /\ Claimed(g, roots \ {a})
  <1>1. a \in h.live /\ h.live \subseteq Items
    BY PointersOf
  <1>2. a \in F /\ \A c \in F, b \in h.live : Pred(h, c, b) => b \in F
    BY <1>1, FreedIsLive
  <1>3. \A c \in Items \ F : g.next[c] = h.next[c] /\ g.child[c] = h.child[c]
    BY DEF Erase
  <1>4. \A c, b \in g.live : Pred(g, c, b) <=> Pred(h, c, b)
    BY <1>1, <1>3 DEF Pred
  <1>5. Grounded(g)
    BY <1>4, GroundedWithout
  <1>6. ASSUME NEW b \in g.live, \A c \in g.live : ~Pred(g, c, b)
        PROVE  b \in (roots \ {a}) \cup g.ref
    <2>1. \A c \in h.live : ~Pred(h, c, b)
      BY <1>2, <1>4, <1>6
    <2> QED
      BY <1>2, <2>1 DEF Claimed
  <1> QED
    BY <1>5, <1>6 DEF Claimed

\* A new item leads nowhere.
LEMMA AnotherAnchored ==
    ASSUME NEW h, NEW roots, WellFormed(h, roots), Grounded(h), Claimed(h, roots),
           NEW a \in Items \ h.live, NEW g,
           g.live = h.live \cup {a}, g.ref \in {h.ref, h.ref \cup {a}},
           g.next = h.next, \A p \in Items \ {a} : g.child[p] = h.child[p],
           a \in g.ref \/ g.child[a] = h.child[a]
    PROVE  Grounded(g) /\ Claimed(g, roots \cup {a})
  <1>1. /\ h.live \subseteq Items /\ h.ref \subseteq h.live /\ NULL \notin g.live
        /\ h.next[a] = NULL /\ h.child[a] = NULL
    BY PointersOf, HeapAssumption DEF WellFormed, HeapOK
  <1>2. \A c \in h.live : g.next[c] # a /\ (c \notin h.ref => g.child[c] # a)
    BY <1>1, PointersOf, HeapAssumption
  <1>3. \A c, b \in g.live : Pred(g, c, b) <=> (c # a /\ b # a /\ Pred(h, c, b))
    BY <1>1, <1>2 DEF Pred
  <1>4. Grounded(g)
    <2> SUFFICES ASSUME NEW S \in SUBSET g.live, \A b \in S : \E c \in S : Pred(g, c, b)
                 PROVE  S = {}
      BY DEF Grounded
    <2>1. a \notin S
      BY <1>3
    <2>2. S \in SUBSET h.live /\ \A b \in S : \E c \in S : Pred(h, c, b)
      BY <1>3, <2>1
    <2> QED
      BY <2>2 DEF Grounded
  <1>5. Claimed(g, roots \cup {a})
    <2> SUFFICES ASSUME NEW b \in g.live, \A c \in g.live : ~Pred(g, c, b), b # a
                 PROVE  b \in roots \cup g.ref
      BY DEF Claimed
    <2>1. b \in h.live /\ \A c \in h.live : ~Pred(h, c, b)
      BY <1>3
    <2> QED
      BY <2>1 DEF Claimed
  <1> QED
    BY <1>4, <1>5

-----------------------------------------------------------------------------
(* Linking and unlinking are splices *)

LEMMA FirstSplices ==
    ASSUME NEW h, NEW roots, WellFormed(h, roots), NEW p \in h.live \ h.ref, h.child[p] = NULL,
           NEW item \in roots, item # p,
           NEW g, g.live = h.live, g.ref = h.ref,
           g.next = h.next, g.child = [h.child EXCEPT ![p] = item]
    PROVE  Splice(h, g, p, item, NULL)
  <1>1. /\ h.live \subseteq Items /\ NULL \notin h.live /\ item \in h.live
        /\ h.child \in [Items -> Items \cup {NULL}]
    BY PointersOf, HeapAssumption
  <1>2. \A c \in h.live : ~Pred(h, c, item)
    BY RootsHaveNoPred
  <1>3. \A c \in h.live : g.child[c] = IF c = p THEN item ELSE h.child[c]
    BY <1>1
  <1> QED
    BY <1>1, <1>2, <1>3 DEF Splice, Pred

LEMMA AfterSplices ==
    ASSUME NEW h, NEW roots, WellFormed(h, roots), NEW last \in h.live, h.next[last] = NULL,
           NEW item \in roots, item # last,
           NEW g, g.live = h.live, g.ref = h.ref,
           g.next = [h.next EXCEPT ![last] = item], g.child = h.child
    PROVE  Splice(h, g, last, item, NULL)
  <1>1. /\ h.live \subseteq Items /\ NULL \notin h.live /\ item \in h.live
        /\ h.next \in [Items -> Items \cup {NULL}]
    BY PointersOf, HeapAssumption
  <1>2. \A c \in h.live : ~Pred(h, c, item)
    BY RootsHaveNoPred
  <1>3. \A c \in h.live : g.next[c] = IF c = last THEN item ELSE h.next[c]
    BY <1>1
  <1> QED
    BY <1>1, <1>2, <1>3 DEF Splice, Pred

\* The predecessor of a member of p.
Before(h, p, b) == IF h.child[p] = b THEN p ELSE h.prev[b]

LEMMA MemberPred ==
    ASSUME NEW h, NEW roots, WellFormed(h, roots), NEW p \in h.live \ h.ref,
           NEW b \in Members(h, p)
    PROVE  /\ b \in h.live /\ Before(h, p, b) \in h.live /\ Pred(h, Before(h, p, b), b)
           /\ h.child[p] = b => h.prev[b] = NULL
           /\ h.child[p] # b => h.prev[b] \in Members(h, p) \ {b} /\ h.next[h.prev[b]] = b
  <1>1. /\ h \in Heap /\ h.live \subseteq Items /\ NULL \notin h.live
        /\ h.child[p] \in Items \cup {NULL}
    BY PointersOf, HeapAssumption
  <1>2. Members(h, p) \subseteq Items
    BY <1>1, WalkedCloses DEF Members
  <1>3. /\ b \in h.live
        /\ b = h.child[p] \/ h.prev[b] \in Members(h, p) \ {b}
    BY <1>1, MemberLinks DEF WellFormed
  <1>4. h.child[p] = b => h.prev[b] = NULL
    BY <1>1, <1>3, PointersOf
  <1>5. h.child[p] # b => h.prev[b] \in h.live /\ h.next[h.prev[b]] = b
    BY <1>1, <1>2, <1>3, PointersOf, HeapAssumption
  <1> QED
    BY <1>3, <1>4, <1>5 DEF Before, Pred

LEMMA BeforeSplices ==
    ASSUME NEW h, NEW roots, WellFormed(h, roots), NEW p \in h.live \ h.ref,
           NEW after \in Members(h, p), NEW item \in roots, item # after, item # p,
           NEW g, g.live = h.live, g.ref = h.ref,
           g.next = [(IF after = h.child[p] THEN h.next ELSE Put(h.next, h.prev[after], item))
                     EXCEPT ![item] = after],
           g.child = [h.child EXCEPT ![p] = IF after = h.child[p] THEN item ELSE h.child[p]]
    PROVE  Splice(h, g, Before(h, p, after), item, after)
  <1> DEFINE x == Before(h, p, after)
  <1>1. /\ h.live \subseteq Items /\ NULL \notin h.live /\ item \in h.live
        /\ h.next \in [Items -> Items \cup {NULL}] /\ h.child \in [Items -> Items \cup {NULL}]
        /\ h.next[item] = NULL
    BY PointersOf, HeapAssumption
  <1>2. \A c \in h.live : ~Pred(h, c, item)
    BY RootsHaveNoPred
  <1>3. /\ after \in h.live /\ x \in h.live /\ Pred(h, x, after)
        /\ h.child[p] = after => x = p
        /\ h.child[p] # after => x = h.prev[after] /\ h.next[x] = after /\ x # after
    BY MemberPred DEF Before
  <1> HIDE DEF x
  <1>4. \A c \in h.live : Pred(h, c, after) <=> c = x
    BY <1>1, <1>3, PredIsUnique
  <1>5. item # x
    BY <1>1, <1>3
  <1>6. \A c \in h.live :
          /\ g.next[c] = IF c = item THEN after
                         ELSE IF h.child[p] # after /\ c = x THEN item ELSE h.next[c]
          /\ g.child[c] = IF h.child[p] = after /\ c = p THEN item ELSE h.child[c]
    BY <1>1, <1>3, <1>5 DEF Put
  <1>7. \A c \in h.live : Pred(g, c, item) <=> c = x
    BY <1>1, <1>2, <1>3, <1>6 DEF Pred
  <1>8. \A c \in h.live : Pred(g, c, after) <=> c = item
    <2> SUFFICES ASSUME NEW c \in h.live PROVE Pred(g, c, after) <=> c = item
      OBVIOUS
    <2>1. CASE c = item
      BY <1>6, <2>1 DEF Pred
    <2>2. CASE c = x
      <3>1. CASE h.child[p] = after
        <4>1. h.next[p] # after
          BY <1>1, <1>3, <3>1, MemberPred, PointersOf
        <4> QED
          BY <1>3, <1>5, <1>6, <2>2, <3>1, <4>1 DEF Pred
      <3>2. CASE h.child[p] # after
        <4>1. x \notin h.ref => h.child[x] # after
          BY <1>1, <1>3, <3>2, PointersOf
        <4> QED
          BY <1>3, <1>5, <1>6, <2>2, <3>2, <4>1 DEF Pred
      <3> QED
        BY <3>1, <3>2
    <2>3. CASE c # x /\ c # item
      <3>1. ~Pred(h, c, after)
        BY <1>4, <2>3
      <3> QED
        BY <1>3, <1>6, <2>3, <3>1 DEF Pred
    <2> QED
      BY <2>1, <2>2, <2>3
  <1>9. \A c, b \in h.live : b \notin {item, after} => (Pred(g, c, b) <=> Pred(h, c, b))
    BY <1>1, <1>3, <1>6 DEF Pred
  <1> QED
    BY <1>1, <1>2, <1>3, <1>4, <1>5, <1>7, <1>8, <1>9 DEF Splice, x

LEMMA UnlinkSplices ==
    ASSUME NEW h, NEW roots, WellFormed(h, roots), NEW p \in h.live \ h.ref,
           NEW item \in Members(h, p), item # p,
           NEW g, NEW some, WellFormed(g, some), item \in some,
           g.live = h.live, g.ref = h.ref,
           g.next = [Put(h.next, h.prev[item], h.next[item]) EXCEPT ![item] = NULL],
           g.child = [h.child EXCEPT ![p] = IF h.child[p] = item THEN h.next[item]
                                            ELSE h.child[p]]
    PROVE  Splice(g, h, Before(h, p, item), item, h.next[item])
  <1> DEFINE x == Before(h, p, item)
             after == h.next[item]
  <1>1. /\ h.live \subseteq Items /\ NULL \notin h.live /\ item \in h.live
        /\ h.next \in [Items -> Items \cup {NULL}] /\ h.child \in [Items -> Items \cup {NULL}]
    BY PointersOf, HeapAssumption
  <1>2. \A c \in h.live : ~Pred(g, c, item)
    BY RootsHaveNoPred
  <1>3. /\ x \in h.live /\ Pred(h, x, item)
        /\ h.child[p] = item => x = p /\ h.prev[item] = NULL
        /\ h.child[p] # item => x = h.prev[item] /\ h.next[x] = item /\ x # item
    BY MemberPred DEF Before
  <1>4. /\ after \in h.live \cup {NULL} /\ (after # NULL => h.prev[after] = item)
        /\ after # item
    <2>1. after # NULL => after \in h.live /\ h.prev[after] = item
      BY <1>1, PointersOf
    <2>2. h.child[p] # item => h.prev[item] # item
      BY MemberPred
    <2> QED
      BY <1>1, <1>3, <2>1, <2>2
  <1> HIDE DEF x
  <1>5. \A c \in h.live : Pred(h, c, item) <=> c = x
    BY <1>1, <1>3, PredIsUnique
  <1>6. item # x
    BY <1>3
  <1>7. \A c \in h.live :
          /\ g.next[c] = IF c = item THEN NULL
                         ELSE IF h.child[p] # item /\ c = x THEN after ELSE h.next[c]
          /\ g.child[c] = IF h.child[p] = item /\ c = p THEN after ELSE h.child[c]
    <2> HIDE DEF after
    <2>1. after = h.next[item]
      BY DEF after
    <2>2. g.next = [Put(h.next, h.prev[item], after) EXCEPT ![item] = NULL]
      BY <2>1
    <2>3. g.child = [h.child EXCEPT ![p] = IF h.child[p] = item THEN after ELSE h.child[p]]
      BY <2>1
    <2>4. \A c \in h.live : g.child[c] = IF h.child[p] = item /\ c = p THEN after ELSE h.child[c]
      BY <1>1, <2>3
    <2>5. \A c \in h.live : g.next[c] = IF c = item THEN NULL
                         ELSE IF h.child[p] # item /\ c = x THEN after ELSE h.next[c]
      BY <1>1, <1>3, <2>2 DEF Put
    <2> QED
      BY <2>4, <2>5
  <1>8. after # NULL => \A c \in h.live : Pred(h, c, after) <=> c = item
    <2>1. after # NULL => Pred(h, item, after)
      BY DEF Pred
    <2> QED
      BY <1>1, <1>4, <2>1, PredIsUnique
  <1>9. after # NULL => \A c \in h.live : Pred(g, c, after) <=> c = x
    <2> SUFFICES ASSUME after # NULL, NEW c \in h.live PROVE Pred(g, c, after) <=> c = x
      OBVIOUS
    <2>1. CASE c = x
      BY <1>3, <1>6, <1>7, <2>1 DEF Pred
    <2>2. CASE c # x
      <3>1. CASE c = item
        <4>1. item \notin h.ref => h.child[item] # after
          BY <1>1, <1>4, PointersOf
        <4> QED
          BY <1>4, <1>7, <2>2, <3>1, <4>1 DEF Pred
      <3>2. CASE c # item
        BY <1>3, <1>7, <1>8, <2>2, <3>2 DEF Pred
      <3> QED
        BY <3>1, <3>2
    <2> QED
      BY <2>1, <2>2
  <1>10. \A c, b \in h.live : b \notin {item, after} => (Pred(g, c, b) <=> Pred(h, c, b))
    <2> SUFFICES ASSUME NEW c \in h.live, NEW b \in h.live, b # item, b # after
                 PROVE  Pred(g, c, b) <=> Pred(h, c, b)
      OBVIOUS
    <2> QED
      BY <1>1, <1>3, <1>7 DEF Pred
  <1> QED
    BY <1>1, <1>2, <1>3, <1>4, <1>5, <1>6, <1>8, <1>9, <1>10 DEF Splice, x

\* The members of an item outside a tree are outside that tree.
LEMMA MembersOutside ==
    ASSUME NEW h, NEW roots, WellFormed(h, roots), NEW p \in h.live \ h.ref,
           NEW a \in roots, p \notin Freed(h, a), NEW b \in Members(h, p)
    PROVE  b \notin Freed(h, a)
  <1> DEFINE S == Members(h, p) \ Freed(h, a)
  <1>1. /\ h \in Heap /\ h.live \subseteq Items /\ NULL \notin h.live /\ a \in h.live
        /\ h.child[p] \in Items \cup {NULL}
    BY PointersOf, HeapAssumption
  <1>2. /\ a \in Freed(h, a) /\ Freed(h, a) \subseteq h.live
        /\ \A y \in Freed(h, a) \ {a} : \E c \in Freed(h, a) : Pred(h, c, y)
    BY <1>1, FreedIsLive
  <1>3. ASSUME NEW c \in h.live \ Freed(h, a), NEW y \in h.live, y # a, Pred(h, c, y)
        PROVE  y \notin Freed(h, a)
    BY <1>2, <1>3, PredIsUnique
  <1>4. /\ Members(h, p) \subseteq Items /\ h.child[p] \in Members(h, p) \cup {NULL}
        /\ \A c \in Members(h, p) : h.next[c] \in Members(h, p) \cup {NULL}
    BY <1>1, WalkedCloses DEF Members, WalkCloses
  <1>5. h.child[p] \in S \cup {NULL}
    <2>1. h.child[p] # NULL => h.child[p] \in h.live /\ Pred(h, p, h.child[p]) /\ h.child[p] # a
      BY PointersOf DEF Pred
    <2> QED
      BY <1>3, <1>4, <2>1
  <1>6. ASSUME NEW c \in S PROVE h.next[c] \in S \cup {NULL}
    <2>1. h.next[c] # NULL => c \in h.live /\ h.next[c] \in h.live /\ Pred(h, c, h.next[c])
      BY <1>4, PointersOf DEF Pred
    <2>2. h.next[c] # NULL => h.next[c] # a
      BY <2>1, RootsHaveNoPred
    <2> QED
      BY <1>3, <1>4, <2>1, <2>2
  <1>7. WalkCloses(h, {}, S)
    BY <1>6 DEF WalkCloses
  <1>8. Members(h, p) \subseteq S
    BY <1>1, <1>4, <1>5, <1>7, WalkedSmallest DEF Members
  <1> QED
    BY <1>8

LEMMA NotOwnMember ==
    ASSUME NEW h, NEW roots, WellFormed(h, roots), Grounded(h), NEW p \in h.live \ h.ref
    PROVE  p \notin Members(h, p)
  <1> SUFFICES ASSUME p \in Members(h, p) PROVE FALSE
    OBVIOUS
  <1> DEFINE S == Members(h, p)
  <1>1. S \in SUBSET h.live
    BY MemberPred
  <1>2. \A b \in S : \E c \in S : Pred(h, c, b)
    BY MemberPred DEF Before
  <1> HIDE DEF S
  <1>3. S = {}
    BY <1>1, <1>2 DEF Grounded
  <1> QED
    BY <1>3 DEF S

-----------------------------------------------------------------------------
(* Sound heaps *)

Anchored(h, roots) == Grounded(h) /\ Claimed(h, roots)

StringOwners(h) == {a \in h.live : OwnsString(h, a)}
ValueOwners(h) == {a \in h.live : OwnsValue(h, a)}

\* Every string alive has its item, and what is not live has none.
Counted(h) ==
    /\ h.blocks = Cardinality(StringOwners(h)) + Cardinality(ValueOwners(h))
    /\ \A a \in Items \ h.live : h.string[a] = NULL /\ h.valuestring[a] = NULL

Sound(h, roots) == WellFormed(h, roots) /\ Anchored(h, roots) /\ Counted(h)

SameTree(h, g) == g.live = h.live /\ g.ref = h.ref /\ g.next = h.next /\ g.child = h.child
SameStrings(h, g) ==
    /\ g.const = h.const /\ g.string = h.string /\ g.valuestring = h.valuestring
    /\ g.blocks = h.blocks

LEMMA SameFreed ==
    ASSUME NEW h, NEW g, SameTree(h, g), NEW a
    PROVE  Freed(g, a) = Freed(h, a)
  BY DEF SameTree, Freed, DeleteCloses

LEMMA SameAnchored ==
    ASSUME NEW h, NEW g, SameTree(h, g), NEW roots, Anchored(h, roots)
    PROVE  Anchored(g, roots)
  <1>1. \A c, b : Pred(g, c, b) <=> Pred(h, c, b)
    BY DEF SameTree, Pred
  <1>2. Grounded(g)
    BY <1>1 DEF SameTree, Anchored, Grounded
  <1>3. Claimed(g, roots)
    BY <1>1 DEF SameTree, Anchored, Claimed
  <1> QED
    BY <1>2, <1>3 DEF Anchored

LEMMA SameCounted ==
    ASSUME NEW h, NEW g, g.live = h.live, g.ref = h.ref, SameStrings(h, g), Counted(h)
    PROVE  Counted(g)
  <1>1. \A a : (OwnsString(g, a) <=> OwnsString(h, a)) /\ (OwnsValue(g, a) <=> OwnsValue(h, a))
    BY DEF SameStrings, OwnsString, OwnsValue
  <1>2. StringOwners(g) = StringOwners(h) /\ ValueOwners(g) = ValueOwners(h)
    BY <1>1 DEF StringOwners, ValueOwners
  <1> QED
    BY <1>2 DEF Counted, SameStrings

LEMMA OwnersFinite ==
    ASSUME NEW h \in Heap
    PROVE  /\ IsFiniteSet(StringOwners(h)) /\ IsFiniteSet(ValueOwners(h))
           /\ Cardinality(StringOwners(h)) \in Nat /\ Cardinality(ValueOwners(h)) \in Nat
  <1>1. StringOwners(h) \subseteq Items /\ ValueOwners(h) \subseteq Items
    BY HeapFields DEF StringOwners, ValueOwners
  <1>2. IsFiniteSet(StringOwners(h)) /\ IsFiniteSet(ValueOwners(h))
    BY <1>1, HeapAssumption, FS_Subset
  <1> QED
    BY <1>2, FS_CardinalityType

\* The memory left and the pointer returned.
LEMMA SoundCall ==
    ASSUME NEW h, NEW roots, Sound(h, roots), NEW m \in Nat, NEW r \in Items \cup {NULL}
    PROVE  /\ Sound([h EXCEPT !.mem = m], roots)
           /\ Sound([h EXCEPT !.ret = r], roots)
           /\ Sound([h EXCEPT !.mem = m, !.ret = r], roots)
  <1>1. WellFormed(h, roots) /\ h \in Heap
    BY PointersOf DEF Sound
  <1>2. ASSUME NEW g \in {[h EXCEPT !.mem = m], [h EXCEPT !.ret = r],
                          [h EXCEPT !.mem = m, !.ret = r]}
        PROVE  Sound(g, roots)
    <2>1. WellFormed(g, roots)
      <3>1. /\ WellFormed([h EXCEPT !.mem = m], roots)
            /\ WellFormed([h EXCEPT !.ret = r], roots)
            /\ WellFormed([h EXCEPT !.mem = m, !.ret = r], roots)
        BY ONLY <1>1, m \in Nat, r \in Items \cup {NULL}, OtherCall, Zenon
      <3> QED
        BY ONLY <3>1, <1>2, Zenon
    <2>2. SameTree(h, g) /\ SameStrings(h, g)
      BY <1>1 DEF Heap, SameTree, SameStrings
    <2> QED
      BY <2>1, <2>2, SameAnchored, SameCounted DEF Sound, SameTree
  <1> QED
    BY <1>2

\* Freeing a tree frees the strings of its items, and no other.
LEMMA DeletedCounted ==
    ASSUME NEW h \in Heap, Counted(h), NEW F \in SUBSET Items, NEW g,
           g.live = h.live \ F, g.ref = h.ref \ F, g.const = h.const \ F,
           g.string = Erase(h.string, F, NULL), g.valuestring = Erase(h.valuestring, F, NULL),
           g.blocks = h.blocks - Cardinality({b \in F : OwnsString(h, b)})
                               - Cardinality({b \in F : OwnsValue(h, b)})
    PROVE  Counted(g)
  <1> DEFINE fs == {b \in F : OwnsString(h, b)}
             fv == {b \in F : OwnsValue(h, b)}
  <1>1. /\ \A b \in Items : g.string[b] = IF b \in F THEN NULL ELSE h.string[b]
        /\ \A b \in Items : g.valuestring[b] = IF b \in F THEN NULL ELSE h.valuestring[b]
        /\ h.live \subseteq Items /\ h.blocks \in Int
    BY HeapFields DEF Erase
  <1>2. fs \subseteq StringOwners(h) /\ fv \subseteq ValueOwners(h)
    BY DEF Counted, StringOwners, ValueOwners, OwnsString, OwnsValue
  <1>3. StringOwners(g) = StringOwners(h) \ fs
    BY <1>1 DEF StringOwners, OwnsString
  <1>4. ValueOwners(g) = ValueOwners(h) \ fv
    BY <1>1 DEF ValueOwners, OwnsValue
  <1> HIDE DEF fs, fv
  <1>5. ASSUME NEW A, NEW B, IsFiniteSet(A), B \subseteq A
        PROVE  Cardinality(A \ B) = Cardinality(A) - Cardinality(B)
               /\ Cardinality(B) \in Nat /\ Cardinality(A) \in Nat
    <2>1. IsFiniteSet(B) /\ A \cap B = B
      BY <1>5, FS_Subset
    <2>2. Cardinality(A \ B) = Cardinality(A) - Cardinality(A \cap B)
      BY <1>5, <2>1, FS_Difference
    <2> QED
      BY <1>5, <2>1, <2>2, FS_CardinalityType
  <1>6. /\ Cardinality(StringOwners(g)) = Cardinality(StringOwners(h)) - Cardinality(fs)
        /\ Cardinality(ValueOwners(g)) = Cardinality(ValueOwners(h)) - Cardinality(fv)
        /\ Cardinality(StringOwners(h)) \in Nat /\ Cardinality(ValueOwners(h)) \in Nat
        /\ Cardinality(fs) \in Nat /\ Cardinality(fv) \in Nat
    BY <1>2, <1>3, <1>4, <1>5, OwnersFinite
  <1>7. g.blocks = Cardinality(StringOwners(g)) + Cardinality(ValueOwners(g))
    BY <1>6 DEF Counted, fs, fv
  <1> QED
    BY <1>1, <1>7 DEF Counted

LEMMA DeletedStrings ==
    ASSUME NEW h \in Heap, NEW a \in Items \cup {NULL}
    PROVE  LET F == Freed(h, a)
               g == cJSON_Delete(h, a)
           IN  /\ g.string = Erase(h.string, F, NULL)
               /\ g.valuestring = Erase(h.valuestring, F, NULL)
               /\ g.blocks = h.blocks - Cardinality({b \in F : OwnsString(h, b)})
                                      - Cardinality({b \in F : OwnsValue(h, b)})
               /\ g.ret = h.ret
  <1> DEFINE F == Freed(h, a)
             g == cJSON_Delete(h, a)
             blocks == h.blocks - Cardinality({b \in F : OwnsString(h, b)})
                                - Cardinality({b \in F : OwnsValue(h, b)})
  <1>1. g = [h EXCEPT !.live = h.live \ F, !.ref = h.ref \ F, !.const = h.const \ F,
                      !.next = Erase(h.next, F, NULL), !.prev = Erase(h.prev, F, NULL),
                      !.child = Erase(h.child, F, NULL),
                      !.string = Erase(h.string, F, NULL),
                      !.valuestring = Erase(h.valuestring, F, NULL),
                      !.type = Erase(h.type, F, "Invalid"),
                      !.valueint = Erase(h.valueint, F, 0),
                      !.blocks = blocks]
    BY DEF cJSON_Delete, Heap
  <1> HIDE DEF F, g, blocks
  <1>2. /\ g.string = Erase(h.string, F, NULL) /\ g.valuestring = Erase(h.valuestring, F, NULL)
        /\ g.blocks = blocks /\ g.ret = h.ret
    BY <1>1 DEF Heap
  <1> QED
    BY <1>2 DEF F, g, blocks

LEMMA SoundDelete ==
    ASSUME NEW h, NEW roots, Sound(h, roots), NEW a \in roots
    PROVE  Sound(cJSON_Delete(h, a), roots \ {a})
  <1>0. PICK g, F :
         /\ g = cJSON_Delete(h, a)
         /\ F = Freed(h, a)
    OBVIOUS
  <1>1. WellFormed(h, roots) /\ h \in Heap /\ a \in Items
    BY PointersOf DEF Sound
  <1>2. /\ g.live = h.live \ F /\ g.ref = h.ref \ F /\ g.const = h.const \ F
        /\ g.next = Erase(h.next, F, NULL) /\ g.child = Erase(h.child, F, NULL)
    BY <1>0, <1>1, DeletedFields
  <1>3. /\ g.string = Erase(h.string, F, NULL) /\ g.valuestring = Erase(h.valuestring, F, NULL)
        /\ g.blocks = h.blocks - Cardinality({b \in F : OwnsString(h, b)})
                               - Cardinality({b \in F : OwnsValue(h, b)})
    BY <1>0, <1>1, DeletedStrings
  <1>4. WellFormed(g, roots \ {a})
    BY <1>0, <1>1, DeleteFrees
  <1>5. Anchored(g, roots \ {a})
    BY <1>0, <1>1, <1>2, DeletedAnchored DEF Sound, Anchored
  <1>6. F \subseteq Items
    BY <1>0, <1>1, FreedCloses
  <1>7. Counted(g)
    BY <1>1, <1>2, <1>3, <1>6, DeletedCounted DEF Sound
  <1> QED
    BY <1>0, <1>4, <1>5, <1>7 DEF Sound

LEMMA SoundDeleteNothing ==
    ASSUME NEW h, NEW roots, Sound(h, roots)
    PROVE  Sound(cJSON_Delete(h, NULL), roots)
  <1>0. PICK g : g = cJSON_Delete(h, NULL)
    OBVIOUS
  <1>1. WellFormed(h, roots) /\ h \in Heap /\ NULL \in Items \cup {NULL}
    BY PointersOf DEF Sound
  <1>2. Freed(h, NULL) = {}
    <2>1. DeleteCloses(h, {}) /\ {} \in SUBSET Items /\ NULL \in {} \cup {NULL}
      BY DEF DeleteCloses
    <2> QED
      BY <1>1, <2>1, FreedSmallest
  <1>3. /\ g.live = h.live \ {} /\ g.ref = h.ref \ {} /\ g.const = h.const \ {}
        /\ g.next = Erase(h.next, {}, NULL) /\ g.child = Erase(h.child, {}, NULL)
    BY <1>0, <1>1, <1>2, DeletedFields, ZenonT(60)
  <1>4. SameTree(h, g)
    <2>1. Erase(h.next, {}, NULL) = h.next /\ Erase(h.child, {}, NULL) = h.child
      BY <1>1, HeapFields DEF Erase
    <2> QED
      BY <1>3, <2>1 DEF SameTree
  <1>5. /\ g.string = Erase(h.string, {}, NULL) /\ g.valuestring = Erase(h.valuestring, {}, NULL)
        /\ g.blocks = h.blocks - Cardinality({b \in {} : OwnsString(h, b)})
                               - Cardinality({b \in {} : OwnsValue(h, b)})
    BY <1>0, <1>1, <1>2, DeletedStrings
  <1>6. Counted(g)
    BY <1>1, <1>3, <1>5, DeletedCounted, {} \in SUBSET Items DEF Sound
  <1>7. WellFormed(g, roots)
    BY <1>0, <1>1, DeleteNothing
  <1> QED
    BY <1>0, <1>4, <1>6, <1>7, SameAnchored DEF Sound

-----------------------------------------------------------------------------
(* Creation *)

\* What the creating functions share: the item in "ret", if there is one, is
\* new, and has at most a text and, if it is a reference, a child.
Fresh(h, n) ==
    \/ n.ret = NULL /\ SameTree(h, n) /\ SameStrings(h, n)
    \/ /\ n.ret \in Items \ h.live
       /\ n.live = h.live \cup {n.ret} /\ n.ref \in {h.ref, h.ref \cup {n.ret}}
       /\ n.next = h.next /\ \A p \in Items \ {n.ret} : n.child[p] = h.child[p]
       /\ n.ret \in n.ref \/ n.child[n.ret] = h.child[n.ret]
       /\ n.const \ {n.ret} = h.const \ {n.ret} /\ n.string = h.string
       /\ \A p \in Items \ {n.ret} : n.valuestring[p] = h.valuestring[p]
       /\ n.blocks = IF OwnsValue(n, n.ret) THEN h.blocks + 1 ELSE h.blocks

LEMMA FreshCounted ==
    ASSUME NEW h \in Heap, Counted(h), h.ref \subseteq h.live, NEW n, Fresh(h, n), n.ret # NULL
    PROVE  Counted(n)
  <1> DEFINE a == n.ret
  <1>1. /\ a \in Items \ h.live
        /\ n.live = h.live \cup {a} /\ n.ref \in {h.ref, h.ref \cup {a}}
        /\ n.const \ {a} = h.const \ {a} /\ n.string = h.string
        /\ \A p \in Items \ {a} : n.valuestring[p] = h.valuestring[p]
        /\ n.blocks = IF OwnsValue(n, a) THEN h.blocks + 1 ELSE h.blocks
    BY DEF Fresh
  <1> HIDE DEF a
  <1>2. h.string[a] = NULL /\ h.live \subseteq Items /\ h.blocks \in Int
    BY <1>1, HeapFields DEF Counted
  <1>3. StringOwners(n) = StringOwners(h)
    <2>1. \A b \in h.live : OwnsString(n, b) <=> OwnsString(h, b)
      BY <1>1 DEF OwnsString
    <2>2. ~OwnsString(n, a)
      BY <1>1, <1>2 DEF OwnsString
    <2> QED
      BY <1>1, <2>1, <2>2 DEF StringOwners
  <1>4. \A b \in h.live : OwnsValue(n, b) <=> OwnsValue(h, b)
    BY <1>1, <1>2 DEF OwnsValue
  <1>5. /\ IsFiniteSet(ValueOwners(h)) /\ a \notin ValueOwners(h)
        /\ Cardinality(StringOwners(h)) \in Nat /\ Cardinality(ValueOwners(h)) \in Nat
    BY <1>1, OwnersFinite DEF ValueOwners
  <1>6. n.blocks = Cardinality(StringOwners(n)) + Cardinality(ValueOwners(n))
    <2>1. CASE OwnsValue(n, a)
      <3>1. ValueOwners(n) = ValueOwners(h) \cup {a}
        BY <1>1, <1>4, <2>1 DEF ValueOwners
      <3>2. Cardinality(ValueOwners(n)) = Cardinality(ValueOwners(h)) + 1
        BY <1>5, <3>1, FS_AddElement
      <3> QED
        BY <1>1, <1>2, <1>3, <1>5, <2>1, <3>2 DEF Counted
    <2>2. CASE ~OwnsValue(n, a)
      <3>1. ValueOwners(n) = ValueOwners(h)
        BY <1>1, <1>4, <2>2 DEF ValueOwners
      <3> QED
        BY <1>1, <1>3, <2>2, <3>1 DEF Counted
    <2> QED
      BY <2>1, <2>2
  <1>7. \A b \in Items \ n.live : n.string[b] = NULL /\ n.valuestring[b] = NULL
    BY <1>1 DEF Counted
  <1> QED
    BY <1>6, <1>7 DEF Counted

LEMMA SoundFresh ==
    ASSUME NEW h, NEW roots, Sound(h, roots), NEW n, Creates(h, roots, n), Fresh(h, n)
    PROVE  Sound(n, roots \cup Returned(n))
  <1>1. /\ WellFormed(h, roots) /\ Anchored(h, roots) /\ Counted(h)
        /\ h \in Heap /\ h.ref \subseteq h.live
    BY DEF Sound, WellFormed, HeapOK
  <1>2. WellFormed(n, roots \cup Returned(n))
    BY DEF Creates
  <1>3. CASE n.ret = NULL
    <2>1. SameTree(h, n) /\ SameStrings(h, n)
      BY <1>3, HeapAssumption DEF Fresh
    <2>2. roots \cup Returned(n) = roots
      BY <1>3 DEF Returned
    <2> QED
      BY <1>1, <1>2, <2>1, <2>2, SameAnchored, SameCounted DEF Sound, SameTree
  <1>4. CASE n.ret # NULL
    <2>1. Counted(n)
      BY <1>1, <1>4, FreshCounted
    <2>2. Anchored(n, roots \cup {n.ret})
      <3>1. /\ n.ret \in Items \ h.live
            /\ n.live = h.live \cup {n.ret} /\ n.ref \in {h.ref, h.ref \cup {n.ret}}
            /\ n.next = h.next /\ \A p \in Items \ {n.ret} : n.child[p] = h.child[p]
            /\ n.ret \in n.ref \/ n.child[n.ret] = h.child[n.ret]
        BY <1>4 DEF Fresh
      <3> QED
        BY <1>1, <3>1, AnotherAnchored DEF Anchored
    <2>3. Returned(n) = {n.ret}
      BY <1>4 DEF Returned
    <2> QED
      BY <1>2, <2>1, <2>2, <2>3 DEF Sound
  <1> QED
    BY <1>3, <1>4

\* A new item is a tree of its own.
LEMMA FreshFreed ==
    ASSUME NEW h, NEW roots, Sound(h, roots), NEW n, n \in Heap, Fresh(h, n), n.ret # NULL
    PROVE  Freed(n, n.ret) = {n.ret}
  <1>1. n.ret \in Items \ h.live /\ h \in Heap
    BY PointersOf DEF Fresh, Sound
  <1>2. n.next[n.ret] = NULL /\ (n.ret \in n.ref \/ n.child[n.ret] = NULL)
    BY <1>1 DEF Fresh, Sound, WellFormed, HeapOK
  <1>3. DeleteCloses(n, {n.ret}) /\ {n.ret} \in SUBSET Items /\ n.ret \in {n.ret} \cup {NULL}
    BY <1>1, <1>2 DEF DeleteCloses
  <1>4. Freed(n, n.ret) \subseteq {n.ret}
    BY <1>1, <1>3, FreedSmallest
  <1>5. n.ret \in Freed(n, n.ret)
    BY <1>1, FreedCloses, HeapAssumption
  <1> QED
    BY <1>4, <1>5

LEMMA FreshNewItem ==
    ASSUME NEW h, NEW roots, Sound(h, roots)
    PROVE  LET n == cJSON_New_Item(h)
           IN  /\ Fresh(h, n)
               /\ n.ret # NULL => n.ref = h.ref /\ n.const = h.const /\ n.child = h.child
                                  /\ n.valuestring = h.valuestring
  <1> DEFINE node == CHOOSE a \in Items \ h.live : TRUE
  <1>0. PICK n : n = cJSON_New_Item(h)
    OBVIOUS
  <1>1. h \in Heap /\ h.live \subseteq Items /\ h.mem \in Nat
        /\ \A a \in Items \ h.live : h.valuestring[a] = NULL
    BY PointersOf, HeapFields DEF Sound, Counted
  <1>2. CASE h.mem = 0 \/ h.live = Items
    <2>1. n = [h EXCEPT !.ret = NULL]
      BY <1>0, <1>2 DEF cJSON_New_Item
    <2>2. n.ret = NULL /\ SameTree(h, n) /\ SameStrings(h, n)
      BY <1>1, <2>1 DEF Heap, SameTree, SameStrings
    <2> QED
      BY <1>0, <2>2 DEF Fresh
  <1>3. CASE ~(h.mem = 0 \/ h.live = Items)
    <2>1. n = [h EXCEPT !.live = h.live \cup {node}, !.mem = h.mem - 1, !.ret = node]
      BY <1>0, <1>1, <1>3 DEF cJSON_New_Item, Heap
    <2>2. node \in Items \ h.live
      BY <1>1, <1>3
    <2> HIDE DEF node
    <2>3. /\ n.ret = node /\ n.live = h.live \cup {node} /\ n.ref = h.ref /\ n.const = h.const
          /\ n.next = h.next /\ n.child = h.child /\ n.string = h.string
          /\ n.valuestring = h.valuestring /\ n.blocks = h.blocks
      BY <1>1, <2>1 DEF Heap
    <2>4. ~OwnsValue(n, node)
      BY <1>1, <2>2, <2>3 DEF OwnsValue
    <2>5. Fresh(h, n)
      BY <2>2, <2>3, <2>4 DEF Fresh
    <2> QED
      BY <1>0, <2>3, <2>5
  <1> QED
    BY <1>2, <1>3

LEMMA FreshItem ==
    ASSUME NEW h, NEW roots, Sound(h, roots), NEW type \in Types, NEW int \in Int
    PROVE  LET n == CreateItem(h, type, int)
           IN  /\ Fresh(h, n)
               /\ n.ret # NULL => n.ref = h.ref /\ n.const = h.const /\ n.child = h.child
                                  /\ n.valuestring = h.valuestring
  <1>0. PICK n, g :
         /\ n = cJSON_New_Item(h)
         /\ g = CreateItem(h, type, int)
    OBVIOUS
  <1>1. /\ Fresh(h, n)
        /\ n.ret # NULL => n.ref = h.ref /\ n.const = h.const /\ n.child = h.child
                           /\ n.valuestring = h.valuestring
    BY <1>0, FreshNewItem
  <1>2. WellFormed(h, roots)
    BY DEF Sound
  <1>3. n \in Heap
    BY <1>0, <1>2, NewItem DEF Creates, WellFormed, HeapOK
  <1>4. CASE n.ret = NULL
    BY <1>0, <1>1, <1>4 DEF CreateItem
  <1>5. CASE n.ret # NULL
    <2>1. g = [n EXCEPT !.type = [n.type EXCEPT ![n.ret] = type],
                        !.valueint = [n.valueint EXCEPT ![n.ret] = int]]
      BY <1>0, <1>3, <1>5 DEF CreateItem, Heap
    <2>2. /\ g.ret = n.ret /\ g.live = n.live /\ g.ref = n.ref /\ g.const = n.const
          /\ g.next = n.next /\ g.child = n.child /\ g.string = n.string
          /\ g.valuestring = n.valuestring /\ g.blocks = n.blocks
      BY <1>3, <2>1 DEF Heap
    <2>3. OwnsValue(g, g.ret) <=> OwnsValue(n, n.ret)
      BY <2>2 DEF OwnsValue
    <2>4. Fresh(h, g)
      BY <1>1, <1>5, <2>2, <2>3 DEF Fresh
    <2> QED
      BY <1>0, <1>1, <1>5, <2>2, <2>4
  <1> QED
    BY <1>4, <1>5

LEMMA FreshText ==
    ASSUME NEW h, NEW roots, Sound(h, roots), NEW type \in Types, NEW text \in Strings
    PROVE  Fresh(h, CreateText(h, type, text))
  <1>0. PICK n, g :
         /\ n = CreateItem(h, type, 0)
         /\ g = CreateText(h, type, text)
    OBVIOUS
  <1>1. /\ Fresh(h, n)
        /\ n.ret # NULL => n.ref = h.ref /\ n.const = h.const /\ n.child = h.child
                           /\ n.valuestring = h.valuestring
    BY <1>0, FreshItem, 0 \in Int
  <1>2. /\ WellFormed(h, roots) /\ h \in Heap /\ h.ref \subseteq h.live /\ h.const \subseteq h.live
        /\ \A a \in Items \ h.live :
             /\ h.next[a] = NULL /\ h.child[a] = NULL
             /\ h.string[a] = NULL /\ h.valuestring[a] = NULL
    BY DEF Sound, Counted, WellFormed, HeapOK
  <1>3. n \in Heap
    BY <1>0, <1>2, ItemCreated, 0 \in Int DEF Creates, WellFormed, HeapOK
  <1>4. g = IF n.ret = NULL THEN n
            ELSE IF CanCopy(n, text) THEN [Copied(n) EXCEPT !.valuestring[n.ret] = text]
            ELSE [cJSON_Delete(n, n.ret) EXCEPT !.ret = NULL]
    BY <1>0 DEF CreateText
  <1>5. CASE n.ret = NULL
    BY <1>0, <1>1, <1>4, <1>5
  <1>6. ASSUME n.ret # NULL
        PROVE  /\ n.ret \in Items \ h.live /\ n.live = h.live \cup {n.ret} /\ n.ref = h.ref
               /\ n.const = h.const /\ n.child = h.child /\ n.next = h.next
               /\ n.string = h.string /\ n.valuestring = h.valuestring /\ n.blocks = h.blocks
    BY <1>1, <1>2, <1>6 DEF Fresh, OwnsValue
  <1>7. CASE n.ret # NULL /\ CanCopy(n, text)
    <2>1. g = [n EXCEPT !.mem = n.mem - 1, !.blocks = n.blocks + 1,
                        !.valuestring = [n.valuestring EXCEPT ![n.ret] = text]]
      BY <1>3, <1>4, <1>7 DEF Copied, Heap
    <2>2. /\ g.ret = n.ret /\ g.live = n.live /\ g.ref = n.ref /\ g.const = n.const
          /\ g.next = n.next /\ g.child = n.child /\ g.string = n.string
          /\ g.valuestring = [n.valuestring EXCEPT ![n.ret] = text] /\ g.blocks = n.blocks + 1
      BY <1>3, <2>1 DEF Heap
    <2>3. OwnsValue(g, g.ret)
      <3>1. n.valuestring \in [Items -> Strings \cup {NULL}] /\ text # NULL
        BY <1>3, HeapFields, HeapAssumption
      <3> QED
        BY <1>2, <1>6, <1>7, <2>2, <3>1 DEF OwnsValue
    <2>4. \A p \in Items \ {g.ret} : g.valuestring[p] = h.valuestring[p]
      BY <1>3, <1>6, <1>7, <2>2, HeapFields
    <2>5. Fresh(h, g)
      BY <1>6, <1>7, <2>2, <2>3, <2>4 DEF Fresh
    <2> QED
      BY <1>0, <2>5
  <1>8. CASE n.ret # NULL /\ ~CanCopy(n, text)
    <2>0. PICK d, F :
           /\ d = cJSON_Delete(n, n.ret)
           /\ F = Freed(n, n.ret)
      OBVIOUS
    <2>1. F = {n.ret}
      BY <1>1, <1>3, <1>8, <2>0, FreshFreed
    <2>10. n.ret \in Items \cup {NULL}
      BY <1>6, <1>8
    <2>2. /\ d \in Heap /\ d.live = n.live \ F /\ d.ref = n.ref \ F /\ d.const = n.const \ F
          /\ d.next = Erase(n.next, F, NULL) /\ d.child = Erase(n.child, F, NULL)
      BY ONLY <1>3, <2>0, <2>10, DeletedFields
    <2>3. /\ d.string = Erase(n.string, F, NULL)
          /\ d.valuestring = Erase(n.valuestring, F, NULL)
          /\ d.blocks = n.blocks - Cardinality({b \in F : OwnsString(n, b)})
                                 - Cardinality({b \in F : OwnsValue(n, b)})
      BY ONLY <1>3, <2>0, <2>10, DeletedStrings
    <2>4. {b \in F : OwnsString(n, b)} = {} /\ {b \in F : OwnsValue(n, b)} = {}
      BY <1>2, <1>6, <1>8, <2>1 DEF OwnsString, OwnsValue
    <2>5. d.blocks = h.blocks
      <3>1. n.blocks = h.blocks /\ h.blocks \in Int
        BY <1>2, <1>6, <1>8, HeapFields
      <3>2. d.blocks = n.blocks - 0 - 0
        BY <2>3, <2>4, FS_EmptySet
      <3> QED
        BY <3>1, <3>2
    <2>6. /\ Erase(n.next, F, NULL) = h.next /\ Erase(n.child, F, NULL) = h.child
          /\ Erase(n.string, F, NULL) = h.string
          /\ Erase(n.valuestring, F, NULL) = h.valuestring
      BY <1>2, <1>6, <1>8, <2>1, HeapFields DEF Erase
    <2>7. SameTree(h, d) /\ SameStrings(h, d)
      BY <1>2, <1>6, <1>8, <2>1, <2>2, <2>3, <2>5, <2>6 DEF SameTree, SameStrings
    <2>8. g = [d EXCEPT !.ret = NULL]
      BY <1>4, <1>8, <2>0
    <2>9. g.ret = NULL /\ SameTree(h, g) /\ SameStrings(h, g)
      BY <2>2, <2>7, <2>8 DEF Heap, SameTree, SameStrings
    <2> QED
      BY <1>0, <2>9 DEF Fresh
  <1> QED
    BY <1>5, <1>7, <1>8

LEMMA FreshReference ==
    ASSUME NEW h, NEW roots, Sound(h, roots), NEW type \in Types,
           NEW text \in Strings \cup {NULL}, NEW child \in Items \cup {NULL}
    PROVE  Fresh(h, CreateReference(h, type, text, child))
  <1>0. PICK n, g :
         /\ n = CreateItem(h, type, 0)
         /\ g = CreateReference(h, type, text, child)
    OBVIOUS
  <1>1. /\ Fresh(h, n)
        /\ n.ret # NULL => n.ref = h.ref /\ n.const = h.const /\ n.child = h.child
                           /\ n.valuestring = h.valuestring
    BY <1>0, FreshItem, 0 \in Int
  <1>2. WellFormed(h, roots) /\ \A a \in Items \ h.live : h.valuestring[a] = NULL
    BY DEF Sound, Counted
  <1>3. n \in Heap
    BY <1>0, <1>2, ItemCreated, 0 \in Int DEF Creates, WellFormed, HeapOK
  <1>4. CASE n.ret = NULL
    BY <1>0, <1>1, <1>4 DEF CreateReference
  <1>5. CASE n.ret # NULL
    <2>1. g = [n EXCEPT !.ref = n.ref \cup {n.ret},
                        !.valuestring = [n.valuestring EXCEPT ![n.ret] = text],
                        !.child = [n.child EXCEPT ![n.ret] = child]]
      BY <1>0, <1>3, <1>5 DEF CreateReference, Heap
    <2>2. /\ g.ret = n.ret /\ g.live = n.live /\ g.ref = n.ref \cup {n.ret}
          /\ g.const = n.const /\ g.next = n.next /\ g.string = n.string
          /\ g.child = [n.child EXCEPT ![n.ret] = child]
          /\ g.valuestring = [n.valuestring EXCEPT ![n.ret] = text] /\ g.blocks = n.blocks
      BY <1>3, <2>1 DEF Heap
    <2>3. /\ n.ret \in Items \ h.live /\ n.live = h.live \cup {n.ret} /\ n.next = h.next
          /\ n.string = h.string /\ n.blocks = h.blocks
      BY <1>1, <1>2, <1>5 DEF Fresh, OwnsValue
    <2>4. ~OwnsValue(g, g.ret)
      BY <2>2 DEF OwnsValue
    <2>5. \A p \in Items \ {g.ret} : g.valuestring[p] = h.valuestring[p] /\ g.child[p] = h.child[p]
      BY <1>1, <1>3, <1>5, <2>2, HeapFields
    <2>6. Fresh(h, g)
      BY <1>1, <1>5, <2>2, <2>3, <2>4, <2>5 DEF Fresh
    <2> QED
      BY <1>0, <2>6
  <1> QED
    BY <1>4, <1>5

LEMMA FreshCopyOfItem ==
    ASSUME NEW h, NEW roots, Sound(h, roots), NEW item \in h.live
    PROVE  LET n == create_reference(h, item)
           IN  Fresh(h, n) /\ (n.ret # NULL => n.ret \in n.ref)
  <1>0. PICK n, g :
         /\ n = cJSON_New_Item(h)
         /\ g = create_reference(h, item)
    OBVIOUS
  <1>1. /\ Fresh(h, n)
        /\ n.ret # NULL => n.ref = h.ref /\ n.const = h.const /\ n.child = h.child
                           /\ n.valuestring = h.valuestring
    BY <1>0, FreshNewItem
  <1>2. WellFormed(h, roots) /\ \A a \in Items \ h.live : h.valuestring[a] = NULL
    BY DEF Sound, Counted
  <1>3. n \in Heap
    BY <1>0, <1>2, NewItem DEF Creates, WellFormed, HeapOK
  <1>4. h \in Heap /\ item \in Items /\ item # NULL
    BY <1>2, PointersOf, HeapAssumption
  <1>5. CASE n.ret = NULL
    BY <1>0, <1>1, <1>4, <1>5 DEF create_reference
  <1>6. CASE n.ret # NULL
    <2> DEFINE const == IF item \in h.const THEN n.const \cup {n.ret} ELSE n.const
               type == [n.type EXCEPT ![n.ret] = h.type[item]]
               valueint == [n.valueint EXCEPT ![n.ret] = h.valueint[item]]
               child == [n.child EXCEPT ![n.ret] = h.child[item]]
               valuestring == [n.valuestring EXCEPT ![n.ret] = h.valuestring[item]]
    <2>1. g = [n EXCEPT !.ref = n.ref \cup {n.ret}, !.const = const, !.type = type,
                        !.valueint = valueint, !.child = child, !.valuestring = valuestring]
      BY <1>0, <1>3, <1>4, <1>6 DEF create_reference, Heap
    <2> HIDE DEF const, type, valueint, child, valuestring
    <2>2. /\ g.ret = n.ret /\ g.live = n.live /\ g.ref = n.ref \cup {n.ret}
          /\ g.const = const /\ g.next = n.next /\ g.string = n.string
          /\ g.child = child /\ g.valuestring = valuestring /\ g.blocks = n.blocks
      BY <1>3, <2>1 DEF Heap
    <2>3. /\ n.ret \in Items \ h.live /\ n.live = h.live \cup {n.ret} /\ n.next = h.next
          /\ n.string = h.string /\ n.blocks = h.blocks
      BY <1>1, <1>2, <1>6 DEF Fresh, OwnsValue
    <2>4. ~OwnsValue(g, g.ret)
      BY <2>2 DEF OwnsValue
    <2>5. \A p \in Items \ {g.ret} : g.valuestring[p] = h.valuestring[p] /\ g.child[p] = h.child[p]
      BY <1>1, <1>3, <1>6, <2>2, HeapFields DEF child, valuestring
    <2>6. g.const \ {g.ret} = h.const \ {g.ret}
      BY <1>1, <1>6, <2>2 DEF const
    <2>7. Fresh(h, g)
      BY <1>1, <1>6, <2>2, <2>3, <2>4, <2>5, <2>6 DEF Fresh
    <2> QED
      BY <1>0, <2>2, <2>7
  <1> QED
    BY <1>5, <1>6

-----------------------------------------------------------------------------
(* Linking *)

\* A chain of links that leaves the strings alone.
LEMMA SoundLinked ==
    ASSUME NEW h, NEW roots, Sound(h, roots), NEW g, NEW x, NEW item, NEW after,
           Splice(h, g, x, item, after), x \notin Freed(h, item),
           WellFormed(g, roots \ {item}), SameStrings(h, g)
    PROVE  Sound(g, roots \ {item})
  <1>1. WellFormed(h, roots) /\ NULL \notin h.live
    BY PointersOf, HeapAssumption DEF Sound
  <1>2. Grounded(g)
    BY <1>1, GroundedIn DEF Sound, Anchored
  <1>3. Claimed(g, roots \ {item})
    BY <1>1, ClaimedIn DEF Sound, Anchored
  <1>4. Counted(g)
    BY SameCounted DEF Splice, Sound
  <1> QED
    BY <1>2, <1>3, <1>4 DEF Sound, Anchored

LEMMA SoundAppended ==
    ASSUME NEW h, NEW roots, Sound(h, roots), NEW p \in h.live \ h.ref,
           NEW item \in roots \cup {NULL}, item # NULL => p \notin Freed(h, item)
    PROVE  LET n == add_item_to_array(h, p, item)
           IN  Sound(n, roots \ Returned(n)) /\ n.ref = h.ref
  <1>0. PICK n : n = add_item_to_array(h, p, item)
    OBVIOUS
  <1>1. /\ WellFormed(h, roots) /\ h \in Heap /\ h.live \subseteq Items /\ roots \subseteq h.live
        /\ NULL \notin h.live
    BY PointersOf, HeapAssumption DEF Sound
  <1>2. WellFormed(n, roots \ Returned(n)) /\ n.ret = item
    BY <1>0, <1>1, Appended
  <1>3. CASE item = NULL
    <2>1. n = [h EXCEPT !.ret = NULL]
      BY <1>0, <1>3 DEF add_item_to_array
    <2>2. Sound([h EXCEPT !.ret = NULL], roots)
      BY 0 \in Nat, NULL \in Items \cup {NULL}, SoundCall
    <2>3. roots \ Returned(n) = roots
      BY <1>2, <1>3 DEF Returned
    <2>4. n.ref = h.ref
      BY <1>1, <2>1 DEF Heap
    <2> QED
      BY <1>0, <2>1, <2>2, <2>3, <2>4
  <1>4. ASSUME item # NULL
        PROVE  /\ item \in roots /\ item \in h.live /\ item # p
               /\ p \notin Freed(h, item) /\ Returned(n) = {item}
    BY <1>1, <1>2, <1>4, FreedIsLive DEF Returned
  <1>5. CASE item # NULL /\ h.child[p] = NULL
    <2>1. n = [h EXCEPT !.child = [h.child EXCEPT ![p] = item], !.ret = item]
      BY <1>0, <1>1, <1>5 DEF add_item_to_array, Heap
    <2>2. /\ n.live = h.live /\ n.ref = h.ref /\ n.next = h.next
          /\ n.child = [h.child EXCEPT ![p] = item] /\ SameStrings(h, n)
      BY <1>1, <2>1 DEF Heap, SameStrings
    <2>3. Splice(h, n, p, item, NULL)
      BY <1>1, <1>4, <1>5, <2>2, FirstSplices
    <2> QED
      BY <1>0, <1>2, <1>4, <1>5, <2>2, <2>3, SoundLinked
  <1>6. CASE item # NULL /\ h.child[p] # NULL
    <2>0. PICK last : last = CHOOSE c \in Members(h, p) : h.next[c] = NULL
      OBVIOUS
    <2>1. last \in Members(h, p) /\ h.next[last] = NULL
      BY <1>1, <1>6, <2>0 DEF WellFormed, ListsEnd
    <2>2. last \in h.live /\ last # item /\ last \notin Freed(h, item)
      <3>1. last \in h.live
        BY <1>1, <2>1, MemberPred
      <3>2. last \notin Freed(h, item)
        BY <1>1, <1>4, <1>6, <2>1, MembersOutside
      <3> QED
        BY <1>1, <1>4, <1>6, <3>1, <3>2, FreedIsLive
    <2>3. n = [suffix_object(h, last, item) EXCEPT !.ret = item]
      BY <1>0, <1>6, <2>0 DEF add_item_to_array
    <2>4. n = [h EXCEPT !.next = [h.next EXCEPT ![last] = item],
                        !.prev = [h.prev EXCEPT ![item] = last], !.ret = item]
      BY <1>1, <2>3 DEF suffix_object, Heap
    <2>5. /\ n.live = h.live /\ n.ref = h.ref /\ n.child = h.child
          /\ n.next = [h.next EXCEPT ![last] = item] /\ SameStrings(h, n)
      BY <1>1, <2>4 DEF Heap, SameStrings
    <2>6. Splice(h, n, last, item, NULL)
      BY <1>1, <1>4, <1>6, <2>1, <2>2, <2>5, AfterSplices
    <2> QED
      BY <1>0, <1>2, <1>4, <1>6, <2>2, <2>5, <2>6, SoundLinked
  <1> QED
    BY <1>3, <1>5, <1>6

\* The old key goes, the new one comes: with a copy unless it is a constant.
LEMMA SoundRenamed ==
    ASSUME NEW h, NEW roots, Sound(h, roots), NEW item \in h.live,
           NEW name \in Strings \cup {NULL}, NEW constant_key \in BOOLEAN,
           NEW c, \/ c = h /\ (constant_key \/ name = NULL)
                  \/ h.mem > 0 /\ c = Copied(h) /\ ~constant_key /\ name # NULL
    PROVE  LET g == SetString(c, item, name, constant_key)
           IN  Sound(g, roots) /\ SameTree(h, g)
  <1> DEFINE const == IF constant_key THEN h.const \cup {item} ELSE h.const \ {item}
             blocks == IF OwnsString(h, item) THEN c.blocks - 1 ELSE c.blocks
  <1>0. PICK g : g = SetString(c, item, name, constant_key)
    OBVIOUS
  <1>1. WellFormed(h, roots) /\ h \in Heap /\ h.live \subseteq Items /\ item \in Items
    BY PointersOf DEF Sound
  <1>2. WellFormed(g, roots) /\ SameTree(h, g)
    BY <1>0, <1>1, Renamed DEF SameTree
  <1>3. /\ c \in Heap /\ c.const = h.const /\ c.string = h.string
        /\ c.valuestring = h.valuestring
        /\ c.blocks = IF constant_key \/ name = NULL THEN h.blocks ELSE h.blocks + 1
    <2>1. CASE c = h /\ (constant_key \/ name = NULL)
      BY <1>1, <2>1
    <2>2. CASE h.mem > 0 /\ c = Copied(h) /\ ~constant_key /\ name # NULL
      <3>1. h.mem - 1 \in Nat /\ h.blocks + 1 \in Int
        BY <1>1, <2>2, HeapFields
      <3> QED
        BY <1>1, <2>2, <3>1 DEF Copied, Heap
    <2> QED
      BY <2>1, <2>2
  <1>4. OwnsString(c, item) <=> OwnsString(h, item)
    BY <1>3 DEF OwnsString
  <1>5. g = [c EXCEPT !.string = [h.string EXCEPT ![item] = name], !.const = const,
                      !.blocks = blocks]
    BY <1>0, <1>3, <1>4 DEF SetString, Heap
  <1> HIDE DEF const, blocks
  <1>6. /\ g.string = [h.string EXCEPT ![item] = name] /\ g.const = const
        /\ g.valuestring = h.valuestring /\ g.blocks = blocks
    BY <1>3, <1>5 DEF Heap
  <1>7. \A b \in Items : g.string[b] = IF b = item THEN name ELSE h.string[b]
    BY <1>1, <1>6, HeapFields
  <1>8. \A b \in h.live \ {item} : OwnsString(g, b) <=> OwnsString(h, b)
    BY <1>1, <1>6, <1>7 DEF OwnsString, const
  <1>9. OwnsString(g, item) <=> ~(constant_key \/ name = NULL)
    BY <1>1, <1>6, <1>7 DEF OwnsString, const
  <1>10. ValueOwners(g) = ValueOwners(h)
    BY <1>2, <1>6 DEF ValueOwners, OwnsValue, SameTree
  <1>11. /\ StringOwners(g) = IF constant_key \/ name = NULL THEN StringOwners(h) \ {item}
                              ELSE StringOwners(h) \cup {item}
         /\ item \in StringOwners(h) <=> OwnsString(h, item)
    BY <1>2, <1>8, <1>9 DEF StringOwners, SameTree
  <1>12. /\ IsFiniteSet(StringOwners(h))
         /\ Cardinality(StringOwners(h)) \in Nat /\ Cardinality(ValueOwners(h)) \in Nat
         /\ h.blocks = Cardinality(StringOwners(h)) + Cardinality(ValueOwners(h))
    BY <1>1, OwnersFinite DEF Sound, Counted
  <1>13. g.blocks = Cardinality(StringOwners(g)) + Cardinality(ValueOwners(g))
    <2>1. /\ Cardinality(StringOwners(h) \cup {item}) =
               IF OwnsString(h, item) THEN Cardinality(StringOwners(h))
               ELSE Cardinality(StringOwners(h)) + 1
          /\ Cardinality(StringOwners(h) \ {item}) =
               IF OwnsString(h, item) THEN Cardinality(StringOwners(h)) - 1
               ELSE Cardinality(StringOwners(h))
      BY <1>11, <1>12, FS_AddElement, FS_RemoveElement
    <2>2. blocks = IF OwnsString(h, item) THEN c.blocks - 1 ELSE c.blocks
      BY DEF blocks
    <2> QED
      BY <1>3, <1>6, <1>10, <1>11, <1>12, <2>1, <2>2
  <1>14. \A b \in Items \ g.live : g.string[b] = NULL /\ g.valuestring[b] = NULL
    BY <1>2, <1>6, <1>7 DEF SameTree, Sound, Counted
  <1>15. Anchored(g, roots)
    BY <1>2, SameAnchored DEF Sound
  <1> QED
    BY <1>0, <1>2, <1>13, <1>14, <1>15 DEF Sound, Counted

LEMMA SoundAddedToObject ==
    ASSUME NEW h, NEW roots, Sound(h, roots), NEW p \in h.live \ h.ref,
           NEW item \in roots \cup {NULL}, item # NULL => p \notin Freed(h, item),
           NEW name \in Strings, NEW constant_key \in BOOLEAN
    PROVE  LET n == add_item_to_object(h, p, name, item, constant_key)
           IN  Sound(n, roots \ Returned(n)) /\ n.ref = h.ref
  <1>0. PICK n : n = add_item_to_object(h, p, name, item, constant_key)
    OBVIOUS
  <1>1. WellFormed(h, roots) /\ h \in Heap /\ roots \subseteq h.live
    BY PointersOf DEF Sound
  <1>2. CASE item = NULL \/ ~(constant_key \/ CanCopy(h, name))
    <2>1. n = [h EXCEPT !.ret = NULL]
      BY <1>0, <1>2 DEF add_item_to_object
    <2>2. n.ret = NULL /\ n.ref = h.ref
      BY <1>1, <2>1 DEF Heap
    <2>3. Sound([h EXCEPT !.ret = NULL], roots)
      BY 0 \in Nat, NULL \in Items \cup {NULL}, SoundCall
    <2>4. roots \ Returned(n) = roots
      BY <2>2 DEF Returned
    <2> QED
      BY <1>0, <2>1, <2>2, <2>3, <2>4
  <1>3. CASE ~(item = NULL \/ ~(constant_key \/ CanCopy(h, name)))
    <2>0. PICK c, g :
           /\ c = IF constant_key THEN h ELSE Copied(h)
           /\ g = SetString(c, item, name, constant_key)
      OBVIOUS
    <2>1. n = add_item_to_array(g, p, item)
      BY <1>0, <1>3, <2>0 DEF add_item_to_object
    <2>2. \/ c = h /\ (constant_key \/ name = NULL)
          \/ h.mem > 0 /\ c = Copied(h) /\ ~constant_key /\ name # NULL
      BY <1>3, <2>0, HeapAssumption DEF CanCopy
    <2>3. item \in h.live /\ name \in Strings \cup {NULL} /\ item \in roots
      BY <1>1, <1>3
    <2>4. Sound(g, roots) /\ SameTree(h, g)
      BY <2>0, <2>2, <2>3, SoundRenamed
    <2>5. p \in g.live \ g.ref
      BY <2>4 DEF SameTree
    <2>6. p \notin Freed(g, item)
      BY <1>3, <2>4, SameFreed
    <2>7. item \in roots \cup {NULL}
      BY <2>3
    <2>8. Sound(n, roots \ Returned(n)) /\ n.ref = g.ref
      BY ONLY <2>1, <2>4, <2>5, <2>6, <2>7, SoundAppended, SMTT(30)
    <2> QED
      BY <1>0, <2>4, <2>8 DEF SameTree
  <1> QED
    BY <1>2, <1>3

LEMMA SoundAddedCreated ==
    ASSUME NEW h, NEW roots, Sound(h, roots), NEW p \in h.live \ h.ref,
           NEW n, Creates(h, roots, n), Fresh(h, n), NEW name \in Strings
    PROVE  Sound(AddCreatedToObject(n, p, name), roots)
  <1>0. PICK added, g :
         /\ added = add_item_to_object(n, p, name, n.ret, FALSE)
         /\ g = AddCreatedToObject(n, p, name)
    OBVIOUS
  <1>1. /\ WellFormed(h, roots) /\ roots \subseteq h.live /\ n \in Heap
        /\ p \in n.live \ n.ref /\ n.ret \in (Items \ h.live) \cup {NULL}
        /\ WellFormed(n, roots \cup Returned(n))
    BY PointersOf DEF Sound, Creates
  <1>2. Sound(n, roots \cup Returned(n))
    BY SoundFresh
  <1>3. n.ret \in (roots \cup Returned(n)) \cup {NULL}
    BY DEF Returned
  <1>4. n.ret # NULL => p \notin Freed(n, n.ret)
    BY <1>1, FreshFreed
  <1>5. /\ Sound(added, (roots \cup Returned(n)) \ Returned(added))
        /\ added.ret \in {n.ret, NULL}
    BY <1>0, <1>1, <1>2, <1>3, <1>4, SoundAddedToObject, AddedToObject, FALSE \in BOOLEAN
  <1>6. g = IF added.ret # NULL THEN added
            ELSE [cJSON_Delete(added, n.ret) EXCEPT !.ret = NULL]
    BY <1>0 DEF AddCreatedToObject
  <1>7. CASE added.ret # NULL
    <2>1. (roots \cup Returned(n)) \ Returned(added) = roots
      BY <1>1, <1>5, <1>7 DEF Returned
    <2> QED
      BY <1>0, <1>5, <1>6, <1>7, <2>1
  <1>8. CASE added.ret = NULL
    <2>0. PICK d : d = cJSON_Delete(added, n.ret)
      OBVIOUS
    <2>1. Sound(d, roots)
      <3>1. CASE n.ret = NULL
        <4>1. (roots \cup Returned(n)) \ Returned(added) = roots
          BY <1>8, <3>1 DEF Returned
        <4> QED
          BY <1>5, <2>0, <3>1, <4>1, SoundDeleteNothing
      <3>2. CASE n.ret # NULL
        <4>1. (roots \cup Returned(n)) \ Returned(added) = roots \cup {n.ret}
          BY <1>8, <3>2 DEF Returned
        <4>2. Sound(d, (roots \cup {n.ret}) \ {n.ret})
          BY <1>5, <2>0, <4>1, SoundDelete, n.ret \in roots \cup {n.ret}
        <4>3. (roots \cup {n.ret}) \ {n.ret} = roots
          BY <1>1, <3>2
        <4> QED
          BY <4>2, <4>3
      <3> QED
        BY <3>1, <3>2
    <2>2. Sound([d EXCEPT !.ret = NULL], roots)
      BY <2>1, 0 \in Nat, NULL \in Items \cup {NULL}, SoundCall
    <2> QED
      BY <1>0, <1>6, <1>8, <2>0, <2>2
  <1> QED
    BY <1>7, <1>8

LEMMA SoundInserted ==
    ASSUME NEW h, NEW roots, Sound(h, roots), NEW p \in h.live \ h.ref,
           NEW after \in Members(h, p) \cup {NULL}, NEW item \in roots, p \notin Freed(h, item)
    PROVE  Sound(cJSON_InsertItemInArray(h, p, after, item), roots \ {item})
  <1>0. PICK g : g = cJSON_InsertItemInArray(h, p, after, item)
    OBVIOUS
  <1>1. /\ WellFormed(h, roots) /\ h \in Heap /\ h.live \subseteq Items /\ roots \subseteq h.live
        /\ NULL \notin h.live
    BY PointersOf, HeapAssumption DEF Sound
  <1>2. WellFormed(g, roots \ {item})
    BY <1>0, <1>1, Inserted
  <1>3. item # NULL /\ item \in roots \cup {NULL} /\ item # p
    BY <1>1, FreedIsLive
  <1>4. CASE after = NULL
    <2>1. g = add_item_to_array(h, p, item)
      BY <1>0, <1>4 DEF cJSON_InsertItemInArray
    <2>2. Sound(g, roots \ Returned(g)) /\ g.ret = item
      BY <1>1, <1>3, <2>1, SoundAppended, Appended
    <2>3. Returned(g) = {item}
      BY <1>3, <2>2 DEF Returned
    <2> QED
      BY <1>0, <2>2, <2>3
  <1>5. CASE after # NULL
    <2> DEFINE next == [(IF after = h.child[p] THEN h.next ELSE Put(h.next, h.prev[after], item))
                        EXCEPT ![item] = after]
               prev == [h.prev EXCEPT ![item] = h.prev[after], ![after] = item]
               child == [h.child EXCEPT ![p] = IF after = h.child[p] THEN item ELSE h.child[p]]
    <2>1. after \in Members(h, p) /\ item # after
      BY <1>1, <1>5, RootsAreNotMembers
    <2>2. g = [h EXCEPT !.next = next, !.prev = prev, !.child = child]
      BY <1>0, <1>1, <1>5 DEF cJSON_InsertItemInArray, Heap
    <2> HIDE DEF next, prev, child
    <2>3. /\ g.live = h.live /\ g.ref = h.ref /\ g.next = next /\ g.child = child
          /\ SameStrings(h, g)
      BY <1>1, <2>2 DEF Heap, SameStrings
    <2>4. Splice(h, g, Before(h, p, after), item, after)
      BY <1>1, <1>3, <2>1, <2>3, BeforeSplices DEF next, child
    <2>5. Before(h, p, after) \notin Freed(h, item)
      BY <1>1, <2>1, MemberPred, MembersOutside DEF Before
    <2> QED
      BY <1>0, <1>2, <2>3, <2>4, <2>5, SoundLinked
  <1> QED
    BY <1>4, <1>5

-----------------------------------------------------------------------------
(* Unlinking *)

LEMMA SoundDetached ==
    ASSUME NEW h, NEW roots, Sound(h, roots), NEW p \in h.live \ h.ref,
           NEW item \in Members(h, p) \cup {NULL}
    PROVE  LET n == cJSON_DetachItemViaPointer(h, p, item)
           IN  /\ Sound(n, roots \cup Returned(n))
               /\ item # NULL => Splice(n, h, Before(h, p, item), item, h.next[item])
  <1>0. PICK n : n = cJSON_DetachItemViaPointer(h, p, item)
    OBVIOUS
  <1>1. /\ WellFormed(h, roots) /\ h \in Heap /\ h.live \subseteq Items /\ NULL \notin h.live
    BY PointersOf, HeapAssumption DEF Sound
  <1>2. WellFormed(n, roots \cup Returned(n)) /\ n.ret = item
    BY <1>0, <1>1, Detached
  <1>3. CASE item = NULL
    <2>1. n = [h EXCEPT !.ret = NULL]
      BY <1>0, <1>3 DEF cJSON_DetachItemViaPointer
    <2>2. Sound([h EXCEPT !.ret = NULL], roots)
      BY 0 \in Nat, NULL \in Items \cup {NULL}, SoundCall
    <2>3. roots \cup Returned(n) = roots
      BY <1>2, <1>3 DEF Returned
    <2> QED
      BY <1>0, <1>3, <2>1, <2>2, <2>3
  <1>4. CASE item # NULL
    <2> DEFINE next == [Put(h.next, h.prev[item], h.next[item]) EXCEPT ![item] = NULL]
               prev == [Put(h.prev, h.next[item], h.prev[item]) EXCEPT ![item] = NULL]
               child == [h.child EXCEPT ![p] = IF h.child[p] = item THEN h.next[item]
                                               ELSE h.child[p]]
    <2>1. item \in Members(h, p) /\ item # p
      BY <1>1, <1>4, NotOwnMember DEF Sound, Anchored
    <2>2. n = [h EXCEPT !.next = next, !.prev = prev, !.child = child, !.ret = item]
      BY <1>0, <1>1, <1>4 DEF cJSON_DetachItemViaPointer, Heap
    <2> HIDE DEF next, prev, child
    <2>3. /\ n.live = h.live /\ n.ref = h.ref /\ n.next = next /\ n.child = child
          /\ SameStrings(h, n)
      BY <1>1, <2>2 DEF Heap, SameStrings
    <2>4. Returned(n) = {item}
      BY <1>2, <1>4 DEF Returned
    <2>5. Splice(n, h, Before(h, p, item), item, h.next[item])
      BY <1>1, <1>2, <2>1, <2>3, <2>4, UnlinkSplices, item \in roots \cup {item}
      DEF next, child
    <2>6. Grounded(n)
      BY <1>1, <2>3, <2>5, GroundedOut DEF Sound, Anchored
    <2>7. Claimed(n, roots \cup {item})
      BY <1>1, <2>3, <2>5, ClaimedOut DEF Sound, Anchored
    <2>8. Counted(n)
      BY <2>3, SameCounted DEF Sound
    <2> QED
      BY <1>0, <1>2, <2>4, <2>5, <2>6, <2>7, <2>8 DEF Sound, Anchored
  <1> QED
    BY <1>3, <1>4

\* Once the old item is out, the new one is put in its place.
LEMMA ExchangeSplices ==
    ASSUME NEW h, NEW roots, WellFormed(h, roots), NEW p \in h.live \ h.ref,
           NEW item \in Members(h, p), NEW r \in roots, r # p,
           NEW k, WellFormed(k, roots \cup {item}), k.live = h.live, k.ref = h.ref,
           k.next = [Put(h.next, h.prev[item], h.next[item]) EXCEPT ![item] = NULL],
           k.child = [h.child EXCEPT ![p] = IF h.child[p] = item THEN h.next[item]
                                            ELSE h.child[p]],
           Splice(k, h, Before(h, p, item), item, h.next[item]),
           NEW g, g.live = h.live, g.ref = h.ref,
           g.next = [Put(h.next, h.prev[item], r) EXCEPT ![r] = h.next[item], ![item] = NULL],
           g.child = [h.child EXCEPT ![p] = IF h.child[p] = item THEN r ELSE h.child[p]]
    PROVE  Splice(k, g, Before(h, p, item), r, h.next[item])
  <1>0. PICK after, x :
         /\ after = h.next[item]
         /\ x = Before(h, p, item)
    OBVIOUS
  <1>1. /\ h.live \subseteq Items /\ NULL \notin h.live /\ item \in h.live /\ r \in h.live
        /\ h.next \in [Items -> Items \cup {NULL}] /\ h.child \in [Items -> Items \cup {NULL}]
        /\ r # item
    BY PointersOf, HeapAssumption, MemberPred, RootsAreNotMembers
  <1>2. /\ x \in h.live
        /\ h.child[p] = item => x = p /\ h.prev[item] = NULL
        /\ h.child[p] # item => x = h.prev[item] /\ x # item
    BY <1>0, MemberPred DEF Before
  <1>3. \A c \in h.live : ~Pred(k, c, r) /\ ~Pred(k, c, item)
    BY RootsHaveNoPred
  <1>4. /\ after \in h.live \cup {NULL} /\ item # after
        /\ after # NULL => \A c \in h.live : Pred(k, c, after) <=> c = x
    BY <1>0, <1>1 DEF Splice
  <1>5. r # after
    BY <1>2, <1>3, <1>4, <1>1
  <1>6. r # x
    <2>1. CASE h.child[p] = item
      BY <1>2, <2>1
    <2>2. CASE h.child[p] # item
      <3>1. h.next[x] = item
        BY <1>2, <2>2, MemberPred DEF Before
      <3> QED
        BY <1>1, <3>1, PointersOf
    <2> QED
      BY <2>1, <2>2
  <1>7. \A c \in h.live :
          /\ k.next[c] = IF c = item THEN NULL
                         ELSE IF h.child[p] # item /\ c = x THEN after ELSE h.next[c]
          /\ k.child[c] = IF h.child[p] = item /\ c = p THEN after ELSE h.child[c]
    <2>1. k.next = [Put(h.next, h.prev[item], after) EXCEPT ![item] = NULL]
      BY <1>0
    <2>2. k.child = [h.child EXCEPT ![p] = IF h.child[p] = item THEN after ELSE h.child[p]]
      BY <1>0
    <2>3. \A c \in h.live : k.child[c] = IF h.child[p] = item /\ c = p THEN after ELSE h.child[c]
      BY <1>1, <2>2
    <2>4. \A c \in h.live : k.next[c] = IF c = item THEN NULL
                            ELSE IF h.child[p] # item /\ c = x THEN after ELSE h.next[c]
      BY <1>1, <1>2, <2>1 DEF Put
    <2> QED
      BY <2>3, <2>4
  <1>8. \A c \in h.live :
          /\ g.next[c] = IF c = r THEN after
                         ELSE IF h.child[p] # item /\ c = x THEN r ELSE k.next[c]
          /\ g.child[c] = IF h.child[p] = item /\ c = p THEN r ELSE k.child[c]
    <2>1. g.next = [Put(h.next, h.prev[item], r) EXCEPT ![r] = after, ![item] = NULL]
      BY <1>0
    <2>2. \A c \in h.live : g.child[c] = IF h.child[p] = item /\ c = p THEN r ELSE k.child[c]
      BY <1>1, <1>7
    <2>3. \A c \in h.live : g.next[c] = IF c = item THEN NULL ELSE IF c = r THEN after
                            ELSE IF h.child[p] # item /\ c = x THEN r ELSE h.next[c]
      BY <1>1, <1>2, <2>1 DEF Put
    <2>4. \A c \in h.live : g.next[c] = IF c = r THEN after
                            ELSE IF h.child[p] # item /\ c = x THEN r ELSE k.next[c]
      BY <1>1, <1>2, <1>7, <2>3
    <2> QED
      BY <2>2, <2>4
  <1>9. \A c \in h.live : Pred(g, c, r) <=> c = x
    BY <1>1, <1>2, <1>3, <1>5, <1>6, <1>8 DEF Pred
  <1>10. ASSUME after # NULL, NEW c \in h.live PROVE Pred(g, c, after) <=> c = r
    <2>0. /\ k.next \in [Items -> Items \cup {NULL}]
          /\ k.next[x] = after => (x \notin h.ref => k.child[x] # after)
          /\ h.child[p] = item => k.next[p] # after
      <3>1. p \in k.live \ k.ref
        OBVIOUS
      <3>2. k.child[p] = after => k.prev[after] = NULL
        BY <1>4, <1>10, <3>1, PointersOf
      <3>3. k.next[p] = after => k.prev[after] = p
        BY <1>1, <1>10, PointersOf
      <3>4. h.child[p] = item => k.child[p] = after
        BY <1>7
      <3>5. x \notin h.ref /\ k.child[x] = after => k.prev[after] = NULL
        BY <1>2, <1>4, <1>10, PointersOf
      <3>6. k.next[x] = after => k.prev[after] = x
        BY <1>1, <1>2, <1>10, PointersOf
      <3>7. p # NULL /\ x # NULL
        BY <1>1, <1>2
      <3>8. k.next \in [Items -> Items \cup {NULL}]
        BY PointersOf
      <3> QED
        BY <3>2, <3>3, <3>4, <3>5, <3>6, <3>7, <3>8
    <2>1. CASE c = r
      BY <1>8, <2>1 DEF Pred
    <2>2. CASE c = x
      <3>1. CASE h.child[p] = item
        BY <1>2, <1>5, <1>6, <1>8, <2>0, <2>2, <3>1 DEF Pred
      <3>2. CASE h.child[p] # item
        <4>1. k.next[x] = after
          BY <1>2, <1>7, <3>2
        <4> QED
          BY <1>2, <1>5, <1>6, <1>8, <2>0, <2>2, <3>2, <4>1 DEF Pred
      <3> QED
        BY <3>1, <3>2
    <2>3. CASE c # r /\ c # x
      <3>1. ~Pred(k, c, after)
        BY <1>4, <1>10, <2>3
      <3> QED
        BY <1>2, <1>8, <2>3, <3>1 DEF Pred
    <2> QED
      BY <2>1, <2>2, <2>3
  <1>11. \A c, b \in h.live : b \notin {r, after} => (Pred(g, c, b) <=> Pred(k, c, b))
    <2> SUFFICES ASSUME NEW c \in h.live, NEW b \in h.live, b # r, b # after
                 PROVE  Pred(g, c, b) <=> Pred(k, c, b)
      OBVIOUS
    <2>1. k.next[r] = NULL
      BY PointersOf
    <2> QED
      BY <1>1, <1>2, <1>7, <1>8, <2>1 DEF Pred
  <1>12. Splice(k, g, x, r, after)
    BY <1>1, <1>2, <1>3, <1>4, <1>5, <1>6, <1>9, <1>10, <1>11 DEF Splice
  <1> QED
    BY <1>0, <1>12

LEMMA SoundReplaced ==
    ASSUME NEW h, NEW roots, Sound(h, roots), NEW p \in h.live \ h.ref,
           NEW item \in Members(h, p) \cup {NULL}, NEW r \in roots, p \notin Freed(h, r)
    PROVE  Sound(cJSON_ReplaceItemViaPointer(h, p, item, r),
                 IF item = NULL THEN roots ELSE roots \ {r})
  <1> DEFINE next == [Put(h.next, h.prev[item], r) EXCEPT ![r] = h.next[item], ![item] = NULL]
             prev == [Put(h.prev, h.next[item], r) EXCEPT ![r] = h.prev[item], ![item] = NULL]
             child == [h.child EXCEPT ![p] = IF h.child[p] = item THEN r ELSE h.child[p]]
             nextOut == [Put(h.next, h.prev[item], h.next[item]) EXCEPT ![item] = NULL]
             prevOut == [Put(h.prev, h.next[item], h.prev[item]) EXCEPT ![item] = NULL]
             childOut == [h.child EXCEPT ![p] = IF h.child[p] = item THEN h.next[item]
                                                ELSE h.child[p]]
  <1>0. PICK n : n = cJSON_ReplaceItemViaPointer(h, p, item, r)
    OBVIOUS
  <1>1. /\ WellFormed(h, roots) /\ h \in Heap /\ h.live \subseteq Items /\ NULL \notin h.live
        /\ h.const \subseteq h.live /\ roots \subseteq h.live
    BY PointersOf, HeapAssumption DEF Sound, WellFormed, HeapOK
  <1>2. CASE item = NULL
    BY <1>2 DEF cJSON_ReplaceItemViaPointer
  <1>3. CASE item # NULL
    <2>0. PICK x : x = Before(h, p, item)
      OBVIOUS
    <2>1. /\ item \in Members(h, p) /\ r # item /\ item \in h.live /\ r \in h.live
          /\ r # p /\ item \notin roots
      BY <1>1, <1>3, RootsAreNotMembers, MemberPred, FreedIsLive
    <2>2. PICK k : k = cJSON_DetachItemViaPointer(h, p, item)
      OBVIOUS
    <2>3. Returned(k) = {item}
      BY <1>1, <1>3, <2>2, Detached, ZenonT(60) DEF Returned
    <2>4. Sound(k, roots \cup {item}) /\ Splice(k, h, x, item, h.next[item])
      BY <1>3, <2>0, <2>2, <2>3, SoundDetached
    <2>5. k = [h EXCEPT !.next = nextOut, !.prev = prevOut, !.child = childOut, !.ret = item]
      BY <1>1, <1>3, <2>2 DEF cJSON_DetachItemViaPointer, Heap
    <2>6. PICK g : g = [h EXCEPT !.next = next, !.prev = prev, !.child = child]
      OBVIOUS
    <2>7. n = cJSON_Delete(g, item)
      BY <1>0, <1>1, <1>3, <2>1, <2>6 DEF cJSON_ReplaceItemViaPointer, Heap
    <2>8. /\ next \in [Items -> Items \cup {NULL}] /\ prev \in [Items -> Items \cup {NULL}]
          /\ child \in [Items -> Items \cup {NULL}]
      BY <1>1, <2>1, HeapFields DEF Put
    <2> HIDE DEF next, prev, child, nextOut, prevOut, childOut
    <2>9. /\ k.live = h.live /\ k.ref = h.ref /\ k.next = nextOut /\ k.child = childOut
          /\ SameStrings(h, k)
      BY <1>1, <2>5 DEF Heap, SameStrings
    <2>10. /\ g \in Heap /\ g.live = h.live /\ g.ref = h.ref /\ g.const = h.const
           /\ g.next = next /\ g.prev = prev /\ g.child = child /\ SameStrings(h, g)
      BY <1>1, <2>6, <2>8 DEF Heap, SameStrings
    <2>11. WellFormed(g, (roots \ {r}) \cup {item})
      BY <1>1, <2>1, <2>10, Exchange DEF next, prev, child
    <2>12. WellFormed(k, roots \cup {item}) /\ k \in Heap
      BY <2>4, PointersOf DEF Sound
    <2>13. Splice(k, g, x, r, h.next[item])
      BY <1>1, <2>0, <2>1, <2>4, <2>9, <2>10, <2>12, ExchangeSplices
      DEF next, child, nextOut, childOut
    <2>14. x \notin Freed(k, r)
      <3>1. x \notin Freed(h, r) /\ item \notin Freed(h, r)
        BY <1>1, <2>0, <2>1, MemberPred, MembersOutside DEF Before
      <3>2. /\ Freed(h, r) \subseteq h.live /\ r \in Freed(h, r)
            /\ DeleteCloses(h, Freed(h, r))
        BY <1>1, <2>1, FreedIsLive, FreedCloses DEF DeleteCloses
      <3>3. \A c \in Freed(h, r) : k.next[c] = h.next[c] /\ k.child[c] = h.child[c]
        <4> SUFFICES ASSUME NEW c \in Freed(h, r)
                     PROVE  k.next[c] = h.next[c] /\ k.child[c] = h.child[c]
          OBVIOUS
        <4>1. c # item /\ c # p /\ c \in Items
          BY <1>1, <3>1, <3>2
        <4>2. h.prev[item] # c
          <5>1. h.child[p] # item => x = h.prev[item]
            BY <2>0 DEF Before
          <5>2. h.child[p] = item => h.prev[item] = NULL
            BY <1>1, <2>1, MemberPred
          <5> QED
            BY <1>1, <3>1, <3>2, <5>1, <5>2
        <4>3. /\ h.next \in [Items -> Items \cup {NULL}] /\ h.child \in [Items -> Items \cup {NULL}]
          BY <1>1, HeapFields
        <4> QED
          BY <1>1, <2>1, <2>9, <4>1, <4>2, <4>3 DEF nextOut, childOut, Put
      <3>4. DeleteCloses(k, Freed(h, r))
        BY <2>9, <3>2, <3>3 DEF DeleteCloses
      <3>5. Freed(k, r) \subseteq Freed(h, r)
        BY <1>1, <2>12, <3>2, <3>4, FreedSmallest
      <3> QED
        BY <3>1, <3>5
    <2>15. (roots \cup {item}) \ {r} = (roots \ {r}) \cup {item}
      BY <2>1
    <2>16. SameStrings(k, g)
      BY <2>9, <2>10 DEF SameStrings
    <2>17. Sound(g, (roots \cup {item}) \ {r})
      BY <2>4, <2>11, <2>13, <2>14, <2>15, <2>16, SoundLinked
    <2>18. Sound(n, ((roots \cup {item}) \ {r}) \ {item})
      BY <2>1, <2>7, <2>17, SoundDelete, item \in (roots \cup {item}) \ {r}
    <2>19. ((roots \cup {item}) \ {r}) \ {item} = roots \ {r}
      BY <2>1
    <2> QED
      BY <1>0, <1>3, <2>18, <2>19
  <1> QED
    BY <1>2, <1>3

LEMMA SoundReplacedInObject ==
    ASSUME NEW h, NEW roots, Sound(h, roots), NEW p \in h.live \ h.ref,
           NEW r \in roots, p \notin Freed(h, r), NEW name \in Strings, NEW cs
    PROVE  LET n == replace_item_in_object(h, p, name, r, cs)
           IN  Sound(n, IF n.live = h.live THEN roots ELSE roots \ {r})
  <1>0. PICK c : c = IF CanCopy(h, name) THEN Copied(h) ELSE h
    OBVIOUS
  <1>1. PICK key : key = IF CanCopy(h, name) THEN name ELSE NULL
    OBVIOUS
  <1>2. PICK owned \in BOOLEAN : owned = FALSE
    OBVIOUS
  <1>3. PICK g : g = SetString(c, r, key, owned)
    OBVIOUS
  <1>4. PICK item : item = get_object_item(g, p, name, cs)
    OBVIOUS
  <1>5. PICK n : n = cJSON_ReplaceItemViaPointer(g, p, item, r)
    OBVIOUS
  <1>6. replace_item_in_object(h, p, name, r, cs) = n
    BY <1>0, <1>1, <1>2, <1>3, <1>4, <1>5, Zenon DEF replace_item_in_object
  <1>7. r \in h.live
    BY PointersOf DEF Sound
  <1>8. /\ \/ c = h /\ (owned \/ key = NULL)
           \/ h.mem > 0 /\ c = Copied(h) /\ ~owned /\ key # NULL
        /\ key \in Strings \cup {NULL}
    <2>1. CASE CanCopy(h, name)
      BY <1>0, <1>1, <1>2, <2>1 DEF CanCopy
    <2>2. CASE ~CanCopy(h, name)
      BY <1>0, <1>1, <2>2
    <2> QED
      BY <2>1, <2>2
  <1>9. Sound(g, roots) /\ SameTree(h, g)
    BY <1>3, <1>7, <1>8, SoundRenamed
  <1>10. p \in g.live \ g.ref /\ g \in Heap /\ p \in Items /\ WellFormed(g, roots)
    BY <1>9, PointersOf DEF Sound, SameTree
  <1>11. item \in Members(g, p) \cup {NULL}
    BY <1>4, <1>10, GetObjectItem
  <1>12. p \notin Freed(g, r)
    BY <1>9, SameFreed
  <1>13. Sound(n, IF item = NULL THEN roots ELSE roots \ {r})
    BY <1>5, <1>9, <1>10, <1>11, <1>12, SoundReplaced
  <1>14. /\ WellFormed(n, IF item = NULL THEN roots ELSE roots \ {r})
         /\ item = NULL => n = g
         /\ item # NULL => n.live # g.live
    BY <1>5, <1>10, <1>11, Replaced
  <1>15. Sound(n, IF n.live = h.live THEN roots ELSE roots \ {r})
    BY <1>9, <1>13, <1>14 DEF SameTree
  <1> QED
    BY <1>6, <1>15

-----------------------------------------------------------------------------
(* What is sound is accounted for *)

LEMMA SoundAccounts ==
    ASSUME NEW h, NEW roots, Sound(h, roots)
    PROVE  InOneTree(h, roots) /\ StringsMatch(h)
  <1>1. WellFormed(h, roots) /\ Grounded(h) /\ Claimed(h, roots)
    BY DEF Sound, Anchored
  <1>2. Roots(h) = {a \in h.live : \A c \in h.live : ~Pred(h, c, a)}
    BY <1>1, RootsSpelledOut DEF Roots
  <1>3. Roots(h) \subseteq roots \cup h.ref
    BY <1>1, <1>2 DEF Claimed
  <1>4. ASSUME NEW b \in h.live
        PROVE  \E a \in Roots(h) : /\ b \in Freed(h, a)
                                   /\ \A c \in Roots(h) \ {a} : b \notin Freed(h, c)
    <2>1. PICK a \in Roots(h) : b \in Freed(h, a)
      BY <1>1, <1>2, TreesCover
    <2>2. \A c \in Roots(h) \ {a} : Freed(h, a) \cap Freed(h, c) = {}
      BY <1>1, <1>2, TreesApart
    <2> QED
      BY <2>1, <2>2
  <1>5. InOneTree(h, roots)
    BY <1>3, <1>4 DEF InOneTree
  <1>6. StringsMatch(h)
    BY DEF Sound, Counted, StringsMatch, StringOwners, ValueOwners
  <1> QED
    BY <1>5, <1>6
=============================================================================
