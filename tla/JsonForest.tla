----------------------------- MODULE JsonForest -----------------------------
(***************************************************************************)
(* What cJSON's tree functions promise, without pointers: every item has a *)
(* sequence of members and a key, no item is a member twice, and one call  *)
(* makes at most one change of one sequence. What a call takes out it      *)
(* either hands to the program or discards with everything below it.       *)
(***************************************************************************)
EXTENDS Sequences, SequencesExt

CONSTANTS Nodes, NoKey

VARIABLES kids,   \* the members of each item, in order
          key     \* its key
fvars == <<kids, key>>

Init == kids = [p \in Nodes |-> <<>>] /\ key = [p \in Nodes |-> NoKey]

\* An item and all that is below it; an item that is no one's member.
Below(a) == {b \in Nodes : \A S \in SUBSET Nodes :
                a \in S /\ (\A c \in S : Range(kids[c]) \subseteq S) => b \in S}

Root(a) == \A p \in Nodes : a \notin Range(kids[p])

\* Only the members of p change; only keys of items in S change.
OnlyMembers(p, s) == kids'[p] = s /\ \A q \in Nodes \ {p} : kids'[q] = kids[q]
OnlyKeys(S) == \A b \in Nodes \ S : key'[b] = key[b]

\* A root becomes the i-th member of an item that is not below it.
Attach(p, i, a) ==
    /\ OnlyMembers(p, InsertAt(kids[p], i, a))
    /\ OnlyKeys({a})
    /\ Root(a) /\ p \notin Below(a)

\* A root gets another key.
Rename(a) == Root(a) /\ UNCHANGED kids /\ OnlyKeys({a})

Detach(p, i) == OnlyMembers(p, RemoveAt(kids[p], i)) /\ UNCHANGED key

\* An item and all below it are gone; p, which is not among them, keeps the members s.
Gone(a, p, s) ==
    LET below == Below(a)
    IN  /\ \A q \in Nodes : kids'[q] = IF q \in below THEN <<>> ELSE IF q = p THEN s ELSE kids[q]
        /\ \A b \in below : key'[b] = NoKey

Discard(a) == Root(a) /\ Gone(a, a, <<>>) /\ OnlyKeys(Below(a))

DetachAndDiscard(p, i) ==
    /\ Gone(kids[p][i], p, RemoveAt(kids[p], i))
    /\ OnlyKeys(Below(kids[p][i]))

\* A root takes the place of the i-th member, which is discarded.
Exchange(p, i, a) ==
    /\ Gone(kids[p][i], p, ReplaceAt(kids[p], i, a))
    /\ OnlyKeys(Below(kids[p][i]) \cup {a})
    /\ Root(a) /\ p \notin Below(a)

\* What a call does to the forest, if anything.
Next ==
    /\ kids' # kids \/ key' # key
    /\ \/ \E p, a \in Nodes : \E i \in 1..Len(kids[p]) + 1 : Attach(p, i, a)
       \/ \E a \in Nodes : Rename(a) \/ Discard(a)
       \/ \E p \in Nodes : \E i \in 1..Len(kids[p]) :
            \/ Detach(p, i)
            \/ DetachAndDiscard(p, i)
            \/ \E a \in Nodes : Exchange(p, i, a)

Spec == Init /\ [][Next]_fvars
=============================================================================
