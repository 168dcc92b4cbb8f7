---------------------------- MODULE CJsonCompare ----------------------------
(***************************************************************************)
(* Comparison in cJSON.c: whether two trees of a heap have equal contents. *)
(***************************************************************************)
EXTENDS CJsonHeap

RECURSIVE cJSON_Compare(_, _, _, _)

\* Every item of xs has an equal counterpart of its name in object.
Found(h, xs, object, case_sensitive) ==
    \A i \in 1..Len(xs) :
        LET y == get_object_item(h, object, h.string[xs[i]], case_sensitive)
        IN  y # NULL /\ cJSON_Compare(h, xs[i], y, case_sensitive)

\* Mutant: the second object may have more members.
ObjectWithin(h, a, b, case_sensitive) == Found(h, ListOf(h, a), b, case_sensitive)

\* Looked up in both directions, so that neither object is a part of the other.
SameObject(h, a, b, case_sensitive) ==
    /\ Found(h, ListOf(h, a), b, case_sensitive)
    /\ Found(h, ListOf(h, b), a, case_sensitive)

cJSON_Compare(h, a, b, case_sensitive) ==
    LET As == ListOf(h, a)
        Bs == ListOf(h, b)
    IN  /\ h.type[a] = h.type[b] /\ h.type[a] # "Invalid"
        /\ \/ a = b
           \/ h.type[a] \in {"False", "True", "NULL"}
           \/ h.type[a] = "Number" /\ h.valueint[a] = h.valueint[b]
           \/ /\ h.type[a] \in {"String", "Raw"}
              /\ h.valuestring[a] # NULL /\ h.valuestring[a] = h.valuestring[b]
           \/ /\ h.type[a] = "Array" /\ Len(As) = Len(Bs)
              /\ \A i \in 1..Len(As) : cJSON_Compare(h, As[i], Bs[i], case_sensitive)
           \/ h.type[a] = "Object" /\ SameObject(h, a, b, case_sensitive)
=============================================================================
