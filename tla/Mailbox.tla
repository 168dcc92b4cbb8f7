------------------------------ MODULE Mailbox ------------------------------
(***************************************************************************)
(* What a one-place mailbox promises to who types: only keys that were     *)
(* typed are served, each as it was when it was the last one; a key typed  *)
(* while one is being fetched may stand for both; and nothing is due once  *)
(* the last key was served.                                                *)
(***************************************************************************)
EXTENDS Naturals

CONSTANTS Symbols, None   \* the keys, and what the mailbox holds before the first

VARIABLES
  last,     \* the key typed last
  due,      \* how often the mailbox will still be read: 0, 1 or 2
  served    \* the key served last

mailVars == <<last, due, served>>

Init == last = None /\ served = None /\ due = 0

\* A key makes one more reading due, or joins those already due.
Type ==
  /\ last' \in Symbols
  /\ due' \in {IF due = 0 THEN 1 ELSE due, IF due = 2 THEN 2 ELSE due + 1}
  /\ UNCHANGED served

Serve ==
  /\ due > 0
  /\ due' = due - 1
  /\ served' = last
  /\ UNCHANGED last

Next == Type \/ Serve

Spec == Init /\ [][Next]_mailVars
============================================================================
