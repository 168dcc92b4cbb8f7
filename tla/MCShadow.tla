------------------------------ MODULE MCShadow ------------------------------
(***************************************************************************)
(* Values for the constants of Shadow: one station reports and one         *)
(* listens, with two workers. Stations meet only at the broker, so that    *)
(* any two of them behave like these.                                      *)
(***************************************************************************)
EXTENDS Shadow

CONSTANTS w1, w2, zero, one

\* Of one of the things the broker knows all from the beginning: of the
\* listener, when of the reporter it knows only a part or nothing.
Shadows ==
  {s \in [Things -> [Fields -> {zero, Absent}]] :
     s[0] = IF Whole(s[1]) THEN Unknown ELSE [f \in Fields |-> zero]}
============================================================================
