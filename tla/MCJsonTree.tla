----------------------------- MODULE MCJsonTree -----------------------------
(***************************************************************************)
(* Values for the constants of CJsonTree. Two keys that differ in case.    *)
(***************************************************************************)
EXTENDS CJsonTree, TLC

CONSTANTS i1, i2, i3, i4

MCStrings == {"temp", "TEMP"}
MCLower == [s \in MCStrings |-> "temp"]

Symmetry == Permutations(Items)
=============================================================================
