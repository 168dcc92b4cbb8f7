----------------------------- MODULE AtomicBus -----------------------------
(***************************************************************************)
(* What the threads of the shield rely on, and what AfeShield assumes when *)
(* it makes a transfer one step: a read of the sensor chip returns the     *)
(* register the thread asked for, as it is at that moment, and the OLED,   *)
(* which powers up with noise, is cleared before anything is drawn.        *)
(***************************************************************************)
CONSTANTS
  Pollers,  \* threads that read one register of the sensor chip each
  Data      \* contents of a register

VARIABLES register, value, oled

busVars == <<register, value, oled>>

Init ==
  /\ register \in [Pollers -> Data]
  /\ value \in [Pollers -> Data]
  /\ oled = "noise"

Change(p) ==
  /\ \E d \in Data : register' = [register EXCEPT ![p] = d]
  /\ UNCHANGED <<value, oled>>

Sense(p) ==
  /\ value' = [value EXCEPT ![p] = register[p]]
  /\ UNCHANGED <<register, oled>>

Clear ==
  /\ oled = "noise" /\ oled' = "blank"
  /\ UNCHANGED <<register, value>>

Draw ==
  /\ oled # "noise" /\ oled' = "picture"
  /\ UNCHANGED <<register, value>>

Next == Clear \/ Draw \/ \E p \in Pollers : Change(p) \/ Sense(p)

Spec == Init /\ [][Next]_busVars
============================================================================
