------------------------------ MODULE MCI2cBus ------------------------------
(***************************************************************************)
(* Values of the constants of I2cBus for TLC: the tasks of the code with   *)
(* the priorities of weather_station.c.                                    *)
(***************************************************************************)
EXTENDS I2cBus

CONSTANTS capsense, weather

TwoPollers == {capsense, weather}
CodePriorities ==
  [t \in Tasks |-> IF t = Main THEN 0 ELSE IF t = Display THEN 3 ELSE 2]
============================================================================
