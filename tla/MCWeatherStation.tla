-------------------------- MODULE MCWeatherStation --------------------------
(***************************************************************************)
(* Values for the constants of WeatherStation. Each configuration picks    *)
(* the inputs of one question and leaves the other sources silent.         *)
(***************************************************************************)
EXTENDS WeatherStation

CONSTANTS temp,       \* a measure
          zero, v1,   \* values
          noIp, ip1,  \* addresses
          w1          \* a worker

\* Touches: single buttons, or several buttons at once.
NoTouch == {}
NoReadings == {}
StepDown == {{}, {1}}
StepUp == {{}, {2}}
Turns == {{}, {2}, {3}, {0, 1}}
AnyTouch == SUBSET Buttons

AllReadings == [Measures -> Values]

NoSession == {FALSE}
Session == {TRUE}
AnySession == BOOLEAN
NoFilter == {{}}
BothFilters == {PubTypes}
UpdateFilter == {{"update/documents"}}
AnyFilters == SUBSET PubTypes

\* An alert is raised in a document with an address and cleared in one without.
NoDocuments == {}
Document(i, a, v) == Row(i, a, [m \in Measures |-> v])
OneDocument == {Document(Absent, TRUE, v1)}
TwoDocuments == {Document(ip1, TRUE, v1), Document(Absent, FALSE, zero)}

FreshShadow == {FALSE}

NoKeys == {}
AlertKeys == {"A", "a"}
MeasureKey == {temp}
KindsOfKey == {temp, "A", "p"}
RaiseKey == {"A"}

AlertPresses == {"alert_button"}
NoInputs == {}
============================================================================
