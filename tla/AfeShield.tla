----------------------------- MODULE AfeShield -----------------------------
(***************************************************************************)
(* source/afe_shield_operation.c: the three threads that share the I2C bus *)
(* of the shield. getCapSenseThread turns touches into a choice of thing,  *)
(* getWeatherDataThread copies the sensors into this station's row, and    *)
(* displayThread prints the chosen row on the OLED.                        *)
(*                                                                         *)
(* A transfer made between taking and giving i2c_mutex is one step; every  *)
(* access to shared memory outside it is one step of its own. iot_data is  *)
(* not volatile, so fields accessed between two calls are taken in any     *)
(* order.                                                                  *)
(*                                                                         *)
(* An operator marked "Mutant" is a faulty variant of the one after it:    *)
(* it only serves to test that a property can fail.                        *)
(***************************************************************************)
EXTENDS Resources

CONSTANTS
  CHANGE,    \* CHANGE_IN_THING_NUM_ON_BTN3_PRESS
  Samples,   \* sets of buttons one read of the touch sensor may return
  Readings   \* sensor values one read may return

Buttons == 0 .. 3

ASSUME ButtonAssumption ==
  /\ CHANGE \in Nat /\ CHANGE <= MAX_THING + 1
  /\ MAX_THING + CHANGE < 256     \* disp_thing is a uint8_t
ASSUME SensorAssumption ==
  /\ Samples \subseteq SUBSET Buttons
  /\ Readings \subseteq [Measures -> Values]

VARIABLES
  capPc,          \* getCapSenseThread
  pressed,        \* buttons of the sample still to be handled, in order
  buttonPressed,  \* a press is held: new touches are ignored
  wdPc,           \* getWeatherDataThread
  weather_data,   \* last sensor reading
  uncopied,       \* measures of it not yet copied to iot_data
  prev,           \* tempPrev, humPrev, lightPrev
  dispPc,         \* displayThread
  title,          \* thing_str: [thing, alert]
  lines,          \* temp_str, humidity_str, light_str
  unread,         \* measures not yet formatted
  oled            \* what the OLED shows: [thing, data], thing -1 when blank

capVars == <<capPc, pressed, buttonPressed>>
wdVars == <<wdPc, weather_data, uncopied, prev>>
dispVars == <<dispPc, title, lines, unread, oled>>
afeVars == <<capVars, wdVars, dispVars>>

Blank == -1

AfeTypeOK ==
  /\ capPc \in {"sample", "store", "wrap", "give"}
  /\ pressed \in SUBSET Buttons
  /\ buttonPressed \in BOOLEAN
  /\ wdPc \in {"sample", "copy", "compare", "give"}
  /\ weather_data \in [Measures -> Values]
  /\ uncopied \in SUBSET Measures
  /\ prev \in [Measures -> Values]
  /\ dispPc \in {"wait", "alert", "number", "strings", "mutex", "draw"}
  /\ title \in [thing : 0 .. 255, alert : BOOLEAN]
  /\ lines \in [Measures -> Values]
  /\ unread \in SUBSET Measures
  /\ oled \in [thing : Blank .. 255, data : ThingData]

AfeInit ==
  /\ capPc = "sample" /\ pressed = {} /\ buttonPressed = FALSE
  /\ wdPc = "sample" /\ weather_data = ZeroReading /\ uncopied = {}
  /\ prev = ZeroReading
  /\ dispPc = "wait" /\ unread = {}
  /\ title = [thing |-> 0, alert |-> FALSE] /\ lines = ZeroReading
  /\ oled = [thing |-> Blank, data |-> InitialData]

----------------------------------------------------------------------------
(* getCapSenseThread *)

\* One read of the sensor. While a press is held every touch is ignored; a
\* sample without touches releases it.
CapSenseSample ==
  /\ capPc = "sample" /\ i2c_mutex
  /\ \E s \in Samples :
       /\ pressed' = IF buttonPressed THEN {} ELSE s
       /\ buttonPressed' = (s # {})
  /\ capPc' = IF pressed' = {} THEN "sample" ELSE "store"
  /\ UNCHANGED <<wdVars, dispVars, sharedVars>>

\* The if statements of the buttons run in the order 0, 1, 2, 3.
IsNext(b) == b \in pressed /\ \A c \in pressed : b <= c

\* Mutant: the wrap below 0 lands one past the table.
PressedPastTable(b, d) ==
  IF b = 0 THEN MY_THING
  ELSE IF b = 1 THEN IF d = 0 THEN MAX_THING + 1 ELSE d - 1
  ELSE (d + (IF b = 2 THEN 1 ELSE CHANGE)) % 256

\* The first value a button stores in disp_thing, and the value it corrects
\* a number past the last thing to.
Pressed(b, d) ==
  IF b = 0 THEN MY_THING
  ELSE IF b = 1 THEN IF d = 0 THEN MAX_THING ELSE d - 1
  ELSE (d + (IF b = 2 THEN 1 ELSE CHANGE)) % 256
Wrapped(b, d) ==
  IF d <= MAX_THING THEN d ELSE IF b = 2 THEN 0 ELSE d - (MAX_THING + 1)

CapSenseStore(b) ==
  /\ capPc = "store" /\ IsNext(b)
  /\ disp_thing' = Pressed(b, disp_thing)
  /\ capPc' = IF b \in {2, 3} THEN "wrap" ELSE "give"
  /\ UNCHANGED <<pressed, buttonPressed, wdVars, dispVars>>
  /\ OnlySelection

CapSenseWrap(b) ==
  /\ capPc = "wrap" /\ IsNext(b)
  /\ disp_thing' = Wrapped(b, disp_thing)
  /\ capPc' = "give"
  /\ UNCHANGED <<pressed, buttonPressed, wdVars, dispVars>>
  /\ OnlySelection

\* Mutant: the give is skipped while the display is busy.
CapSenseGiveIfWaiting(b) ==
  /\ capPc = "give" /\ IsNext(b)
  /\ display_semaphore' = (display_semaphore \/ dispPc = "wait")
  /\ pressed' = pressed \ {b}
  /\ capPc' = IF pressed' = {} THEN "sample" ELSE "store"
  /\ UNCHANGED <<buttonPressed, wdVars, dispVars>>
  /\ OnlySemaphore

CapSenseGive(b) ==
  /\ capPc = "give" /\ IsNext(b)
  /\ GiveDisplay
  /\ pressed' = pressed \ {b}
  /\ capPc' = IF pressed' = {} THEN "sample" ELSE "store"
  /\ UNCHANGED <<buttonPressed, wdVars, dispVars>>
  /\ OnlySemaphore

CapSensePress ==
  \E b \in Buttons : CapSenseStore(b) \/ CapSenseWrap(b) \/ CapSenseGive(b)
CapSenseNext == CapSenseSample \/ CapSensePress

----------------------------------------------------------------------------
(* getWeatherDataThread *)

WeatherSample ==
  /\ wdPc = "sample" /\ i2c_mutex
  /\ weather_data' \in Readings
  /\ uncopied' = Measures
  /\ wdPc' = "copy"
  /\ UNCHANGED <<prev, capVars, dispVars, sharedVars>>

WeatherCopy(m) ==
  /\ wdPc = "copy" /\ m \in uncopied
  /\ Store(MY_THING, m, weather_data[m])
  /\ uncopied' = uncopied \ {m}
  /\ wdPc' = IF uncopied' = {} THEN "compare" ELSE "copy"
  /\ UNCHANGED <<weather_data, prev, capVars, dispVars>>
  /\ OnlyTable

WeatherCompare ==
  /\ wdPc = "compare"
  /\ prev' = [m \in Measures |-> iot_data[MY_THING][m]]
  /\ wdPc' = IF prev' = prev THEN "sample" ELSE "give"
  /\ UNCHANGED <<weather_data, uncopied, capVars, dispVars, sharedVars>>

WeatherGive ==
  /\ wdPc = "give"
  /\ GiveDisplay
  /\ wdPc' = "sample"
  /\ UNCHANGED <<weather_data, uncopied, prev, capVars, dispVars>>
  /\ OnlySemaphore

WeatherNext ==
  \/ WeatherSample \/ WeatherCompare \/ WeatherGive
  \/ \E m \in Measures : WeatherCopy(m)

----------------------------------------------------------------------------
(* displayThread. It evaluates disp_thing anew for every string it prints. *)

DisplayTake ==
  /\ dispPc = "wait" /\ display_semaphore
  /\ display_semaphore' = FALSE
  /\ unannounced' = {}
  /\ dispPc' = "alert"
  /\ UNCHANGED <<title, lines, unread, oled, capVars, wdVars>>
  /\ UNCHANGED <<iot_data, disp_thing, print_all, i2c_mutex, pub_queue,
                 alertUnsent>>

DisplayAlert ==
  /\ dispPc = "alert"
  /\ \E a \in Entry(disp_thing, "alert") : title' = [title EXCEPT !.alert = a]
  /\ dispPc' = "number"
  /\ UNCHANGED <<lines, unread, oled, capVars, wdVars, sharedVars>>

DisplayNumber ==
  /\ dispPc = "number"
  /\ title' = [title EXCEPT !.thing = disp_thing]
  /\ unread' = Measures
  /\ dispPc' = "strings"
  /\ UNCHANGED <<lines, oled, capVars, wdVars, sharedVars>>

DisplayString(m) ==
  /\ dispPc = "strings" /\ m \in unread
  /\ \E v \in Entry(disp_thing, m) : lines' = [lines EXCEPT ![m] = v]
  /\ unread' = unread \ {m}
  /\ dispPc' = IF unread' = {} THEN "mutex" ELSE "strings"
  /\ UNCHANGED <<title, oled, capVars, wdVars, sharedVars>>

DisplayMutex ==
  /\ dispPc = "mutex" /\ i2c_mutex
  /\ i2c_mutex' = FALSE
  /\ dispPc' = "draw"
  /\ UNCHANGED <<title, lines, unread, oled, capVars, wdVars>>
  /\ OnlyMutex

\* Mutant: the semaphore is cleared after drawing as well.
DisplayDrawTakesAgain ==
  /\ dispPc = "draw"
  /\ \E ip \in Entry(disp_thing, "ip") :
       oled' = [thing |-> title.thing, data |-> Row(ip, title.alert, lines)]
  /\ i2c_mutex' = TRUE
  /\ title' = [thing |-> 0, alert |-> FALSE] /\ lines' = ZeroReading
  /\ dispPc' = "wait"
  /\ UNCHANGED <<unread, capVars, wdVars>>
  /\ display_semaphore' = FALSE
  /\ UNCHANGED <<iot_data, disp_thing, print_all, pub_queue, unannounced,
                 alertUnsent>>

\* The address is read while the mutex is held, after the other strings.
DisplayDraw ==
  /\ dispPc = "draw"
  /\ \E ip \in Entry(disp_thing, "ip") :
       oled' = [thing |-> title.thing, data |-> Row(ip, title.alert, lines)]
  /\ i2c_mutex' = TRUE
  \* The strings are dead from here on.
  /\ title' = [thing |-> 0, alert |-> FALSE] /\ lines' = ZeroReading
  /\ dispPc' = "wait"
  /\ UNCHANGED <<unread, capVars, wdVars>>
  /\ OnlyMutex

DisplayNext ==
  \/ DisplayTake \/ DisplayAlert \/ DisplayNumber \/ DisplayMutex \/ DisplayDraw
  \/ \E m \in Measures : DisplayString(m)
============================================================================
