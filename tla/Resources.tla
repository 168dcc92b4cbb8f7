----------------------------- MODULE Resources -----------------------------
(***************************************************************************)
(* The data every part of the station shares: the table iot_data, the      *)
(* number of the thing on the display, and the RTOS objects declared in    *)
(* common_resource.h and created by RunApplication (weather_station.c).    *)
(* Tasks and interrupt handlers interleave at the granularity of one       *)
(* access to a shared object, which over-approximates every priority       *)
(* assignment.                                                             *)
(***************************************************************************)
EXTENDS Integers, Sequences

CONSTANTS
  MAX_THING,   \* number of the last thing; the table has MAX_THING + 1 rows
  MY_THING,    \* number of this station
  QUEUE_SIZE,  \* capacity of pub_queue
  Measures,    \* the measured quantities: temperature, humidity, light
  Values,      \* values a measure can take
  Zero,        \* the measure 0.0 the table is initialised with
  Addresses,   \* IP address strings
  NoAddress,   \* the address "0.0.0.0"
  MyAddress,   \* what WIFI_GetIP returned
  Absent       \* a field a JSON message does not carry

Things == 0 .. MAX_THING

ASSUME ThingsAssumption == MAX_THING \in Nat /\ MY_THING \in Things
\* publishThread queues one IP_CMD and one GET_CMD per thing before it takes
\* the first command out (50 >= 39 + 2 in the code).
ASSUME QueueAssumption == QUEUE_SIZE \in Nat /\ QUEUE_SIZE >= MAX_THING + 2
ASSUME DataAssumption ==
  /\ Measures \cap {"ip", "alert"} = {}
  /\ Zero \in Values
  /\ NoAddress \in Addresses /\ MyAddress \in Addresses
  /\ Absent \notin BOOLEAN \cup Addresses \cup Values

----------------------------------------------------------------------------
(* One row of the table. The row's thingNumber is its index and is left out. *)
Fields == {"ip", "alert"} \cup Measures
Datum == BOOLEAN \cup Addresses \cup Values
FieldType(f) ==
  IF f = "ip" THEN Addresses ELSE IF f = "alert" THEN BOOLEAN ELSE Values
ThingData == {d \in [Fields -> Datum] : \A f \in Fields : d[f] \in FieldType(f)}
Row(ip, alert, measured) ==
  [f \in Fields |->
     IF f = "ip" THEN ip ELSE IF f = "alert" THEN alert ELSE measured[f]]
ZeroReading == [m \in Measures |-> Zero]
InitialData == Row(NoAddress, FALSE, ZeroReading)

(* Commands of the publish queue. MEASURE_CMD stands for TEMPERATURE_CMD,  *)
(* HUMIDITY_CMD and LIGHT_CMD; GET_CMD carries a thing in its second byte. *)
WEATHER_CMD == [cmd |-> "WEATHER_CMD"]
ALERT_CMD == [cmd |-> "ALERT_CMD"]
IP_CMD == [cmd |-> "IP_CMD"]
MEASURE_CMD(m) == [cmd |-> "MEASURE_CMD", measure |-> m]
GET_CMD(n) == [cmd |-> "GET_CMD", thing |-> n]
Commands ==
  {WEATHER_CMD, ALERT_CMD, IP_CMD}
    \cup {MEASURE_CMD(m) : m \in Measures} \cup {GET_CMD(n) : n \in Things}
CarriesAlert(c) == c \in {WEATHER_CMD, ALERT_CMD}

----------------------------------------------------------------------------
VARIABLES
  iot_data,           \* the table, one row per thing
  disp_thing,         \* thing on the display (volatile uint8_t)
  print_all,          \* print the updates of all things on the console
  display_semaphore,  \* binary semaphore: TRUE when given
  i2c_mutex,          \* TRUE when free
  pub_queue,          \* commands waiting for the publish thread
  \* History variables: no action of the code reads them.
  unannounced,        \* things written without giving display_semaphore
                      \* since displayThread last took it
  alertUnsent         \* the last command to carry the alert was refused by
                      \* the full queue, or its publish failed, with no
                      \* other such command waiting

sharedVars == <<iot_data, disp_thing, print_all, display_semaphore, i2c_mutex,
                pub_queue, unannounced, alertUnsent>>

SharedTypeOK ==
  /\ iot_data \in [Things -> ThingData]
  /\ disp_thing \in 0 .. 255
  /\ print_all \in BOOLEAN
  /\ display_semaphore \in BOOLEAN
  /\ i2c_mutex \in BOOLEAN
  /\ pub_queue \in Seq(Commands) /\ Len(pub_queue) <= QUEUE_SIZE
  /\ unannounced \in SUBSET Things
  /\ alertUnsent \in BOOLEAN

SharedInit ==
  /\ iot_data = [n \in Things |->
                   IF n = MY_THING THEN [InitialData EXCEPT !["ip"] = MyAddress]
                                   ELSE InitialData]
  /\ disp_thing = MY_THING
  /\ print_all = FALSE
  /\ display_semaphore = FALSE
  /\ i2c_mutex = TRUE
  /\ pub_queue = <<>>
  /\ unannounced = Things
  /\ alertUnsent = TRUE

(* A step that changes at most the object it is named for, or none. *)
OnlyTable == UNCHANGED <<disp_thing, print_all, display_semaphore, i2c_mutex,
                         pub_queue, unannounced, alertUnsent>>
OnlySelection == UNCHANGED <<iot_data, print_all, display_semaphore, i2c_mutex,
                             pub_queue, unannounced, alertUnsent>>
OnlySemaphore == UNCHANGED <<iot_data, disp_thing, print_all, i2c_mutex,
                             pub_queue, unannounced, alertUnsent>>
OnlyMutex == UNCHANGED <<iot_data, disp_thing, print_all, display_semaphore,
                         pub_queue, unannounced, alertUnsent>>
OnlyQueue == UNCHANGED <<iot_data, disp_thing, print_all, display_semaphore,
                         i2c_mutex, unannounced>>

(* The values reading field f of row d may return: a row outside the table *)
(* is other memory, so anything of the field's type.                       *)
Entry(d, f) == IF d \in Things THEN {iot_data[d][f]} ELSE FieldType(f)

Store(n, f, v) == iot_data' = [iot_data EXCEPT ![n][f] = v]

(* xSemaphoreGive and xSemaphoreGiveFromISR on display_semaphore. *)
GiveDisplay == display_semaphore' = TRUE

(* xQueueSend(pub_queue, c, portMAX_DELAY): blocks while the queue is full. *)
Send(c) ==
  /\ Len(pub_queue) < QUEUE_SIZE
  /\ pub_queue' = Append(pub_queue, c)
  /\ alertUnsent' = (alertUnsent /\ ~CarriesAlert(c))

AlertQueued == \E i \in DOMAIN pub_queue : CarriesAlert(pub_queue[i])

(* xQueueSendFromISR: a full queue refuses the command and the caller does *)
(* not look at the result. changesAlert: the handler toggled the alert.    *)
SendFromISR(c, changesAlert) ==
  \/ Send(c)
  \/ /\ Len(pub_queue) = QUEUE_SIZE
     /\ alertUnsent' = (alertUnsent \/ (changesAlert /\ ~AlertQueued))
     /\ UNCHANGED pub_queue
============================================================================
