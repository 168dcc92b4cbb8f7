------------------------ MODULE WeatherStationProofs ------------------------
(***************************************************************************)
(* Proofs about WeatherStation, for every table size, queue size, set of   *)
(* measures and values, set of workers and environment. Three parts: the   *)
(* types of the variables and who writes what; the path from a key, a      *)
(* button or the timer to the broker; and the screen.                      *)
(***************************************************************************)
EXTENDS WeatherStation, TLAPS

(***************************************************************************)
(* Proof that WeatherStation keeps its variables in their types, for every *)
(* table size, queue size, set of measures and values, set of workers and  *)
(* environment: every other proof about WeatherStation starts from it.     *)
(* Then proofs about who writes what: the selection stays in the table, no *)
(* message reaches this station's own row, and that row keeps the last     *)
(* reading between two rounds of the weather thread.                       *)
(***************************************************************************)
----------------------------------------------------------------------------
(* Lemmas about the data *)

\* The commands the threads queue are commands.
LEMMA CommandTypes ==
  /\ WEATHER_CMD \in Commands /\ ALERT_CMD \in Commands /\ IP_CMD \in Commands
  /\ \A m \in Measures : MEASURE_CMD(m) \in Commands
  /\ \A n \in Things : GET_CMD(n) \in Commands
BY DEF Commands

\* Every field has a type within Datum; the measures have the type Values.
LEMMA FieldTypes ==
  /\ \A f \in Fields : FieldType(f) \subseteq Datum
  /\ "ip" \in Fields /\ "alert" \in Fields /\ Measures \subseteq Fields
  /\ FieldType("ip") = Addresses /\ FieldType("alert") = BOOLEAN
  /\ \A m \in Measures : FieldType(m) = Values
BY DataAssumption DEF Fields, FieldType, Datum

\* Replacing one field of a row by a value of its type gives a row.
LEMMA RowUpdate ==
  ASSUME NEW d \in ThingData, NEW f \in Fields, NEW v \in FieldType(f)
  PROVE  [d EXCEPT ![f] = v] \in ThingData
BY FieldTypes DEF ThingData

\* Writing one field of the table keeps it a table.
LEMMA StoreType ==
  ASSUME iot_data \in [Things -> ThingData],
         NEW n \in Things, NEW f \in Fields, NEW v \in FieldType(f), Store(n, f, v)
  PROVE  iot_data' \in [Things -> ThingData]
<1>1. [iot_data[n] EXCEPT ![f] = v] \in ThingData
  BY RowUpdate
<1>2. iot_data' = [iot_data EXCEPT ![n] = [iot_data[n] EXCEPT ![f] = v]]
  BY DEF Store
<1>3. QED
  BY <1>1, <1>2

\* Whatever row number is read, the value has the type of the field.
LEMMA EntryType ==
  ASSUME iot_data \in [Things -> ThingData], NEW d, NEW f \in Fields,
         NEW v \in Entry(d, f)
  PROVE  v \in FieldType(f)
BY DEF Entry, ThingData

\* A row built from an address, an alert and measures is a row.
LEMMA RowType ==
  ASSUME NEW i \in Addresses, NEW a \in BOOLEAN, NEW ms \in [Measures -> Values]
  PROVE  Row(i, a, ms) \in ThingData
<1>1. \A f \in Fields : Row(i, a, ms)[f] \in FieldType(f)
  BY DEF Row, FieldType, Fields
<1>2. Row(i, a, ms) \in [Fields -> Datum]
  BY <1>1, FieldTypes DEF Row
<1>3. QED
  BY <1>1, <1>2 DEF ThingData

\* The initial row is a row.
LEMMA InitialDataType == InitialData \in ThingData
BY RowType, DataAssumption DEF InitialData, ZeroReading

----------------------------------------------------------------------------
(* Lemmas about the queue *)

\* Appending keeps the queue within its capacity, and keeps what it holds.
LEMMA SendType ==
  ASSUME SharedTypeOK, NEW c \in Commands, Send(c)
  PROVE  /\ pub_queue' \in Seq(Commands)
         /\ Len(pub_queue') = Len(pub_queue) + 1
         /\ Len(pub_queue') <= QUEUE_SIZE
         /\ alertUnsent' \in BOOLEAN
BY QueueAssumption DEF SharedTypeOK, Send

\* So does sending from an interrupt handler, which may drop the command.
LEMMA SendFromISRType ==
  ASSUME SharedTypeOK, NEW c \in Commands, NEW b \in BOOLEAN, SendFromISR(c, b)
  PROVE  /\ pub_queue' \in Seq(Commands)
         /\ Len(pub_queue') <= QUEUE_SIZE
         /\ alertUnsent' \in BOOLEAN
<1>1. CASE Send(c)
  BY <1>1, SendType
<1>2. CASE UNCHANGED pub_queue /\ alertUnsent' = (alertUnsent \/ (b /\ ~AlertQueued))
  BY <1>2 DEF SharedTypeOK
<1>3. QED
  BY <1>1, <1>2 DEF SendFromISR

----------------------------------------------------------------------------
(* One lemma per group of actions *)

\* What an action leaves alone keeps its type.
LEMMA SharedFrame == ASSUME SharedTypeOK, UNCHANGED sharedVars PROVE SharedTypeOK'
BY DEF SharedTypeOK, sharedVars
\* The same for the shield threads.
LEMMA AfeFrame == ASSUME AfeTypeOK, UNCHANGED afeVars PROVE AfeTypeOK'
BY DEF AfeTypeOK, afeVars, capVars, wdVars, dispVars
\* The same for the MQTT side.
LEMMA MqttFrame == ASSUME MqttTypeOK, UNCHANGED mqttVars PROVE MqttTypeOK'
BY DEF MqttTypeOK, mqttVars, pubVars, brokerVars
\* The same for the console.
LEMMA ConsoleFrame == ASSUME ConsoleTypeOK, UNCHANGED consoleVars PROVE ConsoleTypeOK'
BY DEF ConsoleTypeOK, consoleVars

\* The variables start in their types.
LEMMA InitTypes == Init => TypeOK
<1> SUFFICES ASSUME Init PROVE TypeOK
  OBVIOUS
<1>1. SharedTypeOK
  <2>1. [InitialData EXCEPT !["ip"] = MyAddress] \in ThingData
    BY RowUpdate, InitialDataType, FieldTypes, DataAssumption
  <2>2. iot_data \in [Things -> ThingData]
    BY <2>1, InitialDataType DEF Init, SharedInit
  <2>3. MY_THING \in 0 .. 255
    BY ThingsAssumption, ButtonAssumption DEF Things
  <2>4. pub_queue \in Seq(Commands) /\ Len(pub_queue) <= QUEUE_SIZE
    <3>1. pub_queue = <<>>
      BY DEF Init, SharedInit
    <3>2. QED
      BY <3>1, QueueAssumption
  <2>5. QED
    BY <2>2, <2>3, <2>4 DEF Init, SharedInit, SharedTypeOK
<1>2. AfeTypeOK
  <2>1. ZeroReading \in [Measures -> Values]
    BY DataAssumption DEF ZeroReading
  <2>2. oled \in [thing : Blank .. 255, data : ThingData]
    BY InitialDataType DEF Init, AfeInit, Blank
  <2>3. title \in [thing : 0 .. 255, alert : BOOLEAN]
    BY DEF Init, AfeInit
  <2>4. QED
    BY <2>1, <2>2, <2>3 DEF Init, AfeInit, AfeTypeOK
<1>3. MqttTypeOK
  <2>1. job \in [Workers -> Jobs]
    BY DEF Init, MqttInit, Jobs
  <2>2. json \in Messages
    BY DEF Init, MqttInit, EmptyJson, Messages
  <2>3. next \in Things /\ command \in Commands
    BY CommandTypes, ThingsAssumption DEF Init, MqttInit, Things
  <2>4. shadow \in BOOLEAN /\ behind \in BOOLEAN /\ outstanding \subseteq Handed
    BY DocumentAssumption DEF Init, MqttInit
  <2>5. QED
    BY <2>1, <2>2, <2>3, <2>4 DEF Init, MqttInit, MqttTypeOK
<1>4. ConsoleTypeOK
  BY DEF Init, ConsoleInit, ConsoleTypeOK, AllKeys
<1>5. QED
  BY <1>1, <1>2, <1>3, <1>4 DEF TypeOK, Init, Stages

\* A button stores a uint8_t, and the wrap-around corrects it to another.
LEMMA PressedType ==
  ASSUME NEW b \in Buttons, NEW d \in 0 .. 255
  PROVE  Pressed(b, d) \in 0 .. 255 /\ Wrapped(b, d) \in 0 .. 255
BY ThingsAssumption, ButtonAssumption DEF Pressed, Wrapped, Buttons, Things

\* getCapSenseThread keeps disp_thing a uint8_t.
LEMMA CapSenseTypes ==
  ASSUME TypeOK, CapSenseNext
  PROVE  SharedTypeOK' /\ AfeTypeOK'
<1> USE DEF TypeOK, SharedTypeOK, AfeTypeOK
<1>1. CASE CapSenseSample
  <2>1. PICK s \in Samples : /\ pressed' = IF buttonPressed THEN {} ELSE s
                             /\ buttonPressed' = (s # {})
    BY <1>1 DEF CapSenseSample
  <2>2. pressed' \in SUBSET Buttons
    BY <2>1, SensorAssumption
  <2>3. buttonPressed' \in BOOLEAN
    BY <2>1
  <2>4. capPc' \in {"sample", "store", "wrap", "give"}
    BY <1>1 DEF CapSenseSample
  <2>5. QED
    BY <1>1, <2>2, <2>3, <2>4 DEF CapSenseSample, sharedVars, wdVars, dispVars
<1>2. ASSUME NEW b \in Buttons, CapSenseStore(b) PROVE SharedTypeOK' /\ AfeTypeOK'
  <2>1. disp_thing' \in 0 .. 255
    BY <1>2, PressedType, ZenonT(60) DEF CapSenseStore
  <2>2. capPc' \in {"sample", "store", "wrap", "give"}
    BY <1>2 DEF CapSenseStore
  <2>3. QED
    BY <1>2, <2>1, <2>2, SMTT(30) DEF CapSenseStore, OnlySelection, wdVars, dispVars
<1>3. ASSUME NEW b \in Buttons, CapSenseWrap(b) PROVE SharedTypeOK' /\ AfeTypeOK'
  <2>1. disp_thing' \in 0 .. 255
    BY <1>3, PressedType, ZenonT(60) DEF CapSenseWrap
  <2>2. QED
    BY <1>3, <2>1 DEF CapSenseWrap, OnlySelection, wdVars, dispVars
<1>4. ASSUME NEW b \in Buttons, CapSenseGive(b) PROVE SharedTypeOK' /\ AfeTypeOK'
  BY <1>4 DEF CapSenseGive, GiveDisplay, OnlySemaphore, wdVars, dispVars
<1>5. QED
  BY <1>1, <1>2, <1>3, <1>4 DEF CapSenseNext, CapSensePress

\* getWeatherDataThread stores readings in this station's row.
LEMMA WeatherTypes ==
  ASSUME TypeOK, WeatherNext
  PROVE  SharedTypeOK' /\ AfeTypeOK'
<1> USE DEF TypeOK, SharedTypeOK, AfeTypeOK
<1>1. CASE WeatherSample
  BY <1>1, SensorAssumption DEF WeatherSample, sharedVars, capVars, dispVars
<1>2. ASSUME NEW m \in Measures, WeatherCopy(m) PROVE SharedTypeOK' /\ AfeTypeOK'
  <2>1. iot_data' \in [Things -> ThingData]
    BY <1>2, StoreType, FieldTypes, ThingsAssumption DEF WeatherCopy
  <2>2. QED
    BY <1>2, <2>1 DEF WeatherCopy, OnlyTable, capVars, dispVars
<1>3. CASE WeatherCompare
  <2>1. \A m \in Measures : iot_data[MY_THING][m] \in Values
    BY FieldTypes, ThingsAssumption DEF ThingData
  <2>2. QED
    BY <1>3, <2>1 DEF WeatherCompare, sharedVars, capVars, dispVars
<1>4. CASE WeatherGive
  BY <1>4 DEF WeatherGive, GiveDisplay, OnlySemaphore, capVars, dispVars
<1>5. QED
  BY <1>1, <1>2, <1>3, <1>4 DEF WeatherNext

\* displayThread draws data of the row's types, even from outside the table.
LEMMA DisplayTypes ==
  ASSUME TypeOK, DisplayNext
  PROVE  SharedTypeOK' /\ AfeTypeOK'
<1> USE DEF TypeOK, SharedTypeOK, AfeTypeOK
<1>1. CASE DisplayTake
  BY <1>1, ZenonT(60) DEF DisplayTake, wdVars, capVars
<1>2. CASE DisplayAlert
  <2>1. PICK a \in Entry(disp_thing, "alert") : title' = [title EXCEPT !.alert = a]
    BY <1>2 DEF DisplayAlert
  <2>2. a \in BOOLEAN
    BY EntryType, FieldTypes
  <2>3. title' \in [thing : 0 .. 255, alert : BOOLEAN]
    BY <2>1, <2>2
  <2>4. QED
    BY <1>2, <2>3 DEF DisplayAlert, sharedVars, wdVars, capVars
<1>3. CASE DisplayNumber
  BY <1>3, ZenonT(60) DEF DisplayNumber, sharedVars, wdVars, capVars
<1>4. ASSUME NEW m \in Measures, DisplayString(m) PROVE SharedTypeOK' /\ AfeTypeOK'
  BY <1>4, EntryType, FieldTypes DEF DisplayString, sharedVars, wdVars, capVars
<1>5. CASE DisplayMutex
  BY <1>5, ZenonT(60) DEF DisplayMutex, OnlyMutex, wdVars, capVars
<1>6. CASE DisplayDraw
  <2>1. PICK ip \in Entry(disp_thing, "ip") :
          oled' = [thing |-> title.thing, data |-> Row(ip, title.alert, lines)]
    BY <1>6 DEF DisplayDraw
  <2>2. ip \in Addresses
    BY EntryType, FieldTypes
  <2>3. Row(ip, title.alert, lines) \in ThingData
    BY <2>2, RowType
  <2>4. oled' \in [thing : Blank .. 255, data : ThingData]
    BY <2>1, <2>3 DEF Blank
  <2>5. QED
    BY <1>6, <2>4, DataAssumption DEF DisplayDraw, OnlyMutex, ZeroReading, wdVars, capVars
<1>7. QED
  BY <1>1, <1>2, <1>3, <1>4, <1>5, <1>6 DEF DisplayNext

\* publishThread builds messages from the row and commands from the queue.
LEMMA PublishTypes ==
  ASSUME TypeOK, PublishNext
  PROVE  SharedTypeOK' /\ MqttTypeOK'
<1> USE DEF TypeOK, MqttTypeOK, brokerVars
<1>1. CASE PublishThreadIp
  <2>1. SharedTypeOK'
    BY <1>1, SendType, CommandTypes DEF PublishThreadIp, SharedTypeOK, OnlyQueue
  <2>2. QED
    BY <1>1, <2>1 DEF PublishThreadIp
<1>2. CASE PublishThreadGet
  <2>1. SharedTypeOK'
    BY <1>2, SendType, CommandTypes DEF PublishThreadGet, SharedTypeOK, OnlyQueue
  <2>2. next' \in Things /\ pubPc' \in {"get", "receive"}
    BY <1>2, ThingsAssumption DEF PublishThreadGet, Things
  <2>3. QED
    BY <1>2, <2>1, <2>2 DEF PublishThreadGet
<1>3. CASE PublishThreadReceive
  <2>1. pub_queue' \in Seq(Commands) /\ Len(pub_queue') <= QUEUE_SIZE
          /\ command' \in Commands
    BY <1>3, QueueAssumption DEF PublishThreadReceive, SharedTypeOK
  <2>2. SharedTypeOK'
    BY <1>3, <2>1 DEF PublishThreadReceive, SharedTypeOK, OnlyQueue
  <2>3. toRead' \in SUBSET Fields
    BY <1>3 DEF PublishThreadReceive, Reads
  <2>4. QED
    BY <1>3, <2>1, <2>2, <2>3 DEF PublishThreadReceive
<1>4. ASSUME NEW f \in Fields, PublishThreadBuild(f) PROVE SharedTypeOK' /\ MqttTypeOK'
  <2>1. iot_data[MY_THING][f] \in FieldType(f) /\ FieldType(f) \subseteq Datum
    BY ThingsAssumption, FieldTypes DEF SharedTypeOK, ThingData
  <2>2. json' \in Messages
    BY <1>4, <2>1 DEF PublishThreadBuild, Messages
  <2>3. QED
    BY <1>4, <2>2 DEF PublishThreadBuild, SharedTypeOK, sharedVars
<1>5. ASSUME Published
      PROVE  /\ json' \in Messages /\ command' \in Commands /\ pubPc' = "receive"
             /\ UNCHANGED <<next, toRead, connected, subscribed, job>>
  BY <1>5, CommandTypes DEF Published, Messages, EmptyJson
<1>6. CASE PublishOk
  <2>1. CASE json["alert"] = Absent
    BY <1>5, <1>6, <2>1 DEF PublishOk, SharedTypeOK, sharedVars
  <2>2. CASE json["alert"] # Absent
    <3>1. json["alert"] \in BOOLEAN
      BY <2>2, FieldTypes DEF Messages
    <3>2. outstanding' \subseteq Handed /\ behind' \in BOOLEAN
      <4>1. \A m \in outstanding : [m EXCEPT !.newest = FALSE] \in Handed
        BY DEF Handed
      <4>2. [alert |-> json["alert"], newest |-> TRUE] \in Handed
        BY <3>1 DEF Handed
      <4>3. QED
        BY <1>6, <2>2, <4>1, <4>2 DEF PublishOk
    <3>3. QED
      BY <1>5, <1>6, <3>2 DEF PublishOk, SharedTypeOK, sharedVars
  <2>3. QED
    BY <2>1, <2>2
<1>7. CASE PublishFail
  <2>1. alertUnsent' \in BOOLEAN
    BY <1>7 DEF PublishFail, SharedTypeOK
  <2>2. SharedTypeOK'
    BY <1>7, <2>1 DEF PublishFail, SharedTypeOK, OnlyQueue
  <2>3. QED
    BY <1>5, <1>7, <2>2 DEF PublishFail
<1>8. QED
  BY <1>1, <1>2, <1>3, <1>4, <1>6, <1>7 DEF PublishNext

\* Library and broker change nothing but the messages on their way and the
\* shadow.
LEMMA LibraryFrame ==
  ASSUME LibraryNext PROVE UNCHANGED <<connected, subscribed, job, pubVars, sharedVars>>
BY DEF LibraryNext, BrokerAccepts, Forget

\* What arrives in the shadow was handed over.
LEMMA LibraryTypes == ASSUME TypeOK, LibraryNext PROVE SharedTypeOK' /\ MqttTypeOK'
<1>1. SharedTypeOK'
  BY LibraryFrame, SharedFrame DEF TypeOK
<1>2. outstanding' \subseteq Handed /\ shadow' \in BOOLEAN /\ behind' \in BOOLEAN
  BY DEF TypeOK, MqttTypeOK, LibraryNext, BrokerAccepts, Forget, Handed
<1>3. QED
  BY <1>1, <1>2, LibraryFrame DEF TypeOK, MqttTypeOK, pubVars

\* What a job stores has the type of the field it stores it in.
LEMMA JobData ==
  ASSUME TypeOK, NEW w \in Workers, job[w] # Idle, NEW f \in job[w].unstored
  PROVE  /\ job[w].doc[f] \in FieldType(f) /\ f \in Fields
         /\ job[w].thing \in Things
BY DocumentAssumption DEF TypeOK, MqttTypeOK, Jobs, Running

\* The callback stores what a document carries in a row of the table.
LEMMA CallbackTypes ==
  ASSUME TypeOK, CallbackNext
  PROVE  SharedTypeOK' /\ MqttTypeOK'
<1> USE DEF TypeOK, MqttTypeOK, brokerVars
<1>1. ASSUME NEW w \in Workers, NEW kind \in PubTypes, NEW n \in Things,
             NEW d \in Documents, CallbackStart(w, kind, n, d)
      PROVE  SharedTypeOK' /\ MqttTypeOK'
  <2> DEFINE j == [pc |-> "store", kind |-> kind, thing |-> n, doc |-> d,
                   unstored |-> Fields \ (IF d["ip"] = Absent THEN {"ip"} ELSE {})]
  <2>1. j \in Jobs
    BY DEF Jobs, Running
  <2>2. job' \in [Workers -> Jobs]
    BY <1>1, <2>1 DEF CallbackStart
  <2>3. QED
    BY <1>1, <2>2 DEF CallbackStart, SharedTypeOK, sharedVars, pubVars
<1>2. ASSUME NEW w \in Workers, NEW f \in Fields, CallbackStore(w, f)
      PROVE  SharedTypeOK' /\ MqttTypeOK'
  <2> DEFINE rest == [job[w] EXCEPT !.unstored = @ \ {f}]
  <2>1. job[w] \in Jobs \ {Idle} /\ f \in job[w].unstored
    BY <1>2 DEF CallbackStore, MayStore, Idle
  <2>2. rest \in Jobs /\ [rest EXCEPT !.pc = "check"] \in Jobs
    BY <2>1 DEF Jobs, Running
  <2>3. job' \in [Workers -> Jobs]
    BY <1>2, <2>2 DEF CallbackStore, Jobs
  <2>4. iot_data' \in [Things -> ThingData]
    BY <1>2, <2>1, JobData, StoreType DEF CallbackStore, SharedTypeOK
  <2>5. unannounced' \in SUBSET Things
    BY <1>2, <2>1, JobData DEF CallbackStore, SharedTypeOK
  <2>6. QED
    BY <1>2, <2>3, <2>4, <2>5 DEF CallbackStore, SharedTypeOK, pubVars
<1>3. ASSUME NEW w \in Workers, CallbackCheck(w) PROVE SharedTypeOK' /\ MqttTypeOK'
  <2>1. job[w] \in Jobs \ {Idle}
    BY <1>3 DEF CallbackCheck, Idle
  <2>2. job' \in [Workers -> Jobs]
    BY <1>3, <2>1 DEF CallbackCheck, Jobs, Running
  <2>3. QED
    BY <1>3, <2>2 DEF CallbackCheck, SharedTypeOK, sharedVars, pubVars
<1>4. ASSUME NEW w \in Workers, CallbackGive(w) PROVE SharedTypeOK' /\ MqttTypeOK'
  <2>1. job' \in [Workers -> Jobs]
    BY <1>4 DEF CallbackGive, Jobs
  <2>2. QED
    BY <1>4, <2>1
    DEF CallbackGive, GiveDisplay, OnlySemaphore, SharedTypeOK, pubVars
<1>5. QED
  BY <1>1, <1>2, <1>3, <1>4 DEF CallbackNext, CallbackRun

\* commandThread stores an alert or sends a command.
LEMMA ConsoleTypes ==
  ASSUME TypeOK, ConsoleNext
  PROVE  SharedTypeOK' /\ ConsoleTypeOK'
<1> USE DEF TypeOK, ConsoleTypeOK
<1>1. CASE CommandThreadCallback
  BY <1>1, KeyAssumption DEF CommandThreadCallback, SharedTypeOK, sharedVars
<1>2. CASE CommandTake
  BY <1>2 DEF CommandTake, SharedTypeOK, sharedVars
<1>3. CASE CommandSwitch
  BY <1>3 DEF CommandSwitch, SharedTypeOK, sharedVars
<1>4. CASE CommandStoreAlert
  <2>1. iot_data' \in [Things -> ThingData]
    <3>1. (key = "A") \in FieldType("alert")
      BY FieldTypes
    <3>2. QED
      BY <1>4, <3>1, StoreType, FieldTypes, ThingsAssumption
      DEF CommandStoreAlert, SharedTypeOK
  <2>2. QED
    BY <1>4, <2>1 DEF CommandStoreAlert, SharedTypeOK, OnlyTable
<1>5. CASE CommandStorePrint
  <2>1. print_all' \in BOOLEAN
    BY <1>5 DEF CommandStorePrint
  <2>2. QED
    BY <1>5, <2>1 DEF CommandStorePrint, SharedTypeOK
<1>6. CASE CommandGive
  BY <1>6 DEF CommandGive, GiveDisplay, SharedTypeOK, OnlySemaphore
<1>7. CASE CommandPush
  <2>1. SharedTypeOK'
    <3>1. (IF key \in Measures THEN MEASURE_CMD(key) ELSE ALERT_CMD) \in Commands
      BY CommandTypes
    <3>2. QED
      BY <1>7, <3>1, SendType DEF CommandPush, SharedTypeOK, OnlyQueue
  <2>2. QED
    BY <1>7, <2>1 DEF CommandPush
<1>8. QED
  BY <1>1, <1>2, <1>3, <1>4, <1>5, <1>6, <1>7 DEF ConsoleNext, CommandThread

\* RunApplication starts the threads.
LEMMA RunApplicationTypes == ASSUME TypeOK, RunApplication PROVE TypeOK'
<1> USE SharedFrame, AfeFrame, MqttFrame, ConsoleFrame DEF TypeOK, Stages
<1>1. CASE Connect
  <2>1. MqttTypeOK'
    BY <1>1, SessionAssumption
    DEF Connect, EstablishMqttConnection, MqttTypeOK, pubVars, brokerVars
  <2>2. QED
    BY <1>1, <2>1 DEF Connect, EstablishMqttConnection
<1>2. CASE Subscribe
  <2>1. subscribed' \in SUBSET PubTypes
    BY <1>2, SessionAssumption DEF Subscribe, ModifySubscriptions
  <2>2. MqttTypeOK'
    BY <1>2, <2>1 DEF Subscribe, ModifySubscriptions, MqttTypeOK, pubVars, brokerVars
  <2>3. QED
    BY <1>2, <2>2 DEF Subscribe, ModifySubscriptions
<1>3. CASE CreatePublishThread
  <2>1. MqttTypeOK'
    BY <1>3 DEF CreatePublishThread, MqttTypeOK, brokerVars
  <2>2. QED
    BY <1>3, <2>1 DEF CreatePublishThread
<1>4. CASE StartTimer
  BY <1>4 DEF StartTimer
<1>5. CASE CreateCommandThread
  <2>1. ConsoleTypeOK'
    BY <1>5 DEF CreateCommandThread, ConsoleTypeOK
  <2>2. QED
    BY <1>5, <2>1 DEF CreateCommandThread
<1>6. CASE EnableAlertButton \/ EnablePublishButton
  BY <1>6 DEF EnableAlertButton, EnablePublishButton
<1>7. QED
  BY <1>1, <1>2, <1>3, <1>4, <1>5, <1>6 DEF RunApplication

\* The button handlers and the timer callback send a command.
LEMMA InterruptTypes ==
  ASSUME TypeOK, AlertButtonIsr \/ PublishButtonIsr \/ Publish30sec
  PROVE  SharedTypeOK'
<1> USE DEF TypeOK
<1>1. CASE AlertButtonIsr
  <2>1. iot_data' \in [Things -> ThingData]
    <3>1. (~iot_data[MY_THING]["alert"]) \in FieldType("alert")
      BY FieldTypes
    <3>2. QED
      BY <1>1, <3>1, StoreType, FieldTypes, ThingsAssumption DEF AlertButtonIsr, SharedTypeOK
  <2>2. QED
    BY <1>1, <2>1, SendFromISRType, CommandTypes DEF AlertButtonIsr, GiveDisplay, SharedTypeOK
<1>2. CASE PublishButtonIsr
  BY <1>2, SendFromISRType, CommandTypes DEF PublishButtonIsr, OnlyQueue, SharedTypeOK
<1>3. CASE Publish30sec
  BY <1>3, SendType, CommandTypes DEF Publish30sec, OnlyQueue, SharedTypeOK
<1>4. QED
  BY <1>1, <1>2, <1>3

----------------------------------------------------------------------------
\* Type correctness: in every reachable state the shared table, the queue and
\* the local state of every thread are in their types; in particular the queue
\* never exceeds its capacity and disp_thing never leaves uint8_t.
THEOREM TypeCorrect == Spec => []TypeOK
<1>1. Init => TypeOK
  BY InitTypes
<1>2. TypeOK /\ [Next]_vars => TypeOK'
  <2> SUFFICES ASSUME TypeOK, [Next]_vars PROVE TypeOK'
    OBVIOUS
  <2> USE SharedFrame, AfeFrame, MqttFrame, ConsoleFrame DEF TypeOK
  <2>1. CASE ShieldStep
    BY <2>1, CapSenseTypes, WeatherTypes, DisplayTypes DEF ShieldStep, stationVars
  <2>2. CASE MqttStep
    BY <2>2, PublishTypes, LibraryTypes, CallbackTypes DEF MqttStep, MqttNext, stationVars
  <2>3. CASE ConsoleStep
    BY <2>3, ConsoleTypes DEF ConsoleStep, stationVars
  <2>4. CASE RunApplication
    BY <2>4, RunApplicationTypes
  <2>5. CASE AlertButtonIsr
    BY <2>5, InterruptTypes DEF AlertButtonIsr, stationVars
  <2>6. CASE PublishButtonIsr
    BY <2>6, InterruptTypes DEF PublishButtonIsr, stationVars
  <2>7. CASE Publish30sec
    BY <2>7, InterruptTypes DEF Publish30sec
  <2>8. CASE TimerExpires
    BY <2>8 DEF TimerExpires
  <2>9. CASE LoseConnection
    <3>1. MqttTypeOK'
      BY <2>9 DEF LoseConnection, Disconnect, MqttTypeOK, pubVars, brokerVars
    <3>2. QED
      BY <2>9, <3>1 DEF LoseConnection, Disconnect, stationVars
  <2>10. CASE UNCHANGED vars
    BY <2>10 DEF vars, stationVars
  <2>11. QED
    BY <2>1, <2>2, <2>3, <2>4, <2>5, <2>6, <2>7, <2>8, <2>9, <2>10 DEF Next
<1>3. QED
  BY <1>1, <1>2, PTL DEF Spec

----------------------------------------------------------------------------
(* The selection *)

\* Between its two stores a button may leave a number past the table, but the
\* wrap-around brings it back: never more than one table further.
SelectionInv ==
  /\ DispThingInRange
  /\ disp_thing <= 2 * MAX_THING + 1

\* What a button stores first, from a thing of the table.
LEMMA PressedRange ==
  ASSUME NEW b \in Buttons, NEW d \in Things
  PROVE  /\ Pressed(b, d) \in 0 .. 2 * MAX_THING + 1
         /\ b \notin {2, 3} => Pressed(b, d) \in Things
<1>1. CASE b \in {0, 1}
  BY <1>1, ThingsAssumption DEF Pressed, Things
<1>2. CASE b = 2
  BY <1>2, ThingsAssumption, ButtonAssumption DEF Pressed, Things
<1>3. CASE b = 3
  BY <1>3, ThingsAssumption, ButtonAssumption DEF Pressed, Things
<1>4. QED
  BY <1>1, <1>2, <1>3 DEF Buttons

\* The wrap-around yields a thing of the table.
LEMMA WrappedRange ==
  ASSUME NEW b \in Buttons, NEW d \in 0 .. 2 * MAX_THING + 1
  PROVE  Wrapped(b, d) \in Things
BY ThingsAssumption DEF Wrapped, Things

\* The number on the display is a thing of the table except between the two
\* stores of one button, for every table up to the limits of uint8_t and
\* whatever buttons are pressed together.
THEOREM SelectionInRange == Spec => []DispThingInRange
<1>1. Init => SelectionInv
  BY ThingsAssumption DEF Init, SharedInit, SelectionInv, DispThingInRange, Things
<1>2. TypeOK /\ SelectionInv /\ [Next]_vars => SelectionInv'
  <2> SUFFICES ASSUME TypeOK, SelectionInv, [Next]_vars PROVE SelectionInv'
    OBVIOUS
  <2> USE DEF SelectionInv, DispThingInRange
  <2>1. \A d \in Things : d <= 2 * MAX_THING + 1
    BY ThingsAssumption DEF Things
  <2>2. CASE CapSenseNext
    <3>1. CASE CapSenseSample
      BY <2>1, <3>1 DEF CapSenseSample, sharedVars
    <3>2. ASSUME NEW b \in Buttons, CapSenseStore(b) PROVE SelectionInv'
      BY <2>1, <3>2, PressedRange, ThingsAssumption DEF CapSenseStore
    <3>3. ASSUME NEW b \in Buttons, CapSenseWrap(b) PROVE SelectionInv'
      <4>1. disp_thing \in 0 .. 2 * MAX_THING + 1
        BY DEF TypeOK, SharedTypeOK
      <4>2. disp_thing' \in Things
        BY <3>3, <4>1, WrappedRange DEF CapSenseWrap
      <4>3. QED
        BY <2>1, <4>2
    <3>4. ASSUME NEW b \in Buttons, CapSenseGive(b) PROVE SelectionInv'
      BY <3>4 DEF CapSenseGive, OnlySemaphore
    <3>5. QED
      BY <2>2, <3>1, <3>2, <3>3, <3>4 DEF CapSenseNext, CapSensePress
  <2>3. CASE WeatherNext \/ DisplayNext
    BY <2>3 DEF WeatherNext, WeatherSample, WeatherCopy, WeatherCompare, WeatherGive,
      DisplayNext, DisplayTake, DisplayAlert, DisplayNumber, DisplayString, DisplayMutex,
      DisplayDraw, capVars, sharedVars, OnlyTable, OnlySemaphore, OnlyMutex
  <2>4. CASE MqttStep
    BY <2>4, LibraryFrame DEF MqttStep, MqttNext, PublishNext, PublishThreadIp, PublishThreadGet,
      PublishThreadReceive, PublishThreadBuild, PublishOk, PublishFail, CallbackNext,
      CallbackStart, CallbackRun, CallbackStore, CallbackCheck, CallbackGive, afeVars, capVars,
      sharedVars, OnlyQueue, OnlySemaphore
  <2>5. CASE ConsoleStep
    BY <2>5 DEF ConsoleStep, ConsoleNext, CommandThreadCallback, CommandThread, CommandTake,
      CommandSwitch, CommandStoreAlert, CommandStorePrint, CommandGive, CommandPush, afeVars,
      capVars, sharedVars, OnlyTable, OnlySemaphore, OnlyQueue
  <2>6. CASE RunApplication
    BY <2>6 DEF RunApplication, Connect, Subscribe, CreatePublishThread, StartTimer,
      CreateCommandThread, EnableAlertButton, EnablePublishButton, EstablishMqttConnection,
      ModifySubscriptions, sharedVars, afeVars, capVars
  <2>7. CASE AlertButtonIsr \/ PublishButtonIsr \/ TimerExpires \/ Publish30sec \/ LoseConnection
    BY <2>7 DEF AlertButtonIsr, PublishButtonIsr, TimerExpires, Publish30sec, LoseConnection,
      Disconnect, OnlyQueue, sharedVars, afeVars, capVars
  <2>8. CASE UNCHANGED vars
    BY <2>8 DEF vars, sharedVars, afeVars, capVars
  <2>9. QED
    BY <2>2, <2>3, <2>4, <2>5, <2>6, <2>7, <2>8 DEF Next, ShieldStep
<1>3. SelectionInv => DispThingInRange
  BY DEF SelectionInv
<1>4. QED
  BY <1>1, <1>2, <1>3, TypeCorrect, PTL DEF Spec

----------------------------------------------------------------------------
(* The messages *)

\* A job of the callback is about another station.
OthersOnly == \A w \in Workers : job[w] # Idle => job[w].thing # MY_THING

\* The callback keeps out of this station's row.
LEMMA JobsOfOthers == Spec => []OthersOnly
<1>1. Init => OthersOnly
  BY DEF Init, MqttInit, OthersOnly
<1>2. TypeOK /\ OthersOnly /\ [Next]_vars => OthersOnly'
  <2> SUFFICES ASSUME TypeOK, OthersOnly, [Next]_vars PROVE OthersOnly'
    OBVIOUS
  <2> USE DEF OthersOnly
  <2>1. job \in [Workers -> Jobs]
    BY DEF TypeOK, MqttTypeOK
  <2>2. CASE CallbackNext
    <3>1. ASSUME NEW w \in Workers, NEW kind \in PubTypes, NEW n \in Things,
                 NEW d \in Documents, CallbackStart(w, kind, n, d)
          PROVE  OthersOnly'
      BY <2>1, <3>1 DEF CallbackStart
    <3>2. ASSUME NEW w \in Workers, NEW f \in Fields, CallbackStore(w, f)
          PROVE  OthersOnly'
      <4>1. job[w] # Idle
        BY <3>2 DEF CallbackStore, Idle
      <4>2. job[w] \in Running
        BY <2>1, <4>1 DEF Jobs
      <4>3. [job[w] EXCEPT !.unstored = @ \ {f}].thing = job[w].thing
        BY <4>2 DEF Running
      <4>4. [[job[w] EXCEPT !.unstored = @ \ {f}] EXCEPT !.pc = "check"].thing = job[w].thing
        BY <4>2 DEF Running
      <4>5. QED
        BY <2>1, <3>2, <4>1, <4>3, <4>4 DEF CallbackStore
    <3>3. ASSUME NEW w \in Workers, CallbackCheck(w) PROVE OthersOnly'
      <4>1. job[w] # Idle
        BY <3>3 DEF CallbackCheck, Idle
      <4>2. [job[w] EXCEPT !.pc = "give"].thing = job[w].thing
        BY <2>1, <4>1 DEF Jobs, Running
      <4>3. QED
        BY <2>1, <3>3, <4>1, <4>2 DEF CallbackCheck
    <3>4. ASSUME NEW w \in Workers, CallbackGive(w) PROVE OthersOnly'
      BY <2>1, <3>4 DEF CallbackGive
    <3>5. QED
      BY <2>2, <3>1, <3>2, <3>3, <3>4 DEF CallbackNext, CallbackRun
  <2>3. CASE PublishNext
    BY <2>3 DEF PublishNext, PublishThreadIp, PublishThreadGet, PublishThreadReceive,
      PublishThreadBuild, PublishOk, PublishFail, Published
  <2>4. CASE LibraryNext
    BY <2>4, LibraryFrame
  <2>5. CASE RunApplication
    BY <2>5 DEF RunApplication, Connect, Subscribe, CreatePublishThread, StartTimer,
      CreateCommandThread, EnableAlertButton, EnablePublishButton, EstablishMqttConnection,
      ModifySubscriptions, mqttVars
  <2>6. CASE ShieldStep \/ ConsoleStep \/ AlertButtonIsr \/ PublishButtonIsr \/ TimerExpires
             \/ Publish30sec \/ LoseConnection
    BY <2>6 DEF ShieldStep, ConsoleStep, AlertButtonIsr, PublishButtonIsr, TimerExpires,
      Publish30sec, LoseConnection, Disconnect, mqttVars
  <2>7. CASE UNCHANGED vars
    BY <2>7 DEF vars, mqttVars
  <2>8. QED
    BY <2>2, <2>3, <2>4, <2>5, <2>6, <2>7 DEF Next, MqttStep, MqttNext
<1>3. QED
  BY <1>1, <1>2, TypeCorrect, PTL DEF Spec

----------------------------------------------------------------------------
(* The readings of this station *)

\* What a store leaves in every field of every row.
LEMMA StoreEffect ==
  ASSUME iot_data \in [Things -> ThingData],
         NEW n \in Things, NEW f \in Fields, NEW v, Store(n, f, v)
  PROVE  \A x \in Things, g \in Fields :
           iot_data'[x][g] = IF x = n /\ g = f THEN v ELSE iot_data[x][g]
BY DEF Store, ThingData

\* Only the weather thread writes the measures of this station's row.
LEMMA ReadingsKept ==
  ASSUME TypeOK, OthersOnly, [Next]_vars,
         ~("weather" \in Threads /\ WeatherNext)
  PROVE  /\ UNCHANGED wdVars
         /\ \A m \in Measures : iot_data'[MY_THING][m] = iot_data[MY_THING][m]
<1> DEFINE kept == \A m \in Measures : iot_data'[MY_THING][m] = iot_data[MY_THING][m]
<1>1. iot_data \in [Things -> ThingData] /\ MY_THING \in Things
  BY ThingsAssumption DEF TypeOK, SharedTypeOK
<1>2. \A m \in Measures : m \in Fields /\ m # "alert"
  BY DataAssumption DEF Fields
<1>3. ASSUME NEW v, Store(MY_THING, "alert", v) PROVE kept
  BY <1>1, <1>2, <1>3, StoreEffect, FieldTypes
<1>4. UNCHANGED sharedVars => kept
  BY DEF sharedVars
<1>5. CASE CapSenseNext /\ UNCHANGED <<mqttVars, consoleVars, stationVars>>
  BY <1>4, <1>5 DEF CapSenseNext, CapSenseSample, CapSensePress, CapSenseStore, CapSenseWrap,
    CapSenseGive, OnlySelection, OnlySemaphore
<1>6. CASE DisplayNext
  BY <1>4, <1>6 DEF DisplayNext, DisplayTake, DisplayAlert, DisplayNumber, DisplayString,
    DisplayMutex, DisplayDraw, OnlyMutex
<1>7. CASE MqttStep
  <2>1. CASE PublishNext
    BY <1>4, <1>7, <2>1 DEF MqttStep, afeVars, PublishNext, PublishThreadIp, PublishThreadGet,
      PublishThreadReceive, PublishThreadBuild, PublishOk, PublishFail, OnlyQueue
  <2>2. ASSUME NEW w \in Workers, NEW f \in Fields, CallbackStore(w, f) PROVE kept
    <3>1. job[w] # Idle /\ f \in job[w].unstored
      BY <2>2 DEF CallbackStore, MayStore, Idle
    <3>2. job[w].thing \in Things /\ job[w].thing # MY_THING
      BY <3>1, JobData DEF OthersOnly
    <3>3. QED
      BY <1>1, <1>2, <2>2, <3>2, StoreEffect DEF CallbackStore
  <2>3. CASE CallbackNext
    BY <1>4, <1>7, <2>2, <2>3 DEF MqttStep, afeVars, CallbackNext, CallbackStart, CallbackRun,
      CallbackCheck, CallbackGive, OnlySemaphore
  <2>4. CASE LibraryNext
    BY <1>4, <1>7, <2>4, LibraryFrame DEF MqttStep, afeVars
  <2>5. QED
    BY <1>7, <2>1, <2>3, <2>4 DEF MqttStep, MqttNext
<1>8. CASE ConsoleStep
  <2>1. CASE CommandStoreAlert
    BY <1>3, <1>8, <2>1 DEF ConsoleStep, afeVars, CommandStoreAlert
  <2>2. CASE ConsoleNext /\ ~CommandStoreAlert
    BY <1>4, <1>8, <2>2 DEF ConsoleStep, afeVars, ConsoleNext, CommandThreadCallback,
      CommandThread, CommandTake, CommandSwitch, CommandStorePrint, CommandGive, CommandPush,
      OnlySemaphore, OnlyQueue
  <2>3. QED
    BY <1>8, <2>1, <2>2 DEF ConsoleStep
<1>9. CASE RunApplication
  BY <1>4, <1>9 DEF RunApplication, Connect, Subscribe, CreatePublishThread, StartTimer,
    CreateCommandThread, EnableAlertButton, EnablePublishButton, EstablishMqttConnection,
    ModifySubscriptions, afeVars
<1>10. CASE AlertButtonIsr
  BY <1>3, <1>10 DEF AlertButtonIsr, afeVars
<1>11. CASE PublishButtonIsr \/ TimerExpires \/ Publish30sec \/ LoseConnection
  BY <1>4, <1>11 DEF PublishButtonIsr, TimerExpires, Publish30sec, LoseConnection, Disconnect,
    OnlyQueue, afeVars
<1>12. CASE UNCHANGED vars
  BY <1>4, <1>12 DEF vars, afeVars
<1>13. QED
  BY <1>5, <1>6, <1>7, <1>8, <1>9, <1>10, <1>11, <1>12 DEF Next, ShieldStep

\* Where the weather thread is in its round: the measures already copied equal
\* the reading, those still to be copied equal the previous one.
ReadingsInv ==
  /\ wdPc # "copy" => uncopied = {}
  /\ \A m \in Measures \ uncopied : iot_data[MY_THING][m] = weather_data[m]
  /\ \A m \in uncopied : iot_data[MY_THING][m] = prev[m]
  /\ wdPc \in {"sample", "give"} => prev = weather_data

\* ReadingsInv is inductive, given that no message is stored in this row.
LEMMA ReadingsStep ==
  ASSUME TypeOK, OthersOnly, ReadingsInv, [Next]_vars
  PROVE  ReadingsInv'
<1> USE DEF ReadingsInv
<1>1. /\ iot_data \in [Things -> ThingData] /\ MY_THING \in Things
      /\ Measures \subseteq Fields /\ uncopied \in SUBSET Measures
      /\ prev \in [Measures -> Values] /\ weather_data \in [Measures -> Values]
  BY ThingsAssumption DEF TypeOK, SharedTypeOK, AfeTypeOK, Fields
<1>2. CASE ~("weather" \in Threads /\ WeatherNext)
  BY <1>1, <1>2, ReadingsKept DEF wdVars
<1>3. CASE WeatherSample
  BY <1>1, <1>3 DEF WeatherSample, sharedVars
<1>4. ASSUME NEW m \in Measures, WeatherCopy(m) PROVE ReadingsInv'
  <2>1. \A x \in Measures : iot_data'[MY_THING][x] =
          IF x = m THEN weather_data[m] ELSE iot_data[MY_THING][x]
    BY <1>1, <1>4, StoreEffect DEF WeatherCopy
  <2>2. QED
    BY <1>1, <1>4, <2>1 DEF WeatherCopy
<1>5. CASE WeatherCompare
  <2>1. \A m \in Measures : prev'[m] = weather_data[m]
    BY <1>5 DEF WeatherCompare
  <2>2. prev' = weather_data
    BY <1>1, <1>5, <2>1 DEF WeatherCompare
  <2>3. QED
    BY <1>1, <1>5, <2>2 DEF WeatherCompare, sharedVars
<1>6. CASE WeatherGive
  BY <1>6 DEF WeatherGive, OnlySemaphore
<1>7. QED
  BY <1>2, <1>3, <1>4, <1>5, <1>6 DEF WeatherNext

\* Between two readings this station's row and the values the weather thread
\* compares with are the last reading, whatever the broker sends.
LEMMA ReadingsAlways == Spec => []ReadingsInv
<1>1. Init => ReadingsInv
  <2>1. ASSUME NEW m \in Measures PROVE InitialData[m] = Zero
    BY DataAssumption DEF InitialData, Row, Fields, ZeroReading
  <2>2. ASSUME Init, NEW m \in Measures PROVE iot_data[MY_THING][m] = Zero
    <3>1. InitialData \in [Fields -> Datum] /\ m \in Fields /\ m # "ip"
      BY InitialDataType, DataAssumption DEF ThingData, Fields
    <3>2. iot_data[MY_THING] = [InitialData EXCEPT !["ip"] = MyAddress]
      BY <2>2, ThingsAssumption DEF Init, SharedInit
    <3>3. QED
      BY <2>1, <3>1, <3>2
  <2>3. QED
    BY <2>2 DEF Init, AfeInit, ReadingsInv, ZeroReading
<1>2. TypeOK /\ OthersOnly /\ ReadingsInv /\ [Next]_vars => ReadingsInv'
  BY ReadingsStep
<1>3. QED
  BY <1>1, <1>2, TypeCorrect, JobsOfOthers, PTL DEF Spec

\* No message changes this station's own readings: when the weather thread is
\* between two rounds its row and prev hold the last reading.
THEOREM ReadingsOfThisStation == Spec => []OwnReadingsKept
<1>1. ReadingsInv => OwnReadingsKept
  BY DEF ReadingsInv, OwnReadingsKept
<1>2. QED
  BY <1>1, ReadingsAlways, PTL

(***************************************************************************)
(* Proofs about the path from a key, a button or the timer to the broker:  *)
(* publishThread starts without waiting for itself, the last key typed is  *)
(* served, and the alert of this station is never overtaken by an older    *)
(* message.                                                                *)
(***************************************************************************)
----------------------------------------------------------------------------
(* The start of publishThread. While RunApplication is held back the queue *)
(* holds exactly what the prologue put there.                              *)

NoSenders == timerPc = "off" /\ cmdPc = "absent"
StartInv ==
  /\ app \in {"connect", "subscribe", "create_publish"} =>
       pubPc = "absent" /\ next = 0 /\ pub_queue = <<>> /\ NoSenders
  /\ pubPc = "ip" => app = "start_timer" /\ next = 0 /\ pub_queue = <<>> /\ NoSenders
  /\ pubPc = "get" => /\ app = "start_timer" /\ NoSenders
                      /\ Len(pub_queue) = next + 1

\* In such a state there is room for the next command of the prologue.
LEMMA StartRoom == TypeOK /\ StartInv => PrefillNeverBlocks
BY QueueAssumption, ThingsAssumption
DEF TypeOK, MqttTypeOK, StartInv, PrefillNeverBlocks, Things

\* RunApplication changes neither the queue nor the loop variable, starts no
\* sender before the publish thread exists, and yields to its prologue.
LEMMA StartRunApplication ==
  ASSUME TypeOK, StartInv, RunApplication
  PROVE  StartInv'
<1> USE DEF StartInv, NoSenders
<1>1. CASE Connect
  BY <1>1 DEF Connect, EstablishMqttConnection, sharedVars, pubVars, consoleVars
<1>2. CASE Subscribe
  BY <1>2 DEF Subscribe, ModifySubscriptions, sharedVars, pubVars, consoleVars
<1>3. CASE CreatePublishThread
  BY <1>3 DEF CreatePublishThread, sharedVars, consoleVars
<1>4. CASE StartTimer \/ CreateCommandThread \/ EnableAlertButton \/ EnablePublishButton
  <2>1. pubPc \notin {"ip", "get"}
    <3>1. Yielded
      BY <1>4 DEF StartTimer, CreateCommandThread, EnableAlertButton, EnablePublishButton
    <3>2. QED
      BY <3>1, StartRoom, QueueAssumption DEF PrefillNeverBlocks, Yielded
  <2>2. UNCHANGED <<sharedVars, mqttVars>>
    BY <1>4 DEF StartTimer, CreateCommandThread, EnableAlertButton, EnablePublishButton
  <2>3. app' \in {"create_command", "enable_alert", "enable_publish", "suspended"}
    BY <1>4 DEF StartTimer, CreateCommandThread, EnableAlertButton, EnablePublishButton
  <2>4. QED
    BY <2>1, <2>2, <2>3 DEF sharedVars, mqttVars, pubVars
<1>5. QED
  BY <1>1, <1>2, <1>3, <1>4 DEF RunApplication

\* The publish thread follows its prologue.
LEMMA StartPublish ==
  ASSUME TypeOK, StartInv, PublishNext, UNCHANGED <<stationVars, consoleVars>>
  PROVE  StartInv'
<1> USE DEF StartInv, NoSenders, stationVars, consoleVars
<1>1. CASE PublishThreadIp
  <2>1. Len(pub_queue') = 1
    BY <1>1, CommandTypes DEF PublishThreadIp, Send
  <2>2. QED
    BY <1>1, <2>1 DEF PublishThreadIp
<1>2. CASE PublishThreadGet
  <2>1. Len(pub_queue') = Len(pub_queue) + 1
    BY <1>2, CommandTypes, SendType DEF PublishThreadGet, TypeOK, MqttTypeOK
  <2>2. next \in Nat
    BY DEF TypeOK, MqttTypeOK, Things
  <2>3. CASE next = MAX_THING
    BY <1>2, <2>3 DEF PublishThreadGet
  <2>4. CASE next # MAX_THING
    BY <1>2, <2>1, <2>2, <2>4 DEF PublishThreadGet
  <2>5. QED
    BY <2>3, <2>4
<1>3. CASE PublishThreadReceive
  BY <1>3 DEF PublishThreadReceive
<1>4. CASE \E f \in Fields : PublishThreadBuild(f)
  BY <1>4 DEF PublishThreadBuild
<1>5. CASE PublishOk \/ PublishFail
  BY <1>5 DEF PublishOk, PublishFail, Published
<1>6. QED
  BY <1>1, <1>2, <1>3, <1>4, <1>5 DEF PublishNext

\* Nothing but the prologue fills the queue before it is over.
LEMMA StartAlways == Spec => []StartInv
<1>1. Init => StartInv
  BY DEF Init, SharedInit, MqttInit, ConsoleInit, StartInv, NoSenders
<1>2. TypeOK /\ StartInv /\ [Next]_vars => StartInv'
  <2> SUFFICES ASSUME TypeOK, StartInv, [Next]_vars PROVE StartInv'
    OBVIOUS
  <2> DEFINE untouched == UNCHANGED <<app, timerPc, cmdPc, pubPc, next, pub_queue>>
  <2>1. untouched => StartInv'
    BY DEF StartInv, NoSenders
  <2>2. CASE ShieldStep
    <3>1. UNCHANGED pub_queue
      BY <2>2 DEF ShieldStep, CapSenseNext, CapSenseSample, CapSensePress, CapSenseStore,
        CapSenseWrap, CapSenseGive, WeatherNext, WeatherSample, WeatherCopy, WeatherCompare,
        WeatherGive, DisplayNext, DisplayTake, DisplayAlert, DisplayNumber, DisplayString,
        DisplayMutex, DisplayDraw, OnlySelection, OnlySemaphore, OnlyTable, OnlyMutex,
        sharedVars
    <3>2. QED
      BY <2>1, <2>2, <3>1 DEF ShieldStep, stationVars, mqttVars, pubVars, consoleVars
  <2>3. CASE MqttStep
    <3>1. CASE PublishNext
      BY <2>3, <3>1, StartPublish DEF MqttStep
    <3>2. CASE CallbackNext
      BY <2>1, <2>3, <3>2 DEF MqttStep, CallbackNext, CallbackStart, CallbackRun, CallbackStore,
        CallbackCheck, CallbackGive, OnlySemaphore, sharedVars, stationVars, pubVars,
        consoleVars
    <3>3. CASE LibraryNext
      BY <2>1, <2>3, <3>3, LibraryFrame DEF MqttStep, sharedVars, stationVars, pubVars, consoleVars
    <3>4. QED
      BY <2>3, <3>1, <3>2, <3>3 DEF MqttStep, MqttNext
  <2>4. CASE ConsoleStep
    <3>1. cmdPc # "absent" /\ cmdPc' # "absent" /\ UNCHANGED <<app, timerPc, pubPc, next>>
      BY <2>4 DEF ConsoleStep, ConsoleNext, CommandThreadCallback, CommandThread, CommandTake,
        CommandSwitch, CommandStoreAlert, CommandStorePrint, CommandGive, CommandPush,
        stationVars, mqttVars, pubVars
    <3>2. QED
      BY <3>1 DEF StartInv, NoSenders
  <2>5. CASE RunApplication
    BY <2>5, StartRunApplication
  <2>6. CASE AlertButtonIsr \/ PublishButtonIsr
    <3>1. app \in {"enable_publish", "suspended"}
      BY <2>6 DEF AlertButtonIsr, PublishButtonIsr
    <3>2. UNCHANGED <<app, pubPc>>
      BY <2>6 DEF AlertButtonIsr, PublishButtonIsr, stationVars, mqttVars, pubVars
    <3>3. QED
      BY <3>1, <3>2 DEF StartInv
  <2>7. CASE TimerExpires \/ Publish30sec
    <3>1. timerPc # "off" /\ UNCHANGED <<app, pubPc>>
      BY <2>7 DEF TimerExpires, Publish30sec, mqttVars, pubVars
    <3>2. QED
      BY <3>1 DEF StartInv, NoSenders
  <2>8. CASE LoseConnection
    BY <2>1, <2>8 DEF LoseConnection, Disconnect, sharedVars, stationVars, pubVars, consoleVars
  <2>9. CASE UNCHANGED vars
    BY <2>1, <2>9 DEF vars, sharedVars, stationVars, mqttVars, pubVars, consoleVars
  <2>10. QED
    BY <2>2, <2>3, <2>4, <2>5, <2>6, <2>7, <2>8, <2>9 DEF Next
<1>3. QED
  BY <1>1, <1>2, TypeCorrect, PTL DEF Spec

\* The prologue of publishThread finds room for every command it queues: the
\* thread that empties the queue never waits for itself.
THEOREM PrefillAlwaysFits == Spec => []PrefillNeverBlocks
BY StartAlways, StartRoom, TypeCorrect, PTL

----------------------------------------------------------------------------
(* The mailbox of the console *)

\* Unless commandThread has just taken the semaphore, a character it has not
\* read has its semaphore given. RunApplication creates the thread only once.
MailboxInv ==
  /\ cmdPc = "switch" \/ command_semaphore \/ key = receive_command
  /\ app \in {"connect", "subscribe", "create_publish", "start_timer", "create_command"} =>
       cmdPc = "absent"

\* An unread key is never left without its semaphore.
LEMMA MailboxAlways == Spec => []MailboxInv
<1>1. Init => MailboxInv
  BY DEF Init, ConsoleInit, MailboxInv
<1>2. MailboxInv /\ [Next]_vars => MailboxInv'
  <2> SUFFICES ASSUME MailboxInv, [Next]_vars PROVE MailboxInv'
    OBVIOUS
  <2>1. UNCHANGED <<app, consoleVars>> => MailboxInv'
    BY DEF MailboxInv, consoleVars
  <2>2. CASE ConsoleStep
    <3>1. UNCHANGED app
      BY <2>2 DEF ConsoleStep, stationVars
    <3>2. CASE CommandThreadCallback
      BY <3>1, <3>2 DEF CommandThreadCallback, MailboxInv
    <3>3. CASE CommandTake
      BY <3>1, <3>3 DEF CommandTake, MailboxInv
    <3>4. CASE CommandSwitch
      BY <3>1, <3>4 DEF CommandSwitch, MailboxInv
    <3>5. CASE CommandStoreAlert \/ CommandStorePrint \/ CommandGive \/ CommandPush
      BY <3>1, <3>5 DEF CommandStoreAlert, CommandStorePrint, CommandGive, CommandPush,
        MailboxInv
    <3>6. QED
      BY <2>2, <3>2, <3>3, <3>4, <3>5 DEF ConsoleStep, ConsoleNext, CommandThread
  <2>3. CASE RunApplication
    BY <2>3 DEF RunApplication, Connect, Subscribe, CreatePublishThread, StartTimer,
      CreateCommandThread, EnableAlertButton, EnablePublishButton, MailboxInv, consoleVars
  <2>4. CASE ShieldStep \/ MqttStep \/ LoseConnection
    BY <2>1, <2>4 DEF ShieldStep, MqttStep, LoseConnection, stationVars
  <2>5. CASE AlertButtonIsr \/ PublishButtonIsr \/ TimerExpires \/ Publish30sec
    BY <2>1, <2>5 DEF AlertButtonIsr, PublishButtonIsr, TimerExpires, Publish30sec,
      stationVars
  <2>6. CASE UNCHANGED vars
    BY <2>1, <2>6 DEF vars, stationVars
  <2>7. QED
    BY <2>2, <2>3, <2>4, <2>5, <2>6 DEF Next
<1>3. QED
  BY <1>1, <1>2, PTL DEF Spec

\* Whatever keys were overwritten in the mailbox, the last one typed is read
\* before commandThread waits again.
THEOREM LastKeyAlwaysServed == Spec => []LastKeyServed
<1>1. MailboxInv => LastKeyServed
  BY DEF MailboxInv, LastKeyServed
<1>2. QED
  BY <1>1, MailboxAlways, PTL

\* The interrupt and commandThread implement the mailbox: only keys that were
\* typed are executed, each while it was the last one, and at most two
\* executions are ever due, for every set of keys.
THEOREM ConsoleIsMailbox == Spec => ImplementsMailbox
<1> DEFINE mailVars == <<receive_command, Due, key>>
<1>1. Init => Mail!Init
  BY DEF Init, ConsoleInit, Due, Mail!Init
<1>2. MailboxInv /\ [Next]_vars => [Mail!Next]_mailVars
  <2> SUFFICES ASSUME MailboxInv, [Next]_vars PROVE Mail!Next \/ UNCHANGED mailVars
    OBVIOUS
  <2>1. UNCHANGED consoleVars => UNCHANGED mailVars
    BY DEF consoleVars, Due
  <2>2. CASE ConsoleStep
    <3>1. ASSUME CommandThreadCallback PROVE Mail!Next
      <4>1. Due' \in {IF Due = 0 THEN 1 ELSE Due, IF Due = 2 THEN 2 ELSE Due + 1}
        BY <3>1 DEF CommandThreadCallback, Due
      <4>2. QED
        BY <3>1, <4>1 DEF CommandThreadCallback, Mail!Next, Mail!Type
    <3>2. ASSUME CommandTake PROVE UNCHANGED mailVars
      BY <3>2 DEF CommandTake, Due
    <3>3. ASSUME CommandSwitch PROVE Mail!Next
      <4>1. Due > 0 /\ Due' = Due - 1
        BY <3>3 DEF CommandSwitch, Due
      <4>2. QED
        BY <3>3, <4>1 DEF CommandSwitch, Mail!Next, Mail!Serve
    <3>4. ASSUME CommandStoreAlert \/ CommandStorePrint \/ CommandGive \/ CommandPush
          PROVE  UNCHANGED mailVars
      BY <3>4 DEF CommandStoreAlert, CommandStorePrint, CommandGive, CommandPush, Due
    <3>5. QED
      BY <2>2, <3>1, <3>2, <3>3, <3>4 DEF ConsoleStep, ConsoleNext, CommandThread
  <2>3. CASE RunApplication
    <3>1. CASE CreateCommandThread
      BY <3>1 DEF CreateCommandThread, MailboxInv, Due
    <3>2. CASE ~CreateCommandThread
      BY <2>1, <2>3, <3>2 DEF RunApplication, Connect, Subscribe, CreatePublishThread, StartTimer,
        EnableAlertButton, EnablePublishButton
    <3>3. QED
      BY <3>1, <3>2
  <2>4. CASE ShieldStep \/ MqttStep \/ LoseConnection
    BY <2>1, <2>4 DEF ShieldStep, MqttStep, LoseConnection
  <2>5. CASE AlertButtonIsr \/ PublishButtonIsr \/ TimerExpires \/ Publish30sec
    BY <2>1, <2>5 DEF AlertButtonIsr, PublishButtonIsr, TimerExpires, Publish30sec
  <2>6. CASE UNCHANGED vars
    BY <2>1, <2>6 DEF vars
  <2>7. QED
    BY <2>2, <2>3, <2>4, <2>5, <2>6 DEF Next
<1>3. QED
  BY <1>1, <1>2, MailboxAlways, PTL DEF Spec, ImplementsMailbox, Mail!Spec, Mail!mailVars

----------------------------------------------------------------------------
(* The alert of this station *)

\* A command that is sent leaves what is queued, and is queued itself.
LEMMA SendQueues ==
  ASSUME TypeOK, NEW c \in Commands, Send(c)
  PROVE  AlertQueued \/ CarriesAlert(c) => AlertQueued'
<1>1. pub_queue \in Seq(Commands) /\ pub_queue' = Append(pub_queue, c)
  BY DEF Send, TypeOK, SharedTypeOK
<1>2. Len(pub_queue) + 1 \in DOMAIN pub_queue' /\ pub_queue'[Len(pub_queue) + 1] = c
  BY <1>1
<1>3. \A i \in DOMAIN pub_queue : i \in DOMAIN pub_queue' /\ pub_queue'[i] = pub_queue[i]
  BY <1>1
<1>4. QED
  BY <1>2, <1>3 DEF AlertQueued

\* Taking the first command leaves the others.
LEMMA ReceiveQueues ==
  ASSUME TypeOK, pub_queue # <<>>, pub_queue' = Tail(pub_queue), AlertQueued,
         ~CarriesAlert(Head(pub_queue))
  PROVE  AlertQueued'
<1>1. pub_queue \in Seq(Commands) /\ Len(pub_queue) \in Nat
  BY DEF TypeOK, SharedTypeOK
<1>2. PICK i \in 1 .. Len(pub_queue) : CarriesAlert(pub_queue[i])
  BY <1>1 DEF AlertQueued
<1>3. i # 1
  BY <1>1, <1>2
<1>4. /\ pub_queue' \in Seq(Commands) /\ Len(pub_queue') \in Nat
      /\ i - 1 \in 1 .. Len(pub_queue') /\ pub_queue'[i - 1] = pub_queue[i]
  BY <1>1, <1>2, <1>3
<1>5. i - 1 \in DOMAIN pub_queue' /\ CarriesAlert(pub_queue'[i - 1])
  BY <1>2, <1>4 DEF CarriesAlert
<1>6. QED
  BY <1>5 DEF AlertQueued

\* Sending keeps the alert reported, whoever sends.
LEMMA SendReports ==
  ASSUME TypeOK, AlertReported, NEW c \in Commands, Send(c),
         UNCHANGED <<json, brokerVars>>, iot_data'[MY_THING]["alert"] = iot_data[MY_THING]["alert"],
         \/ CarriesAlert(c)
         \/ UNCHANGED <<cmdPc, key>> /\ (pubPc = "build" => UNCHANGED <<pubPc, toRead>>)
  PROVE  AlertReported'
<1>1. AlertQueued \/ CarriesAlert(c) => AlertQueued'
  BY SendQueues
<1>2. CarriesAlert(c) \/ alertUnsent' = alertUnsent
  BY DEF Send, TypeOK, SharedTypeOK
<1>3. QED
  BY <1>1, <1>2 DEF AlertReported, AlertPending, brokerVars

\* The publish thread takes an alert command over, puts the current alert into
\* its message, and hands that to the broker or reports the loss.
LEMMA PublishReports ==
  ASSUME TypeOK, AlertReported, PublishNext, UNCHANGED <<stationVars, afeVars, consoleVars>>
  PROVE  AlertReported'
<1> USE DEF AlertReported, AlertPending, consoleVars, brokerVars
<1>1. CASE PublishThreadIp
  BY <1>1, SendReports, CommandTypes DEF PublishThreadIp, OnlyQueue
<1>2. CASE PublishThreadGet
  BY <1>2, SendReports, CommandTypes DEF PublishThreadGet, OnlyQueue, TypeOK, MqttTypeOK
<1>3. CASE PublishThreadReceive
  <2>1. CASE CarriesAlert(Head(pub_queue))
    <3>1. "alert" \in toRead' /\ pubPc' = "build"
      BY <1>3, <2>1, FieldTypes
      DEF PublishThreadReceive, Reads, CarriesAlert
    <3>2. QED
      BY <3>1
  <2>2. CASE ~CarriesAlert(Head(pub_queue))
    <3>1. AlertQueued => AlertQueued'
      BY <1>3, <2>2, ReceiveQueues DEF PublishThreadReceive
    <3>2. QED
      BY <1>3, <3>1 DEF PublishThreadReceive, OnlyQueue
  <2>3. QED
    BY <2>1, <2>2
<1>4. ASSUME NEW f \in Fields, PublishThreadBuild(f) PROVE AlertReported'
  <2>1. json \in Messages /\ UNCHANGED <<sharedVars, brokerVars>>
    BY <1>4 DEF PublishThreadBuild, TypeOK, MqttTypeOK
  <2>2. AlertQueued' <=> AlertQueued
    BY <2>1 DEF AlertQueued, sharedVars
  <2>3. CASE f = "alert"
    <3>1. json'["alert"] = iot_data[MY_THING]["alert"]
      BY <1>4, <2>1, <2>3, FieldTypes DEF PublishThreadBuild, Messages
    <3>2. iot_data[MY_THING]["alert"] # Absent
      BY FieldTypes, ThingsAssumption, DataAssumption
      DEF TypeOK, SharedTypeOK, ThingData
    <3>3. QED
      BY <2>1, <3>1, <3>2 DEF sharedVars
  <2>4. CASE f # "alert"
    <3>1. json'["alert"] = json["alert"]
      BY <1>4, <2>1, <2>4, FieldTypes DEF PublishThreadBuild, Messages
    <3>2. "alert" \in toRead => "alert" \in toRead' /\ pubPc' = "build"
      BY <1>4, <2>4 DEF PublishThreadBuild
    <3>3. QED
      BY <2>1, <2>2, <3>1, <3>2 DEF sharedVars
  <2>5. QED
    BY <2>3, <2>4
<1>5. CASE PublishOk
  <2>1. /\ pubPc = "publish" /\ json'["alert"] = Absent
        /\ UNCHANGED <<sharedVars, cmdPc, key>>
    BY <1>5, FieldTypes DEF PublishOk, Published, EmptyJson
  <2>2. AlertQueued' <=> AlertQueued
    BY <2>1 DEF AlertQueued, sharedVars
  <2>3. alertUnsent \/ AlertPending => AlertReported'
    BY <2>1, <2>2 DEF sharedVars
  <2>4. CASE json["alert"] = Absent
    <3>1. UNCHANGED brokerVars
      BY <1>5, <2>4 DEF PublishOk
    <3>2. iot_data[MY_THING]["alert"] # Absent
      BY FieldTypes, ThingsAssumption, DataAssumption
      DEF TypeOK, SharedTypeOK, ThingData
    <3>3. QED
      BY <2>1, <2>3, <2>4, <3>1, <3>2 DEF sharedVars
  <2>5. CASE json["alert"] # Absent
    <3>1. /\ outstanding' = {[m EXCEPT !.newest = FALSE] : m \in outstanding}
                              \cup {[alert |-> json["alert"], newest |-> TRUE]}
          /\ behind' = TRUE
      BY <1>5, <2>5 DEF PublishOk
    <3>2. \A m \in outstanding' : m.newest => m.alert = json["alert"]
      BY <3>1 DEF TypeOK, MqttTypeOK, Handed
    <3>3. json["alert"] = iot_data[MY_THING]["alert"] => AlertReported'
      BY <2>1, <3>1, <3>2 DEF sharedVars
    <3>4. QED
      BY <2>3, <2>5, <3>3
  <2>6. QED
    BY <2>4, <2>5
<1>6. CASE PublishFail
  <2>1. pubPc = "publish" /\ json'["alert"] = Absent
    BY <1>6, FieldTypes DEF PublishFail, Published, EmptyJson
  <2>2. AlertQueued' <=> AlertQueued
    BY <1>6 DEF PublishFail, AlertQueued
  <2>3. QED
    BY <1>6, <2>1, <2>2 DEF PublishFail, OnlyQueue
<1>7. QED
  BY <1>1, <1>2, <1>3, <1>4, <1>5, <1>6 DEF PublishNext

\* What a step leaves alone stays reported.
LEMMA QuietReports ==
  ASSUME AlertReported, UNCHANGED <<pub_queue, alertUnsent, pubPc, toRead, json, brokerVars>>,
         iot_data'[MY_THING]["alert"] = iot_data[MY_THING]["alert"],
         cmdPc \in {"give", "push"} /\ key \in {"A", "a"} => cmdPc' \in {"give", "push"} /\ key' = key
  PROVE  AlertReported'
BY DEF AlertReported, AlertPending, AlertQueued, brokerVars

\* The newest message brings its alert to the shadow; one that is older leaves
\* the shadow behind.
LEMMA LibraryReports ==
  ASSUME TypeOK, AlertReported, LibraryNext, UNCHANGED <<stationVars, afeVars, consoleVars>>
  PROVE  AlertReported'
<1> DEFINE alert == iot_data[MY_THING]["alert"]
<1>1. UNCHANGED <<pubVars, sharedVars, cmdPc, key>>
  BY LibraryFrame DEF consoleVars
<1>2. UNCHANGED <<AlertQueued, AlertPending, alertUnsent, json, iot_data>>
  BY <1>1 DEF AlertQueued, AlertPending, pubVars, sharedVars
<1>3. ASSUME \A m \in outstanding : m.newest => m.alert = alert, behind \/ shadow = alert
      PROVE  (\A m \in outstanding' : m.newest => m.alert = alert) /\ (behind' \/ shadow' = alert)
  BY <1>3 DEF TypeOK, MqttTypeOK, Handed, LibraryNext, BrokerAccepts, Forget
<1>4. QED
  BY <1>2, <1>3 DEF AlertReported

\* The console announces a new alert before it waits again.
LEMMA ConsoleReports ==
  ASSUME TypeOK, AlertReported, ConsoleNext, UNCHANGED <<stationVars, afeVars, mqttVars>>
  PROVE  AlertReported'
<1> USE DEF mqttVars, pubVars, brokerVars
<1>1. CASE CommandThreadCallback \/ CommandTake \/ CommandSwitch \/ CommandStorePrint
  BY <1>1, QuietReports DEF CommandThreadCallback, CommandTake, CommandSwitch,
    CommandStorePrint, sharedVars
<1>2. CASE CommandStoreAlert
  BY <1>2 DEF CommandStoreAlert, AlertReported, AlertPending
<1>3. CASE CommandGive
  BY <1>3, QuietReports DEF CommandGive, OnlySemaphore
<1>4. CASE CommandPush
  <2>1. CASE key \in Measures
    <3>1. key \notin {"A", "a"}
      BY <2>1, KeyAssumption
    <3>2. Send(MEASURE_CMD(key))
      BY <1>4, <2>1 DEF CommandPush
    <3>3. AlertQueued => AlertQueued'
      BY <2>1, <3>2, SendQueues, CommandTypes
    <3>4. CarriesAlert(MEASURE_CMD(key)) => AlertQueued'
      BY <2>1, <3>2, SendQueues, CommandTypes
    <3>5. QED
      BY <1>4, <3>1, <3>2, <3>3, <3>4
      DEF CommandPush, OnlyQueue, Send, AlertReported, AlertPending, TypeOK, SharedTypeOK
  <2>2. CASE key \notin Measures
    <3>1. Send(ALERT_CMD) /\ CarriesAlert(ALERT_CMD)
      BY <1>4, <2>2 DEF CommandPush, CarriesAlert
    <3>2. QED
      BY <3>1, SendQueues, CommandTypes DEF AlertReported, AlertPending
  <2>3. QED
    BY <2>1, <2>2
<1>5. QED
  BY <1>1, <1>2, <1>3, <1>4 DEF ConsoleNext, CommandThread

\* RunApplication creates each thread once, before it has anything to report.
LEMMA RunApplicationReports ==
  ASSUME AlertReported, StartInv, MailboxInv, RunApplication
  PROVE  AlertReported'
<1> USE DEF sharedVars, mqttVars, pubVars, brokerVars, consoleVars
<1>1. CASE CreatePublishThread
  BY <1>1 DEF CreatePublishThread, StartInv, AlertReported, AlertPending, AlertQueued
<1>2. CASE CreateCommandThread
  BY <1>2, QuietReports DEF CreateCommandThread, MailboxInv
<1>3. CASE Connect \/ Subscribe \/ StartTimer \/ EnableAlertButton \/ EnablePublishButton
  BY <1>3, QuietReports DEF Connect, Subscribe, StartTimer, EnableAlertButton,
    EnablePublishButton, EstablishMqttConnection, ModifySubscriptions
<1>4. QED
  BY <1>1, <1>2, <1>3 DEF RunApplication

\* A button or the timer queues a command or finds the queue full.
LEMMA InterruptReports ==
  ASSUME TypeOK, AlertReported, AlertButtonIsr \/ PublishButtonIsr \/ Publish30sec
  PROVE  AlertReported'
<1> USE DEF mqttVars, pubVars, brokerVars, consoleVars
<1>1. CASE AlertButtonIsr
  <2>1. CASE Send(ALERT_CMD)
    BY <2>1, SendQueues, CommandTypes DEF AlertReported, AlertPending, CarriesAlert
  <2>2. CASE UNCHANGED pub_queue /\ alertUnsent' = (alertUnsent \/ ~AlertQueued)
    BY <2>2 DEF AlertReported, AlertPending, AlertQueued
  <2>3. QED
    BY <1>1, <2>1, <2>2 DEF AlertButtonIsr, SendFromISR
<1>2. CASE Send(WEATHER_CMD)
  BY <1>2, SendQueues, CommandTypes DEF AlertReported, AlertPending, CarriesAlert
<1>3. CASE PublishButtonIsr /\ ~Send(WEATHER_CMD)
  <2>1. UNCHANGED pub_queue /\ alertUnsent' = alertUnsent
    BY <1>3 DEF PublishButtonIsr, SendFromISR, TypeOK, SharedTypeOK
  <2>2. QED
    BY <1>3, <2>1, QuietReports DEF PublishButtonIsr, OnlyQueue
<1>4. QED
  BY <1>1, <1>2, <1>3 DEF Publish30sec

\* The alert of this station is about to be read for a message, in the message
\* being built, or what the newest message says that the library has taken, and
\* then the shadow says it too once that message has arrived, until an older one
\* arrives after it; unless the last command that carried it was refused or its
\* publish failed. For every queue size, every set of keys and workers, and
\* whatever the library repeats or gives up and in whatever order it arrives.
THEOREM AlertAlwaysReported == Spec => []AlertReported
<1>1. Init => AlertReported
  BY DEF Init, SharedInit, AlertReported
<1>2. /\ TypeOK /\ OthersOnly /\ StartInv /\ MailboxInv /\ AlertReported
      /\ [Next]_vars
      => AlertReported'
  <2> SUFFICES ASSUME TypeOK, OthersOnly, StartInv, MailboxInv, AlertReported, [Next]_vars
               PROVE  AlertReported'
    OBVIOUS
  <2>1. iot_data \in [Things -> ThingData] /\ MY_THING \in Things
    BY ThingsAssumption DEF TypeOK, SharedTypeOK
  <2>2. CASE ShieldStep
    <3>1. iot_data'[MY_THING]["alert"] = iot_data[MY_THING]["alert"]
      <4>1. ASSUME NEW m \in Measures, WeatherCopy(m)
            PROVE  iot_data'[MY_THING]["alert"] = iot_data[MY_THING]["alert"]
        <5>1. m \in Fields /\ m # "alert"
          BY DataAssumption DEF Fields
        <5>2. QED
          BY <2>1, <4>1, <5>1, StoreEffect, FieldTypes DEF WeatherCopy
      <4>2. CASE UNCHANGED iot_data
        BY <4>2
      <4>3. QED
        BY <2>2, <4>1, <4>2 DEF ShieldStep, CapSenseNext, CapSenseSample, CapSensePress,
          CapSenseStore, CapSenseWrap, CapSenseGive, WeatherNext, WeatherSample, WeatherCompare,
          WeatherGive, DisplayNext, DisplayTake, DisplayAlert, DisplayNumber, DisplayString,
          DisplayMutex, DisplayDraw, OnlySelection, OnlySemaphore, OnlyMutex, sharedVars
    <3>2. UNCHANGED <<pub_queue, alertUnsent>>
      BY <2>2 DEF ShieldStep, CapSenseNext, CapSenseSample, CapSensePress, CapSenseStore,
        CapSenseWrap, CapSenseGive, WeatherNext, WeatherSample, WeatherCopy, WeatherCompare,
        WeatherGive, DisplayNext, DisplayTake, DisplayAlert, DisplayNumber, DisplayString,
        DisplayMutex, DisplayDraw, OnlySelection, OnlySemaphore, OnlyTable, OnlyMutex,
        sharedVars
    <3>3. QED
      BY <2>2, <3>1, <3>2, QuietReports DEF ShieldStep, mqttVars, pubVars, consoleVars
  <2>3. CASE MqttStep
    <3>1. CASE PublishNext
      BY <2>3, <3>1, PublishReports DEF MqttStep
    <3>2. CASE CallbackNext
      <4>1. ASSUME NEW w \in Workers, NEW f \in Fields, CallbackStore(w, f)
            PROVE  iot_data'[MY_THING]["alert"] = iot_data[MY_THING]["alert"]
        <5>1. job[w] # Idle /\ f \in job[w].unstored
          BY <4>1 DEF CallbackStore, MayStore, Idle
        <5>2. job[w].thing \in Things /\ job[w].thing # MY_THING
          BY <5>1, JobData DEF OthersOnly
        <5>3. QED
          BY <2>1, <4>1, <5>2, StoreEffect, FieldTypes DEF CallbackStore
      <4>2. iot_data'[MY_THING]["alert"] = iot_data[MY_THING]["alert"]
        BY <3>2, <4>1 DEF CallbackNext, CallbackRun, CallbackStart, CallbackCheck, CallbackGive,
          OnlySemaphore, sharedVars
      <4>3. UNCHANGED <<pub_queue, alertUnsent, pubVars, brokerVars>>
        BY <3>2 DEF CallbackNext, CallbackRun, CallbackStart, CallbackStore, CallbackCheck,
          CallbackGive, OnlySemaphore, sharedVars
      <4>4. QED
        BY <2>3, <4>2, <4>3, QuietReports DEF MqttStep, pubVars, consoleVars
    <3>3. CASE LibraryNext
      BY <2>3, <3>3, LibraryReports DEF MqttStep
    <3>4. QED
      BY <2>3, <3>1, <3>2, <3>3 DEF MqttStep, MqttNext
  <2>4. CASE ConsoleStep
    BY <2>4, ConsoleReports DEF ConsoleStep
  <2>5. CASE RunApplication
    BY <2>5, RunApplicationReports
  <2>6. CASE AlertButtonIsr \/ PublishButtonIsr \/ Publish30sec
    BY <2>6, InterruptReports
  <2>7. CASE TimerExpires \/ LoseConnection
    BY <2>7, QuietReports DEF TimerExpires, LoseConnection, Disconnect, sharedVars, mqttVars,
      pubVars, consoleVars
  <2>8. CASE UNCHANGED vars
    BY <2>8, QuietReports DEF vars, sharedVars, mqttVars, pubVars, consoleVars
  <2>9. QED
    BY <2>2, <2>3, <2>4, <2>5, <2>6, <2>7, <2>8 DEF Next
<1>3. QED
  BY <1>1, <1>2, TypeCorrect, JobsOfOthers, StartAlways, MailboxAlways, PTL DEF Spec

(***************************************************************************)
(* Proof that the OLED never keeps an old row: whoever changes the row on  *)
(* the screen, or the choice of row, wakes displayThread afterwards, and   *)
(* what displayThread read before such a change is read again.             *)
(***************************************************************************)
\* Nobody is about to change what the OLED should show, or to announce it.
Settled == ~Owed(disp_thing) /\ disp_thing \notin unannounced

\* Whatever displayThread has collected for the next screen agrees with the
\* table as long as nothing is announced to it.
Collected ==
  /\ dispPc = "wait" => oled.thing = disp_thing /\ oled.data = iot_data[disp_thing]
  /\ dispPc \in {"number", "strings", "mutex", "draw"} =>
       title.alert = iot_data[disp_thing]["alert"]
  /\ dispPc \in {"strings", "mutex", "draw"} =>
       /\ title.thing = disp_thing
       /\ \A m \in Measures \ unread : lines[m] = iot_data[disp_thing][m]
ScreenInv ==
  /\ Settled => Collected
  /\ dispPc \in {"mutex", "draw"} => unread = {}

\* The invariants of the other parts the argument uses.
Context == TypeOK /\ DispThingInRange /\ OthersOnly /\ ReadingsInv /\ MailboxInv

\* A step that ends in a settled state and leaves the row on the screen alone.
Undisturbed ==
  Settled' => Settled /\ disp_thing' = disp_thing
                /\ iot_data'[disp_thing] = iot_data[disp_thing]

\* In a settled state the selection is a thing of the table.
LEMMA SettledThing == Context /\ Settled => disp_thing \in Things
BY DEF Context, DispThingInRange, Settled, Owed

\* A store changes no row but its own.
LEMMA StoreElsewhere ==
  ASSUME TypeOK, NEW n \in Things, NEW f \in Fields, NEW v, Store(n, f, v), NEW x \in Things,
         x # n
  PROVE  iot_data'[x] = iot_data[x]
BY DEF TypeOK, SharedTypeOK, Store

\* Settled depends on these variables only.
LEMMA SettledFrame ==
  ASSUME UNCHANGED <<iot_data, disp_thing, unannounced, display_semaphore, capPc, wdPc, prev, job>>,
         cmdPc = "give" => cmdPc' = "give"
  PROVE  Undisturbed
BY DEF Undisturbed, Settled, Owed, WeatherNews

\* A touch announces the new choice.
LEMMA CapSenseUndisturbed ==
  ASSUME Context, CapSenseNext, UNCHANGED <<stationVars, mqttVars, consoleVars>>
  PROVE  Undisturbed
<1> USE DEF mqttVars, consoleVars, wdVars
<1>1. CASE CapSenseSample
  <2>1. capPc \notin {"wrap", "give"} /\ capPc' \notin {"wrap", "give"}
    BY <1>1 DEF CapSenseSample
  <2>2. QED
    BY <1>1, <2>1 DEF CapSenseSample, sharedVars, Undisturbed, Settled, Owed, WeatherNews
<1>2. CASE CapSensePress
  <2>1. display_semaphore' \/ capPc' \in {"wrap", "give"}
    BY <1>2 DEF CapSensePress, CapSenseStore, CapSenseWrap, CapSenseGive, GiveDisplay
  <2>2. QED
    BY <2>1 DEF Undisturbed, Settled, Owed
<1>3. QED
  BY <1>1, <1>2 DEF CapSenseNext

\* The weather thread has news until it has announced them: a copy that changes
\* this station's row makes it differ from prev.
LEMMA WeatherUndisturbed ==
  ASSUME Context, WeatherNext, UNCHANGED <<stationVars, mqttVars, consoleVars>>
  PROVE  Undisturbed
<1> USE DEF mqttVars, consoleVars, capVars
<1>1. /\ iot_data \in [Things -> ThingData] /\ MY_THING \in Things
      /\ Measures \subseteq Fields /\ uncopied \in SUBSET Measures
  BY ThingsAssumption DEF Context, TypeOK, SharedTypeOK, AfeTypeOK, Fields
<1>2. CASE WeatherSample
  BY <1>2 DEF WeatherSample, sharedVars, Undisturbed, Settled, Owed, WeatherNews
<1>3. ASSUME NEW m \in Measures, WeatherCopy(m) PROVE Undisturbed
  <2>1. /\ UNCHANGED <<disp_thing, unannounced, display_semaphore, capPc, prev, cmdPc, job>>
        /\ m \in uncopied /\ Store(MY_THING, m, weather_data[m])
        /\ wdPc = "copy" /\ wdPc' \in {"copy", "compare"}
    BY <1>3 DEF WeatherCopy, OnlyTable
  <2>2. CASE disp_thing # MY_THING
    <3>1. Settled' => Settled
      BY <2>1, <2>2 DEF Settled, Owed
    <3>2. Settled => iot_data'[disp_thing] = iot_data[disp_thing]
      BY <1>1, <2>1, <2>2, SettledThing, StoreElsewhere DEF Context
    <3>3. QED
      BY <2>1, <3>1, <3>2 DEF Undisturbed
  <2>3. CASE disp_thing = MY_THING
    <3> SUFFICES ASSUME Settled' PROVE Settled /\ iot_data'[MY_THING] = iot_data[MY_THING]
      BY <2>1, <2>3 DEF Undisturbed
    <3>1. \A x \in Measures : prev[x] = iot_data'[MY_THING][x]
      BY <2>1, <2>3 DEF Settled, Owed, WeatherNews
    <3>2. iot_data[MY_THING][m] = prev[m]
      BY <2>1 DEF Context, ReadingsInv
    <3>3. \A g \in Fields : iot_data'[MY_THING][g] = iot_data[MY_THING][g]
      BY <1>1, <2>1, <3>1, <3>2, StoreEffect
    <3>4. iot_data'[MY_THING] = iot_data[MY_THING]
      BY <1>1, <2>1, <3>3 DEF ThingData, Store
    <3>5. Settled
      BY <2>1, <2>3, <3>1, <3>4 DEF Settled, Owed, WeatherNews
    <3>6. QED
      BY <3>4, <3>5
  <2>4. QED
    BY <2>2, <2>3
<1>4. CASE WeatherCompare
  <2>1. wdPc' = "sample" => \A m \in Measures : prev[m] = iot_data[MY_THING][m]
    BY <1>4 DEF WeatherCompare
  <2>2. wdPc = "compare" /\ wdPc' \in {"sample", "give"}
    BY <1>4 DEF WeatherCompare
  <2>3. QED
    BY <1>4, <2>1, <2>2 DEF WeatherCompare, sharedVars, Undisturbed, Settled, Owed, WeatherNews
<1>5. CASE WeatherGive
  BY <1>5 DEF WeatherGive, GiveDisplay, Undisturbed, Settled, Owed
<1>6. QED
  BY <1>2, <1>3, <1>4, <1>5 DEF WeatherNext
\* An update announces its row after storing it; a get leaves it unannounced.
LEMMA CallbackUndisturbed ==
  ASSUME Context, CallbackNext, UNCHANGED <<stationVars, afeVars, consoleVars>>
  PROVE  Undisturbed
<1> USE DEF afeVars, capVars, wdVars, consoleVars
<1>1. job \in [Workers -> Jobs] /\ iot_data \in [Things -> ThingData]
  BY DEF Context, TypeOK, MqttTypeOK, SharedTypeOK
<1>2. ASSUME NEW w \in Workers, ~display_semaphore',
             UNCHANGED <<iot_data, disp_thing, unannounced, display_semaphore>>,
             NEW j, job' = [job EXCEPT ![w] = j],
             JobOwes(job[w], disp_thing) => JobOwes(j, disp_thing)
      PROVE  Undisturbed
  <2>1. \A x \in Workers : job'[x] = IF x = w THEN j ELSE job[x]
    BY <1>1, <1>2
  <2>2. \A x \in Workers : JobOwes(job[x], disp_thing) => JobOwes(job'[x], disp_thing)
    BY <1>2, <2>1
  <2>3. QED
    BY <1>2, <2>2 DEF Undisturbed, Settled, Owed, WeatherNews
<1>3. display_semaphore' => Undisturbed
  BY DEF Undisturbed, Settled, Owed
<1>4. ASSUME NEW w \in Workers, NEW kind \in PubTypes, NEW n \in Things,
             NEW d \in Documents, CallbackStart(w, kind, n, d)
      PROVE  Undisturbed
  <2>1. ~JobOwes(job[w], disp_thing)
    BY <1>4 DEF CallbackStart, JobOwes, Idle
  <2>2. QED
    BY <1>2, <1>3, <1>4, <2>1 DEF CallbackStart, sharedVars
<1>5. ASSUME NEW w \in Workers, NEW f \in Fields, CallbackStore(w, f) PROVE Undisturbed
  <2> DEFINE t == job[w].thing
             rest == [job[w] EXCEPT !.unstored = @ \ {f}]
  <2>1. job[w] \in Running /\ job[w].pc = "store"
    BY <1>1, <1>5 DEF CallbackStore, Jobs, Idle
  <2>2. /\ t \in Things /\ Store(t, f, job[w].doc[f])
        /\ UNCHANGED <<disp_thing, display_semaphore>>
        /\ unannounced' = IF job[w].kind = "update/documents" THEN unannounced
                          ELSE unannounced \cup {t}
    BY <1>5, <2>1 DEF CallbackStore, Running
  <2>3. /\ rest.pc = "store" /\ rest.thing = t /\ rest.kind = job[w].kind
        /\ [rest EXCEPT !.pc = "check"].pc = "check"
        /\ [rest EXCEPT !.pc = "check"].thing = t
        /\ [rest EXCEPT !.pc = "check"].kind = job[w].kind
    BY <2>1 DEF Running
  <2>4. /\ \A x \in Workers \ {w} : job'[x] = job[x]
        /\ job[w].kind = "update/documents" => JobOwes(job'[w], t)
    <3>1. job' = [job EXCEPT ![w] =
                    IF rest.unstored # {} THEN rest
                    ELSE IF rest.kind = "update/documents"
                           THEN [rest EXCEPT !.pc = "check"] ELSE Idle]
      BY <1>5 DEF CallbackStore
    <3>2. QED
      BY <1>1, <2>3, <3>1 DEF JobOwes
  <2>5. CASE disp_thing = t
    <3>1. ~Settled'
      BY <2>2, <2>4, <2>5 DEF Settled, Owed
    <3>2. QED
      BY <3>1 DEF Undisturbed
  <2>6. CASE disp_thing # t
    <3>1. ~JobOwes(job[w], disp_thing)
      BY <2>1, <2>6 DEF JobOwes
    <3>2. MY_THING \in Things /\ t # MY_THING /\ iot_data'[MY_THING] = iot_data[MY_THING]
      BY <1>5, <2>1, <2>2, StoreElsewhere, ThingsAssumption
      DEF Context, OthersOnly, Idle
    <3>3. Settled' => Settled
      <4>1. UNCHANGED <<capPc, wdPc, prev, cmdPc>>
        OBVIOUS
      <4>2. QED
        BY <2>2, <2>4, <3>1, <3>2, <4>1 DEF Settled, Owed, WeatherNews
    <3>4. Settled => iot_data'[disp_thing] = iot_data[disp_thing]
      BY <2>2, <2>6, SettledThing, StoreElsewhere, <1>5 DEF Context
    <3>5. QED
      BY <2>2, <3>3, <3>4 DEF Undisturbed
  <2>7. QED
    BY <2>5, <2>6
<1>6. ASSUME NEW w \in Workers, CallbackCheck(w) PROVE Undisturbed
  <2>1. job[w] \in Running /\ job[w].pc = "check"
    BY <1>1, <1>6 DEF CallbackCheck, Jobs, Idle
  <2>2. CASE job[w].thing = disp_thing
    <3>1. JobOwes([job[w] EXCEPT !.pc = "give"], disp_thing)
      BY <2>1 DEF Running, JobOwes
    <3>2. job' = [job EXCEPT ![w] = [job[w] EXCEPT !.pc = "give"]] /\ UNCHANGED sharedVars
      BY <1>6, <2>2 DEF CallbackCheck
    <3>3. QED
      BY <1>2, <1>3, <3>1, <3>2 DEF sharedVars
  <2>3. CASE job[w].thing # disp_thing
    <3>1. ~JobOwes(job[w], disp_thing)
      BY <2>1, <2>3 DEF JobOwes
    <3>2. job' = [job EXCEPT ![w] = Idle] /\ UNCHANGED sharedVars
      BY <1>6, <2>3 DEF CallbackCheck
    <3>3. QED
      BY <1>2, <1>3, <3>1, <3>2 DEF sharedVars
  <2>4. QED
    BY <2>2, <2>3
<1>7. ASSUME NEW w \in Workers, CallbackGive(w) PROVE Undisturbed
  BY <1>3, <1>7 DEF CallbackGive, GiveDisplay
<1>8. QED
  BY <1>4, <1>5, <1>6, <1>7 DEF CallbackNext, CallbackRun

\* The console and the alert button announce the alert they change.
LEMMA AlertUndisturbed ==
  ASSUME Context, ConsoleStep \/ AlertButtonIsr
  PROVE  Undisturbed
<1> USE DEF afeVars, capVars, wdVars, mqttVars
<1>1. display_semaphore' => Undisturbed
  BY DEF Undisturbed, Settled, Owed
<1>2. CASE ConsoleStep
  <2>1. CASE CommandThreadCallback \/ CommandTake \/ CommandSwitch \/ CommandStorePrint
             \/ CommandPush
    BY <1>2, <2>1, SettledFrame DEF ConsoleStep, CommandThreadCallback, CommandTake,
      CommandSwitch, CommandStorePrint, CommandPush, OnlyQueue, sharedVars
  <2>2. CASE CommandStoreAlert
    <3>1. /\ Store(MY_THING, "alert", key = "A") /\ cmdPc = "store" /\ cmdPc' = "give"
          /\ UNCHANGED <<disp_thing, unannounced, display_semaphore, capPc, job>>
      BY <1>2, <2>2 DEF ConsoleStep, CommandStoreAlert, OnlyTable
    <3>2. disp_thing = MY_THING => ~Settled'
      BY <3>1 DEF Settled, Owed
    <3>3. disp_thing # MY_THING /\ Settled' => Settled
      BY <3>1 DEF Settled, Owed
    <3>4. disp_thing # MY_THING /\ Settled => iot_data'[disp_thing] = iot_data[disp_thing]
      BY <3>1, SettledThing, StoreElsewhere, FieldTypes, ThingsAssumption DEF Context
    <3>5. QED
      BY <3>1, <3>2, <3>3, <3>4 DEF Undisturbed
  <2>3. CASE CommandGive
    BY <1>1, <2>3 DEF CommandGive, GiveDisplay
  <2>4. QED
    BY <1>2, <2>1, <2>2, <2>3 DEF ConsoleStep, ConsoleNext, CommandThread
<1>3. CASE AlertButtonIsr
  BY <1>1, <1>3 DEF AlertButtonIsr, GiveDisplay
<1>4. QED
  BY <1>2, <1>3

\* The other steps touch nothing the screen depends on.
LEMMA RestUndisturbed ==
  ASSUME Context,
         \/ (PublishNext \/ LibraryNext) /\ UNCHANGED <<stationVars, afeVars, consoleVars>>
         \/ RunApplication \/ PublishButtonIsr \/ TimerExpires \/ Publish30sec
         \/ LoseConnection \/ UNCHANGED vars
  PROVE  Undisturbed
<1> USE SettledFrame DEF sharedVars, afeVars, capVars, wdVars, mqttVars, consoleVars
<1>1. CASE PublishNext /\ UNCHANGED <<stationVars, afeVars, consoleVars>>
  BY <1>1 DEF PublishNext, PublishThreadIp, PublishThreadGet, PublishThreadReceive,
    PublishThreadBuild, PublishOk, PublishFail, Published, OnlyQueue
<1>2. CASE LibraryNext /\ UNCHANGED <<stationVars, afeVars, consoleVars>>
  BY <1>2, LibraryFrame
<1>3. CASE RunApplication
  BY <1>3 DEF RunApplication, Connect, Subscribe, CreatePublishThread, StartTimer,
    CreateCommandThread, EnableAlertButton, EnablePublishButton, EstablishMqttConnection,
    ModifySubscriptions, Context, MailboxInv
<1>4. CASE PublishButtonIsr \/ TimerExpires \/ Publish30sec \/ LoseConnection
  BY <1>4 DEF PublishButtonIsr, TimerExpires, Publish30sec, LoseConnection, Disconnect,
    OnlyQueue
<1>5. CASE UNCHANGED vars
  BY <1>5 DEF vars
<1>6. QED
  BY <1>1, <1>2, <1>3, <1>4, <1>5

----------------------------------------------------------------------------
\* A row is determined by its address, its alert and its measures.
LEMMA RowFields ==
  ASSUME NEW d \in ThingData, NEW ms \in [Measures -> Values],
         \A m \in Measures : ms[m] = d[m]
  PROVE  Row(d["ip"], d["alert"], ms) = d
<1>1. \A f \in Fields : Row(d["ip"], d["alert"], ms)[f] = d[f]
  BY DataAssumption DEF Row, Fields
<1>2. QED
  BY <1>1 DEF Row, ThingData

\* displayThread collects the row on the screen field by field and draws it.
LEMMA DisplayScreen ==
  ASSUME Context, ScreenInv, DisplayNext, UNCHANGED <<stationVars, mqttVars, consoleVars>>
  PROVE  ScreenInv'
<1> USE DEF mqttVars, consoleVars, capVars, wdVars, ScreenInv
<1>1. /\ iot_data \in [Things -> ThingData]
      /\ unread \in SUBSET Measures /\ lines \in [Measures -> Values]
      /\ title \in [thing : 0 .. 255, alert : BOOLEAN]
  BY DEF Context, TypeOK, SharedTypeOK, AfeTypeOK
<1>2. Settled => \A f \in Fields : Entry(disp_thing, f) = {iot_data[disp_thing][f]}
  BY SettledThing DEF Entry
<1>3. CASE DisplayTake
  BY <1>3 DEF DisplayTake, Collected
<1>4. ASSUME UNCHANGED <<iot_data, disp_thing, unannounced, display_semaphore, capVars, wdVars>>
      PROVE  Settled' <=> Settled
  BY <1>4 DEF Settled, Owed, WeatherNews
<1>5. CASE DisplayAlert
  <2>1. PICK a \in Entry(disp_thing, "alert") : title' = [title EXCEPT !.alert = a]
    BY <1>5 DEF DisplayAlert
  <2>2. Settled => title'.alert = iot_data[disp_thing]["alert"]
    BY <1>1, <1>2, <2>1, FieldTypes
  <2>3. QED
    BY <1>4, <1>5, <2>2 DEF DisplayAlert, sharedVars, Collected
<1>6. CASE DisplayNumber
  <2>1. title'.thing = disp_thing /\ title'.alert = title.alert
    BY <1>1, <1>6 DEF DisplayNumber
  <2>2. QED
    BY <1>4, <1>6, <2>1 DEF DisplayNumber, sharedVars, Collected
<1>7. ASSUME NEW m \in Measures, DisplayString(m) PROVE ScreenInv'
  <2>1. PICK v \in Entry(disp_thing, m) : lines' = [lines EXCEPT ![m] = v]
    BY <1>7 DEF DisplayString
  <2>2. Settled => v = iot_data[disp_thing][m]
    BY <1>2, <2>1, FieldTypes
  <2>3. \A x \in Measures : lines'[x] = IF x = m THEN v ELSE lines[x]
    BY <1>1, <2>1
  <2>4. /\ UNCHANGED <<sharedVars, capVars, wdVars, title>>
        /\ dispPc = "strings" /\ dispPc' \in {"strings", "mutex"}
        /\ unread' = unread \ {m} /\ (dispPc' = "mutex" => unread' = {})
    BY <1>7 DEF DisplayString
  <2>5. QED
    BY <1>4, <2>2, <2>3, <2>4 DEF sharedVars, Collected
<1>8. CASE DisplayMutex
  BY <1>4, <1>8 DEF DisplayMutex, OnlyMutex, Collected
<1>9. CASE DisplayDraw
  <2>1. PICK ip \in Entry(disp_thing, "ip") :
          oled' = [thing |-> title.thing, data |-> Row(ip, title.alert, lines)]
    BY <1>9 DEF DisplayDraw
  <2>2. ASSUME Settled
        PROVE  oled'.thing = disp_thing /\ oled'.data = iot_data[disp_thing]
    <3>1. disp_thing \in Things /\ ip = iot_data[disp_thing]["ip"]
      BY <1>2, <2>1, <2>2, SettledThing, FieldTypes
    <3>2. /\ title.thing = disp_thing /\ title.alert = iot_data[disp_thing]["alert"]
          /\ \A m \in Measures : lines[m] = iot_data[disp_thing][m]
      BY <1>9, <2>2 DEF DisplayDraw, Collected
    <3>3. Row(ip, title.alert, lines) = iot_data[disp_thing]
      BY <1>1, <3>1, <3>2, RowFields
    <3>4. QED
      BY <2>1, <3>2, <3>3
  <2>3. dispPc = "draw" /\ dispPc' = "wait"
          /\ UNCHANGED <<iot_data, disp_thing, unannounced, display_semaphore, capVars, wdVars>>
    BY <1>9 DEF DisplayDraw, OnlyMutex
  <2>4. QED
    BY <1>4, <2>2, <2>3 DEF Collected
<1>10. QED
  BY <1>3, <1>5, <1>6, <1>7, <1>8, <1>9 DEF DisplayNext

\* When displayThread waits and nobody is about to wake it, the OLED shows the
\* chosen row as it is in the table, except for rows stored by get answers
\* since the last wake-up: for every table, every set of workers and whatever
\* is touched, typed, measured and received meanwhile.
THEOREM ScreenAlwaysFresh == Spec => []ScreenFresh
<1>1. Init => ScreenInv
  BY ThingsAssumption DEF Init, SharedInit, AfeInit, ScreenInv, Settled
<1>2. Context /\ ScreenInv /\ [Next]_vars => ScreenInv'
  <2> SUFFICES ASSUME Context, ScreenInv, [Next]_vars PROVE ScreenInv'
    OBVIOUS
  <2>1. ASSUME Undisturbed, UNCHANGED dispVars PROVE ScreenInv'
    BY <2>1 DEF Undisturbed, ScreenInv, Collected, dispVars
  <2>2. CASE ShieldStep
    <3>1. CASE CapSenseNext
      <4>1. UNCHANGED dispVars
        BY <3>1 DEF CapSenseNext, CapSenseSample, CapSensePress, CapSenseStore, CapSenseWrap,
          CapSenseGive
      <4>2. QED
        BY <2>1, <2>2, <3>1, <4>1, CapSenseUndisturbed DEF ShieldStep
    <3>2. CASE WeatherNext
      <4>1. UNCHANGED dispVars
        BY <3>2 DEF WeatherNext, WeatherSample, WeatherCopy, WeatherCompare, WeatherGive
      <4>2. QED
        BY <2>1, <2>2, <3>2, <4>1, WeatherUndisturbed DEF ShieldStep
    <3>3. CASE DisplayNext
      BY <2>2, <3>3, DisplayScreen DEF ShieldStep
    <3>4. QED
      BY <2>2, <3>1, <3>2, <3>3 DEF ShieldStep
  <2>3. CASE MqttStep
    BY <2>1, <2>3, CallbackUndisturbed, RestUndisturbed DEF MqttStep, MqttNext, afeVars
  <2>4. CASE ConsoleStep \/ AlertButtonIsr
    BY <2>1, <2>4, AlertUndisturbed DEF ConsoleStep, AlertButtonIsr, afeVars
  <2>5. CASE RunApplication
    BY <2>1, <2>5, RestUndisturbed DEF RunApplication, Connect, Subscribe, CreatePublishThread,
      StartTimer, CreateCommandThread, EnableAlertButton, EnablePublishButton, afeVars
  <2>6. CASE PublishButtonIsr \/ TimerExpires \/ Publish30sec \/ LoseConnection
    BY <2>1, <2>6, RestUndisturbed DEF PublishButtonIsr, TimerExpires, Publish30sec,
      LoseConnection, afeVars
  <2>7. CASE UNCHANGED vars
    BY <2>1, <2>7, RestUndisturbed DEF vars, afeVars
  <2>8. QED
    BY <2>2, <2>3, <2>4, <2>5, <2>6, <2>7 DEF Next
<1>3. ScreenInv => ScreenFresh
  BY DEF ScreenInv, Settled, Collected, ScreenFresh
<1>4. QED
  <2>1. Spec => []Context
    BY TypeCorrect, SelectionInRange, JobsOfOthers, ReadingsAlways, MailboxAlways, PTL
    DEF Context
  <2>2. QED
    BY <1>1, <1>2, <1>3, <2>1, PTL DEF Spec
=============================================================================
