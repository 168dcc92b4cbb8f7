------------------------------- MODULE Shadow -------------------------------
(***************************************************************************)
(* Several stations and the broker: what a station publishes                *)
(* (mqtt_operation.c: publishThread, PublishMessage) becomes the shadow of *)
(* its thing, and every accepted change goes as a document to the stations *)
(* that subscribed, whose MqttSubscriptionCallback stores it in their      *)
(* tables. PublishMessage does not wait for an acknowledgement: the MQTT   *)
(* library may transmit a message again after PUBLISH_RETRY_MS, when newer *)
(* ones have been accepted already; and it may run the callback on several *)
(* workers at once. The broker and the library are external.               *)
(*                                                                         *)
(* How one station comes to publish and how it shows what it stored is the *)
(* subject of WeatherStation; here a command is executed in one step, and  *)
(* a station is a reporter, a listener or both.                            *)
(***************************************************************************)
EXTENDS Integers, Sequences, FiniteSets

CONSTANTS
  Things,       \* 0 .. MAX_THING: the rows of the table
  Foreign,      \* other devices whose topics the filters + let through
  LongNames,    \* those whose topic does not fit MAX_TOPIC_LENGTH
  PastTable,    \* those called Thing_NN with a number past MAX_THING
  Reporters,    \* things whose station publishes
  Listeners,    \* things whose station receives
  Weather,      \* the fields of WEATHER_CMD: measures and the alert
  Values,       \* values of the fields
  Zero,         \* what RunApplication initialises a row with
  InitialShadows,  \* what the broker may know of the things when all starts
  Workers,      \* threads the library runs callbacks on
  Absent,       \* a field a document or a message does not have
  None,
  MaxOutstanding,       \* bound: messages the library has not finished
  MaxWire,              \* bound: documents on their way to one station
  PUBLISH_RETRY_LIMIT

ASSUME ShadowAssumption ==
  /\ Reporters \cup Listeners \subseteq Things
  /\ Foreign \cap Things = {} /\ LongNames \cup PastTable \subseteq Foreign
  /\ "ip" \notin Weather /\ "alert" \in Weather
  /\ Zero \in Values /\ Absent \notin Values
  /\ None \notin Things \cup Foreign

Fields == Weather \cup {"ip"}

ASSUME InitialAssumption ==
  InitialShadows \subseteq [Things -> [Fields -> Values \cup {Absent}]]

Unknown == [f \in Fields |-> Absent]     \* a thing that never reported
Fresh == [f \in Fields |-> Zero]

VARIABLES
  row,         \* iot_data[MY_THING] of each reporter
  booted,      \* reporters that executed IP_CMD
  outbox,      \* messages of a reporter the library has not finished, equal
               \* ones once, with how often the broker got them
  shadow,      \* external: the reported state of each thing
  subscribed,  \* listeners whose subscription was accepted
  toGet,       \* the GET_CMDs a listener has still to execute
  wire,        \* documents on their way to a listener
  job,         \* the callback on each worker of a listener
  table,       \* the table of a listener
  settled,     \* ghost: things of which the last callback ran alone
  halted,      \* what took a listener down: whose document, and why
  provisioned  \* things whose shadow had all fields from the beginning

reporterVars == <<row, booted, outbox>>
listenerVars == <<subscribed, toGet, job, table, settled, halted>>
vars == <<reporterVars, shadow, wire, listenerVars, provisioned>>

Idle == [thing |-> None]
Running == [thing |-> None, why |-> "running"]
Whole(d) == \A f \in Fields : d[f] # Absent

Init ==
  /\ row = [r \in Reporters |-> Fresh] /\ booted = {}
  /\ outbox = [r \in Reporters |-> {}]
  /\ shadow \in InitialShadows /\ provisioned = {t \in Things : Whole(shadow[t])}
  /\ subscribed = {} /\ toGet = [s \in Listeners |-> Things \ {s}]
  /\ wire = [s \in Listeners |-> <<>>]
  /\ job = [s \in Listeners |-> [w \in Workers |-> Idle]]
  /\ table = [s \in Listeners |-> [t \in Things |-> Fresh]]
  /\ settled = [s \in Listeners |-> {}]
  /\ halted = [s \in Listeners |-> Running]

----------------------------------------------------------------------------
(* The station as a reporter *)

\* The sensors, the alert button and the console change the row.
Change(r) ==
  /\ \E f \in Weather, v \in Values : row' = [row EXCEPT ![r][f] = v]
  /\ UNCHANGED <<booted, outbox, shadow, wire, listenerVars, provisioned>>

\* TEMPERATURE_CMD, HUMIDITY_CMD, LIGHT_CMD, ALERT_CMD and IP_CMD go by the
\* field they publish.
Commands == {"WEATHER_CMD"} \cup Fields

\* Mutant: the periodic message leaves the alert out.
CarriesNoAlert(c) == IF c = "WEATHER_CMD" THEN Weather \ {"alert"} ELSE {c}

\* The fields of the message for a command.
Carries(c) == IF c = "WEATHER_CMD" THEN Weather ELSE {c}

Message(r, c) ==
  [times |-> 0,
   reported |-> [f \in Fields |-> IF f \in Carries(c) THEN row[r][f] ELSE Absent]]

\* IP_CMD is the first command and is executed once. IotMqtt_Publish takes the
\* message over, or refuses it: nobody looks at the status.
PublishMessage(r, c) ==
  /\ c = "ip" <=> r \notin booted
  /\ booted' = booted \cup {r}
  /\ \/ /\ Cardinality(outbox[r]) < MaxOutstanding
        /\ outbox' = [outbox EXCEPT ![r] = @ \cup {Message(r, c)}]
     \/ c = "ip" /\ UNCHANGED outbox
  /\ UNCHANGED <<row, shadow, wire, listenerVars, provisioned>>

----------------------------------------------------------------------------
(* The library and the broker *)

Merged(t, m) == [f \in Fields |-> IF m[f] = Absent THEN shadow[t][f] ELSE m[f]]

\* Mutant: the callback reads the member "previous" of update/documents.
DocumentBefore(t, m) == [thing |-> t, doc |-> shadow[t]]
\* Mutant: the topic filter is update/accepted, which carries the change only.
DocumentOfChange(t, m) == [thing |-> t, doc |-> m]

\* The member "current" of update/documents: all the broker knows of the thing.
Document(t, m) == [thing |-> t, doc |-> Merged(t, m)]

Up(s) == halted[s].thing = None

\* A document goes to every subscribed listener, the one it is about included.
Sent(d) == [s \in Listeners |-> IF s \in subscribed /\ Up(s) THEN Append(wire[s], d) ELSE wire[s]]
Room == \A s \in Listeners : Len(wire[s]) < MaxWire

\* The broker accepts a transmission, the first or a repetition: of several
\* outstanding messages, any.
Accept(r, m) ==
  /\ m \in outbox[r] /\ m.times <= PUBLISH_RETRY_LIMIT /\ Room
  /\ outbox' = [outbox EXCEPT ![r] = (@ \ {m}) \cup {[m EXCEPT !.times = @ + 1]}]
  /\ shadow' = [shadow EXCEPT ![r] = Merged(r, m.reported)]
  /\ wire' = Sent(Document(r, m.reported))
  /\ UNCHANGED <<row, booted, listenerVars, provisioned>>

\* The library is done with a message: it was acknowledged, or all its
\* transmissions, accepted or not, were in vain. (Room: while a wire is at its
\* bound, the library waits.)
Forget(r, m) ==
  /\ m \in outbox[r] /\ Room
  /\ outbox' = [outbox EXCEPT ![r] = @ \ {m}]
  /\ UNCHANGED <<row, booted, shadow, wire, listenerVars, provisioned>>

\* A device that is none of the stations reports.
ForeignReports ==
  /\ Room
  /\ \E t \in Foreign : wire' = Sent([thing |-> t, doc |-> Fresh])
  /\ UNCHANGED <<reporterVars, shadow, listenerVars, provisioned>>

----------------------------------------------------------------------------
(* The station as a listener *)

\* The filters are subscribed to before the publish thread asks for anything.
ModifySubscriptions(s) ==
  /\ s \notin subscribed
  /\ subscribed' = subscribed \cup {s}
  /\ UNCHANGED <<reporterVars, shadow, wire, toGet, job, table, settled, halted, provisioned>>

\* GET_CMD, its own thing left out: the answer goes to all stations; for a
\* thing without a shadow, and for a request that is lost, there is none.
Get(s, t) ==
  /\ Up(s) /\ s \in subscribed /\ t \in toGet[s]
  /\ toGet' = [toGet EXCEPT ![s] = @ \ {t}]
  /\ \/ shadow[t] # Unknown /\ Room /\ wire' = Sent([thing |-> t, doc |-> shadow[t]])
     \/ UNCHANGED wire
  /\ UNCHANGED <<reporterVars, shadow, subscribed, job, table, settled, halted, provisioned>>

Others(s, w, t) == {v \in Workers \ {w} : job[s][v].thing = t}

\* What the program does to memory it does not own, or reads through NULL, is
\* not defined: nothing is said of the station from then on.
Halt(s, t, why) ==
  /\ halted' = [halted EXCEPT ![s] = [thing |-> t, why |-> why]]
  /\ wire' = [wire EXCEPT ![s] = <<>>]
  /\ toGet' = [toGet EXCEPT ![s] = {}]
  /\ job' = [job EXCEPT ![s] = [w \in Workers |-> Idle]]
  /\ table' = [table EXCEPT ![s] = [n \in Things |-> Fresh]]
  /\ settled' = [settled EXCEPT ![s] = {}]

\* A document about another thing of the table is about to be stored.
StartStoring(s, w) ==
  LET d == Head(wire[s])
      others == Others(s, w, d.thing)
  IN /\ job' = [job EXCEPT ![s] = [v \in Workers |->
          IF v = w THEN [thing |-> d.thing, doc |-> d.doc, unstored |-> Fields,
                         alone |-> others = {}]
          ELSE IF v \in others THEN [@[v] EXCEPT !.alone = FALSE]
          ELSE @[v]]]
     /\ wire' = [wire EXCEPT ![s] = Tail(@)]
     /\ UNCHANGED <<toGet, table, settled, halted>>

\* The callback up to the first field. The topic is copied whatever its length.
\* Nobody looks whether pvPortMalloc returned memory for the payload and
\* cJSON_Parse a tree: without them the copy, or the first use of the address,
\* goes through NULL. A document about the station itself, or of a device that
\* is no Thing_NN, is dropped; one about a thing past the table is stored
\* behind it.
CallbackStart(s, w) ==
  /\ Up(s) /\ job[s][w] = Idle /\ wire[s] # <<>>
  /\ LET t == Head(wire[s]).thing
     IN \/ t \in LongNames /\ Halt(s, t, "topic")
        \/ t \notin LongNames /\ Halt(s, t, "memory")
        \/ /\ t \in {s} \cup (Foreign \ (LongNames \cup PastTable))
           /\ wire' = [wire EXCEPT ![s] = Tail(@)]
           /\ UNCHANGED <<toGet, job, table, settled, halted>>
        \/ t \in PastTable \ LongNames /\ Halt(s, t, "row")
        \/ t \in Things \ {s} /\ StartStoring(s, w)
  /\ UNCHANGED <<reporterVars, shadow, subscribed, provisioned>>

\* The address first, the alert last.
MayStore(fs, f) ==
  /\ f \in fs
  /\ f # "ip" => "ip" \notin fs
  /\ f = "alert" => fs = {"alert"}

\* cJSON_GetObjectItem returns NULL for a field the document does not have; it
\* is used without a check.
CallbackStore(s, w, f) ==
  /\ Up(s) /\ job[s][w] # Idle /\ MayStore(job[s][w].unstored, f)
  /\ LET j == job[s][w]
         rest == j.unstored \ {f}
     IN IF j.doc[f] = Absent
        THEN Halt(s, j.thing, "field")
        ELSE /\ table' = [table EXCEPT ![s][j.thing][f] = j.doc[f]]
             /\ job' = [job EXCEPT ![s][w] = IF rest = {} THEN Idle ELSE [j EXCEPT !.unstored = rest]]
             /\ settled' = [settled EXCEPT ![s] =
                  IF rest # {} THEN @ ELSE IF j.alone THEN @ \cup {j.thing} ELSE @ \ {j.thing}]
             /\ UNCHANGED <<wire, toGet, halted>>
  /\ UNCHANGED <<reporterVars, shadow, subscribed, provisioned>>

----------------------------------------------------------------------------
Report(r) ==
  \/ Change(r)
  \/ \E c \in Commands : PublishMessage(r, c)
Library(r) == \E m \in outbox[r] : Accept(r, m) \/ Forget(r, m)
Callback(s, w) == CallbackStart(s, w) \/ \E f \in Fields : CallbackStore(s, w, f)
Listen(s) ==
  \/ ModifySubscriptions(s)
  \/ \E t \in Things : Get(s, t)
  \/ \E w \in Workers : Callback(s, w)

Next ==
  \/ \E r \in Reporters : Report(r) \/ Library(r)
  \/ \E s \in Listeners : Listen(s)
  \/ ForeignReports

Periodic(m) == \A f \in Weather : m.reported[f] # Absent

(* The timer makes the publish thread execute WEATHER_CMD again and again, *)
(* whenever the library takes a message; the library transmits what it     *)
(* took, the broker accepts some of the periodic messages, and a callback  *)
(* that is due runs to its end. Nothing else need happen.                  *)
Fairness ==
  /\ \A r \in Reporters :
       /\ WF_vars(PublishMessage(r, "ip"))
       /\ SF_vars(PublishMessage(r, "WEATHER_CMD"))
       /\ SF_vars(Library(r))
       /\ SF_vars(\E m \in outbox[r] : Periodic(m) /\ Accept(r, m))
  /\ \A s \in Listeners :
       /\ WF_vars(ModifySubscriptions(s))
       /\ \A w \in Workers : WF_vars(Callback(s, w))

Spec == Init /\ [][Next]_vars
FairSpec == Spec /\ Fairness

----------------------------------------------------------------------------
\* Nothing is under way to listener s.
Quiet(s) == wire[s] = <<>> /\ \A w \in Workers : job[s][w] = Idle

\* Between callbacks, a row is what the broker knows of its thing, in every
\* field, however often messages were transmitted and in whatever order: only
\* two callbacks that overlap can leave it mixed or old (there is no lock
\* around iot_data).
QuietTablesAgree ==
  \A s \in Listeners : Up(s) /\ Quiet(s) =>
    \A t \in settled[s] : table[s][t] = shadow[t]

\* A station goes down only for lack of memory, or over a document of a device
\* that is none of the stations, or over one of a thing whose shadow did not
\* have all fields before its station first reported: the first message of a
\* new station carries its address only.
FaultsExplained ==
  \A s \in Listeners : ~Up(s) =>
    halted[s].why = "memory" \/ halted[s].thing \in Foreign \cup (Things \ provisioned)

\* What a repeated message or overlapping callbacks put back is put right by a
\* later periodic message: readings and an alert that stay as they are reach
\* the table of every station that is up, and stay there.
TablesHeal ==
  \A r \in Reporters, s \in Listeners :
    r # s => \A d \in [Weather -> Values] :
      <>[](Up(s) /\ \A f \in Weather : row[r][f] = d[f])
        => <>[](\A f \in Weather : table[s][r][f] = d[f])
============================================================================
