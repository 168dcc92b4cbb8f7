--------------------------- MODULE MqttOperation ---------------------------
(***************************************************************************)
(* source/mqtt_operation.c: the connection to the broker, the publish      *)
(* thread that turns queued commands into MQTT messages, and the callback  *)
(* that stores the messages of other stations in the table. The callback   *)
(* runs on the worker threads of the MQTT library. Library and broker are  *)
(* external: the library repeats a message until it is acknowledged or     *)
(* given up, the broker keeps the shadow of this station and delivers      *)
(* documents of all stations.                                              *)
(*                                                                         *)
(* An operator marked "Mutant" is a faulty variant of the one after it:    *)
(* it only serves to test that a property can fail.                        *)
(***************************************************************************)
EXTENDS Resources

CONSTANTS
  Workers,        \* threads the library runs callbacks on
  Documents,      \* reported states a message may carry
  InitialShadows, \* what the broker may know of this station's alert at power-up
  Connects,       \* outcomes of the connect: TRUE for an established session
  Accepts         \* sets of topic filters the broker may accept

PubTypes == {"get/accepted", "update/documents"}   \* the two topic filters

\* Every document carries all fields, as cJSON_GetObjectItem(...)->value needs;
\* an IPAddress that is not a JSON string is Absent.
ASSUME DocumentAssumption ==
  /\ \A d \in Documents :
       /\ d \in [Fields -> Datum \cup {Absent}]
       /\ \A f \in Fields : d[f] \in FieldType(f) \/ (f = "ip" /\ d[f] = Absent)
  /\ InitialShadows \subseteq BOOLEAN
ASSUME SessionAssumption ==
  /\ Connects \subseteq BOOLEAN /\ Accepts \subseteq SUBSET PubTypes

VARIABLES
  connected,   \* the session of mqtt_connection is up
  subscribed,  \* topic filters the broker accepted
  job,         \* MqttSubscriptionCallback on each worker
  pubPc,       \* publishThread
  next,        \* loop variable thingNumber of its prologue
  command,     \* command it is executing
  toRead,      \* fields the message still needs from iot_data[MY_THING]
  json,        \* fields of the message
  \* External. Of a message, and of the shadow, only the alert is kept: no
  \* property is about the other fields.
  outstanding, \* messages with an alert the library has taken and may yet send
  shadow,      \* the alert in the reported state of this station
  behind       \* history: the alert in the shadow is not that of the last
               \* message with an alert: it has not arrived, or an older
               \* one arrived after it

pubVars == <<pubPc, next, command, toRead, json>>
brokerVars == <<outstanding, shadow, behind>>
mqttVars == <<connected, subscribed, job, pubVars, brokerVars>>

Idle == [pc |-> "idle"]
Running == [pc : {"store", "check", "give"}, kind : PubTypes, thing : Things,
            doc : Documents, unstored : SUBSET Fields]
Jobs == {Idle} \cup {j \in Running : j.doc["ip"] = Absent => "ip" \notin j.unstored}
EmptyJson == [f \in Fields |-> Absent]
Messages == {d \in [Fields -> Datum \cup {Absent}] :
               \A f \in Fields : d[f] \in FieldType(f) \cup {Absent}}
\* newest: no other message with an alert was handed over after this one.
Handed == [alert : BOOLEAN, newest : BOOLEAN]

MqttTypeOK ==
  /\ connected \in BOOLEAN
  /\ subscribed \in SUBSET PubTypes
  /\ job \in [Workers -> Jobs]
  /\ pubPc \in {"absent", "ip", "get", "receive", "build", "publish"}
  /\ next \in Things
  /\ command \in Commands
  /\ toRead \in SUBSET Fields
  /\ json \in Messages
  /\ outstanding \subseteq Handed
  /\ shadow \in BOOLEAN
  /\ behind \in BOOLEAN

MqttInit ==
  /\ connected = FALSE /\ subscribed = {}
  /\ job = [w \in Workers |-> Idle]
  /\ pubPc = "absent" /\ next = 0 /\ command = IP_CMD
  /\ toRead = {} /\ json = EmptyJson
  /\ outstanding = {}
  /\ shadow \in InitialShadows /\ behind = TRUE

----------------------------------------------------------------------------
(* publishThread *)

\* Its prologue queues the address and one get per thing.
PublishThreadIp ==
  /\ pubPc = "ip"
  /\ Send(IP_CMD)
  /\ pubPc' = "get"
  /\ OnlyQueue
  /\ UNCHANGED <<next, command, toRead, json, brokerVars, connected, subscribed, job>>

\* Mutant: the loop runs one thing too far.
PublishThreadGetPastTable ==
  /\ pubPc = "get"
  /\ Send(GET_CMD(next))
  /\ IF next = MAX_THING + 1 THEN pubPc' = "receive" /\ UNCHANGED next
                             ELSE next' = next + 1 /\ UNCHANGED pubPc
  /\ OnlyQueue
  /\ UNCHANGED <<command, toRead, json, brokerVars, connected, subscribed, job>>

PublishThreadGet ==
  /\ pubPc = "get"
  /\ Send(GET_CMD(next))
  /\ IF next = MAX_THING THEN pubPc' = "receive" /\ UNCHANGED next
                         ELSE next' = next + 1 /\ UNCHANGED pubPc
  /\ OnlyQueue
  /\ UNCHANGED <<command, toRead, json, brokerVars, connected, subscribed, job>>

\* Mutant: the periodic message leaves the alert out.
ReadsWithoutAlert(c) ==
  {f \in Fields : \/ c = WEATHER_CMD /\ f \in Measures
                  \/ f \in Measures /\ c = MEASURE_CMD(f)
                  \/ c = ALERT_CMD /\ f = "alert"
                  \/ c = IP_CMD /\ f = "ip"}

\* Fields of iot_data[MY_THING] that go into the message of command c.
Reads(c) ==
  {f \in Fields : \/ c = WEATHER_CMD /\ f # "ip"
                  \/ f \in Measures /\ c = MEASURE_CMD(f)
                  \/ c = ALERT_CMD /\ f = "alert"
                  \/ c = IP_CMD /\ f = "ip"}

\* Mutant: the command is looked at but left in the queue.
PublishThreadPeek ==
  /\ pubPc = "receive" /\ pub_queue # <<>>
  /\ command' = Head(pub_queue)
  /\ toRead' = Reads(command')
  /\ pubPc' = IF toRead' = {} THEN "publish" ELSE "build"
  /\ UNCHANGED <<next, json, brokerVars, connected, subscribed, job, sharedVars>>

PublishThreadReceive ==
  /\ pubPc = "receive" /\ pub_queue # <<>>
  /\ command' = Head(pub_queue)
  /\ pub_queue' = Tail(pub_queue)
  /\ toRead' = Reads(command')
  /\ pubPc' = IF toRead' = {} THEN "publish" ELSE "build"
  /\ OnlyQueue
  /\ UNCHANGED <<alertUnsent, next, json, brokerVars, connected, subscribed, job>>

PublishThreadBuild(f) ==
  /\ pubPc = "build" /\ f \in toRead
  /\ json' = [json EXCEPT ![f] = iot_data[MY_THING][f]]
  /\ toRead' = toRead \ {f}
  /\ pubPc' = IF toRead' = {} THEN "publish" ELSE "build"
  /\ UNCHANGED <<next, command, brokerVars, connected, subscribed, job, sharedVars>>

\* PublishMessage hands the message over. Its status is not looked at: the
\* thread goes on whether the message was accepted or not.
Published ==
  /\ pubPc = "publish"
  /\ pubPc' = "receive"
  /\ json' = EmptyJson /\ command' = IP_CMD       \* dead until the next command
  /\ UNCHANGED <<next, toRead, connected, subscribed, job>>

\* IOT_MQTT_STATUS_PENDING: the library has taken the message, and no more.
PublishOk ==
  /\ Published
  /\ connected
  /\ IF json["alert"] = Absent THEN UNCHANGED <<outstanding, behind>>
     ELSE /\ outstanding' = {[m EXCEPT !.newest = FALSE] : m \in outstanding}
                              \cup {[alert |-> json["alert"], newest |-> TRUE]}
          /\ behind' = TRUE
  /\ UNCHANGED <<shadow, sharedVars>>

PublishFail ==
  /\ Published
  /\ alertUnsent' = (alertUnsent \/ (json["alert"] # Absent /\ ~AlertQueued))
  /\ UNCHANGED pub_queue /\ OnlyQueue
  /\ UNCHANGED brokerVars

PublishNext ==
  \/ PublishThreadIp \/ PublishThreadGet \/ PublishThreadReceive
  \/ PublishOk \/ PublishFail
  \/ \E f \in Fields : PublishThreadBuild(f)

----------------------------------------------------------------------------
(* External: the library and the broker (QoS 1 with retryMs, retryLimit)   *)

\* A transmission of m arrives, the first or a repetition, in any order with
\* those of other messages: what was sent before the session broke may still
\* arrive after it.
BrokerAccepts(m) ==
  /\ m \in outstanding
  /\ shadow' = m.alert /\ behind' = ~m.newest
  /\ UNCHANGED <<outstanding, connected, subscribed, job, pubVars, sharedVars>>

\* m is acknowledged, or all its repetitions were in vain.
Forget(m) ==
  /\ m \in outstanding
  /\ outstanding' = outstanding \ {m}
  /\ UNCHANGED <<shadow, behind, connected, subscribed, job, pubVars, sharedVars>>

LibraryNext == \E m \in outstanding : BrokerAccepts(m) \/ Forget(m)

----------------------------------------------------------------------------
(* MqttSubscriptionCallback *)

\* Mutant: messages about this station are stored too.
CallbackStartAnyThing(w, kind, n, d) ==
  /\ job[w] = Idle
  /\ connected /\ kind \in subscribed
  /\ job' = [job EXCEPT ![w] =
       [pc |-> "store", kind |-> kind, thing |-> n, doc |-> d,
        unstored |-> Fields \ (IF d["ip"] = Absent THEN {"ip"} ELSE {})]]
  /\ UNCHANGED <<connected, subscribed, pubVars, brokerVars, sharedVars>>

\* A document about thing n arrives: an update of its station, or the answer to
\* a get of any station, since the filter names no station. The callback drops
\* what concerns this one.
CallbackStart(w, kind, n, d) ==
  /\ job[w] = Idle
  /\ connected /\ kind \in subscribed
  /\ n # MY_THING
  /\ job' = [job EXCEPT ![w] =
       [pc |-> "store", kind |-> kind, thing |-> n, doc |-> d,
        unstored |-> Fields \ (IF d["ip"] = Absent THEN {"ip"} ELSE {})]]
  /\ UNCHANGED <<connected, subscribed, pubVars, brokerVars, sharedVars>>

\* The fields are stored one by one: the address, the measures, the alert.
MayStore(fs, f) ==
  /\ f \in fs
  /\ f # "ip" => "ip" \notin fs
  /\ f = "alert" => fs = {"alert"}

CallbackStore(w, f) ==
  /\ job[w].pc = "store" /\ MayStore(job[w].unstored, f)
  /\ LET rest == [job[w] EXCEPT !.unstored = @ \ {f}]
     IN job' = [job EXCEPT ![w] =
                  IF rest.unstored # {} THEN rest
                  ELSE IF rest.kind = "update/documents"
                         THEN [rest EXCEPT !.pc = "check"] ELSE Idle]
  /\ Store(job[w].thing, f, job[w].doc[f])
  \* Only an update announces what it stored; it does so at CallbackGive.
  /\ unannounced' = IF job[w].kind = "update/documents" THEN unannounced
                    ELSE unannounced \cup {job[w].thing}
  /\ UNCHANGED <<disp_thing, print_all, display_semaphore, i2c_mutex, pub_queue,
                 alertUnsent>>
  /\ UNCHANGED <<connected, subscribed, pubVars, brokerVars>>

\* Mutant: the check is nested under print_all.
CallbackCheckIfPrinted(w) ==
  /\ job[w].pc = "check"
  /\ job' = [job EXCEPT ![w] = IF print_all /\ job[w].thing = disp_thing
                                 THEN [job[w] EXCEPT !.pc = "give"] ELSE Idle]
  /\ UNCHANGED <<connected, subscribed, pubVars, brokerVars, sharedVars>>

\* The result of thingNumber == disp_thing is acted upon one step later.
CallbackCheck(w) ==
  /\ job[w].pc = "check"
  /\ job' = [job EXCEPT ![w] = IF job[w].thing = disp_thing
                                 THEN [job[w] EXCEPT !.pc = "give"] ELSE Idle]
  /\ UNCHANGED <<connected, subscribed, pubVars, brokerVars, sharedVars>>

CallbackGive(w) ==
  /\ job[w].pc = "give"
  /\ GiveDisplay
  /\ job' = [job EXCEPT ![w] = Idle]
  /\ OnlySemaphore
  /\ UNCHANGED <<connected, subscribed, pubVars, brokerVars>>

CallbackRun(w) ==
  \/ CallbackCheck(w) \/ CallbackGive(w)
  \/ \E f \in Fields : CallbackStore(w, f)
CallbackNext ==
  \E w \in Workers :
    \/ CallbackRun(w)
    \/ \E kind \in PubTypes, n \in Things, d \in Documents : CallbackStart(w, kind, n, d)

----------------------------------------------------------------------------
(* The session. EstablishMqttConnection and ModifySubscriptions report     *)
(* failure in a status; RunApplication ignores both. A broken connection   *)
(* is never re-established.                                                *)

EstablishMqttConnection ==
  /\ connected' \in Connects
  /\ UNCHANGED <<subscribed, job, pubVars, brokerVars, sharedVars>>

\* The broker may refuse either filter; without a connection none is accepted.
ModifySubscriptions ==
  /\ subscribed' \in IF connected THEN Accepts ELSE {{}}
  /\ UNCHANGED <<connected, job, pubVars, brokerVars, sharedVars>>

Disconnect ==
  /\ connected
  /\ connected' = FALSE
  /\ UNCHANGED <<subscribed, job, pubVars, brokerVars, sharedVars>>

MqttNext == PublishNext \/ LibraryNext \/ CallbackNext
============================================================================
