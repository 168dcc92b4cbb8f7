--------------------------- MODULE WeatherStation ---------------------------
(***************************************************************************)
(* source/weather_station.c: RunApplication creates the shared objects and *)
(* starts the threads one after the other; two button interrupts and a     *)
(* software timer feed the publish queue. This module composes them with   *)
(* the threads of AfeShield, MqttOperation and Console.                    *)
(*                                                                         *)
(* An operator marked "Mutant" is a faulty variant of the one after it:    *)
(* it only serves to test that a property can fail.                        *)
(***************************************************************************)
EXTENDS AfeShield, MqttOperation, Console

CONSTANTS
  Threads,  \* the threads that get to run: AllThreads in the code
  Inputs    \* which of AllInputs the environment makes use of
AllThreads == {"capsense", "weather", "display", "publish", "command"}
AllInputs == {"timer", "publish_button", "alert_button", "disconnect"}
ASSUME InputAssumption == Threads \subseteq AllThreads /\ Inputs \subseteq AllInputs

VARIABLES
  app,      \* what RunApplication does next
  timerPc   \* message_timer and its callback on the timer daemon

stationVars == <<app, timerPc>>
vars == <<sharedVars, afeVars, mqttVars, consoleVars, stationVars>>

Stages == {"connect", "subscribe", "create_publish", "start_timer",
           "create_command", "enable_alert", "enable_publish", "suspended"}

TypeOK ==
  /\ SharedTypeOK /\ AfeTypeOK /\ MqttTypeOK /\ ConsoleTypeOK
  /\ app \in Stages
  /\ timerPc \in {"off", "armed", "send"}

\* The shield threads exist from here on: RunApplication has initialised the
\* table and created them.
Init ==
  /\ SharedInit /\ AfeInit /\ MqttInit /\ ConsoleInit
  /\ app = "connect" /\ timerPc = "off"

----------------------------------------------------------------------------
(* RunApplication has priority tskIDLE_PRIORITY. Once it has created the   *)
(* publish thread, one above it, it runs only while that thread waits: the *)
(* prologue of publishThread does not wait unless the queue is full.       *)

\* Mutant: RunApplication competes with the publish thread.
YieldedAlways == TRUE

Yielded ==
  \/ pubPc \notin {"ip", "get"}
  \/ Len(pub_queue) = QUEUE_SIZE

Connect ==
  /\ app = "connect" /\ app' = "subscribe"
  /\ EstablishMqttConnection
  /\ UNCHANGED <<timerPc, afeVars, consoleVars>>

Subscribe ==
  /\ app = "subscribe" /\ app' = "create_publish"
  /\ ModifySubscriptions
  /\ UNCHANGED <<timerPc, afeVars, consoleVars>>

CreatePublishThread ==
  /\ app = "create_publish" /\ app' = "start_timer"
  /\ pubPc' = IF "publish" \in Threads THEN "ip" ELSE pubPc
  /\ UNCHANGED <<next, command, toRead, json, brokerVars, connected, subscribed, job>>
  /\ UNCHANGED <<timerPc, sharedVars, afeVars, consoleVars>>

StartTimer ==
  /\ app = "start_timer" /\ Yielded /\ app' = "create_command"
  /\ timerPc' = "armed"
  /\ UNCHANGED <<sharedVars, afeVars, mqttVars, consoleVars>>

CreateCommandThread ==
  /\ app = "create_command" /\ Yielded /\ app' = "enable_alert"
  /\ cmdPc' = IF "command" \in Threads THEN "wait" ELSE cmdPc
  /\ UNCHANGED <<receive_command, command_semaphore, key>>
  /\ UNCHANGED <<timerPc, sharedVars, afeVars, mqttVars>>

EnableAlertButton ==
  /\ app = "enable_alert" /\ Yielded /\ app' = "enable_publish"
  /\ UNCHANGED <<timerPc, sharedVars, afeVars, mqttVars, consoleVars>>

EnablePublishButton ==
  /\ app = "enable_publish" /\ Yielded /\ app' = "suspended"
  /\ UNCHANGED <<timerPc, sharedVars, afeVars, mqttVars, consoleVars>>

RunApplication ==
  \/ Connect \/ Subscribe \/ CreatePublishThread \/ StartTimer
  \/ CreateCommandThread \/ EnableAlertButton \/ EnablePublishButton

----------------------------------------------------------------------------
(* Interrupts and the timer *)

\* The whole handler runs with the tasks stopped.
AlertButtonIsr ==
  /\ "alert_button" \in Inputs /\ app \in {"enable_publish", "suspended"}
  /\ Store(MY_THING, "alert", ~iot_data[MY_THING]["alert"])
  /\ SendFromISR(ALERT_CMD, TRUE)
  /\ GiveDisplay
  /\ UNCHANGED <<disp_thing, print_all, i2c_mutex, unannounced>>
  /\ UNCHANGED <<stationVars, afeVars, mqttVars, consoleVars>>

PublishButtonIsr ==
  /\ "publish_button" \in Inputs /\ app = "suspended"
  /\ SendFromISR(WEATHER_CMD, FALSE)
  /\ OnlyQueue
  /\ UNCHANGED <<stationVars, afeVars, mqttVars, consoleVars>>

\* The period of message_timer has passed: the daemon calls publish30sec. A
\* daemon still inside the callback misses no period, it is only late.
TimerExpires ==
  /\ "timer" \in Inputs /\ timerPc = "armed"
  /\ timerPc' = "send"
  /\ UNCHANGED <<app, sharedVars, afeVars, mqttVars, consoleVars>>

Publish30sec ==
  /\ timerPc = "send"
  /\ Send(WEATHER_CMD)
  /\ timerPc' = "armed"
  /\ OnlyQueue
  /\ UNCHANGED <<app, afeVars, mqttVars, consoleVars>>

LoseConnection ==
  /\ "disconnect" \in Inputs
  /\ Disconnect
  /\ UNCHANGED <<stationVars, afeVars, consoleVars>>

----------------------------------------------------------------------------
ShieldStep ==
  /\ \/ "capsense" \in Threads /\ CapSenseNext
     \/ "weather" \in Threads /\ WeatherNext
     \/ "display" \in Threads /\ DisplayNext
  /\ UNCHANGED <<stationVars, mqttVars, consoleVars>>
MqttStep == MqttNext /\ UNCHANGED <<stationVars, afeVars, consoleVars>>
ConsoleStep == ConsoleNext /\ UNCHANGED <<stationVars, afeVars, mqttVars>>

Next ==
  \/ ShieldStep \/ MqttStep \/ ConsoleStep \/ RunApplication
  \/ AlertButtonIsr \/ PublishButtonIsr \/ TimerExpires \/ Publish30sec
  \/ LoseConnection

(* Every thread keeps running: what it does between two waits ends, and a  *)
(* wait ends when what it waits for is there. Touches, keys, presses,      *)
(* documents and the loss of the connection need not happen. A thread that *)
(* waits for room in the queue may see it filled by others again, but      *)
(* FreeRTOS gives a freed place to a waiting sender, and the timer, the    *)
(* console and the buttons are slower than the publish thread: these two   *)
(* waits are strongly fair. i2c_mutex is held by displayThread only        *)
(* between two of its steps: weak fairness is enough for whoever waits for *)
(* it. message_timer reloads itself. The library gives a message up after  *)
(* PUBLISH_RETRY_LIMIT repetitions, whatever the message; a session that   *)
(* stays up does not refuse for ever what there is memory for, nor lose    *)
(* every message that carries an alert.                                    *)
ByShield(t, A) == t \in Threads /\ A /\ UNCHANGED <<stationVars, mqttVars, consoleVars>>
ByMqtt(A) == A /\ UNCHANGED <<stationVars, afeVars, consoleVars>>
Fairness ==
  /\ WF_vars(ByShield("capsense", CapSensePress))
  /\ WF_vars(ByShield("weather", WeatherCompare \/ WeatherGive
                                    \/ \E m \in Measures : WeatherCopy(m)))
  /\ WF_vars(ByShield("display", DisplayNext))
  /\ WF_vars(ByMqtt(PublishNext))
  /\ SF_vars(ByMqtt(PublishOk /\ json["alert"] # Absent))
  /\ SF_vars(ByMqtt(\E m \in outstanding : BrokerAccepts(m)))
  /\ \A a \in BOOLEAN :
       WF_vars(ByMqtt(\E m \in outstanding : m.alert = a /\ Forget(m)))
  /\ \A w \in Workers : WF_vars(ByMqtt(CallbackRun(w)))
  /\ WF_vars(CommandThread /\ UNCHANGED <<stationVars, afeVars, mqttVars>>)
  /\ SF_vars(CommandPush /\ UNCHANGED <<stationVars, afeVars, mqttVars>>)
  /\ WF_vars(RunApplication)
  /\ WF_vars(TimerExpires)
  /\ SF_vars(Publish30sec)

Spec == Init /\ [][Next]_vars
FairSpec == Spec /\ Fairness

(* Elsewhere any thread may run at any time. Here a thread runs only while *)
(* none above it is ready: displayThread has priority 3, getCapSenseThread *)
(* and getWeatherDataThread 2, publishThread 1, RunApplication 0. The      *)
(* interrupts come when they like.                                         *)
DisplayReady == dispPc # "wait" \/ display_semaphore
PollerReady == capPc # "sample" \/ wdPc # "sample"
RespectsPriorities ==
  /\ DisplayReady => UNCHANGED <<capVars, wdVars, pubVars, app>>
  /\ PollerReady => UNCHANGED <<pubVars, app>>
PrioritySpec == Init /\ [][Next /\ RespectsPriorities]_vars

----------------------------------------------------------------------------
(* Safety *)

\* Between two presses the number on the display is a row of the table,
\* whatever buttons were touched together and in whatever order (uint8_t
\* arithmetic of getCapSenseThread).
DispThingInRange == capPc # "wrap" => disp_thing \in Things

\* Whoever will still give display_semaphore for row n: a touch being handled,
\* the weather thread with news of this station, a console command that
\* changed the alert, an update being stored.
WeatherNews ==
  \/ wdPc = "give"
  \/ wdPc \in {"copy", "compare"}
       /\ \E m \in Measures : prev[m] # iot_data[MY_THING][m]
JobOwes(j, n) ==
  \/ j.pc \in {"store", "check"} /\ j.thing = n /\ j.kind = "update/documents"
  \/ j.pc = "give"
Owed(n) ==
  \/ display_semaphore
  \/ capPc \in {"wrap", "give"}
  \/ n = MY_THING /\ (WeatherNews \/ cmdPc = "give")
  \/ \E w \in Workers : JobOwes(job[w], n)

\* When displayThread waits and nobody is about to wake it, the OLED shows the
\* chosen row as it is in the table. Rows stored by shadow/get answers since
\* the last wake-up are excepted: nothing announces those.
ScreenFresh ==
  dispPc = "wait" /\ ~Owed(disp_thing) /\ disp_thing \notin unannounced =>
    /\ oled.thing = disp_thing
    /\ oled.data = iot_data[disp_thing]

\* A key can be lost to a later one, but the last key typed is always executed:
\* no character is left in the mailbox while commandThread waits.
LastKeyServed ==
  cmdPc = "wait" /\ ~command_semaphore => key = receive_command

\* The command carrying the current alert is on its way to PublishMessage.
AlertPending ==
  \/ AlertQueued
  \/ cmdPc \in {"give", "push"} /\ key \in {"A", "a"}
  \/ pubPc = "build" /\ "alert" \in toRead

\* Unless such a command was refused or its publish failed, the alert of this
\* station is about to be read for a message, is in the message being built, or
\* is what the last message handed to the library says, and then the shadow
\* says the same as soon as that message arrives, until an older one arrives
\* after it: toggles while a message is built are never overtaken.
AlertReported ==
  LET alert == iot_data[MY_THING]["alert"] IN
  \/ alertUnsent
  \/ AlertPending
  \/ json["alert"] = alert
  \/ /\ json["alert"] = Absent
     /\ \A m \in outstanding : m.newest => m.alert = alert
     /\ behind \/ shadow = alert

\* The prologue of publishThread finds room for its commands: if it did not it
\* would wait for itself, the only thread that takes commands out.
PrefillNeverBlocks == pubPc \in {"ip", "get"} => Len(pub_queue) < QUEUE_SIZE

\* No message changes this station's own readings: between two readings its
\* row holds the last one, and so does what the weather thread compares with.
OwnReadingsKept ==
  wdPc = "sample" => /\ prev = weather_data
                     /\ \A m \in Measures : iot_data[MY_THING][m] = weather_data[m]

----------------------------------------------------------------------------
(* Liveness *)

\* A choice of thing that is left alone (no press is being handled any more)
\* reaches the OLED and stays there.
SelectionShown ==
  <>[](capPc = "sample" /\ disp_thing \notin unannounced)
    => <>[](oled.thing = disp_thing)

\* An alert that is left alone reaches the shadow and stays there, although a
\* press, a publish or a message may have been lost and older messages may be
\* repeated late: the periodic message reports it again.
AlertSettles ==
  \A a \in BOOLEAN :
    <>[](iot_data[MY_THING]["alert"] = a) => <>[](shadow = a)

\* Nobody waits for ever for room in the publish queue: neither the timer
\* daemon nor the console.
SendersReleased ==
  /\ []<>(timerPc # "send")
  /\ []<>(cmdPc # "push")

----------------------------------------------------------------------------
(* What the comments and the README say *)

\* "MAX_THING: The highest number thing": the OLED shows things of the table.
ScreenShowsThings == oled.thing \in Things \cup {Blank}

\* "any update from one station will reflect in all other stations": also
\* when the first values of another station arrive.
ScreenShowsGets ==
  dispPc = "wait" /\ ~Owed(disp_thing) /\ oled.thing = disp_thing
    /\ (\A w \in Workers : job[w] = Idle)
    => oled.data = iot_data[disp_thing]

\* "Weather alert is toggled and published": every press leaves a command
\* that carries the alert in the queue.
AlertPressQueued == [][AlertButtonIsr => AlertQueued']_vars
============================================================================
