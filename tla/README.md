# Weather station: TLA+ model and proofs

A TLA+ development of the firmware under `src/`: an AWS IoT weather station on
FreeRTOS. A board reads a sensor shield over I2C, shows one of 40 stations
("things") on an OLED, publishes its own data to its device shadow over MQTT
and follows the shadows of the other stations. The difficulty is not in the
single functions but in what five threads, three interrupt handlers, a timer
and the callbacks of the MQTT library do to the same table, queue and
semaphores.

## 1. Inventory

| Component (source) | State | Operations | Talks to | Correct when |
|---|---|---|---|---|
| Shared objects (`common_resource.h`, `weather_station.c:60-68`) | `iot_data`, `disp_thing`, `print_all`, `pub_queue`, `display_semaphore`, `i2c_mutex` | read, write, give, take, send, receive | everybody | no lock guards `iot_data`: correctness is a matter of order |
| `getCapSenseThread` (`afe_shield_operation.c:128`) | `capSenseValues`, `buttonPressed` | sample, four buttons, release | `disp_thing`, display | the selection is a row of the table |
| `getWeatherDataThread` (`:58`) | `weather_data`, three previous values | sample, copy, compare, announce | row `MY_THING`, display | its row is the last reading; changes are announced |
| `displayThread` (`:224`) | four strings | take, format, draw | reads the table, draws | the OLED does not keep an old row |
| `publishThread` (`mqtt_operation.c:53`) | command, topic, JSON buffer | prologue, receive, build, publish | queue, broker | never waits for itself; the newest alert wins |
| `MqttSubscriptionCallback` (`:148`) | one activation per worker of the MQTT library | drop own, store, compare, announce | rows of other things, display | keeps out of the own row, wakes the display |
| MQTT session (`:233-416`) | connection, accepted filters | connect, subscribe | broker | failures leave the station running |
| Console (`console_operation.c`) | one-byte mailbox, semaphore | interrupt, `t h l A a P p x c ?` | queue, own alert, display | the last key typed is served |
| Start-up (`weather_station.c:123`) | position in `RunApplication` | connect, subscribe, create threads, enable interrupts | all | threads find what they need |
| Buttons and timer (`:263-337`) | timer state | `alert_button_isr`, `publish_button_isr`, `publish30sec` | queue, own alert, display | nothing is lost unnoticed, nobody blocks for ever |
| I2C bus and its boot (`i2c_portapi.c`, `LCDConf.c`, `weather_station.c:178-199`) | bus, offset pointer of the sensor chip, `i2c_mutex` | byte and stream writes, two-part reads, thread creation | shield, OLED | transfers do not overlap; a read returns the register asked for |
| cJSON (`cJSON.c`) | heap of list nodes and strings, print buffer | create, link, unlink, delete, parse, duplicate, compare, print | callback | lists stay linked, every item and string has one owner, trees mean what the texts say |
| Library and broker (external) | outstanding messages, shadows | transmit, repeat, merge, deliver | publish thread, callback | as the code relies on them |
| `main.c`, emWin and SDK configuration | - | board initialisation | - | - |

What is hard: a touch or a message that arrives while the display is formatting
(one binary semaphore stands for all news); an alert toggled by an interrupt
while the console sets it and a message is being built from it; `disp_thing`
read between the two stores of a wrap-around; a queue whose only consumer first
fills it; interrupts that find it full; results nobody looks at; a one-byte
mailbox. Between stations it is what the library and the broker may do to a message after
`IotMqtt_Publish` took it, and what the callback does with a topic or a document it does not expect. In
`cJSON.c` it is pointers: lists, flags of ownership and buffers that have to be right after
any sequence of calls and after any allocation that fails. `PROJECT.json` lists each hazard at
its line.

## 2. Modules

| Module | Models |
|---|---|
| `Resources` | table, queue, semaphores, the FreeRTOS calls on them |
| `AfeShield` | the three shield threads |
| `MqttOperation` | publish thread, callback, session; what library and broker may do to a message with this station's alert (external) |
| `Console` | UART interrupt and command thread |
| `WeatherStation` | `RunApplication`, interrupts, timer; composes the others; the properties |
| `MCWeatherStation` | values of the constants for TLC |
| `AtomicBus` | abstract specification: what the shield threads expect of the bus |
| `I2cBus` | bus, mutex and scheduler during boot and after; implements `AtomicBus` |
| `MCI2cBus` | values of the constants of `I2cBus` |
| `Mailbox` | abstract specification of a one-place mailbox; `Console` implements it |
| `Shadow`, `MCShadow` | several stations, the library and the broker: messages repeated late, documents without all fields, foreign devices, lack of memory, two workers |
| `CJsonHeap` | cJSON's items and strings as a record, and the functions that link, unlink and free them |
| `CJsonTree`, `MCJsonTree` | a program that calls these functions in any order |
| `JsonForest` | abstract specification: a forest of sequences; `CJsonTree` implements it |
| `CJsonText` | parsing, duplicating, building arrays |
| `CJsonCompare` | `cJSON_Compare` |
| `CJsonPrint` | the print buffer and the functions that print into it |
| `CJsonStrings` | escape sequences and UTF-8, byte by byte |
| `CJsonDocuments` | a program that parses, builds, duplicates, alters and prints; what holds of its trees and buffers |
| `CJsonMeaning`, `MCJsonDocuments` | what trees, texts and literals mean, and that the program keeps it; values of the constants |
| `WeatherStationProofs` | types, who writes which row, the selection; queue, mailbox and alert, refinement of `Mailbox`; the screen |
| `I2cBusProofs` | no two transfers overlap; refinement of `AtomicBus` |
| `CJsonListProofs` | what each function of cJSON does to the lists of any heap |
| `CJsonOwnerProofs` | and to the ownership of items and strings |
| `CJsonTreeProofs` | any sequence of calls keeps lists, items and strings, and implements `JsonForest` |
| `CJsonDocumentProofs` | parsing, duplicating and building leave whole trees or nothing, wherever they fail |
| `CJsonPrintProofs` | printing stays within its buffer |
| `ShadowProofs` | which documents take a station down; tables between callbacks agree with the broker |

A variable keeps the name it has in C. Each thread has a `...Pc`. A step is one
access to a shared object, or one stretch of code that touches only locals; so
the preemption of any thread between any two accesses is covered, whatever the
priorities. Priorities are used in two places: `Yielded`, and `PrioritySpec` for one
run (both below). Accesses to
several fields of a row, between two synchronisation calls, are taken in any
order: more than the code does, never less.

Abstractions, and why they are safe for the properties:

* the three measures are a set `Measures`, their values a set `Values`: the code
  only copies and compares them. `TEMPERATURE_CMD`, `HUMIDITY_CMD` and
  `LIGHT_CMD` are `MEASURE_CMD(m)`; keys `t h l` are the measure they publish;
  keys that only print are `"x"`.
* a JSON message is the function from fields to values it carries, `Absent` for
  the others. In `WeatherStation` a document carries every field, except that its
  `IPAddress` may be something other than a string, which the code skips, topics fit
  their buffer and there is memory; `Shadow` has what takes the callback down.
* `PublishOk` only hands a message to the library (`IOT_MQTT_STATUS_PENDING`). From then
  on a message that carries an alert is in `outstanding`: `BrokerAccepts` may deliver it any
  number of times and in any order with others, until the library forgets it, delivered or not
  (the code sets QoS 1, `PUBLISH_RETRY_MS` and `PUBLISH_RETRY_LIMIT` and has no completion callback). Of
  messages and `shadow` only the alert is kept, because no property of this module is about another field;
  messages with equal contents are one element. The number of repetitions is not
  bounded, which allows more than the library does.
* what displayThread formats is the tuple of values read; a row number past the
  table reads "any value of the type".
* a transfer made between taking and giving `i2c_mutex` is one step, except the
  drawing of the screen, which reads the address string inside: there the mutex
  is a variable and is held across two steps. `I2cBus` opens these steps up and
  justifies them. Strings are read and written at once.
* the two periodic delays are not modelled: a thread may run again at any time.
* history variables `unannounced`, `alertUnsent` and `behind`, and the component `newest` of a message, decide
  nothing; they record which rows nobody announced, whether the last alert command was lost, and whether the
  shadow's alert is that of the message handed over last.
* after its use a local is reset to a fixed value where the code leaves a dead one.

`Yielded`: `RunApplication` runs at `tskIDLE_PRIORITY`, publishThread one above
(`weather_station.c:40`), so `RunApplication` goes on only when publishThread
waits. This is what keeps other senders out of the queue during the prologue.

`PrioritySpec` adds to every step what the priorities say (`RespectsPriorities`): while displayThread (3) is ready neither of the
other shield threads, publishThread nor `RunApplication` runs; while a touch or a reading is being handled (2) neither publishThread (1) nor `RunApplication`
(0) does. Console and callback, which play no part in that run, are left out. The other runs allow more interleavings, which is safe for a property that holds; the run that shows
`screen_past_table` uses these, so that its trace is one the scheduler can produce.

`I2cBus` stands beside `WeatherStation`. There a transfer begins and ends in different
steps, and the scheduler is explicit: a task takes a step only while no ready
task has a higher priority, the holder of `i2c_mutex` counting with the priorities
of those it blocks. That is needed because two transfers are made without the mutex: those of
`GUI_Init`, before any thread exists, and those of `GUI_Clear`, in displayThread before its
first take. Two transfers that overlap leave the driver in no known state: from then on reads and
drawings have any outcome. `AtomicBus` says what `AfeShield` assumes: the end of a read in
`I2cBus` is the atomic read there, the end of a drawing the atomic drawing, and the rest
stutters (the variables keep their names, so the refinement mapping is the identity on them).
The mutex, the offset pointer and the bus have no counterpart.

`Mailbox` says what the console promises who types: `due` readings of the place are still to come, each
serves the key typed last, and a key typed in the middle of a reading may stand for both. In `Console`
`receive_command` is the last key, `key` the one served, and `Due` counts the semaphore and a reading
that has begun.

`Shadow` is about several stations, so that one station is coarser there: a command of the publish thread is one
step (how it comes to publish is the subject of `WeatherStation`), but the stores of the callback
are single steps, because callbacks run on several workers. What the code relies on and
does not contain is marked external: the library keeps a message until it is acknowledged and
transmits it up to `PUBLISH_RETRY_LIMIT` times more, newer ones in between
(`mqtt_operation.c:454`); the broker merges the fields of a message into the
shadow, and sends the whole of it (`current` of `update/documents`, `get/accepted`)
to every subscriber, the reporting station included, in order and once, because a session is a TCP connection. Two outstanding messages
with the same contents and the same count are one element of `outbox`: all that can be told apart is how often the
broker gets them. The filters contain `+`, so documents of devices that are no stations arrive too (`Foreign`):
some with a name too long for `topicStr` (`LongNames`), some called `Thing_NN` with a number past the table (`PastTable`), others
of which `sscanf` makes nothing. Each case the callback does not check is undefined behaviour of the program: the topic
copied past `topicStr` (`:157`), no memory for the payload or for the tree of `cJSON_Parse` (`:161`, `:174`, `:195`), a row past
the table (`:180`, `:202`), a field the document does not have (`:178`, `:182-185`). The station is then `halted`, with the thing
and the reason, its variables are reset, and nothing more is said of it. A failed allocation halts it at the start of the callback,
although the program goes on to the first use of NULL. The documents are those the broker makes, well-formed JSON, so that
parsing fails only for lack of memory.

The heap of cJSON is a record of functions over addresses; a field of an
item that is not live is blank. Each function of `cJSON.c` is an operator from heap to heap, with the
pointer it returns in `ret` and the allocations that still succeed in `mem`: a call runs
alone, so that the order of its assignments, but no interleaving, matters; and it can fail at each of its
allocations. `cJSON_Delete` and the loops over a list are
closures under the pointers they follow, so that a list with no end is not mistaken for an empty one.
The program keeps to rules that `cJSON.h` does not state but the code depends on: it links only what it holds, nothing below
itself, and nothing through a reference, and it deletes no item a reference that remains points to. A key that is
one constant for several items is the flag `const`, a string shared with a reference
the flag `ref`.

`CJsonText` and `CJsonPrint` see a text as lexemes: brackets, commas, blanks, literals, numbers, whole
string literals, a byte order mark and "junk"; the parser's offset counts lexemes, while the printer's counts
characters, since there it matters that every write was reserved. `CJsonStrings` opens
the string literals up to bytes. `CJsonDocuments` holds at most a text, its tree and a duplicate
of it, and compares each with a value: a tree without pointers, whose text (`JsonText`)
is defined by the grammar, not by the code.

Parser, duplicator and printer are recursive in C: a loop over members calls the function it is in. In `CJsonText` and `CJsonPrint`
such a loop is a recursive function of the rounds it may still make (`parse_members`, `DuplicateMembers`,
`print_members`), applied to the arguments of the loop; its body (`ParsedMembers`, `Duplicates`, `PrintedMembers`) and the functions between get the loop with
one round less as a parameter. So many rounds as there are lexemes, or items, are enough, since a text
gets shorter and a path through a tree meets no item twice. Operators that are recursive like the data they are about stand only in
`CJsonMeaning`, `CJsonCompare` and `CJsonStrings`, which no proof uses.

## 3. Properties and runs

Safety (`WeatherStation`):

* `TypeOK`: types of all variables, queue capacity included.
* `DispThingInRange`: outside the two stores of one wrap-around, `disp_thing` is a
  row, whatever buttons one sample carries.
* `ScreenFresh`: if displayThread waits and nobody is still bound to wake it
  (`Owed`), the OLED shows the selected row as it is in the table.
* `OwnReadingsKept`: between two rounds of the weather thread its row and its
  previous values hold the last reading: no message overwrites it.
* `AlertReported`: unless a command or its publish failed, the current alert is about to be read for a message, is
  in the one being built, or is what the newest message handed over says; and the shadow agrees with it, unless that message
  has not arrived yet or an older one was repeated after it. The last is the code's weakness (`mqtt_operation.c:454`, hazard
  `timeout_retry`): the property says that it is the only one.
* `PrefillNeverBlocks`: publishThread's prologue finds room.
* `LastKeyServed`: no character stays in the mailbox while commandThread waits.
* `ImplementsMailbox` (`Console`): what is executed is always the key typed last; no key is executed
  more often than two typed keys allow.

`I2cBus`: `NoCollision` (no two transfers overlap, boot included), `ReadsAreAtomic`
(the refinement of `AtomicBus`) and `ScreenDrawn` (a screen to be drawn is drawn, under `FairSpec`).

`Shadow`:

* `QuietTablesAgree`: with nothing under way to it, a station's row of a thing is
  the shadow in every field, if the last callback about the thing ran alone. The condition is the code's
  weakness: `iot_data` has no lock, and two callbacks that overlap leave a mixture or the older document.
* `FaultsExplained`: a station goes down only for lack of memory, over a document of a device that is none of the stations
  (its topic too long, or its number past the table), or over one of a thing whose shadow did not have all
  fields to begin with (the first message of a new station has only the address, `mqtt_operation.c:72`). Things whose shadow was
  whole never take a station down, whatever is repeated, overtaken or lost, although messages carry single fields: the broker's merge
  keeps it whole.
* `TablesHeal` (liveness): what a repeated message or overlapping callbacks put back is put right by the
  periodic messages: values that stay as they are reach the tables and stay there.

cJSON, after any sequence of calls (`CJsonTree`):

* `Linked`: `next` and `prev` are inverse, every list begins at one parent and has an
  end, what the program holds is linked to nothing.
* `Accounted`: every live item is in the tree of exactly one root, which the program holds or which is a reference.
* `StringsOwned`: as many strings are alive as items will free.
* `ImplementsForest`: every call attaches, renames, detaches, discards or exchanges one member and
  leaves all other lists alone (refinement of `JsonForest`).

cJSON, on documents (`CJsonDocuments`, `CJsonMeaning`):

* `ParsesJson`: the tree of a text means what the text says up to where parsing ended, whatever follows, and a text is
  refused only for a reason: no JSON within the nesting limit, or no memory.
* `TreesWellFormed`, `NoStringLost`: the properties of `CJsonTree` hold after calls that succeed and calls
  that fail half way.
* `CopiesEqual`, `ComparesContents`: a duplicate means what its original means; comparing decides
  equality of meaning, in both directions, when names are distinct.
* `PrintsText`: what is printed is the text of the tree.
* `PrintFits`: nothing is written past a buffer, no buffer is lost or freed twice, and a buffer of the caller with
  five characters to spare is enough, as `cJSON.h` says.
* `LiteralsDecode`: a closed string literal is refused exactly if it has an unknown escape or half a surrogate pair, and else becomes
  the UTF-8 of its code points (RFC 3629) within the block allocated for it. This is not all of JSON's grammar: a control character
  is accepted as itself, and `\u` with digits that are not hexadecimal as code 0, for which `parse_hex4` has no other answer.
* `EscapesParse`: a C string (what was decoded, up to its first 0) that is printed parses to itself and takes exactly the room reserved.

Liveness of the station under `FairSpec`: `SelectionShown` (a selection left alone reaches the OLED),
`AlertSettles` (an alert left alone reaches the shadow and stays there, although presses, publishes and messages may be lost and older
messages repeated late: the periodic message reports it again), `SendersReleased` (neither timer nor console waits for ever for room).

| Run | Threads and inputs | Bounds | Shows |
|---|---|---|---|
| `alert_screen` | weather, display, console, callback, alert button | 2 things, keys `A a`, 2 readings, 1 document | `ScreenFresh` and `OwnReadingsKept` with four writers of the rows |
| `other_screen` | touch, display, callback, loss of session | 2 things, 2 documents, all session outcomes | `ScreenFresh` for rows of others |
| `reporting` | console, publish, both buttons, timer | queue of 2 (smallest legal), one key of each kind (measure, alert, print) | `TypeOK`, `AlertReported`, `PrefillNeverBlocks`, `LastKeyServed`, `ImplementsMailbox` |
| `live_screen` | touch, display | 3 things, step 2; button 2, button 3, buttons 0 and 1 together | `DispThingInRange`, `SelectionShown` |
| `live_queue` | console, publish, timer, alert button | queue of 2, key `A`, no measures | `AlertSettles`, `SendersReleased` |
| `bus` | boot, both pollers, display | two values per register, priorities 0, 2, 2, 3 | `NoCollision`, `ReadsAreAtomic`, `ScreenDrawn` |
| `shadow` | one reporter, the broker, one listener with two workers | 2 messages outstanding, 1 document on the wire, 1 repetition, one field besides the address; 4 initial shadows, 3 foreign devices | `QuietTablesAgree`, `FaultsExplained`, `TablesHeal` |
| `json_tree` | all calls on trees | 4 items, 2 strings, one key, 1 reference | `Linked`, `Accounted`, `StringsOwned`, `ImplementsForest` |
| `json_text` | texts, arrays, string literals; parse, duplicate, alter, compare, print | 8 items, 12 strings, nesting of 2, literals of 3 units | the nine properties on documents |

Why these bounds are enough to see the cases: with two things every wrap-around and
"selected or not" occurs; with three and a step of 2 (button 3) a step also goes past the end and comes back to a middle row; a
queue of `MAX_THING` + 2 is the smallest that does not deadlock, so it is full as
often as possible; one measure with two values changes and changes back; a
thread that plays no part in a question is left out (`Threads`) to keep all
interleavings of the others. In `reporting` a publish can always fail, which is all publishThread notices of a session that breaks. In
`live_queue` there are no measures, so that the periodic message carries the alert alone: liveness is checked on the product of
this state space with the tableau of each property, and what the readings are changes nothing for the alert. The safety properties of the station are also proved for all values
of the constants (section 5), so the runs mainly show that the situations occur.

`shadow`: one repetition (10 in the code) already lets an old message overtake a newer one, and the old value return
after the new one was delivered; two messages and two workers are the least that can be out
of order; stations meet only at the broker, so one of each kind is enough; the fields besides the address are
stored and merged alike, except that the alert comes last, so the alert stands for them. The reporter's shadow begins whole,
without its address, with its address only, or empty; the listener's own is empty in the first case and whole in the others, so that
there are always both kinds of things. One foreign device has a long name, one a number past the table, one neither. `MaxOutstanding` and `MaxWire`
cap what the library and the network may hold.

`json_tree`: four items are a parent with a first, a middle and a last member, or an item on its way into a list
of two; `Linked`, `Accounted` and `StringsOwned` are proved for any number. `json_text`: all values with up to two members at two levels, some with
more, each text cut off everywhere and changed in one place; a limit of 2 (1000 in the code) is reached and exceeded; buffers of
sizes just below, at and above the text's, and a `cJSON_Print` buffer of 6 (256 in the code) that has to grow; every
number of allocations up to 5 fails at a different point, 20 never fails. The literals are the kinds of characters the code tells apart:
plain, escaped, a raw control character, raw bytes of UTF-8, `\u` for one to four bytes and for each half of a pair (alone, in order and swapped, since
any three units follow each other), `\u` with digits that are none, an unknown escape. Not among them are `\u` escapes that are cut short by the end of the literal.

Every property has a mutant of the code that breaks it (operators marked "Mutant").

Runs that find a violation, each a finding in `PROJECT.json`:

* `screen_past_table`: buttons 2 and 3 store the increased number first and wrap it
  with a second access. Nothing has to be wrong before: the last thing is selected, a press of button 2 stores the number
  behind it, an alert press interrupts, gives the semaphore and wakes displayThread, which has a higher priority and draws a thing past the
  last from memory beyond the table. The trace respects the priorities. The wrong screen is replaced when the button gives the semaphore.
* `screen_after_get`: the `get/accepted` branch stores a row but never gives
  `display_semaphore`, so the OLED keeps the old values of the selected thing.
* `press_dropped`: `alert_button_isr` ignores the result of `xQueueSendFromISR`. With a
  full queue the alert is toggled and shown, not published; it stays wrong in the
  shadow until the next command that carries it (30 s at most, if that is not lost).

Remarks without a run: the comments at `afe_shield_operation.c:171` and `:185` call button 1
"next" and button 2 "previous"; the code and `src/README.md` (Operation, step 4) say the opposite.
`cJSON_AddItemReferenceToObject` ignores the result of adding its reference: without memory for the key the reference
is lost (the exception in `Accounted`). The comment at `mqtt_operation.c:127`, "PUBLISH (and wait) for all messages", and the one at
`:428`, that `EXIT_SUCCESS` means published and received, do not say what `PublishMessage` does: it returns when the library has taken the message.

## 4. Fairness

Every thread is weakly fair in what it does between two waits: FreeRTOS runs the
ready thread of highest priority, and all of these threads wait or delay in every
round. Touches, keys, presses, documents and the loss of the session are not fair.
Strongly fair are the two waits for room in the queue (a FreeRTOS queue hands a
freed place to the waiting sender of highest priority, and each sender waits again only after
the consumer's next round). The timer reloads itself, so it expires again and again.

Of the session `AlertSettles` needs three things, stated for messages that carry an alert: the library does not refuse every one
(strong fairness of `PublishOk`: refusal is a shortage of memory that ends when earlier messages are
acknowledged or given up); the network does not lose every one (strong fairness of `BrokerAccepts`); and the library gives a
message up in the end, repeated `PUBLISH_RETRY_LIMIT` times or acknowledged (weak fairness of `Forget` for each alert,
without which an old value could return for ever). `PublishOk` is enabled only while the session
is up, and `AlertSettles` is checked without `disconnect`: a lost session is never
re-established by this code, so nothing can be promised then. `SendersReleased` needs no
session: a failed publish also empties the queue.

In `Shadow` the timer is behind the strong fairness of `WEATHER_CMD`: it executes whenever the library takes a message, again
and again. The library proceeds (strong fairness of `Library`, because it waits while the wire is at the bound `MaxWire`: a message is
transmitted or given up), the broker accepts some of the periodic messages (strong: a session that is up loses not every one), and
subscribing and a callback that has begun go on. Changes, gets, alert commands and other devices are not fair, and
no particular repetition ever need happen. `TablesHeal` therefore needs a session that is up; it is not claimed for a halted station.

In `I2cBus` every task is weakly fair: the running task proceeds, tasks of equal priority are time-sliced
and delays end. No fairness helps `RunApplication`, the task of lowest priority, against pollers whose delays
end at once, so nothing is claimed about the end of the boot.

## 5. Proofs

TLAPS proves, for every number of things, queue size, set of measures, values and
addresses, set of workers, documents, keys, and subset of threads and inputs that
satisfy the `ASSUME`s:

| Theorem | Property | Inductive invariant |
|---|---|---|
| `WeatherStationProofs!TypeCorrect` | `TypeOK` | itself, one lemma per group of actions |
| `WeatherStationProofs!SelectionInRange` | `DispThingInRange` | `SelectionInv`: between the two stores at most `2 * MAX_THING + 1` |
| `WeatherStationProofs!ReadingsOfThisStation` | `OwnReadingsKept` | `ReadingsInv`: copied measures equal the reading, uncopied ones `prev`; rests on `OthersOnly` |
| `WeatherStationProofs!PrefillAlwaysFits` | `PrefillNeverBlocks` | `StartInv`: during the prologue there is no other sender and the queue holds `next` + 1 commands |
| `WeatherStationProofs!LastKeyAlwaysServed` | `LastKeyServed` | `MailboxInv` |
| `WeatherStationProofs!AlertAlwaysReported` | `AlertReported` | itself, relative to `TypeOK`, `OthersOnly`, `StartInv`, `MailboxInv` |
| `I2cBusProofs!BusNeverCollides` | `NoCollision` | `BusInv`: the mutex belongs to the task in its critical section, blocked tasks wait for a holder or for a woken one, nobody holds it while the screen is cleared |
| `I2cBusProofs!BusIsAtomic` | `ReadsAreAtomic` | `BusInv`; step simulation |
| `WeatherStationProofs!ConsoleIsMailbox` | `ImplementsMailbox` | `TypeOK`; every console step is `Type`, `Serve` or a stutter |
| `CJsonTreeProofs!LinkedAlways` | `Linked` | itself: `WellFormed` of heap and roots, one lemma per function |
| `CJsonTreeProofs!AccountedAlways` | `Accounted` | `Kept`: `WellFormed`, `Grounded` (no set of items feeds only itself), `Claimed` (what has no predecessor is the program's or a reference), `Counted` |
| `CJsonTreeProofs!StringsOwnedAlways` | `StringsOwned` | `Kept`; its part `Counted` is the equation for the heap of any call |
| `CJsonTreeProofs!CallsMakeForest` | `ImplementsForest` | `Kept`; every call is one of `Moves`, the steps of the forest between two heaps |
| `CJsonDocumentProofs!TreesWellFormedAlways` | `TreesWellFormed` | `Kept` of this module: the heap is `Whole` for the trees held, which differ; without a call there are none |
| `CJsonDocumentProofs!NoStringLostAlways` | `NoStringLost` | the same |
| `CJsonPrintProofs!PrintAlwaysFits` | `PrintFits` | itself, relative to `Kept` |
| `ShadowProofs!FaultsAlwaysExplained` | `FaultsExplained` | `FaultInv`: a thing whose shadow was whole keeps it whole, and so are its documents on the wire and in the workers; every reason to halt but lack of memory names its thing |
| `ShadowProofs!TablesAgree` | `QuietTablesAgree` | `AgreeInv` |
| `WeatherStationProofs!ScreenAlwaysFresh` | `ScreenFresh` | `ScreenInv`: as long as nothing is owed, what was formatted so far agrees with the table; relative to all of the above |

`OthersOnly` (jobs of the callback are never about `MY_THING`) is what separates the
writers of the own row from the callback. `ScreenInv` is needed because `ScreenFresh`
says nothing while the display is formatting. Its step lemmas (`...Undisturbed`) all have one
form: a step that ends with nothing owed did not touch the selected row. The
interesting case is `WeatherCopy`: a copy that changes the own row makes it differ
from `prev`, because the measure not yet copied equalled `prev` (`ReadingsInv`).

The two uses of priorities in `I2cBusProofs` are `QuietBoot` (when `RunApplication` runs to create displayThread,
every poller is in its delay, so the mutex is free) and `PollersPreempted` (while the screen is cleared no poller
runs, so none takes it).

`CJsonListProofs` is about any number of items. `Freed` and `Members` are smallest sets closed under pointers, so their
lemmas are of two kinds: the set is closed (`FreedCloses`), and it lies in any closed set
(`FreedSmallest`); what a call changed is shown to lie outside the closure of the other lists. That `ListsEnd` is kept
is the hardest conjunct: a list of a well-formed heap has an end, the item taken out or put in
moves it by one, and a list that is deleted is deleted whole.

`Accounted` is not inductive: a ring of items whose parents are each other's members has no root and nobody would
miss it. `CJsonOwnerProofs` therefore follows predecessors: an item has at most one, the item before it in the list or the
parent whose child it is (`PredIsUnique`), and `Grounded` forbids a set in which every item has its predecessor. From these and `Claimed`
follow both halves of `Accounted`: trees of different roots are apart (`TreesApart`) and cover what is live (`TreesCover`). Every
call is made of links and unlinks, and each of these is a `Splice`: one item gets or loses its predecessor, another may
be handed from one predecessor to the next. A link keeps `Grounded` because the place is not in the tree that is put there
(`GroundedIn`), an unlink keeps it always (`GroundedOut`). `Claimed` admits references because
`cJSON_AddItemReferenceToObject` loses the one it made when its key cannot be copied. `Counted` needs that the two kinds of
strings are counted over what a deletion visits, which is live (`FreedIsLive`) and freed once.

`CJsonTreeProofs` also reads the sequences of `JsonForest` off the pointers. `IsList` says that a sequence is the list that starts at an
item; `ListOfIsList` that the walk of `ListOf` returns it, whatever its length. This is an induction on the length, done
with a set of numbers that has a least element (`UpTo`) because no induction theorem with an operator as its parameter can be used;
for the same reason `ListOf` is a recursive function. A list has no more members than there are items
(`ListIsShort`), so the walk is long enough. `ListInserted`, `ListRemoved` and `ListExchanged` say what a change of the pointers does to
one sequence, `OthersKeep` that the others stay, and `FreedIsBelow` that what `cJSON_Delete` visits is the forest's `Below`.
An item that is deleted from a list has the same items below it before and after it is taken out, since its parent is not
among them (`ParentNotBelow`, from `Grounded`; `BelowUnchanged`); for a replacement, whose heap between relinking and deleting is neither, the tree
is compared with the one of the item taken out. What the forest demands of a link is what `HeldApart` says of the items the program
holds (the item is no one's member) and the program's own rule `Loose` (its new parent is not below it).

The parser is harder than a sequence of calls, because it does not work on well-formed lists: while the members of an item are
parsed, their list hangs on a local pointer and the item has no child. `CJsonDocumentProofs` therefore looks at the heap with the lists of
all open items attached to them (`Shown`) and requires of every point of the parser that this heap is `Whole`: well-linked, with
every item and string accounted for, without references (`Stage`). What a loop does is a contract (`LoopWorks`): begun at such a point with a list
that ends at its current item, it comes back to such a point with the same lists open, whether it met the end, an error or an allocation that
failed. The body keeps the contract if the loop with one round less does, so that the loop does for every number of rounds,
which is again the induction of `UpTo`; that the recursive function exists is shown first, by constructing it. A duplicate is
made in the same way (`DuplicatesWork`): the items that existed keep their pointers (`Unmoved`), the new ones are one tree of the program
or are gone (`CopyMade`). `Filling` is the loop of `cJSON_CreateIntArray` and its siblings. From these each action keeps `Kept`.

`PrintFits` compares two calls, one into a buffer that may be too small and one into a larger one, so each function that prints has a contract for
both. `Prints(p, r)`: if `p` is `Safe` (the offset is where the text ends, everything up to it and the terminator was reserved, one buffer is counted
unless it was freed), so is `r`, and a buffer of the caller keeps its size. And if `r` went well in a buffer of the caller, a
buffer that holds what was printed and five characters more (`Roomy`) leads to the same result but for its size (`Larger`). That is generous:
no function may reserve more than five characters beyond what it writes (`Enough`), and those of the code reserve hardly more than the terminator. Each
stage reserves, writes and passes over (`BlockPrints`, `BlockLarger`, `PassedPrints`), and what fits at the end fitted at
every stage before (`RoomyBefore`). `PrintsMembers` is the contract of a loop, kept with one round more by `RoundsPrint`. The characters
of a text are a sum over its lexemes (`WidthsAdd`).

`AgreeInv` in `ShadowProofs` says why the table follows the broker. The last document on the wire about a thing
is its shadow (`LastIsShadow`); a job that started alone and met no other since is the only one on its row, so that what
it stored is still there, and it stores the shadow if nothing newer is on the wire (`AloneStores`); and a
row whose last callback ran alone is the shadow once nothing is pending (`SettledAgree`). The wire of a listener is in order, so a
message that the broker accepts late changes shadow and wire together: only overlapping callbacks can come between them.
Before the proof every step is reduced to one of four (`Steps`): nothing a listener sees, a document for all, a subscription, a
callback.

Assumptions: `PriorityAssumption` (RunApplication below the pollers, these below the display: 0, 2, 3 in the
code), `TaskAssumption` (the tasks are different), `ThingsAssumption` (this station is in the table), `QueueAssumption` (the queue
holds the prologue: 50 >= 41 in the code), `ButtonAssumption` (`MAX_THING` + step
fits `uint8_t`, step at most one table: 39 + 10 < 256, 10 <= 40), `HeapAssumption` and `TreeAssumption`
(addresses are finitely many and none is NULL), `TextAssumption` (no lexeme is the terminator), `PrintAssumption` (strings and
numbers have a length, and are told from brackets and literals), `ShadowAssumption` (the stations are in the table, foreign devices are not), `InitialAssumption` (shadows map fields to values), and the types of what the
environment sends. TLC evaluates them in every run.

Only model-checked:

* the liveness properties `SelectionShown`, `AlertSettles`, `SendersReleased`, `ScreenDrawn` and `TablesHeal`: the prover handles
  neither ENABLED nor fairness;
* `ParsesJson`, `CopiesEqual`, `ComparesContents` and `PrintsText`: values, their texts and their equality are defined by recursion
  over the values, and what such a definition yields for every value needs induction over data;
* `LiteralsDecode` and `EscapesParse`: the bytes of literals of every length, for the same reason.

## 6. State of the plan

Done: the station and its proofs; the bus and its refinement; several stations and the broker; the mailbox; cJSON's trees, texts and
strings, and the proofs that lists stay linked, that no item or string is lost or freed twice, by single calls as by the parser and the
duplicator, that the pointers implement a forest, that printing stays within its buffer, and that tables agree with the broker.
Every safety property that does not speak of the meaning of a text is proved.

Worth doing next: a monitor "dirty flag, then redraw" that the display protocol implements; the lengths of the messages against
`MAX_JSON_MESSAGE_LENGTH`; transfers on the bus that fail.

## 7. Not modelled, and why

* What a station does after undefined behaviour: `Shadow` shows when it comes to that and says nothing of the station afterwards.
* Devices whose name only scans as a station's number (`Thing_1` is read as thing 1): the callback takes their
  documents for those of the station.
* The payload's missing terminator (`mqtt_operation.c:162`): the parser reads on behind the document. `ParsesJson` covers what follows
  the document within the text; where the memory ends is not modelled.
* The text of the messages. A `WEATHER_CMD` message has 80 characters besides its four values, so values of more than 19 characters
  together do not fit the buffer, while `snprintf` returns the full length; whether readings of that length occur
  depends on the sensors.
* One message may mix two readings, since publishThread reads the fields one by one while the weather thread stores them. `MqttOperation`
  has these interleavings; nothing promises consistent messages.
* Failing I2C transfers, whose status nobody looks at. A failed read only repeats an old value; after a failed write of the offset
  the next read returns the register of the other thread.
* In `cJSON.c`: the digits of numbers (a number is printed and read back as one lexeme; the conversion belongs to
  the C library), the saturation of `valueint`, `cJSON_Minify`, `cJSON_InitHooks`, which nothing calls, and with it the branch of
  `ensure` without `realloc` (`cJSON.c:446-463`, which copies `offset + 1` bytes of a buffer that may be empty), `cJSON_GetErrorPtr` and the
  `cJSON_Is...` functions, which read one field. `CJsonTree` makes at most one reference at a time in its run.
  No run creates a Raw item: `print_value`'s case for it is covered by the proof of `PrintFits` only.
* A station that restarts: nothing is persisted, so that a restarted station is a new one.
* The unsubscribe branch of `ModifySubscriptions` and `InitializeMqtt`'s failure: nothing
  calls the first, and the second only makes every later call fail, as an unsuccessful connect does.
* Text formatting and printing on the console.
* `main.c`, emWin, SDK configuration: no state of the application. `GUI_X_FreeRTOS.c` only gives
  emWin its lock; one thread draws.
