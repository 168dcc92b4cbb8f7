------------------------------- MODULE I2cBus -------------------------------
(***************************************************************************)
(* The I2C bus shared by the sensor chip and the OLED, and the boot that   *)
(* brings its users up: afe_shield_operation.c, the driver of emWin        *)
(* (i2c_portapi.c, LCDConf.c) and the thread creation of RunApplication.   *)
(*                                                                         *)
(* A transfer takes time: it begins in one step and ends in a later one.   *)
(* Two of the three users hold i2c_mutex for every transfer; RunApplication*)
(* (GUI_Init) and the first drawing of displayThread (GUI_Clear) do not,   *)
(* and rely on priorities. So the scheduler is modelled: a step of a task  *)
(* is taken only while no ready task has a higher priority; i2c_mutex      *)
(* inherits priorities; tasks of equal priority share the processor. Tasks *)
(* that do not use the bus are left out: they only take time.              *)
(*                                                                         *)
(* An operator marked "Mutant" is a faulty variant of the one after it:    *)
(* it only serves to test that a property can fail.                        *)
(***************************************************************************)
EXTENDS Naturals

CONSTANTS
  Pollers,   \* getCapSenseThread and getWeatherDataThread
  Display,   \* displayThread
  Main,      \* the task that runs RunApplication
  Nobody,    \* the holder of a free mutex
  Priority,  \* priority of every task
  Data       \* contents of a register of the sensor chip

Tasks == Pollers \cup {Display, Main}

ASSUME TaskAssumption ==
  /\ Display \notin Pollers /\ Main \notin Pollers /\ Display # Main
  /\ Nobody \notin Tasks
\* weather_station.c:36-40 and :104: 0 for RunApplication, 2 for the pollers and 3
\* for the display.
ASSUME PriorityAssumption ==
  /\ Priority \in [Tasks -> Nat]
  /\ \A p \in Pollers :
       Priority[Main] < Priority[p] /\ Priority[p] < Priority[Display]

VARIABLES
  pc,                 \* where each task is
  i2c_mutex,          \* the task that holds it
  blocked,            \* tasks blocked in xSemaphoreTake(i2c_mutex)
  display_semaphore,  \* binary semaphore: TRUE when given
  bus,                \* tasks with a transfer under way
  collision,          \* two transfers overlapped: the driver is in no known state
  offset,             \* whose register the sensor chip returns next
  register,           \* the registers of the sensor chip
  value,              \* what each poller read last
  oled                \* what the OLED shows

taskVars == <<i2c_mutex, blocked, display_semaphore>>
wireVars == <<bus, collision>>
chipVars == <<offset, register, value, oled>>
vars == <<pc, taskVars, wireVars, chipVars>>

Pictures == {"noise", "blank", "picture"}
PollerStates == {"absent", "take", "set_offset", "setting", "get_data", "getting",
                 "give", "process", "delay"}
DisplayStates == {"absent", "clear", "clearing", "wait", "format", "take", "draw",
                  "drawing", "give"}
MainStates == {"gui_init", "initialising", "create", "rest"}

TypeOK ==
  /\ pc \in [Tasks -> PollerStates \cup DisplayStates \cup MainStates]
  /\ \A p \in Pollers : pc[p] \in PollerStates
  /\ pc[Display] \in DisplayStates /\ pc[Main] \in MainStates
  /\ i2c_mutex \in Tasks \cup {Nobody}
  /\ blocked \in SUBSET Tasks
  /\ display_semaphore \in BOOLEAN
  /\ bus \in SUBSET Tasks
  /\ collision \in BOOLEAN
  /\ offset \in Pollers
  /\ register \in [Pollers -> Data]
  /\ value \in [Pollers -> Data]
  /\ oled \in Pictures

\* The locals of the pollers are not initialised.
Init ==
  /\ pc = [t \in Tasks |-> IF t = Main THEN "gui_init" ELSE "absent"]
  /\ i2c_mutex = Nobody /\ blocked = {} /\ display_semaphore = FALSE
  /\ bus = {} /\ collision = FALSE
  /\ offset \in Pollers
  /\ register \in [Pollers -> Data]
  /\ value \in [Pollers -> Data]
  /\ oled = "noise"

----------------------------------------------------------------------------
(* The scheduler. The last part of RunApplication leaves the bus alone.    *)

Ready(t) ==
  /\ pc[t] \notin {"absent", "delay", "rest"} /\ t \notin blocked
  /\ ~(pc[t] = "wait" /\ ~display_semaphore)

\* The holder of the mutex runs at the highest priority of those it blocks.
Priorities(t) ==
  {Priority[t]} \cup (IF t = i2c_mutex THEN {Priority[u] : u \in blocked} ELSE {})

Runs(t) ==
  /\ Ready(t)
  /\ \A u \in Tasks :
       Ready(u) => \E a \in Priorities(t) : \A b \in Priorities(u) : b <= a

----------------------------------------------------------------------------
(* Transfers and the mutex *)

Goto(t, from, to) == pc[t] = from /\ pc' = [pc EXCEPT ![t] = to]

Begin(t, from, to) ==
  /\ Runs(t) /\ Goto(t, from, to)
  /\ bus' = bus \cup {t}
  /\ collision' = (collision \/ bus # {})
  /\ UNCHANGED <<taskVars, chipVars>>

End(t, from, to) ==
  /\ Runs(t) /\ Goto(t, from, to)
  /\ bus' = bus \ {t}
  /\ UNCHANGED <<taskVars, collision>>

TakeMutex(t, to) ==
  /\ Runs(t) /\ pc[t] = "take"
  /\ IF i2c_mutex = Nobody
       THEN i2c_mutex' = t /\ pc' = [pc EXCEPT ![t] = to] /\ UNCHANGED blocked
       ELSE blocked' = blocked \cup {t} /\ UNCHANGED <<pc, i2c_mutex>>
  /\ UNCHANGED <<display_semaphore, wireVars, chipVars>>

\* Giving the mutex makes one of the most urgent waiters ready; it tries again.
Woken ==
  IF blocked = {} THEN {{}}
  ELSE {blocked \ {t} : t \in {u \in blocked :
                                 \A o \in blocked : Priority[o] <= Priority[u]}}

GiveMutex(t, to) ==
  /\ Runs(t) /\ Goto(t, "give", to)
  /\ i2c_mutex' = Nobody
  /\ blocked' \in Woken
  /\ UNCHANGED <<display_semaphore, wireVars, chipVars>>

----------------------------------------------------------------------------
(* RunApplication: GUI_Init sets up the bus and the controller of the OLED,*)
(* then the threads are created, displayThread last.                       *)

MainInitBegin == Begin(Main, "gui_init", "initialising")
MainInitEnd == End(Main, "initialising", "create") /\ UNCHANGED chipVars

MainCreatePoller(p) ==
  /\ Runs(Main) /\ pc[Main] = "create" /\ pc[p] = "absent"
  /\ pc' = [pc EXCEPT ![p] = "take"]
  /\ UNCHANGED <<taskVars, wireVars, chipVars>>

MainCreateDisplay ==
  /\ Runs(Main) /\ pc[Main] = "create"
  /\ \A p \in Pollers : pc[p] # "absent"
  /\ pc' = [pc EXCEPT ![Main] = "rest", ![Display] = "clear"]
  /\ UNCHANGED <<taskVars, wireVars, chipVars>>

----------------------------------------------------------------------------
(* getCapSenseThread and getWeatherDataThread *)

\* Mutant: the register is not chosen before every read.
PollerTakeNoOffset(p) == TakeMutex(p, "get_data")

PollerTake(p) == TakeMutex(p, "set_offset")
SetOffsetBegin(p) == Begin(p, "set_offset", "setting")
SetOffsetEnd(p) ==
  /\ End(p, "setting", "get_data")
  /\ IF collision THEN offset' \in Pollers ELSE offset' = p
  /\ UNCHANGED <<register, value, oled>>

GetDataBegin(p) == Begin(p, "get_data", "getting")
GetDataEnd(p) ==
  /\ End(p, "getting", "give")
  /\ \E d \in IF collision THEN Data ELSE {register[offset]} :
       value' = [value EXCEPT ![p] = d]
  /\ UNCHANGED <<offset, register, oled>>

\* Mutant: the mutex is kept.
PollerKeeps(p) ==
  /\ Runs(p) /\ Goto(p, "give", "process")
  /\ UNCHANGED <<taskVars, wireVars, chipVars>>

PollerGive(p) == GiveMutex(p, "process")

\* What is read may be news for the display (AfeShield has the details).
PollerProcess(p) ==
  /\ Runs(p) /\ Goto(p, "process", "delay")
  /\ display_semaphore' \in {display_semaphore, TRUE}
  /\ UNCHANGED <<i2c_mutex, blocked, wireVars, chipVars>>

\* The tick interrupt ends vTaskDelay, whoever runs.
PollerDelayOver(p) ==
  /\ Goto(p, "delay", "take")
  /\ UNCHANGED <<taskVars, wireVars, chipVars>>

PollerStep(p) ==
  \/ PollerTake(p) \/ SetOffsetBegin(p) \/ SetOffsetEnd(p)
  \/ GetDataBegin(p) \/ GetDataEnd(p) \/ PollerGive(p) \/ PollerProcess(p)

----------------------------------------------------------------------------
(* displayThread *)

DisplayClearBegin == Begin(Display, "clear", "clearing")
DisplayClearEnd ==
  /\ End(Display, "clearing", "wait")
  /\ IF collision THEN oled' \in Pictures ELSE oled' = "blank"
  /\ UNCHANGED <<offset, register, value>>

DisplayWait ==
  /\ Runs(Display) /\ Goto(Display, "wait", "format")
  /\ display_semaphore' = FALSE
  /\ UNCHANGED <<i2c_mutex, blocked, wireVars, chipVars>>

\* Mutant: the drawing is not protected either.
DisplayFormatAndDraw ==
  /\ Runs(Display) /\ Goto(Display, "format", "draw")
  /\ UNCHANGED <<taskVars, wireVars, chipVars>>

DisplayFormat ==
  /\ Runs(Display) /\ Goto(Display, "format", "take")
  /\ UNCHANGED <<taskVars, wireVars, chipVars>>

DisplayTake == TakeMutex(Display, "draw")
DisplayDrawBegin == Begin(Display, "draw", "drawing")
DisplayDrawEnd ==
  /\ End(Display, "drawing", "give")
  /\ IF collision THEN oled' \in Pictures ELSE oled' = "picture"
  /\ UNCHANGED <<offset, register, value>>
DisplayGive == GiveMutex(Display, "wait")

DisplayStep ==
  \/ DisplayClearBegin \/ DisplayClearEnd \/ DisplayWait \/ DisplayFormat
  \/ DisplayTake \/ DisplayDrawBegin \/ DisplayDrawEnd \/ DisplayGive

----------------------------------------------------------------------------
(* Interrupts, callbacks and the console give the semaphore at any time    *)
(* once displayThread exists; the sensors change at any time.              *)

DisplayNews ==
  /\ pc[Main] = "rest"
  /\ display_semaphore' = TRUE
  /\ UNCHANGED <<pc, i2c_mutex, blocked, wireVars, chipVars>>

SensorChanges(p) ==
  /\ \E d \in Data : register' = [register EXCEPT ![p] = d]
  /\ UNCHANGED <<pc, taskVars, wireVars, offset, value, oled>>

MainStep ==
  \/ MainInitBegin \/ MainInitEnd \/ MainCreateDisplay
  \/ \E p \in Pollers : MainCreatePoller(p)

Next ==
  \/ MainStep \/ DisplayStep \/ DisplayNews
  \/ \E p \in Pollers : PollerStep(p) \/ PollerDelayOver(p) \/ SensorChanges(p)

(* The running task proceeds, and tasks of equal priority take turns; a    *)
(* delay ends. Sensors need not change and news need not come.             *)
Fairness ==
  /\ WF_vars(MainStep)
  /\ WF_vars(DisplayStep)
  /\ \A p \in Pollers : WF_vars(PollerStep(p)) /\ WF_vars(PollerDelayOver(p))

Spec == Init /\ [][Next]_vars
FairSpec == Spec /\ Fairness

----------------------------------------------------------------------------
\* No two transfers overlap, the unprotected ones of GUI_Init and GUI_Clear
\* included, whatever the tick interrupts preempt.
NoCollision == ~collision /\ \A t, u \in bus : t = u

\* The threads see what AfeShield assumes: a read between taking and giving
\* i2c_mutex is as good as one atomic read of the thread's own register,
\* although all threads share the offset pointer of the sensor chip.
Atomic == INSTANCE AtomicBus WITH
  Pollers <- Pollers, Data <- Data, register <- register, value <- value, oled <- oled
ReadsAreAtomic == Atomic!Spec

\* A screen that is to be drawn is drawn: displayThread gets the mutex from
\* whichever poller holds it, before the other poller takes it again.
ScreenDrawn == pc[Display] = "format" ~> pc[Display] = "wait"
============================================================================
