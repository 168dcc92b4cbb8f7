---------------------------- MODULE I2cBusProofs ----------------------------
(***************************************************************************)
(* Proofs about I2cBus, for any number of pollers and any priorities in    *)
(* the order PriorityAssumption demands: transfers never overlap, and the  *)
(* threads see the atomic transfers of AtomicBus.                          *)
(***************************************************************************)
EXTENDS I2cBus, TLAPS

Transferring == {"initialising", "setting", "getting", "clearing", "drawing"}
Holding == {"set_offset", "setting", "get_data", "getting", "draw", "drawing", "give"}
Clearing == {"clear", "clearing"}

\* A task is in the bus exactly during its transfers, and holds the mutex in
\* its critical section and nowhere else.
OwnersMatch ==
  /\ bus = {t \in Tasks : pc[t] \in Transferring}
  /\ \A t \in Tasks : i2c_mutex = t <=> pc[t] \in Holding

\* Blocked tasks wait for a holder, or for a waiter that was woken first.
WaitersMatch ==
  /\ \A t \in blocked : pc[t] = "take"
  /\ blocked # {} =>
       i2c_mutex # Nobody \/ \E t \in Tasks \ blocked : pc[t] = "take"

\* The two transfers made without the mutex: nobody else exists, or nobody
\* holds it and nobody of lower priority can get it.
BootAlone ==
  /\ pc[Main] \in {"gui_init", "initialising"} =>
       \A t \in Tasks : t # Main => pc[t] = "absent"
  /\ pc[Display] = "absent" <=> pc[Main] # "rest"
  /\ pc[Display] \in Clearing => i2c_mutex = Nobody

\* The sensor chip returns the register of the poller about to read.
OffsetKept ==
  \A p \in Pollers : pc[p] \in {"get_data", "getting"} => offset = p

ScreenOrder == oled = "noise" <=> pc[Display] \in {"absent"} \cup Clearing

BusInv ==
  /\ TypeOK /\ ~collision
  /\ OwnersMatch /\ WaitersMatch /\ BootAlone /\ OffsetKept /\ ScreenOrder

----------------------------------------------------------------------------
(* Scheduling *)

\* A task that holds no mutex runs only when no ready task has a higher
\* priority.
LEMMA RunsOnTop ==
  ASSUME NEW t \in Tasks, NEW u \in Tasks, Runs(t), Ready(u), i2c_mutex # t, TypeOK
  PROVE  Priority[u] <= Priority[t]
<1>1. Priorities(t) = {Priority[t]} /\ Priority[u] \in Priorities(u)
  BY DEF Priorities
<1> QED  BY <1>1 DEF Runs

\* When RunApplication creates displayThread every poller is in its delay.
LEMMA QuietBoot ==
  ASSUME BusInv, Runs(Main), pc[Main] = "create"
  PROVE  /\ i2c_mutex = Nobody
         /\ \A p \in Pollers : pc[p] \in {"absent", "delay"}
<1>1. i2c_mutex # Main
  BY DEF BusInv, OwnersMatch, Tasks, Holding
<1>2. ASSUME NEW p \in Pollers  PROVE ~Ready(p)
  BY <1>1, RunsOnTop, PriorityAssumption DEF BusInv, Tasks
<1>3. pc[Display] = "absent"
  BY DEF BusInv, BootAlone
<1>4. ASSUME NEW p \in Pollers, pc[p] \in Holding  PROVE FALSE
  BY <1>2, <1>4 DEF Ready, BusInv, Holding, WaitersMatch
<1>5. i2c_mutex = Nobody
  BY <1>1, <1>3, <1>4 DEF BusInv, TypeOK, OwnersMatch, Tasks, Holding
<1>6. blocked = {}
  BY <1>2, <1>3, <1>5, TaskAssumption DEF BusInv, WaitersMatch, Tasks, TypeOK, Ready
<1> QED
  BY <1>2, <1>4, <1>5, <1>6 DEF BusInv, TypeOK, PollerStates, Ready, Holding

\* While the screen is cleared no poller runs.
LEMMA PollersPreempted ==
  ASSUME BusInv, pc[Display] \in Clearing, NEW p \in Pollers
  PROVE  ~Runs(p)
<1>1. Ready(Display)
  BY DEF BusInv, WaitersMatch, Ready, Clearing
<1>2. i2c_mutex # p
  BY TaskAssumption DEF BusInv, BootAlone, Tasks
<1> QED
  BY <1>1, <1>2, RunsOnTop, PriorityAssumption DEF BusInv, Tasks, TypeOK

\* Nobody else has a transfer under way when one begins.
LEMMA BusFree ==
  ASSUME BusInv, NEW t \in Tasks, pc[t] \in {"gui_init", "clear"} \cup Holding,
         pc[t] \notin Transferring
  PROVE  bus = {}
<1>1. ASSUME NEW u \in Tasks, pc[u] \in Transferring  PROVE FALSE
  <2>1. CASE pc[t] = "gui_init"
    BY <1>1, <2>1, TaskAssumption
       DEF BusInv, BootAlone, Transferring, Tasks, TypeOK, PollerStates, DisplayStates
  <2>2. CASE pc[t] = "clear"
    BY <1>1, <2>2, TaskAssumption
       DEF BusInv, BootAlone, OwnersMatch, Transferring, Holding, Clearing, Tasks, TypeOK,
           PollerStates, DisplayStates, MainStates
  <2>3. CASE pc[t] \in Holding
    BY <1>1, <2>3, TaskAssumption
       DEF BusInv, BootAlone, OwnersMatch, Transferring, Holding, Clearing, Tasks, TypeOK,
           PollerStates, DisplayStates, MainStates
  <2> QED  BY <2>1, <2>2, <2>3
<1> QED  BY <1>1 DEF BusInv, OwnersMatch

----------------------------------------------------------------------------
(* Every step keeps BusInv *)

LEMMA BusInit == Init => BusInv
BY TaskAssumption
   DEF Init, BusInv, TypeOK, OwnersMatch, WaitersMatch, BootAlone, OffsetKept, ScreenOrder,
       Tasks, PollerStates, DisplayStates, MainStates, Pictures, Transferring, Holding,
       Clearing

LEMMA BusMain == ASSUME BusInv, MainStep  PROVE BusInv'
<1> USE TaskAssumption
    DEF BusInv, TypeOK, OwnersMatch, WaitersMatch, BootAlone, OffsetKept, ScreenOrder,
        Tasks, PollerStates, DisplayStates, MainStates, Pictures, Transferring, Holding,
        Clearing, taskVars, wireVars, chipVars, Goto
<1>1. CASE MainInitBegin
  <2>1. bus = {}
    BY <1>1, BusFree DEF MainInitBegin, Begin
  <2> QED  BY <1>1, <2>1 DEF MainInitBegin, Begin
<1>2. CASE MainInitEnd
  BY <1>2 DEF MainInitEnd, End
<1>3. ASSUME NEW p \in Pollers, MainCreatePoller(p)  PROVE BusInv'
  BY <1>3 DEF MainCreatePoller
<1>4. CASE MainCreateDisplay
  <2>1. i2c_mutex = Nobody
    BY <1>4, QuietBoot DEF MainCreateDisplay
  <2> QED  BY <1>4, <2>1 DEF MainCreateDisplay
<1> QED  BY <1>1, <1>2, <1>3, <1>4 DEF MainStep

\* Woken takes at most one task out of blocked.
LEMMA WokenOne ==
  ASSUME TypeOK, NEW b \in Woken
  PROVE  /\ b \subseteq blocked
         /\ b = blocked => blocked = {}
BY DEF Woken

\* Taking the mutex: who gets it leaves "take" while it is free, who does not
\* is blocked behind its holder.
LEMMA TakeWaiters ==
  ASSUME BusInv, NEW t \in Tasks, NEW to \in Holding, TakeMutex(t, to)
  PROVE  WaitersMatch'
<1>1. CASE i2c_mutex = Nobody
  <2>1. i2c_mutex' # Nobody
    BY <1>1, TaskAssumption DEF TakeMutex
  <2>2. t \notin blocked /\ blocked' = blocked
    BY <1>1 DEF TakeMutex, Runs, Ready
  <2> QED
    BY <1>1, <2>1, <2>2 DEF TakeMutex, BusInv, WaitersMatch, TypeOK
<1>2. CASE i2c_mutex # Nobody
  BY <1>2 DEF TakeMutex, BusInv, WaitersMatch
<1> QED  BY <1>1, <1>2

\* Giving it leaves a woken task at "take" if any was blocked.
LEMMA GiveWaiters ==
  ASSUME BusInv, NEW t \in Tasks, NEW to, GiveMutex(t, to)
  PROVE  WaitersMatch'
<1>1. blocked' \subseteq blocked /\ (blocked' = blocked => blocked = {})
  BY WokenOne DEF BusInv, GiveMutex
<1>2. ASSUME NEW u \in blocked  PROVE u # t /\ pc'[u] = "take" /\ u \in Tasks
  BY <1>2 DEF GiveMutex, Goto, BusInv, WaitersMatch, TypeOK
<1>3. CASE blocked' = {}
  BY <1>3 DEF WaitersMatch
<1>4. CASE blocked' # {}
  <2>1. PICK u \in blocked : u \notin blocked'
    BY <1>1, <1>4
  <2> QED  BY <1>1, <1>2, <2>1 DEF WaitersMatch
<1> QED  BY <1>3, <1>4

LEMMA BusPoller == ASSUME BusInv, NEW p \in Pollers, PollerStep(p)  PROVE BusInv'
<1> USE TaskAssumption
    DEF BusInv, TypeOK, OwnersMatch, WaitersMatch, BootAlone, OffsetKept, ScreenOrder,
        Tasks, PollerStates, DisplayStates, MainStates, Pictures, Transferring, Holding,
        Clearing, taskVars, wireVars, chipVars, Goto
<1>1. CASE PollerTake(p)
  <2>1. pc[Display] \notin Clearing
    BY <1>1, PollersPreempted DEF PollerTake, TakeMutex
  <2>2. WaitersMatch'
    BY <1>1, TakeWaiters DEF PollerTake
  <2> QED  BY <1>1, <2>1, <2>2 DEF PollerTake, TakeMutex
<1>2. CASE SetOffsetBegin(p)
  <2>1. bus = {}
    BY <1>2, BusFree DEF SetOffsetBegin, Begin
  <2> QED  BY <1>2, <2>1 DEF SetOffsetBegin, Begin
<1>3. CASE SetOffsetEnd(p)
  BY <1>3 DEF SetOffsetEnd, End
<1>4. CASE GetDataBegin(p)
  <2>1. bus = {}
    BY <1>4, BusFree DEF GetDataBegin, Begin
  <2> QED  BY <1>4, <2>1 DEF GetDataBegin, Begin
<1>5. CASE GetDataEnd(p)
  BY <1>5 DEF GetDataEnd, End
<1>6. CASE PollerGive(p)
  <2>1. WaitersMatch' /\ blocked' \subseteq blocked
    BY <1>6, GiveWaiters, WokenOne DEF PollerGive, GiveMutex
  <2> QED  BY <1>6, <2>1 DEF PollerGive, GiveMutex
<1>7. CASE PollerProcess(p)
  BY <1>7, ZenonT(60) DEF PollerProcess
<1> QED  BY <1>1, <1>2, <1>3, <1>4, <1>5, <1>6, <1>7 DEF PollerStep

LEMMA BusDisplay == ASSUME BusInv, DisplayStep  PROVE BusInv'
<1> USE TaskAssumption
    DEF BusInv, TypeOK, OwnersMatch, WaitersMatch, BootAlone, OffsetKept, ScreenOrder,
        Tasks, PollerStates, DisplayStates, MainStates, Pictures, Transferring, Holding,
        Clearing, taskVars, wireVars, chipVars, Goto
<1>1. CASE DisplayClearBegin
  <2>1. bus = {}
    BY <1>1, BusFree DEF DisplayClearBegin, Begin
  <2> QED  BY <1>1, <2>1 DEF DisplayClearBegin, Begin
<1>2. CASE DisplayClearEnd
  BY <1>2 DEF DisplayClearEnd, End
<1>3. CASE DisplayWait
  BY <1>3 DEF DisplayWait
<1>4. CASE DisplayFormat
  BY <1>4 DEF DisplayFormat
<1>5. CASE DisplayTake
  <2>1. WaitersMatch'
    BY <1>5, TakeWaiters DEF DisplayTake
  <2> QED  BY <1>5, <2>1 DEF DisplayTake, TakeMutex
<1>6. CASE DisplayDrawBegin
  <2>1. bus = {}
    BY <1>6, BusFree DEF DisplayDrawBegin, Begin
  <2> QED  BY <1>6, <2>1 DEF DisplayDrawBegin, Begin
<1>7. CASE DisplayDrawEnd
  BY <1>7 DEF DisplayDrawEnd, End
<1>8. CASE DisplayGive
  <2>1. WaitersMatch' /\ blocked' \subseteq blocked
    BY <1>8, GiveWaiters, WokenOne DEF DisplayGive, GiveMutex
  <2> QED  BY <1>8, <2>1 DEF DisplayGive, GiveMutex
<1> QED  BY <1>1, <1>2, <1>3, <1>4, <1>5, <1>6, <1>7, <1>8 DEF DisplayStep

LEMMA BusOthers ==
  ASSUME BusInv,
         \/ DisplayNews
         \/ \E p \in Pollers : PollerDelayOver(p) \/ SensorChanges(p)
  PROVE  BusInv'
<1> USE TaskAssumption
    DEF BusInv, TypeOK, OwnersMatch, WaitersMatch, BootAlone, OffsetKept, ScreenOrder,
        Tasks, PollerStates, DisplayStates, MainStates, Pictures, Transferring, Holding,
        Clearing, taskVars, wireVars, chipVars, Goto
<1>1. CASE DisplayNews
  BY <1>1 DEF DisplayNews
<1>2. ASSUME NEW p \in Pollers, PollerDelayOver(p)  PROVE BusInv'
  BY <1>2 DEF PollerDelayOver
<1>3. ASSUME NEW p \in Pollers, SensorChanges(p)  PROVE BusInv'
  BY <1>3 DEF SensorChanges
<1> QED  BY <1>1, <1>2, <1>3

\* The inductive invariant holds always.
LEMMA BusAlways == Spec => []BusInv
<1>1. BusInv /\ [Next]_vars => BusInv'
  <2> SUFFICES ASSUME BusInv, [Next]_vars  PROVE BusInv'
    OBVIOUS
  <2>1. CASE UNCHANGED vars
    BY <2>1
       DEF vars, taskVars, wireVars, chipVars, BusInv, TypeOK, OwnersMatch, WaitersMatch,
           BootAlone, OffsetKept, ScreenOrder
  <2> QED
    BY <2>1, BusMain, BusPoller, BusDisplay, BusOthers DEF Next
<1> QED  BY <1>1, BusInit, PTL DEF Spec

\* The transfers of GUI_Init, GUI_Clear, the pollers and the drawings never
\* overlap, for any number of pollers.
THEOREM BusNeverCollides == Spec => []NoCollision
<1>1. BusInv => NoCollision
  <2> SUFFICES ASSUME BusInv, NEW t \in bus, NEW u \in bus  PROVE t = u
    BY DEF BusInv, NoCollision
  <2> QED
    BY TaskAssumption
       DEF BusInv, TypeOK, OwnersMatch, BootAlone, Tasks, Transferring, Holding, Clearing,
           PollerStates, DisplayStates, MainStates
<1> QED  BY <1>1, BusAlways, PTL

----------------------------------------------------------------------------
\* I2cBus implements AtomicBus: the end of a read is the atomic read, the end
\* of a drawing the atomic drawing, and all else stutters.
THEOREM BusIsAtomic == Spec => ReadsAreAtomic
<1> DEFINE aVars == <<register, value, oled>>
<1>1. Init => Atomic!Init
  BY DEF Init, Atomic!Init
<1>2. BusInv /\ [Next]_vars => [Atomic!Next]_aVars
  <2> SUFFICES ASSUME BusInv, [Next]_vars  PROVE Atomic!Next \/ UNCHANGED aVars
    OBVIOUS
  <2> USE DEF chipVars, taskVars, wireVars, Goto
  <2>1. CASE UNCHANGED vars
    BY <2>1 DEF vars
  <2>2. CASE MainStep \/ DisplayNews
    BY <2>2
       DEF MainStep, MainInitBegin, MainInitEnd, MainCreatePoller, MainCreateDisplay, Begin,
           DisplayNews
  <2>3. CASE DisplayClearEnd
    <3>1. Atomic!Clear
      BY <2>3 DEF DisplayClearEnd, End, Atomic!Clear, BusInv, ScreenOrder, Clearing
    <3> QED  BY <3>1 DEF Atomic!Next
  <2>4. CASE DisplayDrawEnd
    <3>1. Atomic!Draw
      BY <2>4 DEF DisplayDrawEnd, End, Atomic!Draw, BusInv, ScreenOrder, Clearing
    <3> QED  BY <3>1 DEF Atomic!Next
  <2>5. CASE DisplayStep /\ ~DisplayClearEnd /\ ~DisplayDrawEnd
    BY <2>5
       DEF DisplayStep, DisplayClearBegin, DisplayWait, DisplayFormat, DisplayTake,
           DisplayDrawBegin, DisplayGive, Begin, TakeMutex, GiveMutex
  <2>6. ASSUME NEW p \in Pollers, GetDataEnd(p)  PROVE Atomic!Next
    <3>1. offset = p
      BY <2>6 DEF GetDataEnd, End, BusInv, OffsetKept
    <3>2. Atomic!Sense(p)
      BY <2>6, <3>1 DEF GetDataEnd, End, Atomic!Sense, BusInv
    <3> QED  BY <3>2 DEF Atomic!Next
  <2>7. ASSUME NEW p \in Pollers, PollerStep(p) /\ ~GetDataEnd(p)  PROVE UNCHANGED aVars
    BY <2>7
       DEF PollerStep, PollerTake, SetOffsetBegin, SetOffsetEnd, GetDataBegin, PollerGive,
           PollerProcess, Begin, End, TakeMutex, GiveMutex
  <2>8. ASSUME NEW p \in Pollers, PollerDelayOver(p)  PROVE UNCHANGED aVars
    BY <2>8 DEF PollerDelayOver
  <2>9. ASSUME NEW p \in Pollers, SensorChanges(p)  PROVE Atomic!Next
    <3>1. Atomic!Change(p)
      BY <2>9 DEF SensorChanges, Atomic!Change
    <3> QED  BY <3>1 DEF Atomic!Next
  <2> QED
    BY <2>1, <2>2, <2>3, <2>4, <2>5, <2>6, <2>7, <2>8, <2>9 DEF Next
<1> QED
  BY <1>1, <1>2, BusAlways, PTL
     DEF Spec, ReadsAreAtomic, Atomic!Spec, Atomic!busVars
============================================================================
