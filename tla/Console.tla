------------------------------ MODULE Console ------------------------------
(***************************************************************************)
(* source/console_operation.c: a UART interrupt puts each character into a *)
(* one-byte mailbox and gives command_semaphore; commandThread takes the   *)
(* semaphore and executes the key it finds in the mailbox.                 *)
(*                                                                         *)
(* An operator marked "Mutant" is a faulty variant of the one after it:    *)
(* it only serves to test that a property can fail.                        *)
(***************************************************************************)
EXTENDS Resources

CONSTANTS Keys   \* the keys pressed; a measure stands for its key t, h or l

\* '?', 'c' and 'x' only print: "x" stands for all keys that change nothing.
AllKeys == Measures \cup {"A", "a", "P", "p", "x"}
ASSUME KeyAssumption ==
  /\ Keys \subseteq AllKeys
  /\ Measures \cap {"A", "a", "P", "p", "x"} = {}

VARIABLES
  receive_command,    \* the mailbox
  command_semaphore,  \* binary semaphore: TRUE when given
  cmdPc,              \* commandThread
  key                 \* the key it read last

consoleVars == <<receive_command, command_semaphore, cmdPc, key>>

ConsoleTypeOK ==
  /\ receive_command \in AllKeys
  /\ command_semaphore \in BOOLEAN
  /\ cmdPc \in {"absent", "wait", "switch", "store", "give", "push"}
  /\ key \in AllKeys

ConsoleInit ==
  /\ receive_command = "x" /\ key = "x"
  /\ command_semaphore = FALSE
  /\ cmdPc = "absent"

----------------------------------------------------------------------------
\* Mutant: the give is skipped while the thread is busy.
CommandThreadCallbackIfWaiting ==
  /\ cmdPc # "absent"
  /\ receive_command' \in Keys
  /\ command_semaphore' = (command_semaphore \/ cmdPc = "wait")
  /\ UNCHANGED <<cmdPc, key, sharedVars>>

\* The interrupt handler; the event is enabled by commandThread.
CommandThreadCallback ==
  /\ cmdPc # "absent"
  /\ receive_command' \in Keys
  /\ command_semaphore' = TRUE
  /\ UNCHANGED <<cmdPc, key, sharedVars>>

CommandTake ==
  /\ cmdPc = "wait" /\ command_semaphore
  /\ command_semaphore' = FALSE
  /\ cmdPc' = "switch"
  /\ UNCHANGED <<receive_command, key, sharedVars>>

\* Mutant: the key executed before is executed again.
CommandSwitchStale ==
  /\ cmdPc = "switch"
  /\ cmdPc' = IF key \in Measures THEN "push" ELSE IF key = "x" THEN "wait" ELSE "store"
  /\ UNCHANGED <<receive_command, command_semaphore, key, sharedVars>>

CommandSwitch ==
  /\ cmdPc = "switch"
  /\ key' = receive_command
  /\ cmdPc' = IF key' \in Measures THEN "push"
              ELSE IF key' = "x" THEN "wait" ELSE "store"
  /\ UNCHANGED <<receive_command, command_semaphore, sharedVars>>

\* Mutant: the display is not told.
CommandStoreAlertSilently ==
  /\ cmdPc = "store" /\ key \in {"A", "a"}
  /\ Store(MY_THING, "alert", key = "A")
  /\ cmdPc' = "push"
  /\ OnlyTable
  /\ UNCHANGED <<receive_command, command_semaphore, key>>

CommandStoreAlert ==
  /\ cmdPc = "store" /\ key \in {"A", "a"}
  /\ Store(MY_THING, "alert", key = "A")
  /\ cmdPc' = "give"
  /\ OnlyTable
  /\ UNCHANGED <<receive_command, command_semaphore, key>>

CommandStorePrint ==
  /\ cmdPc = "store" /\ key \in {"P", "p"}
  /\ print_all' = (key = "P")
  /\ cmdPc' = "wait"
  /\ UNCHANGED <<iot_data, disp_thing, display_semaphore, i2c_mutex, pub_queue,
                 unannounced, alertUnsent>>
  /\ UNCHANGED <<receive_command, command_semaphore, key>>

CommandGive ==
  /\ cmdPc = "give"
  /\ GiveDisplay
  /\ cmdPc' = "push"
  /\ OnlySemaphore
  /\ UNCHANGED <<receive_command, command_semaphore, key>>

CommandPush ==
  /\ cmdPc = "push"
  /\ Send(IF key \in Measures THEN MEASURE_CMD(key) ELSE ALERT_CMD)
  /\ cmdPc' = "wait"
  /\ OnlyQueue
  /\ UNCHANGED <<receive_command, command_semaphore, key>>

CommandThread ==
  \/ CommandTake \/ CommandSwitch
  \/ CommandStoreAlert \/ CommandStorePrint \/ CommandGive \/ CommandPush
ConsoleNext == CommandThreadCallback \/ CommandThread

----------------------------------------------------------------------------
\* A reading of the mailbox is due for a semaphore that is given and for one
\* that is taken but not yet followed by the read of receive_command: a key
\* that arrives in between is executed twice, never more often, and the
\* earlier one that it overwrites not at all.
Due == (IF command_semaphore THEN 1 ELSE 0) + (IF cmdPc = "switch" THEN 1 ELSE 0)
Mail == INSTANCE Mailbox WITH
  Symbols <- Keys, None <- "x", last <- receive_command, due <- Due, served <- key
ImplementsMailbox == Mail!Spec
============================================================================
