------------------------------ MODULE Mailboxes -------------------------------
(***************************************************************************)
(* The queues and semaphores through which SwitchHandler, Display, Storage  *)
(* and Greenhouse talk (src/src/taskers/RTOS_infrastructure.h, created in   *)
(* src/src/main.cpp 62-85).  A mailbox is a queue of length 1 that is       *)
(* overwritten and peeked; the semaphores are binary.                       *)
(***************************************************************************)
EXTENDS Integers, Sequences

CONSTANTS
    CO2_MAX,                    \* the highest target, 1500
    MAX_CREDENTIAL_STRING_LEN,  \* the longest string, 61
    StorageQueueLength,         \* the capacity of qStorageQueue, 5
    Empty,                      \* what an empty mailbox holds
    Queued(_)                   \* what is told apart of a command in qStorageQueue:
                                \* the command, or nothing where nobody reads it

ASSUME MailboxesAssumption ==
    /\ CO2_MAX \in Nat
    /\ MAX_CREDENTIAL_STRING_LEN \in Nat
    /\ StorageQueueLength \in Nat \ {0}
    /\ Empty \notin Int /\ Empty \notin Seq(Int)
    /\ Empty \notin {"STATUS", "NETWORK", "NEW_API", "NEW_SSID", "NEW_PW"}

CO2_MIN == 0
CO2Targets == CO2_MIN..CO2_MAX

\* enum network_phase, in order; the mailboxes qNetworkStrings and the commands
\* of enum storage_data have the same names.
Phases == <<"NEW_API", "NEW_SSID", "NEW_PW">>
PhaseSet == {"NEW_API", "NEW_SSID", "NEW_PW"}

MailboxNames == PhaseSet \cup {"qState", "qNetworkPhase", "qCO2TargetPending",
                               "qCO2TargetCurrent", "qCharPending"}

VARIABLES
    mail,               \* what each mailbox holds
    sUpdateDisplay,     \* the semaphore Display takes
    qStorageQueue       \* commands for Storage

queueVars == <<mail, sUpdateDisplay, qStorageQueue>>

===============================================================================
