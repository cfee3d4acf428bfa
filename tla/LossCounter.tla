----------------------------- MODULE LossCounter ------------------------------
(***************************************************************************)
(* The loop of SwitchHandler, Storage and Logger over their queues: an     *)
(* item that finds the queue full is counted; the reader, which waits for  *)
(* ever while nothing is lost, reports the count once the queue is empty   *)
(* and resets it.  The producers are an interrupt handler, or tasks of a   *)
(* higher priority than the reader's; only Storage has Logger's own, so    *)
(* that its increment of the counter may be interrupted by Logger.  The    *)
(* report of a loss is itself an item for Logger.                          *)
(***************************************************************************)
EXTENDS Naturals

CONSTANTS
    QueueLength,
    MaxLost         \* bound on the counter

ASSUME LossAssumption == QueueLength \in Nat \ {0} /\ MaxLost \in Nat

VARIABLES
    reader,         \* whose loop it is: "SwitchHandler", "Storage", "Logger"
    rpc,
    queued,         \* the number of items in the queue
    lost,           \* mLostEvents, mLostStores, mLost_Log_event
    patience,       \* the reader's wait: 0 ("none") or portMAX_DELAY ("forever")
    increment,      \* Storage within Logger::log: [at, loaded]
    owed            \* history: an item of a producer of higher priority is lost

lossVars == <<reader, rpc, queued, lost, patience, increment, owed>>

NotLogging == [at |-> "none", loaded |-> 0]

LossInit ==
    /\ reader \in {"SwitchHandler", "Storage", "Logger"}
    /\ rpc = "wait" /\ queued = 0 /\ lost = 0 /\ patience = "forever"
    /\ increment = NotLogging /\ owed = FALSE

\* mLogAccess is free.
Unlocked == increment.at = "none"

\* xQueueReceive's last argument.
Evaluate ==
    /\ rpc = "wait"
    /\ patience' = IF lost > 0 THEN "none" ELSE "forever"
    /\ rpc' = "receive"
    /\ UNCHANGED <<reader, queued, lost, increment, owed>>

\* Variant of ReceiveItem that keeps the wait of the first turn.
ReceiveAgain ==
    /\ rpc = "receive" /\ queued > 0
    /\ queued' = queued - 1
    /\ UNCHANGED <<reader, rpc, lost, patience, increment, owed>>

ReceiveItem ==
    /\ rpc = "receive" /\ queued > 0
    /\ queued' = queued - 1
    /\ rpc' = "wait"
    /\ UNCHANGED <<reader, lost, patience, increment, owed>>

\* The queue is empty: is there a loss to report?
FindsNone ==
    /\ rpc = "receive" /\ queued = 0 /\ patience = "none"
    /\ rpc' = IF lost > 0 THEN "report" ELSE "wait"
    /\ UNCHANGED <<reader, queued, lost, patience, increment, owed>>

\* Logger::log with the counter.
ReportLoss ==
    /\ rpc = "report"
    /\ IF reader # "Logger" THEN UNCHANGED <<queued, lost>>
       ELSE /\ Unlocked
            /\ IF queued < QueueLength THEN queued' = queued + 1 /\ UNCHANGED lost
                                        ELSE lost' = lost + 1 /\ UNCHANGED queued
    /\ rpc' = "reset"
    /\ UNCHANGED <<reader, patience, increment, owed>>

ResetLost ==
    /\ rpc = "reset"
    /\ lost' = 0 /\ owed' = FALSE
    /\ rpc' = "wait"
    /\ UNCHANGED <<reader, queued, patience, increment>>

\* irq_handler, Storage::store after its second of queued, Logger::log.
ProduceItem ==
    /\ Unlocked
    /\ IF queued < QueueLength THEN queued' = queued + 1 /\ UNCHANGED <<lost, owed>>
       ELSE lost < MaxLost /\ lost' = lost + 1 /\ owed' = TRUE /\ UNCHANGED queued
    /\ UNCHANGED <<reader, rpc, patience, increment>>

\* Logger::log in Storage: its item,
StorageLogs ==
    /\ reader = "Logger" /\ Unlocked
    /\ IF queued < QueueLength THEN queued' = queued + 1 /\ UNCHANGED increment
       ELSE /\ lost < MaxLost
            /\ increment' = [NotLogging EXCEPT !.at = "load"]
            /\ UNCHANGED queued
    /\ UNCHANGED <<reader, rpc, lost, patience, owed>>

\* and the two halves of ++mLost_Log_event.
LoadLost ==
    /\ increment.at = "load"
    /\ increment' = [at |-> "store", loaded |-> lost]
    /\ UNCHANGED <<reader, rpc, queued, lost, patience, owed>>

StoreLost ==
    /\ increment.at = "store"
    /\ lost' = increment.loaded + 1
    /\ increment' = NotLogging
    /\ UNCHANGED <<reader, rpc, queued, patience, owed>>

LossNext ==
    \/ Evaluate \/ ReceiveItem \/ FindsNone \/ ReportLoss \/ ResetLost
    \/ ProduceItem \/ StorageLogs \/ LoadLost \/ StoreLost

LossSpec == LossInit /\ [][LossNext]_lossVars

-------------------------------------------------------------------------------
\* The reader never goes to sleep on a loss that nobody has reported: the loss
\* of an interrupt or of a task of higher priority, whenever it happens between
\* the reading of the counter and the blocking on the empty queue.  (A loss of
\* Storage may reach the counter only after Logger has fallen asleep.)
NeverSleepsOnLoss ==
    rpc = "receive" /\ patience = "forever" /\ queued = 0 => ~owed
===============================================================================
