----------------------------- MODULE KernelQueue ------------------------------
(***************************************************************************)
(* A queue of the kernel, queue.c, and the event lists of tasks.c that it  *)
(* uses.  A task that finds the queue full (or empty) suspends the         *)
(* scheduler, locks the queue, looks again, and places itself on an event  *)
(* list; interrupts come between any two critical sections and, while the  *)
(* queue is locked, only count what they did.                              *)
(*                                                                         *)
(* Every object of main.cpp is one: the queues (uxLength > 1), the         *)
(* mailboxes (uxLength 1, overwritten and peeked) and the binary           *)
(* semaphores (uxLength 1, one kind of item; taking is receiving).  Any    *)
(* ready task may take the next step: what the priorities of the tasks     *)
(* exclude is only left out of the order of the event lists.               *)
(***************************************************************************)
EXTENDS KernelTasks

CONSTANTS
    NumberOfTasks,  \* uxTaskGetNumberOfTasks: the cap of the lock counts
    Lengths,        \* the lengths queues are created with
    Items, NoItem,
    Calls,          \* the calls that the tasks make
    ISRItems        \* what interrupt handlers send

Kinds == {"send", "overwrite", "receive", "peek"}
Waits == {"none", "finite", "forever"}

ASSUME QueueAssumption ==
    /\ NumberOfTasks \in Nat /\ Cardinality(Tasks) <= NumberOfTasks
    /\ Lengths \subseteq Nat \ {0}
    /\ NoItem \notin Items
    /\ Calls \subseteq [task : Tasks, kind : Kinds, wait : Waits,
                        item : Items \cup {NoItem}, length : Lengths]
    /\ \A c \in Calls : /\ c.kind \in {"send", "overwrite"} => c.item \in Items
                        /\ c.kind = "overwrite" => c.length = 1
    /\ ISRItems \subseteq Items

VARIABLES
    uxLength, uxMessagesWaiting,
    store,          \* the storage area, pcHead up to pcTail
    pcWriteTo, pcReadFrom,
    cTxLock, cRxLock,
    xTasksWaitingToSend, xTasksWaitingToReceive,
    blocked,        \* the tasks in a delayed list or the suspended list
    next,           \* where each task goes after the unlocking
    op,             \* the call it executes: [kind, wait, item]
    expired,        \* the tasks whose wait has run out
    taken           \* the item last copied to a caller's buffer

storage == <<store, pcWriteTo, pcReadFrom, uxMessagesWaiting, taken>>
locks == <<cTxLock, cRxLock>>
events == <<xTasksWaitingToSend, xTasksWaitingToReceive, blocked, xPendingReadyList>>
control == <<suspended, pc, next, op, expired>>
queueVars == <<uxLength, storage, locks, events, control>>

queueUNLOCKED == -1
queueLOCKED_UNMODIFIED == 0
NoOp == [kind |-> "none", wait |-> "none", item |-> NoItem]

QueueStart ==
    /\ uxLength \in Lengths
    /\ store = [i \in 0..(uxLength - 1) |-> NoItem]
    /\ pcWriteTo = 0 /\ pcReadFrom = uxLength - 1
    /\ uxMessagesWaiting = 0 /\ taken = NoItem
    /\ cTxLock = queueUNLOCKED /\ cRxLock = queueUNLOCKED
    /\ xTasksWaitingToSend = <<>> /\ xTasksWaitingToReceive = <<>>
    /\ blocked = {}
    /\ next = [t \in Tasks |-> "try"]
    /\ op = [t \in Tasks |-> NoOp] /\ expired = {}

QueueInit == TasksInit /\ pc = Idle /\ QueueStart

-------------------------------------------------------------------------------
\* The storage area.

\* A pointer moved on by one entry.
Wrap(i) == IF i >= uxLength THEN 0 ELSE i

\* prvCopyDataToQueue, to the back.
CopyDataToQueue(x) ==
    /\ store' = [store EXCEPT ![pcWriteTo] = x]
    /\ pcWriteTo' = Wrap(pcWriteTo + 1)
    /\ uxMessagesWaiting' = uxMessagesWaiting + 1
    /\ UNCHANGED <<pcReadFrom, taken>>

\* prvCopyDataToQueue, queueOVERWRITE.
OverwriteData(x) ==
    /\ store' = [store EXCEPT ![pcReadFrom] = x]
    /\ pcReadFrom' = IF pcReadFrom = 0 THEN uxLength - 1 ELSE pcReadFrom - 1
    /\ uxMessagesWaiting' = IF uxMessagesWaiting > 0 THEN uxMessagesWaiting ELSE 1
    /\ UNCHANGED <<pcWriteTo, taken>>

\* prvCopyDataFromQueue, and the count of the caller.
CopyDataFromQueue ==
    /\ pcReadFrom' = Wrap(pcReadFrom + 1)
    /\ taken' = store[Wrap(pcReadFrom + 1)]
    /\ uxMessagesWaiting' = uxMessagesWaiting - 1
    /\ UNCHANGED <<store, pcWriteTo>>

\* Variant of PeekData that leaves the read pointer where it was moved to.
PeekDataMoves ==
    /\ pcReadFrom' = Wrap(pcReadFrom + 1)
    /\ taken' = store[Wrap(pcReadFrom + 1)]
    /\ UNCHANGED <<store, pcWriteTo, uxMessagesWaiting>>

\* xQueuePeek puts the read pointer back.
PeekData ==
    /\ taken' = store[Wrap(pcReadFrom + 1)]
    /\ UNCHANGED <<store, pcWriteTo, pcReadFrom, uxMessagesWaiting>>

-------------------------------------------------------------------------------
\* The event lists.

\* Whom unblocking n tasks of a list unblocks, and who is left.
FirstOf(list, n) == SubSeq(list, 1, IF n < Len(list) THEN n ELSE Len(list))
Rest(list, n) == SubSeq(list, n + 1, Len(list))

\* xTaskRemoveFromEventList for each of the tasks: ready at once, or when the
\* scheduler is resumed.
Unblock(tasks) ==
    IF suspended = NoTask
    THEN blocked' = blocked \ tasks /\ UNCHANGED xPendingReadyList
    ELSE xPendingReadyList' = xPendingReadyList \cup tasks /\ UNCHANGED blocked

WakeReceiver ==
    /\ Unblock(TasksIn(FirstOf(xTasksWaitingToReceive, 1)))
    /\ xTasksWaitingToReceive' = Rest(xTasksWaitingToReceive, 1)
    /\ UNCHANGED xTasksWaitingToSend

WakeSender ==
    /\ Unblock(TasksIn(FirstOf(xTasksWaitingToSend, 1)))
    /\ xTasksWaitingToSend' = Rest(xTasksWaitingToSend, 1)
    /\ UNCHANGED xTasksWaitingToReceive

-------------------------------------------------------------------------------
\* The calls of task t: one critical section is one step.

Sends(t) == op[t].kind \in {"send", "overwrite"}
Fits(t) == IF Sends(t) THEN op[t].kind = "overwrite" \/ uxMessagesWaiting < uxLength
                       ELSE uxMessagesWaiting > 0
Runs(t) == t \notin blocked /\ suspended \in {NoTask, t}
At(t, place) == pc[t] = place /\ Runs(t)

Return(t) ==
    /\ Go(t, "idle")
    /\ op' = [op EXCEPT ![t] = NoOp]
    /\ expired' = expired \ {t}
    /\ next' = [next EXCEPT ![t] = "try"]

Call(t) ==
    /\ At(t, "idle") /\ suspended = NoTask
    /\ \E c \in Calls :
        /\ c.task = t /\ c.length = uxLength
        /\ op' = [op EXCEPT ![t] = [kind |-> c.kind, wait |-> c.wait, item |-> c.item]]
    /\ Go(t, "try")
    /\ UNCHANGED <<uxLength, storage, locks, events, suspended, next, expired>>

\* xQueueGenericSend finds room, or overwrites.
Send(t) ==
    /\ At(t, "try") /\ Sends(t) /\ Fits(t)
    /\ IF op[t].kind = "send" THEN CopyDataToQueue(op[t].item)
                              ELSE OverwriteData(op[t].item)
    /\ WakeReceiver
    /\ Return(t)
    /\ UNCHANGED <<uxLength, locks, suspended>>

\* xQueueReceive and xQueueSemaphoreTake find an item.
Receive(t) ==
    /\ At(t, "try") /\ op[t].kind = "receive" /\ Fits(t)
    /\ CopyDataFromQueue
    /\ WakeSender
    /\ Return(t)
    /\ UNCHANGED <<uxLength, locks, suspended>>

\* xQueuePeek finds one: it is still there for the next task that waits.
Peek(t) ==
    /\ At(t, "try") /\ op[t].kind = "peek" /\ Fits(t)
    /\ PeekData
    /\ WakeReceiver
    /\ Return(t)
    /\ UNCHANGED <<uxLength, locks, suspended>>

Refused(t) ==
    /\ At(t, "try") /\ ~Fits(t)
    /\ IF op[t].wait = "none" THEN Return(t)
                              ELSE Go(t, "suspend") /\ UNCHANGED <<next, op, expired>>
    /\ UNCHANGED <<uxLength, storage, locks, events, suspended>>

\* vTaskSuspendAll
SuspendAll(t) ==
    /\ At(t, "suspend") /\ suspended = NoTask
    /\ suspended' = t
    /\ Go(t, "lock")
    /\ UNCHANGED <<uxLength, storage, locks, events, next, op, expired>>

\* prvLockQueue
LockQueue(t) ==
    /\ At(t, "lock")
    /\ cTxLock' = IF cTxLock = queueUNLOCKED THEN queueLOCKED_UNMODIFIED ELSE cTxLock
    /\ cRxLock' = IF cRxLock = queueUNLOCKED THEN queueLOCKED_UNMODIFIED ELSE cRxLock
    /\ Go(t, "check")
    /\ UNCHANGED <<uxLength, storage, events, suspended, next, op, expired>>

\* xTaskCheckForTimeOut, prvIsQueueFull and prvIsQueueEmpty: a finite wait may
\* have run out without the tick having seen it.
Check(t) ==
    /\ At(t, "check")
    /\ \/ /\ t \in expired \/ op[t].wait = "finite"
          /\ next' = [next EXCEPT ![t] = IF Sends(t) THEN "fail" ELSE "recheck"]
          /\ Go(t, "unlockTx")
       \/ /\ t \notin expired /\ Fits(t)
          /\ next' = [next EXCEPT ![t] = "try"]
          /\ Go(t, "unlockTx")
       \/ /\ t \notin expired /\ ~Fits(t)
          /\ Go(t, "place")
          /\ UNCHANGED next
    /\ UNCHANGED <<uxLength, storage, locks, events, suspended, op, expired>>

\* vTaskPlaceOnEventList
Place(t) ==
    /\ At(t, "place")
    /\ IF Sends(t)
       THEN /\ xTasksWaitingToSend' = vListInsert(xTasksWaitingToSend, t, Priority)
            /\ UNCHANGED xTasksWaitingToReceive
       ELSE /\ xTasksWaitingToReceive' = vListInsert(xTasksWaitingToReceive, t, Priority)
            /\ UNCHANGED xTasksWaitingToSend
    /\ blocked' = blocked \cup {t}
    /\ next' = [next EXCEPT ![t] = "try"]
    /\ Go(t, "unlockTx")
    /\ UNCHANGED <<uxLength, storage, locks, xPendingReadyList, suspended, op, expired>>

\* Until the scheduler is resumed the task runs on though it is in a list.
Holds(t, place) == pc[t] = place /\ suspended = t

\* Variant of UnlockTx that forgets what was sent to the locked queue.
UnlockTxForgets(t) ==
    /\ Holds(t, "unlockTx")
    /\ cTxLock' = queueUNLOCKED
    /\ Go(t, "unlockRx")
    /\ UNCHANGED <<uxLength, storage, events, cRxLock, suspended, next, op, expired>>

\* prvUnlockQueue: a task for every item sent meanwhile.
UnlockTx(t) ==
    /\ Holds(t, "unlockTx")
    /\ Unblock(TasksIn(FirstOf(xTasksWaitingToReceive, cTxLock)))
    /\ xTasksWaitingToReceive' = Rest(xTasksWaitingToReceive, cTxLock)
    /\ cTxLock' = queueUNLOCKED
    /\ Go(t, "unlockRx")
    /\ UNCHANGED <<uxLength, storage, xTasksWaitingToSend, cRxLock, suspended, next,
                   op, expired>>

UnlockRx(t) ==
    /\ Holds(t, "unlockRx")
    /\ Unblock(TasksIn(FirstOf(xTasksWaitingToSend, cRxLock)))
    /\ xTasksWaitingToSend' = Rest(xTasksWaitingToSend, cRxLock)
    /\ cRxLock' = queueUNLOCKED
    /\ Go(t, "resume")
    /\ UNCHANGED <<uxLength, storage, xTasksWaitingToReceive, cTxLock, suspended, next,
                   op, expired>>

\* xTaskResumeAll; a call that gives up returns.
ResumeAll(t) ==
    /\ Holds(t, "resume")
    /\ suspended' = NoTask
    /\ blocked' = blocked \ xPendingReadyList
    /\ xPendingReadyList' = {}
    /\ IF next[t] = "fail" THEN Return(t)
       ELSE Go(t, next[t]) /\ UNCHANGED <<next, op, expired>>
    /\ UNCHANGED <<uxLength, storage, locks, xTasksWaitingToSend,
                   xTasksWaitingToReceive>>

\* A receiver that timed out looks once more.
Recheck(t) ==
    /\ At(t, "recheck")
    /\ IF Fits(t) THEN Go(t, "try") /\ UNCHANGED <<next, op, expired>> ELSE Return(t)
    /\ UNCHANGED <<uxLength, storage, locks, events, suspended>>

-------------------------------------------------------------------------------
\* Interrupts.

\* prvIncrementQueueTxLock, prvIncrementQueueRxLock
Incremented(lock) == IF lock < NumberOfTasks THEN lock + 1 ELSE lock

SendFromISR(x) ==
    /\ uxMessagesWaiting < uxLength
    /\ CopyDataToQueue(x)
    /\ IF cTxLock = queueUNLOCKED THEN WakeReceiver /\ UNCHANGED cTxLock
       ELSE cTxLock' = Incremented(cTxLock) /\ UNCHANGED events
    /\ UNCHANGED <<uxLength, cRxLock, control>>

ReceiveFromISR ==
    /\ uxMessagesWaiting > 0
    /\ CopyDataFromQueue
    /\ IF cRxLock = queueUNLOCKED THEN WakeSender /\ UNCHANGED cRxLock
       ELSE cRxLock' = Incremented(cRxLock) /\ UNCHANGED events
    /\ UNCHANGED <<uxLength, cTxLock, control>>

\* xTaskIncrementTick, at once or among the pended ticks of xTaskResumeAll: a
\* wait has run out.
Tick(t) ==
    /\ suspended = NoTask /\ t \in blocked /\ op[t].wait = "finite"
    /\ blocked' = blocked \ {t}
    /\ xTasksWaitingToSend' = Without(xTasksWaitingToSend, t)
    /\ xTasksWaitingToReceive' = Without(xTasksWaitingToReceive, t)
    /\ expired' = expired \cup {t}
    /\ UNCHANGED <<uxLength, storage, locks, xPendingReadyList, suspended, pc, next, op>>

-------------------------------------------------------------------------------
Step(t) ==
    \/ Send(t) \/ Receive(t) \/ Peek(t) \/ Refused(t)
    \/ SuspendAll(t) \/ LockQueue(t) \/ Check(t) \/ Place(t)
    \/ UnlockTx(t) \/ UnlockRx(t) \/ ResumeAll(t) \/ Recheck(t)

QueueNext ==
    \/ \E t \in Tasks : Call(t) \/ Step(t) \/ Tick(t)
    \/ ReceiveFromISR \/ \E x \in ISRItems : SendFromISR(x)

QueueSpec == QueueInit /\ [][QueueNext]_queueVars

-------------------------------------------------------------------------------
QueueTypeOK ==
    /\ uxLength \in Lengths
    /\ uxMessagesWaiting \in 0..uxLength
    /\ store \in [0..(uxLength - 1) -> Items \cup {NoItem}]
    /\ pcWriteTo \in 0..(uxLength - 1) /\ pcReadFrom \in 0..(uxLength - 1)
    /\ taken \in Items \cup {NoItem}
    /\ cTxLock \in -1..NumberOfTasks /\ cRxLock \in -1..NumberOfTasks
    /\ xTasksWaitingToSend \in Seq(Tasks) /\ xTasksWaitingToReceive \in Seq(Tasks)
    /\ suspended \in Tasks \cup {NoTask}
    /\ blocked \subseteq Tasks /\ xPendingReadyList \subseteq Tasks
    /\ pc \in [Tasks -> {"idle", "try", "suspend", "lock", "check", "place",
                         "unlockTx", "unlockRx", "resume", "recheck"}]
    /\ next \in [Tasks -> {"try", "fail", "recheck"}]
    /\ op \in [Tasks -> [kind : Kinds \cup {"none"}, wait : Waits,
                         item : Items \cup {NoItem}]]
    /\ expired \subseteq Tasks

\* The i-th slot after slot p of a ring of n.
Slot(p, i, n) == IF p + i >= n THEN p + i - n ELSE p + i

\* What the storage area holds, oldest item first.
Contents == [i \in 1..uxMessagesWaiting |-> store[Slot(pcReadFrom, i, uxLength)]]

Abstract == INSTANCE BoundedQueue
    WITH contents <- Contents, bound <- uxLength

\* The ring of queue.c, with its two pointers and its count, is a first-in
\* first-out queue for tasks and interrupts alike.
QueueIsFifo == Abstract!Spec

\* The tasks that will look into the queue again whatever happens.
WillTry(t) ==
    \/ pc[t] = "try"
    \/ pc[t] \in {"unlockTx", "unlockRx", "resume"} /\ next[t] = "try"

Wakes(t) ==
    t \in blocked => suspended # NoTask /\ t \in xPendingReadyList \cup {suspended}

Takers == { t \in Tasks \ TasksIn(xTasksWaitingToReceive) :
              Wakes(t) /\ WillTry(t) /\ ~Sends(t) }
Givers == { t \in Tasks \ TasksIn(xTasksWaitingToSend) :
              Wakes(t) /\ WillTry(t) /\ Sends(t) }
Counted(lock) == IF lock > 0 THEN lock ELSE 0

\* While a task waits on the event list of an empty queue, for every item that
\* comes there is a task on its way to it, or a mark in the lock count that
\* will send one; and the same for room.  No item and no room is ever overlooked
\* by all who wait, although interrupts come at any point of the blocking.
NoLostWakeup ==
    /\ xTasksWaitingToReceive # <<>> =>
          \/ uxMessagesWaiting <= Cardinality(Takers) + Counted(cTxLock)
          \/ cTxLock >= Len(xTasksWaitingToReceive)
    /\ xTasksWaitingToSend # <<>> =>
          \/ uxLength - uxMessagesWaiting <= Cardinality(Givers) + Counted(cRxLock)
          \/ cRxLock >= Len(xTasksWaitingToSend)
===============================================================================
