------------------------------ MODULE TaskStates -------------------------------
(***************************************************************************)
(* The life of tasks, tasks.c: creation and deletion, whose memory the     *)
(* idle task frees if the task deletes itself; suspension, priorities that *)
(* change, delays that are aborted, and notifications, each by tasks that  *)
(* may have the scheduler suspended and, where there is a function for it, *)
(* by interrupts.  A critical section is one step.                         *)
(***************************************************************************)
EXTENDS KernelTasks, FiniteSetsExt

CONSTANTS
    IdleTask,       \* prvIdleTask, with the priority 0
    Started,        \* the tasks that exist at the start, the idle task included
    NewPriorities,  \* what vTaskPrioritySet is called with
    MaxNotified     \* bounds the notified value

VARIABLES
    list,                   \* where the state list item of each task is
    eventList,              \* and its event list item: "none", "object" or "pending"
    uxPriority,             \* no mutexes here, so also the base priority
    ucNotifyState, ulNotifiedValue,
    uxDeletedTasksWaitingCleanUp,
    victim,                 \* of each task: the one it is about to free, or to wake
    pxCurrentTCB, xYieldPending, pendSV,
    allocated,              \* history: the tasks whose memory is not free
    frozen                  \* history: those that vTaskSuspend suspended

\* What the constants are to be.
StatesParameters ==
    /\ Started \subseteq Tasks /\ IdleTask \in Started
    /\ NewPriorities \subseteq Nat

stateVars == <<list, eventList, uxPriority, ucNotifyState, ulNotifiedValue,
               uxDeletedTasksWaitingCleanUp, victim, allocated, frozen>>

StatesStart ==
    /\ list = [t \in Tasks |-> IF t \in Started THEN "ready" ELSE "none"]
    /\ eventList = [t \in Tasks |-> "none"]
    /\ ucNotifyState = [t \in Tasks |-> "not waiting"]
    /\ ulNotifiedValue = [t \in Tasks |-> 0]
    /\ uxDeletedTasksWaitingCleanUp = 0
    /\ victim = [t \in Tasks |-> NoTask]
    /\ allocated = Started /\ frozen = {}

StatesInit ==
    /\ StatesStart /\ TasksInit /\ pc = [t \in Tasks |-> "idle"] /\ uxPriority = Priority
    /\ pxCurrentTCB \in { t \in Started : \A u \in Started : Priority[u] <= Priority[t] }
    /\ xYieldPending = FALSE /\ pendSV = FALSE

-------------------------------------------------------------------------------
Runs(t) == pxCurrentTCB = t /\ ~pendSV

\* The task is in its own code, not within a call.
Free(t) == Runs(t) /\ pc[t] = "idle" /\ suspended \in {NoTask, t}

\* It may block or give the processor up.
MayBlock(t) == Free(t) /\ suspended = NoTask /\ t # IdleTask

Exists(t) == list[t] \notin {"none", "termination"}

Higher(t) == uxPriority[t] > uxPriority[pxCurrentTCB]

Put(t, where) == list' = [list EXCEPT ![t] = where]
PutEvent(t, where) == eventList' = [eventList EXCEPT ![t] = where]

\* taskYIELD, if it is called for: also with the scheduler suspended.
YieldIf(wanted) == pendSV' = (pendSV \/ wanted) /\ UNCHANGED xYieldPending

\* An interrupt also notes that a yield is pending.
YieldFromISRIf(wanted) ==
    pendSV' = (pendSV \/ wanted) /\ xYieldPending' = (xYieldPending \/ wanted)

\* prvAddCurrentTaskToDelayedList
Blocked(wait) == IF wait = "forever" THEN "suspended" ELSE "delayed"

-------------------------------------------------------------------------------
\* xTaskCreate, when the scheduler runs.
Create(t, u) ==
    /\ Free(t) /\ u \notin allocated
    /\ Put(u, "ready") /\ PutEvent(u, "none")
    /\ allocated' = allocated \cup {u}
    /\ uxPriority' = [uxPriority EXCEPT ![u] = Priority[u]]
    /\ ucNotifyState' = [ucNotifyState EXCEPT ![u] = "not waiting"]
    /\ ulNotifiedValue' = [ulNotifiedValue EXCEPT ![u] = 0]
    /\ pc' = [pc EXCEPT ![u] = "idle"] /\ victim' = [victim EXCEPT ![u] = NoTask]
    /\ YieldIf(Priority[u] > uxPriority[t])
    /\ UNCHANGED <<suspended, xPendingReadyList, uxDeletedTasksWaitingCleanUp,
                   pxCurrentTCB, frozen>>

\* vTaskDelete of another task: its memory is freed after the critical section.
DeleteOther(t, u) ==
    /\ Free(t) /\ Exists(u) /\ u \notin {t, IdleTask}
    /\ Put(u, "none") /\ PutEvent(u, "none")
    /\ victim' = [victim EXCEPT ![t] = u] /\ Go(t, "freeing")
    /\ frozen' = frozen \ {u}
    /\ UNCHANGED <<suspended, xPendingReadyList, uxPriority, ucNotifyState, ulNotifiedValue,
                   uxDeletedTasksWaitingCleanUp, pxCurrentTCB, xYieldPending, pendSV,
                   allocated>>

\* Variant of DeleteSelf in which the task frees its own memory.
DeleteSelfNow(t) ==
    /\ MayBlock(t)
    /\ Put(t, "none")
    /\ allocated' = allocated \ {t}
    /\ YieldIf(TRUE)
    /\ UNCHANGED <<suspended, xPendingReadyList, pc, eventList, uxPriority, ucNotifyState,
                   ulNotifiedValue, victim, pxCurrentTCB, frozen, uxDeletedTasksWaitingCleanUp>>

\* vTaskDelete of the running task: the rest is for the idle task.
DeleteSelf(t) ==
    /\ MayBlock(t)
    /\ Put(t, "termination")
    /\ uxDeletedTasksWaitingCleanUp' = uxDeletedTasksWaitingCleanUp + 1
    /\ YieldIf(TRUE)
    /\ UNCHANGED <<suspended, xPendingReadyList, pc, eventList, uxPriority, ucNotifyState,
                   ulNotifiedValue, victim, pxCurrentTCB, allocated, frozen>>

\* prvCheckTasksWaitingTermination
CheckTasksWaitingTermination ==
    /\ Free(IdleTask) /\ uxDeletedTasksWaitingCleanUp > 0
    /\ \E u \in Tasks :
          /\ list[u] = "termination"
          /\ Put(u, "none") /\ victim' = [victim EXCEPT ![IdleTask] = u]
    /\ uxDeletedTasksWaitingCleanUp' = uxDeletedTasksWaitingCleanUp - 1
    /\ Go(IdleTask, "freeing")
    /\ UNCHANGED <<suspended, xPendingReadyList, eventList, uxPriority, ucNotifyState,
                   ulNotifiedValue, pxCurrentTCB, xYieldPending, pendSV, allocated, frozen>>

\* prvDeleteTCB, outside of the critical section.
DeleteTCB(t) ==
    /\ Runs(t) /\ pc[t] = "freeing"
    /\ allocated' = allocated \ {victim[t]}
    /\ victim' = [victim EXCEPT ![t] = NoTask] /\ Go(t, "idle")
    /\ UNCHANGED <<suspended, xPendingReadyList, list, eventList, uxPriority, ucNotifyState,
                   ulNotifiedValue, uxDeletedTasksWaitingCleanUp, pxCurrentTCB,
                   xYieldPending, pendSV, frozen>>

-------------------------------------------------------------------------------
\* vTaskSuspend
Suspend(t, u) ==
    /\ Free(t) /\ Exists(u) /\ u # IdleTask
    /\ u = t => suspended = NoTask
    /\ Put(u, "suspended") /\ PutEvent(u, "none")
    /\ ucNotifyState' = [ucNotifyState EXCEPT ![u] = IF @ = "waiting" THEN "not waiting" ELSE @]
    /\ frozen' = frozen \cup {u}
    /\ YieldIf(u = t)
    /\ UNCHANGED <<suspended, xPendingReadyList, pc, uxPriority, ulNotifiedValue,
                   uxDeletedTasksWaitingCleanUp, victim, pxCurrentTCB, allocated>>

\* prvTaskIsTaskSuspended, of a task that vTaskSuspend suspended: of one that
\* waits for a notification without end it would be true as well.
IsTaskSuspended(u) == list[u] = "suspended" /\ eventList[u] = "none" /\ u \in frozen

\* vTaskResume
Resume(t, u) ==
    /\ Free(t) /\ u # t /\ IsTaskSuspended(u)
    /\ Put(u, "ready") /\ frozen' = frozen \ {u}
    /\ YieldIf(Higher(u))
    /\ UNCHANGED <<suspended, xPendingReadyList, pc, eventList, uxPriority, ucNotifyState,
                   ulNotifiedValue, uxDeletedTasksWaitingCleanUp, victim, pxCurrentTCB,
                   allocated>>

\* A task that an interrupt makes ready: while the scheduler is suspended it is
\* kept in xPendingReadyList, by its event list item.
ReadyFromISR(u) ==
    IF suspended = NoTask THEN Put(u, "ready") /\ PutEvent(u, "none")
                          ELSE PutEvent(u, "pending") /\ UNCHANGED list

\* xTaskResumeFromISR: whether to yield is left to xTaskResumeAll, if that is due.
ResumeFromISR(u) ==
    /\ IsTaskSuspended(u)
    /\ ReadyFromISR(u) /\ frozen' = frozen \ {u}
    /\ YieldFromISRIf(suspended = NoTask /\ Higher(u))
    /\ UNCHANGED <<suspended, xPendingReadyList, pc, uxPriority, ucNotifyState,
                   ulNotifiedValue, uxDeletedTasksWaitingCleanUp, victim, pxCurrentTCB,
                   allocated>>

\* Variant of NeedsYield that forgets the running task which lowers itself.
NeedsYieldRaised(t, u, p) == p > uxPriority[u] /\ u # t /\ p > uxPriority[t]

\* Whether a change of priority makes another task run.
NeedsYield(t, u, p) ==
    IF p > uxPriority[u] THEN u # t /\ p > uxPriority[t] ELSE u = t

\* vTaskPrioritySet
PrioritySet(t, u, p) ==
    /\ Free(t) /\ Exists(u) /\ u # IdleTask /\ p # uxPriority[u]
    /\ uxPriority' = [uxPriority EXCEPT ![u] = p]
    /\ YieldIf(NeedsYield(t, u, p))
    /\ UNCHANGED <<suspended, xPendingReadyList, pc, list, eventList, ucNotifyState,
                   ulNotifiedValue, uxDeletedTasksWaitingCleanUp, victim, pxCurrentTCB,
                   allocated, frozen>>

-------------------------------------------------------------------------------
\* Blocking, in a delay or on an object with an event list.
Block(t, where, wait) ==
    /\ MayBlock(t)
    /\ Put(t, Blocked(wait)) /\ PutEvent(t, where)
    /\ YieldIf(TRUE)
    /\ UNCHANGED <<suspended, xPendingReadyList, pc, uxPriority, ucNotifyState,
                   ulNotifiedValue, uxDeletedTasksWaitingCleanUp, victim, pxCurrentTCB,
                   allocated, frozen>>

\* The first critical section of ulTaskGenericNotifyTake and of
\* xTaskGenericNotifyWait, which differ in what they wait for.
NotifyWait(t, kind, wait) ==
    /\ Free(t) /\ t # IdleTask /\ (suspended # NoTask => wait = "none")
    /\ Go(t, kind)
    /\ IF IF kind = "take" THEN ulNotifiedValue[t] > 0 ELSE ucNotifyState[t] = "received"
       THEN UNCHANGED <<list, ucNotifyState, pendSV>>
       ELSE /\ ucNotifyState' = [ucNotifyState EXCEPT ![t] = "waiting"]
            /\ IF wait = "none" THEN UNCHANGED <<list, pendSV>>
               ELSE Put(t, Blocked(wait)) /\ pendSV' = TRUE
    /\ UNCHANGED <<suspended, xPendingReadyList, eventList, uxPriority, ulNotifiedValue,
                   uxDeletedTasksWaitingCleanUp, victim, pxCurrentTCB, xYieldPending,
                   allocated, frozen>>

\* The second critical section.
NotifyTaken(t) ==
    /\ Runs(t) /\ pc[t] \in {"take", "wait"}
    /\ ulNotifiedValue' = IF pc[t] = "take" /\ ulNotifiedValue[t] > 0
                          THEN [ulNotifiedValue EXCEPT ![t] = @ - 1] ELSE ulNotifiedValue
    /\ ucNotifyState' = [ucNotifyState EXCEPT ![t] = "not waiting"]
    /\ Go(t, "idle")
    /\ UNCHANGED <<suspended, xPendingReadyList, list, eventList, uxPriority,
                   uxDeletedTasksWaitingCleanUp, victim, pxCurrentTCB, xYieldPending,
                   pendSV, allocated, frozen>>

Received(u) ==
    /\ ucNotifyState' = [ucNotifyState EXCEPT ![u] = "received"]
    /\ ulNotifiedValue' = [ulNotifiedValue EXCEPT ![u] = Min({@ + 1, MaxNotified})]

\* xTaskGenericNotify
Notify(t, u) ==
    /\ Free(t) /\ Exists(u) /\ u # IdleTask
    /\ Received(u)
    /\ IF ucNotifyState[u] = "waiting" THEN Put(u, "ready") /\ YieldIf(Higher(u))
       ELSE UNCHANGED <<list, xYieldPending, pendSV>>
    /\ UNCHANGED <<suspended, xPendingReadyList, pc, eventList, uxPriority,
                   uxDeletedTasksWaitingCleanUp, victim, pxCurrentTCB, allocated, frozen>>

\* Variant of NotifiedFromISR that leaves the lists alone while they are in use.
NotifiedFromISRUnlessSuspended(u) ==
    IF suspended = NoTask THEN Put(u, "ready") /\ PutEvent(u, "none")
                          ELSE UNCHANGED <<list, eventList>>

NotifiedFromISR(u) == ReadyFromISR(u)

\* xTaskGenericNotifyFromISR, vTaskGenericNotifyGiveFromISR
NotifyFromISR(u) ==
    /\ Exists(u) /\ u # IdleTask
    /\ Received(u)
    /\ IF ucNotifyState[u] = "waiting"
       THEN NotifiedFromISR(u) /\ YieldFromISRIf(Higher(u))
       ELSE UNCHANGED <<list, eventList, xYieldPending, pendSV>>
    /\ UNCHANGED <<suspended, xPendingReadyList, pc, uxPriority,
                   uxDeletedTasksWaitingCleanUp, victim, pxCurrentTCB, allocated, frozen>>

\* xTaskRemoveFromEventList, in an interrupt.
Event(u) ==
    /\ eventList[u] = "object"
    /\ ReadyFromISR(u) /\ YieldFromISRIf(Higher(u))
    /\ UNCHANGED <<suspended, xPendingReadyList, pc, uxPriority, ucNotifyState,
                   ulNotifiedValue, uxDeletedTasksWaitingCleanUp, victim, pxCurrentTCB,
                   allocated, frozen>>

\* A tick ends a wait.
Tick(u) ==
    /\ suspended = NoTask /\ list[u] = "delayed"
    /\ Put(u, "ready") /\ PutEvent(u, "none")
    /\ YieldIf(Higher(u))
    /\ UNCHANGED <<suspended, xPendingReadyList, pc, uxPriority, ucNotifyState,
                   ulNotifiedValue, uxDeletedTasksWaitingCleanUp, victim, pxCurrentTCB,
                   allocated, frozen>>

-------------------------------------------------------------------------------
\* vTaskSuspendAll
SuspendAll(t) ==
    /\ Free(t) /\ suspended = NoTask /\ t # IdleTask
    /\ suspended' = t
    /\ UNCHANGED <<xPendingReadyList, pc, pxCurrentTCB, xYieldPending, pendSV, stateVars>>

Pending == { u \in Tasks : eventList[u] = "pending" }

\* xTaskResumeAll
ResumeAll(t) ==
    /\ Free(t) /\ suspended = t
    /\ suspended' = NoTask
    /\ list' = [u \in Tasks |-> IF u \in Pending THEN "ready" ELSE list[u]]
    /\ eventList' = [u \in Tasks |-> IF u \in Pending THEN "none" ELSE eventList[u]]
    /\ xYieldPending' = (xYieldPending \/ \E u \in Pending : Higher(u))
    /\ pendSV' = xYieldPending'
    /\ UNCHANGED <<xPendingReadyList, pc, uxPriority, ucNotifyState, ulNotifiedValue,
                   uxDeletedTasksWaitingCleanUp, victim, pxCurrentTCB, allocated, frozen>>

\* eTaskGetState: eBlocked
IsBlocked(u) ==
    /\ eventList[u] # "pending"
    /\ \/ list[u] = "delayed"
       \/ list[u] = "suspended" /\ (eventList[u] = "object" \/ ucNotifyState[u] = "waiting")

\* xTaskAbortDelay, within its suspension of the scheduler: the state list item
\* is removed ...
AbortDelay(t, u) ==
    /\ Free(t) /\ suspended = t /\ u # t /\ IsBlocked(u)
    /\ Put(u, "removed")
    /\ victim' = [victim EXCEPT ![t] = u] /\ Go(t, "aborting")
    /\ UNCHANGED <<suspended, xPendingReadyList, eventList, uxPriority, ucNotifyState,
                   ulNotifiedValue, uxDeletedTasksWaitingCleanUp, pxCurrentTCB,
                   xYieldPending, pendSV, allocated, frozen>>

\* ... and then the event list item, which an interrupt may have moved meanwhile.
AbortDelayEnd(t) ==
    /\ Runs(t) /\ pc[t] = "aborting"
    /\ Put(victim[t], "ready") /\ PutEvent(victim[t], "none")
    /\ xYieldPending' = (xYieldPending \/ Higher(victim[t]))
    /\ victim' = [victim EXCEPT ![t] = NoTask] /\ Go(t, "idle")
    /\ UNCHANGED <<suspended, xPendingReadyList, uxPriority, ucNotifyState, ulNotifiedValue,
                   uxDeletedTasksWaitingCleanUp, pxCurrentTCB, pendSV, allocated, frozen>>

\* vTaskSwitchContext
SwitchContext ==
    /\ pendSV /\ pendSV' = FALSE
    /\ IF suspended # NoTask
       THEN xYieldPending' = TRUE /\ UNCHANGED pxCurrentTCB
       ELSE /\ xYieldPending' = FALSE
            /\ LET ready == { u \in Tasks : list[u] = "ready" }
               IN  pxCurrentTCB' \in { u \in ready :
                                        \A v \in ready : uxPriority[v] <= uxPriority[u] }
    /\ UNCHANGED <<suspended, xPendingReadyList, pc, stateVars>>

\* Time slicing.
TimeSlice ==
    /\ ~pendSV /\ suspended = NoTask
    /\ \E u \in Tasks \ {pxCurrentTCB} :
          list[u] = "ready" /\ uxPriority[u] = uxPriority[pxCurrentTCB]
    /\ pendSV' = TRUE
    /\ UNCHANGED <<suspended, xPendingReadyList, pc, pxCurrentTCB, xYieldPending, stateVars>>

TaskCall(t) ==
    \/ DeleteSelf(t) \/ DeleteTCB(t) \/ NotifyTaken(t)
    \/ SuspendAll(t) \/ ResumeAll(t) \/ AbortDelayEnd(t)
    \/ \E wait \in {"finite", "forever"} : Block(t, "object", wait)
    \/ Block(t, "none", "finite")
    \/ \E kind \in {"take", "wait"}, wait \in {"none", "finite", "forever"} :
          NotifyWait(t, kind, wait)
    \/ \E u \in Tasks : \/ Create(t, u) \/ DeleteOther(t, u) \/ Suspend(t, u) \/ Resume(t, u)
                        \/ Notify(t, u) \/ AbortDelay(t, u)
                        \/ \E p \in NewPriorities : PrioritySet(t, u, p)

StatesNext ==
    \/ SwitchContext \/ TimeSlice \/ CheckTasksWaitingTermination
    \/ \E t \in Tasks : TaskCall(t)
    \/ \E u \in Tasks : ResumeFromISR(u) \/ NotifyFromISR(u) \/ Event(u) \/ Tick(u)

lifeVars == <<suspended, xPendingReadyList, pc, pxCurrentTCB, xYieldPending, pendSV, stateVars>>

StatesSpec == StatesInit /\ [][StatesNext]_lifeVars

-------------------------------------------------------------------------------
\* Whenever the scheduler is not suspended and no switch is due, the running
\* task is a ready one of the highest priority, whoever is created, deleted,
\* suspended, resumed, notified or given another priority, by whom and when.
HighestRuns ==
    suspended = NoTask /\ ~pendSV =>
        list[pxCurrentTCB] = "ready" /\ \A t \in Tasks : list[t] = "ready" => ~Higher(t)

\* Whoever waits for a notification, and was not suspended, has not got one.
NobodySleepsNotified ==
    \A t \in Tasks \ frozen :
        /\ pc[t] \in {"take", "wait"} /\ list[t] \in {"delayed", "suspended"}
        /\ eventList[t] = "none"
        => ucNotifyState[t] = "waiting"

\* The memory of a task is in use as long as anything refers to the task, and is
\* freed once; an event list item is in a list of waiters only while its task
\* waits, and kept for later only while the scheduler is suspended.
ListsAgree ==
    /\ pxCurrentTCB \in allocated
    /\ uxDeletedTasksWaitingCleanUp = Cardinality({ t \in Tasks : list[t] = "termination" })
    /\ \A t \in Tasks :
          /\ list[t] # "none" \/ eventList[t] # "none" => t \in allocated
          /\ eventList[t] = "object" => list[t] \in {"delayed", "suspended", "removed"}
          /\ eventList[t] = "pending" => suspended # NoTask
          /\ list[t] # "none" /\ pc[t] = "freeing" =>
                victim[t] \in allocated /\ list[victim[t]] = "none"
===============================================================================
