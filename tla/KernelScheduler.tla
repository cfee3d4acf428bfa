--------------------------- MODULE KernelScheduler ----------------------------
(***************************************************************************)
(* Which task runs, tasks.c and list.c: the ready lists, rings that a      *)
(* cursor goes round; the yields, which become a switch of context when    *)
(* the processor gets to the PendSV interrupt; interrupts and ticks that   *)
(* make tasks ready at any time, also while a task has the scheduler       *)
(* suspended to block.  The tasks use the mutexes of KernelMutex, whose    *)
(* inheritance moves them between the ready lists.                         *)
(***************************************************************************)
EXTENDS KernelMutex, SequencesExt

CONSTANTS
    IdleTask,       \* prvIdleTask, always ready, alone with the priority 0
    Created         \* the tasks in the order of their creation

VARIABLES
    ready,          \* lists (pxReadyTasksLists): [items, index], index 0 is the end
                    \* marker; top (uxTopReadyPriority); passed (history): who was
                    \* selected since a task entered its list or was selected,
                    \* and has been in the list since
    pxCurrentTCB,
    xYieldPending,
    pendSV,         \* a switch of context is requested of the processor
    pended          \* xPendedTicks, one at most

switchVars == <<ready, pxCurrentTCB, xYieldPending, pendSV, pended>>
schedulerVars == <<suspended, xPendingReadyList, pc, mutexVars, switchVars>>

Priorities == { Priority[t] : t \in Tasks }

-------------------------------------------------------------------------------
\* The lists of list.c.

\* Variant of ListRemove whose cursor forgets where it was.
ListRemoveRewinds(list, t) ==
    [items |-> Without(list.items, t),
     index |-> IF list.index > 0 /\ list.items[list.index] = t THEN 0
               ELSE IF Contains(SubSeq(list.items, 1, list.index), t)
               THEN list.index - 1 ELSE list.index]

\* uxListRemove: a cursor that is on the item steps back.
ListRemove(list, t) ==
    [items |-> Without(list.items, t),
     index |-> IF Contains(SubSeq(list.items, 1, list.index), t)
               THEN list.index - 1 ELSE list.index]

\* vListInsertEnd: before the item that the cursor is on.
ListInsertEnd(list, t) ==
    IF list.index = 0 THEN [list EXCEPT !.items = Append(@, t)]
    ELSE [items |-> InsertAt(list.items, list.index, t), index |-> list.index + 1]

\* listGET_OWNER_OF_NEXT_ENTRY: the end marker is skipped.
NextEntry(list) ==
    [list EXCEPT !.index = IF @ = Len(list.items) THEN 1 ELSE @ + 1]

\* prvAddTaskToReadyList
Added(r, t, p) ==
    [r EXCEPT !.lists[p] = ListInsertEnd(@, t), !.top = IF p > @ THEN p ELSE @]

Removed(r, t, p) ==
    [r EXCEPT !.lists[p] = ListRemove(@, t),
              !.passed = [u \in Tasks |-> IF u = t THEN {} ELSE @[u] \ {t}]]

\* A task changes its priority in a critical section.
Moved(r, t, from, to) == Added(Removed(r, t, from), t, to)

\* Several tasks become ready, in this order.
AllAdded(r, tasks, prio) ==
    LET run[i \in 0..Len(tasks)] ==
            IF i = 0 THEN r ELSE Added(run[i - 1], tasks[i], prio[tasks[i]])
    IN  run[Len(tasks)]

Higher(t) == uxPriority[t] > uxPriority[pxCurrentTCB]

-------------------------------------------------------------------------------
\* prvInitialiseTaskLists
NothingReady ==
    [lists |-> [p \in Priorities |-> [items |-> <<>>, index |-> 0]],
     top |-> 0,
     passed |-> [t \in Tasks |-> {}]]

\* prvAddNewTaskToReadyList for every task, vTaskStartScheduler.
ReadyStart == ready = AllAdded(NothingReady, Created, Priority)

SwitchStart ==
    /\ ReadyStart
    /\ pxCurrentTCB = Last(ready.lists[ready.top].items)
    /\ xYieldPending = FALSE /\ pendSV = FALSE /\ pended = FALSE

SchedulerInit ==
    /\ suspended = NoTask /\ xPendingReadyList = <<>>
    /\ pc = [t \in Tasks |-> "idle"]
    /\ MutexStart /\ SwitchStart

-------------------------------------------------------------------------------
\* What the current task does: t runs, and no switch is due.

Current(t) == pxCurrentTCB = t /\ ~pendSV
Unsuspended(t) == Current(t) /\ suspended = NoTask

UseMutex(t) ==
    /\ Unsuspended(t)
    /\ Lock(t) \/ SemaphoreTake(t)
    /\ UNCHANGED switchVars

\* Variant of Urgent that always trusts the comparison with the woken task.
UrgentPlain(t, waiters) ==
    waiters # <<>> /\ uxPriority[Head(waiters)] > uxPriority'[t]

\* When giving a mutex yields: to a waiter of higher priority than the giver
\* has now; if none waits, whenever a priority was given back.
Urgent(t, waiters) ==
    IF waiters # <<>> THEN uxPriority[Head(waiters)] > uxPriority'[t]
                      ELSE uxPriority'[t] # uxPriority[t]

First(waiters) == IF waiters = <<>> THEN <<>> ELSE <<Head(waiters)>>

GiveMutex(t) ==
    /\ Unsuspended(t)
    /\ Give(t)
    /\ LET waiters == waiting[Last(held[t])]
           own == IF uxPriority'[t] = uxPriority[t] THEN ready
                  ELSE Moved(ready, t, uxPriority[t], uxPriority'[t])
       IN  /\ ready' = AllAdded(own, First(waiters), uxPriority)
           /\ pendSV' = Urgent(t, waiters)
           /\ xYieldPending' = (xYieldPending \/ (waiters # <<>> /\ Urgent(t, waiters)))
    /\ UNCHANGED <<pxCurrentTCB, pended>>

\* vTaskSuspendAll, to wait for a mutex or for something else.
SuspendToBlock(t) ==
    /\ Unsuspended(t) /\ t # IdleTask
    /\ \/ pc[t] = "block" /\ UNCHANGED pc
       \/ pc[t] = "idle" /\ Go(t, "sleep")
    /\ suspended' = t
    /\ UNCHANGED <<xPendingReadyList, mutexVars, switchVars>>

\* Inheritance moves a holder that is ready; the task leaves its ready list, if
\* the mutex was not given meanwhile.
WaitForMutex(t) ==
    /\ Current(t) /\ suspended = t
    /\ BlockOnMutex(t)
    /\ LET h == xMutexHolder[want[t]]
           lent == IF h = NoTask \/ uxPriority' = uxPriority
                      \/ ~Contains(ready.lists[uxPriority[h]].items, h)
                   THEN ready ELSE Moved(ready, h, uxPriority[h], uxPriority'[h])
       IN  ready' = IF h = NoTask THEN ready ELSE Removed(lent, t, uxPriority[t])
    /\ UNCHANGED <<pxCurrentTCB, xYieldPending, pendSV, pended>>

FallAsleep(t) ==
    /\ Current(t) /\ suspended = t /\ pc[t] = "sleep"
    /\ Go(t, "asleep")
    /\ ready' = Removed(ready, t, uxPriority[t])
    /\ UNCHANGED <<suspended, xPendingReadyList, mutexVars, pxCurrentTCB, xYieldPending,
                   pendSV, pended>>

\* The tasks whose delay a tick may end.
Due == { <<>> } \cup
       { <<t>> : t \in { u \in Tasks : pc[u] = "asleep" /\ ~Contains(xPendingReadyList, u) } }

\* Time slicing.
Shared(r, t) == Len(r.lists[uxPriority[t]].items) > 1

\* xYieldPending at the end of xTaskResumeAll.
Yields(r, woken, t) ==
    xYieldPending \/ (\E i \in 1..Len(woken) : Higher(woken[i])) \/ (pended /\ Shared(r, t))

\* xTaskResumeAll: the pending tasks and ticks; a task that blocks yields in any
\* case.
ResumeAfter(t) ==
    /\ Current(t) /\ suspended = t /\ pc[t] \in {"waiting", "asleep", "take"}
    /\ \E due \in IF pended THEN Due ELSE {<<>>} :
        LET woken == xPendingReadyList \o due
            r == AllAdded(ready, woken, uxPriority)
        IN  /\ ready' = r
            /\ pc' = [u \in Tasks |-> IF Contains(woken, u) THEN "idle" ELSE pc[u]]
            /\ xYieldPending' = Yields(r, woken, t)
            /\ pendSV' = (xYieldPending' \/ pc[t] # "take")
    /\ suspended' = NoTask /\ xPendingReadyList' = <<>> /\ pended' = FALSE
    /\ UNCHANGED <<mutexVars, pxCurrentTCB>>

-------------------------------------------------------------------------------
\* What happens to it.

\* xTaskRemoveFromEventList in an interrupt handler, or in a task that sends.
Event(t) ==
    /\ pc[t] = "asleep" /\ ~Contains(xPendingReadyList, t)
    /\ IF suspended = NoTask
       THEN /\ ready' = Added(ready, t, uxPriority[t])
            /\ Go(t, "idle")
            /\ UNCHANGED xPendingReadyList
       ELSE /\ xPendingReadyList' = Append(xPendingReadyList, t)
            /\ UNCHANGED <<ready, pc>>
    /\ xYieldPending' = (xYieldPending \/ Higher(t))
    /\ pendSV' = (pendSV \/ Higher(t))
    /\ UNCHANGED <<suspended, mutexVars, pxCurrentTCB, pended>>

\* xTaskIncrementTick
TickInterrupt ==
    /\ IF suspended # NoTask
       THEN ~pended /\ pended' = TRUE /\ UNCHANGED <<ready, pc, pendSV>>
       ELSE \E due \in Due :
            LET r == AllAdded(ready, due, uxPriority)
            IN  /\ ready' = r
                /\ pc' = [u \in Tasks |-> IF Contains(due, u) THEN "idle" ELSE pc[u]]
                /\ pendSV' = (\/ pendSV \/ xYieldPending \/ Shared(r, pxCurrentTCB)
                              \/ \E i \in 1..Len(due) : Higher(due[i]))
                /\ UNCHANGED pended
    /\ UNCHANGED <<suspended, xPendingReadyList, mutexVars, pxCurrentTCB, xYieldPending>>

\* taskSELECT_HIGHEST_PRIORITY_TASK
Select ==
    LET p == Max({ q \in Priorities : q <= ready.top /\ ready.lists[q].items # <<>> })
        list == NextEntry(ready.lists[p])
        t == list.items[list.index]
    IN  /\ pxCurrentTCB' = t
        /\ ready' = [lists |-> [ready.lists EXCEPT ![p] = list], top |-> p,
                     passed |-> [u \in Tasks |->
                        IF u = t THEN {}
                        ELSE IF Contains(list.items, u) THEN ready.passed[u] \cup {t}
                        ELSE ready.passed[u]]]

\* vTaskSwitchContext
SwitchContext ==
    /\ pendSV
    /\ pendSV' = FALSE
    /\ IF suspended # NoTask
       THEN xYieldPending' = TRUE /\ UNCHANGED <<ready, pxCurrentTCB>>
       ELSE xYieldPending' = FALSE /\ Select
    /\ UNCHANGED <<suspended, xPendingReadyList, pc, mutexVars, pended>>

-------------------------------------------------------------------------------
SchedulerNext ==
    \/ TickInterrupt \/ SwitchContext
    \/ \E t \in Tasks : \/ UseMutex(t) \/ GiveMutex(t) \/ SuspendToBlock(t)
                        \/ WaitForMutex(t) \/ FallAsleep(t) \/ ResumeAfter(t) \/ Event(t)

\* Every task is created once; the idle task takes no mutex.
SchedulerParameters ==
    /\ Created \in Seq(Tasks) /\ TasksIn(Created) = Tasks
    /\ \A i, j \in 1..Len(Created) : Created[i] = Created[j] => i = j
    /\ IdleTask \in Tasks /\ Nests[IdleTask] = {}

SchedulerSpec == SchedulerInit /\ [][SchedulerNext]_schedulerVars

-------------------------------------------------------------------------------
\* Whenever the scheduler is not suspended and no switch is due, the running
\* task is ready and no ready task has a higher priority: no interrupt, tick,
\* resumption or change of priorities leaves an urgent task waiting for the
\* next event.  (Provided that a mutex under which another one is taken is not
\* contended by tasks of lower priority, as Storage::mStoreAccess is not: else
\* Urgent, asked when the outer mutex is given, looks at the wrong task.)
HighestRuns ==
    suspended = NoTask /\ ~pendSV =>
        Ready(pxCurrentTCB) /\ \A t \in Tasks : Ready(t) => ~Higher(t)

\* Ready tasks of one priority take turns: of two that stay in their list none
\* is selected twice before the other, whoever comes, goes, or preempts them.
PeersTakeTurns ==
    [][ pendSV /\ ~pendSV' /\ suspended = NoTask =>
        \A t \in Tasks \ {pxCurrentTCB'} : pxCurrentTCB' \notin ready.passed[t] ]_schedulerVars
===============================================================================
